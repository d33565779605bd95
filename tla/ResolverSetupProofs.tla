-------------------------- MODULE ResolverSetupProofs --------------------------
(***************************************************************************)
(* What checks and set-ups of the resolver promise, for any processes and  *)
(* ports.  StepFits says which steps there are on which system, Undisturbed  *)
(* what a call has found or done so far while nobody else changes          *)
(* anything, and Agreement how far set-ups for one port have got between   *)
(* them; the properties are what these say of calls that have ended.       *)
(***************************************************************************)
EXTENDS ResolverSetup, TLAPS

Steps == {"idle"} \cup Checking \cup SettingUp \cup Outcomes

\* The steps of a call belong to its system, and a call that does something
\* has a port.
StepFits(p) ==
    /\ step[p] \in Checking \cup SettingUp \cup {"true", "done"} =>
          port[p] \in Ports /\ os # "other"
    /\ step[p] = "check" => os \in {"macos", "linux"}
    /\ step[p] = "check_service" => os = "linux"
    /\ step[p] = "check_rules" => os = "windows"
    /\ step[p] \in {"service", "restart"} => os = "linux"
    /\ step[p] \in {"dir", "open", "write"} => os \in {"macos", "linux"}
    /\ step[p] = "add" => os = "windows"
    /\ step[p] \in {"service", "dir"} => suffix[p] = "ant"

\* What a set-up has written ...
WroteAnt(p) ==
    step[p] \in {"open", "write", "add"} /\ suffix[p] = "autonomi" =>
        /\ port[p] \in config["ant"]
        /\ os # "windows" => config["ant"] = {port[p]}

Truncated(p) == step[p] = "write" => config[suffix[p]] = {Cut}

WroteBoth(p) == step[p] = "restart" => \A s \in Suffixes : config[s] = {port[p]}

TookEffect(p) ==
    step[p] = "done" =>
        \A s \in Suffixes :
            /\ port[p] \in Nameservers(s)
            /\ os # "windows" => Nameservers(s) = {port[p]}

\* ... and a check has seen.
SawAnt(p) ==
    step[p] = "check" /\ suffix[p] = "autonomi" =>
        /\ os = "macos" => (found[p] <=> config["ant"] = {port[p]})
        /\ os = "linux" => config["ant"] # {}

SawBoth(p) == step[p] = "check_service" => \A s \in Suffixes : config[s] # {}

Stood(p) ==
    step[p] = "true" =>
        /\ os = "macos" => \A s \in Suffixes : config[s] = {port[p]}
        /\ os = "linux" => active /\ \A s \in Suffixes : config[s] # {}
        /\ os = "windows" => \E s \in Suffixes : config[s] # {}

Undisturbed(p) ==
    ~meddled[p] =>
        /\ WroteAnt(p) /\ Truncated(p) /\ WroteBoth(p) /\ TookEffect(p)
        /\ SawAnt(p) /\ SawBoth(p) /\ Stood(p)

\* A set-up that has yet to write s.
Before(p, s) ==
    /\ step[p] \in SettingUp \ {"restart"}
    /\ suffix[p] = "ant" \/ suffix[p] = s

\* What set-ups for one port leave undone, one of them is still to do.
Agreement ==
    /\ agreed = None =>
          /\ \A s \in Suffixes : config[s] = {} /\ loaded[s] = {}
          /\ \A p \in Procs : step[p] \notin SettingUp
    /\ agreed \in Ports =>
          /\ os # "other"
          /\ \A p \in Procs : step[p] \in SettingUp => port[p] = agreed
          /\ \A s \in Suffixes :
                /\ config[s] \subseteq {agreed, Cut}
                /\ config[s] = {} => \E p \in Procs : Before(p, s)
                /\ config[s] = {Cut} =>
                      \E p \in Procs : step[p] = "write" /\ suffix[p] = s
                /\ os = "linux" /\ loaded[s] # {agreed} =>
                      \E p \in Procs : step[p] \in SettingUp

ResolverInv ==
    /\ ResolverTypeOK
    /\ \A p \in Procs : StepFits(p) /\ Undisturbed(p)
    /\ Agreement

ResolverStep(p) ==
    \/ \E n \in Ports : \/ check_resolver_config(p, n)
                        \/ setup_resolver_config(p, n)
    \/ Check(p) \/ Setup(p) \/ Leave(p)

-----------------------------------------------------------------------------

LEMMA InitResolver == ResolverInit => ResolverInv
<1> SUFFICES ASSUME ResolverInit PROVE ResolverInv
  OBVIOUS
<1> USE DEF ResolverInit
<1>1. ResolverTypeOK
  BY DEF ResolverTypeOK, Systems, Suffixes, Files
<1>2. \A p \in Procs : StepFits(p) /\ Undisturbed(p)
  BY DEF StepFits, Undisturbed, WroteAnt, Truncated, WroteBoth, TookEffect, SawAnt,
     SawBoth, Stood, Checking, SettingUp, Suffixes
<1>3. Agreement
  BY ResolverAssumption DEF Agreement, SettingUp, Suffixes
<1>4. QED
  BY <1>1, <1>2, <1>3 DEF ResolverInv

\* What a step of p does to the rows of the others and to the system, whatever
\* it does to its own row.
Moves(p) ==
    /\ os' = os
    /\ step' \in [Procs -> Steps]
    /\ suffix' \in [Procs -> Suffixes]
    /\ port' \in [Procs -> Ports \cup {None}]
    /\ found' \in [Procs -> BOOLEAN]
    /\ \A q \in Procs \ {p} :
          /\ step'[q] = step[q] /\ suffix'[q] = suffix[q]
          /\ port'[q] = port[q] /\ found'[q] = found[q]

LEMMA MovesReturn ==
    ASSUME ResolverTypeOK, NEW p \in Procs, NEW outcome \in Outcomes \cup {"idle"},
           Return(p, outcome), port' = port, os' = os
    PROVE  Moves(p)
<1>1. /\ step \in [Procs -> Steps] /\ suffix \in [Procs -> Suffixes]
      /\ port \in [Procs -> Ports \cup {None}] /\ found \in [Procs -> BOOLEAN]
  BY DEF ResolverTypeOK, Steps
<1>2. outcome \in Steps /\ "ant" \in Suffixes
  BY DEF Steps, Suffixes
<1>3. QED
  BY <1>1, <1>2 DEF Return, GoTo, Moves

LEMMA MovesAfterFile ==
    ASSUME ResolverTypeOK, NEW p \in Procs, AfterFile(p), port' = port, os' = os
    PROVE  Moves(p)
<1>1. CASE Return(p, "done")
  BY <1>1, MovesReturn DEF Outcomes
<1>2. CASE ~Return(p, "done")
  <2>1. /\ step \in [Procs -> Steps] /\ suffix \in [Procs -> Suffixes]
        /\ port \in [Procs -> Ports \cup {None}] /\ found \in [Procs -> BOOLEAN]
    BY DEF ResolverTypeOK, Steps
  <2>2. {"add", "open", "restart"} \subseteq Steps /\ "autonomi" \in Suffixes
    BY DEF Steps, SettingUp, Suffixes
  <2>3. PICK next \in {"add", "open", "restart"} :
          /\ step' = [step EXCEPT ![p] = next]
          /\ suffix' \in {suffix, [suffix EXCEPT ![p] = "autonomi"]}
          /\ found' = found
    BY <1>2 DEF AfterFile, GoTo
  <2>4. QED
    BY <2>1, <2>2, <2>3 DEF Moves
<1>3. QED
  BY <1>1, <1>2

LEMMA MovesOn ==
    ASSUME ResolverTypeOK, NEW p \in Procs, ResolverStep(p)
    PROVE  Moves(p)
<1>1. ASSUME NEW n \in Ports, check_resolver_config(p, n) PROVE Moves(p)
  BY <1>1 DEF check_resolver_config, Call, GoTo, system, ResolverTypeOK, Moves,
     Steps, Suffixes, Checking, Outcomes, Systems
<1>2. ASSUME NEW n \in Ports, setup_resolver_config(p, n) PROVE Moves(p)
  BY <1>2 DEF setup_resolver_config, Call, GoTo, system, ResolverTypeOK, Moves,
     Steps, Suffixes, SettingUp, Outcomes, Systems
<1>3. CASE check_resolver_file(p)
  <2>1. os' = os /\ port' = port
    BY <1>3 DEF check_resolver_file, Looks
  <2>2. CASE suffix[p] = "ant"
    BY <1>3, <2>1, <2>2 DEF check_resolver_file, ResolverTypeOK, Moves, Steps,
       Suffixes
  <2>3. CASE suffix[p] # "ant"
    BY <1>3, <2>1, <2>3, MovesReturn DEF check_resolver_file, Outcomes
  <2>4. QED
    BY <2>2, <2>3
<1>4. CASE CheckExists(p)
  <2>1. os' = os /\ port' = port
    BY <1>4 DEF CheckExists, Looks
  <2>2. CASE Return(p, "false")
    BY <2>1, <2>2, MovesReturn DEF Outcomes
  <2>3. CASE ~Return(p, "false")
    BY <1>4, <2>1, <2>3 DEF CheckExists, ResolverTypeOK, Moves, GoTo, Steps,
       Suffixes, Checking
  <2>4. QED
    BY <2>2, <2>3
<1>5. CASE ReadFails(p) \/ CheckService(p) \/ CheckRules(p)
  BY <1>5, MovesReturn DEF ReadFails, CheckService, CheckRules, Looks, Outcomes
<1>6. CASE ServiceIsActive(p) \/ MakeDir(p) \/ OpenFile(p)
  BY <1>6 DEF ServiceIsActive, MakeDir, OpenFile, GoTo, ResolverTypeOK, Moves,
     Steps, SettingUp
<1>7. CASE WriteFile(p) \/ add_nrpt_rule(p)
  BY <1>7, MovesAfterFile DEF WriteFile, add_nrpt_rule
<1>8. CASE Restart(p) \/ CommandRefused(p) \/ WriteFails(p) \/ RestartFails(p)
  BY <1>8, MovesReturn DEF Restart, CommandRefused, WriteFails, RestartFails, Fail,
     Outcomes
<1>9. CASE Leave(p)
  BY <1>9 DEF Leave, Return, GoTo, ResolverTypeOK, Moves, Steps, Suffixes
<1>10. QED
  BY <1>1, <1>2, <1>3, <1>4, <1>5, <1>6, <1>7, <1>8, <1>9
     DEF ResolverStep, Check, Setup

\* A step of p either leaves the system alone or is a meddling with the calls
\* of all the others.
Disturbs(p) ==
    /\ meddled' \in [Procs -> BOOLEAN]
    /\ \A q \in Procs \ {p} :
          \/ /\ meddled'[q] = meddled[q]
             /\ config' = config /\ active' = active /\ loaded' = loaded
          \/ meddled'[q]
          \/ step[q] \in {"idle", "false", "failed"}

LEMMA MeddleDisturbs ==
    ASSUME ResolverTypeOK, NEW p \in Procs, Meddle(p)
    PROVE  Disturbs(p)
BY DEF ResolverTypeOK, Meddle, Disturbs

LEMMA DisturbsOthers ==
    ASSUME ResolverTypeOK, NEW p \in Procs, ResolverStep(p)
    PROVE  Disturbs(p)
<1>1. ASSUME NEW n \in Ports,
             check_resolver_config(p, n) \/ setup_resolver_config(p, n)
      PROVE  Disturbs(p)
  BY <1>1 DEF check_resolver_config, setup_resolver_config, Call, system,
     ResolverTypeOK, Disturbs
<1>2. CASE Check(p) \/ ServiceIsActive(p) \/ MakeDir(p) \/ CommandRefused(p)
  BY <1>2 DEF Check, check_resolver_file, ReadFails, CheckExists, CheckService,
     CheckRules, ServiceIsActive, MakeDir, CommandRefused, Looks, system,
     ResolverTypeOK, Disturbs
<1>3. CASE OpenFile(p) \/ WriteFile(p) \/ add_nrpt_rule(p) \/ Restart(p)
           \/ WriteFails(p) \/ RestartFails(p)
  BY <1>3, MeddleDisturbs
     DEF OpenFile, WriteFile, add_nrpt_rule, Restart, WriteFails, RestartFails
<1>4. CASE Leave(p)
  <2>1. /\ active' = active /\ loaded' = loaded
        /\ step[p] # "write" => config' = config
        /\ meddled' = [q \in Procs |-> q # p /\ (meddled[q]
              \/ (step[p] = "write" /\ step[q] \notin {"idle", "false", "failed"}))]
    BY <1>4 DEF Leave
  <2>2. meddled \in [Procs -> BOOLEAN]
    BY DEF ResolverTypeOK
  <2>3. meddled' \in [Procs -> BOOLEAN]
    BY <2>1, <2>2
  <2>4. CASE step[p] = "write"
    BY <2>1, <2>2, <2>3, <2>4 DEF Disturbs
  <2>5. CASE step[p] # "write"
    BY <2>1, <2>2, <2>3, <2>5 DEF Disturbs
  <2>6. QED
    BY <2>4, <2>5
<1>5. QED
  BY <1>1, <1>2, <1>3, <1>4 DEF ResolverStep, Setup

\* A call is where it was after the step of another process.
LEMMA OthersKeep ==
    ASSUME ResolverInv, NEW p \in Procs, ResolverStep(p), NEW q \in Procs \ {p}
    PROVE  StepFits(q)' /\ Undisturbed(q)'
<1>1. ResolverTypeOK /\ StepFits(q) /\ Undisturbed(q)
  BY DEF ResolverInv
<1>2. Moves(p) /\ Disturbs(p)
  BY <1>1, MovesOn, DisturbsOthers
<1>3. /\ os' = os /\ step'[q] = step[q] /\ suffix'[q] = suffix[q]
      /\ port'[q] = port[q] /\ found'[q] = found[q]
  BY <1>2 DEF Moves
<1>4. StepFits(q)'
  BY <1>1, <1>3 DEF StepFits
<1>5. CASE meddled'[q] = meddled[q] /\ config' = config /\ active' = active
           /\ loaded' = loaded
  <2>1. SUFFICES ASSUME ~meddled[q]
                 PROVE  /\ WroteAnt(q)' /\ Truncated(q)' /\ WroteBoth(q)'
                        /\ TookEffect(q)' /\ SawAnt(q)' /\ SawBoth(q)' /\ Stood(q)'
    BY <1>4, <1>5 DEF Undisturbed
  <2>2. /\ WroteAnt(q) /\ Truncated(q) /\ WroteBoth(q) /\ TookEffect(q)
        /\ SawAnt(q) /\ SawBoth(q) /\ Stood(q)
    BY <1>1, <2>1 DEF Undisturbed
  <2>3. WroteAnt(q)' /\ Truncated(q)' /\ WroteBoth(q)'
    BY <1>3, <1>5, <2>2 DEF WroteAnt, Truncated, WroteBoth
  <2>4. TookEffect(q)'
    <3>1. \A s \in Suffixes : Nameservers(s)' = Nameservers(s)
      BY <1>3, <1>5 DEF Nameservers
    <3>2. QED
      BY <1>3, <2>2, <3>1 DEF TookEffect
  <2>5. SawAnt(q)'
    BY <1>3, <1>5, <2>2 DEF SawAnt
  <2>6. SawBoth(q)' /\ Stood(q)'
    BY <1>3, <1>5, <2>2 DEF SawBoth, Stood
  <2>7. QED
    BY <2>3, <2>4, <2>5, <2>6
<1>6. CASE meddled'[q]
  BY <1>4, <1>6 DEF Undisturbed
<1>7. CASE step[q] \in {"idle", "false", "failed"}
  BY <1>3, <1>4, <1>7 DEF Undisturbed, WroteAnt, Truncated, WroteBoth, TookEffect,
     SawAnt, SawBoth, Stood
<1>8. QED
  BY <1>2, <1>4, <1>5, <1>6, <1>7 DEF Disturbs
-----------------------------------------------------------------------------
(***************************************************************************)
(* The row of the process that takes the step.                             *)
(***************************************************************************)

LEMMA ReturnRow ==
    ASSUME ResolverTypeOK, NEW p \in Procs, NEW outcome, Return(p, outcome)
    PROVE  step'[p] = outcome /\ suffix'[p] = "ant" /\ found'[p] = FALSE
BY DEF Return, GoTo, ResolverTypeOK

LEMMA AfterFileRow ==
    ASSUME ResolverTypeOK, NEW p \in Procs, AfterFile(p)
    PROVE  \/ /\ suffix[p] = "ant" /\ suffix'[p] = "autonomi"
              /\ step'[p] = IF os = "windows" THEN "add" ELSE "open"
           \/ /\ suffix[p] = "autonomi" /\ os = "linux"
              /\ step'[p] = "restart" /\ suffix'[p] = "autonomi"
           \/ /\ suffix[p] = "autonomi" /\ os # "linux"
              /\ step'[p] = "done" /\ suffix'[p] = "ant"
<1>1. step \in [Procs -> Steps] /\ suffix \in [Procs -> Suffixes]
  BY DEF ResolverTypeOK, Steps
<1>2. CASE suffix[p] = "ant"
  BY <1>1, <1>2 DEF AfterFile, GoTo
<1>3. CASE suffix[p] = "autonomi" /\ os = "linux"
  BY <1>1, <1>3 DEF AfterFile, GoTo
<1>4. CASE suffix[p] = "autonomi" /\ os # "linux"
  BY <1>4, ReturnRow DEF AfterFile
<1>5. QED
  BY <1>1, <1>2, <1>3, <1>4 DEF Suffixes

LEMMA WritesOneFile ==
    ASSUME ResolverTypeOK, NEW p \in Procs, NEW content,
           config' = [config EXCEPT ![suffix[p]] = content]
    PROVE  /\ config'[suffix[p]] = content
           /\ \A s \in Suffixes \ {suffix[p]} : config'[s] = config[s]
<1>1. suffix[p] \in Suffixes /\ DOMAIN config = Suffixes
  BY DEF ResolverTypeOK
<1>2. QED
  BY <1>1

\* A check or a set-up goes through the steps of its system only.
LEMMA OwnFits ==
    ASSUME ResolverInv, NEW p \in Procs, ResolverStep(p)
    PROVE  StepFits(p)'
<1>1. ResolverTypeOK /\ StepFits(p)
  BY DEF ResolverInv
<1>2. os' = os
  BY <1>1, MovesOn DEF Moves
<1>3. ASSUME NEW n \in Ports, check_resolver_config(p, n) PROVE StepFits(p)'
  <2>1. /\ step'[p] \in {"check", "check_rules", "false"} /\ port'[p] = n
        /\ step'[p] = "check" => os \in {"macos", "linux"}
        /\ step'[p] = "check_rules" => os = "windows"
    BY <1>1, <1>3 DEF check_resolver_config, Call, GoTo, ResolverTypeOK
  <2>2. QED
    BY <1>2, <2>1 DEF StepFits, Checking, SettingUp
<1>4. ASSUME NEW n \in Ports, setup_resolver_config(p, n) PROVE StepFits(p)'
  <2>1. /\ step'[p] \in {"dir", "service", "add", "failed"} /\ port'[p] = n
        /\ suffix'[p] = "ant"
        /\ step'[p] = "dir" => os = "macos"
        /\ step'[p] = "service" => os = "linux"
        /\ step'[p] = "add" => os = "windows"
    BY <1>1, <1>4 DEF setup_resolver_config, Call, GoTo, ResolverTypeOK
  <2>2. QED
    BY <1>2, <2>1 DEF StepFits, Checking, SettingUp
<1>5. CASE check_resolver_file(p)
  <2>1. /\ os = "macos" /\ step[p] = "check" /\ port'[p] = port[p]
    BY <1>5 DEF check_resolver_file, Looks
  <2>2. step'[p] \in {"check", "true", "false"}
    BY <1>1, <1>5, <2>1, ReturnRow DEF check_resolver_file
  <2>3. QED
    BY <1>1, <1>2, <2>1, <2>2 DEF StepFits, Checking, SettingUp
<1>6. CASE CheckExists(p)
  <2>1. /\ os = "linux" /\ step[p] = "check" /\ port'[p] = port[p]
    BY <1>6 DEF CheckExists, Looks
  <2>2. step'[p] \in {"check", "check_service", "false"}
    BY <1>1, <1>6, <2>1, ReturnRow DEF CheckExists, GoTo, ResolverTypeOK
  <2>3. QED
    BY <1>1, <1>2, <2>1, <2>2 DEF StepFits, Checking, SettingUp
<1>7. CASE ReadFails(p) \/ CheckService(p) \/ CheckRules(p)
  <2>1. step[p] \in Checking /\ port'[p] = port[p]
    BY <1>7 DEF ReadFails, CheckService, CheckRules, Looks, Checking
  <2>2. step'[p] \in {"true", "false", "failed"}
    BY <1>1, <1>7, ReturnRow DEF ReadFails, CheckService, CheckRules
  <2>3. QED
    BY <1>1, <1>2, <2>1, <2>2 DEF StepFits, Checking, SettingUp
<1>8. CASE ServiceIsActive(p) \/ MakeDir(p) \/ OpenFile(p)
  <2>1. /\ step[p] \in {"service", "dir", "open"} /\ port'[p] = port[p]
        /\ suffix'[p] = suffix[p] /\ step'[p] \in {"dir", "open", "write"}
        /\ step'[p] = "dir" => step[p] = "service"
    BY <1>1, <1>8 DEF ServiceIsActive, MakeDir, OpenFile, GoTo, ResolverTypeOK
  <2>2. QED
    BY <1>1, <1>2, <2>1 DEF StepFits, Checking, SettingUp
<1>9. CASE WriteFile(p) \/ add_nrpt_rule(p)
  <2>1. step[p] \in {"write", "add"} /\ port'[p] = port[p] /\ AfterFile(p)
    BY <1>9 DEF WriteFile, add_nrpt_rule
  <2>2. /\ step'[p] \in {"add", "open", "restart", "done"}
        /\ step'[p] = "add" => os = "windows"
        /\ step'[p] = "open" => os # "windows"
        /\ step'[p] = "restart" => os = "linux"
    BY <1>1, <2>1, AfterFileRow
  <2>3. port[p] \in Ports /\ os \in {"macos", "linux", "windows"}
    BY <1>1, <2>1 DEF StepFits, SettingUp
  <2>4. QED
    BY <1>2, <2>1, <2>2, <2>3 DEF StepFits, Checking, SettingUp
<1>10. CASE Restart(p)
  <2>1. step[p] = "restart" /\ port'[p] = port[p] /\ step'[p] = "done"
    BY <1>1, <1>10, ReturnRow DEF Restart
  <2>2. QED
    BY <1>1, <1>2, <2>1 DEF StepFits, Checking, SettingUp
<1>11. CASE CommandRefused(p) \/ WriteFails(p) \/ RestartFails(p) \/ Leave(p)
  <2>1. step'[p] \in {"failed", "idle"}
    BY <1>1, <1>11, ReturnRow
       DEF CommandRefused, WriteFails, RestartFails, Fail, Leave
  <2>2. QED
    BY <2>1 DEF StepFits, Checking, SettingUp
<1>12. QED
  BY <1>3, <1>4, <1>5, <1>6, <1>7, <1>8, <1>9, <1>10, <1>11
     DEF ResolverStep, Check, Setup
LEMMA OwnMeddle ==
    ASSUME ResolverTypeOK, NEW p \in Procs, Meddle(p)
    PROVE  meddled'[p] = meddled[p]
BY DEF ResolverTypeOK, Meddle

\* Steps that nothing is claimed of.
LEMMA IdleUndisturbed ==
    ASSUME NEW p \in Procs, step'[p] \in {"idle", "false", "failed", "service", "dir"}
    PROVE  Undisturbed(p)'
BY DEF Undisturbed, WroteAnt, Truncated, WroteBoth, TookEffect, SawAnt, SawBoth, Stood

\* What a call has found and done stays so while nobody else changes anything.
LEMMA OwnUndisturbed ==
    ASSUME ResolverInv, NEW p \in Procs, ResolverStep(p)
    PROVE  Undisturbed(p)'
<1> DEFINE Parts == /\ WroteAnt(p) /\ Truncated(p) /\ WroteBoth(p) /\ TookEffect(p)
                    /\ SawAnt(p) /\ SawBoth(p) /\ Stood(p)
<1>1. /\ ResolverTypeOK /\ StepFits(p)
      /\ ~meddled[p] => Parts
  BY DEF ResolverInv, Undisturbed
<1> HIDE DEF Parts
<1>2. os' = os
  BY <1>1, MovesOn DEF Moves
<1>3. ASSUME NEW n \in Ports,
             check_resolver_config(p, n) \/ setup_resolver_config(p, n)
      PROVE  Undisturbed(p)'
  <2>1. /\ step'[p] \in {"check", "check_rules", "false", "dir", "service", "add",
                         "failed"}
        /\ suffix'[p] = "ant"
    BY <1>1, <1>3 DEF check_resolver_config, setup_resolver_config, Call, GoTo,
       ResolverTypeOK
  <2>2. QED
    BY <2>1 DEF Undisturbed, WroteAnt, Truncated, WroteBoth, TookEffect, SawAnt,
       SawBoth, Stood
<1>4. CASE check_resolver_file(p)
  <2>1. /\ os = "macos" /\ step[p] = "check" /\ port'[p] = port[p]
        /\ config' = config /\ meddled' = meddled
    BY <1>4 DEF check_resolver_file, Looks, system
  <2>2. CASE suffix[p] = "ant"
    <3>1. /\ step'[p] = "check" /\ suffix'[p] = "autonomi"
          /\ found'[p] = (config["ant"] = {port[p]})
      BY <1>1, <1>4, <2>1, <2>2 DEF check_resolver_file, ResolverTypeOK
    <3>2. QED
      BY <1>2, <2>1, <3>1 DEF Undisturbed, WroteAnt, Truncated, WroteBoth,
         TookEffect, SawAnt, SawBoth, Stood
  <2>3. CASE suffix[p] = "autonomi"
    <3>1. PICK outcome \in {"true", "false"} :
             /\ Return(p, outcome)
             /\ outcome = "true" => found[p] /\ config["autonomi"] = {port[p]}
      BY <1>4, <2>1, <2>3 DEF check_resolver_file
    <3>2. step'[p] = outcome
      BY <1>1, <3>1, ReturnRow
    <3>3. CASE outcome = "false"
      BY <3>2, <3>3, IdleUndisturbed
    <3>4. CASE outcome = "true"
      <4>1. ~meddled[p] => config["ant"] = {port[p]}
        BY <1>1, <2>1, <2>3, <3>1, <3>4 DEF Parts, SawAnt
      <4>2. ~meddled[p] => \A s \in Suffixes : config'[s] = {port'[p]}
        BY <2>1, <3>1, <3>4, <4>1 DEF Suffixes
      <4>3. QED
        BY <1>2, <2>1, <3>2, <3>4, <4>2 DEF Undisturbed, WroteAnt, Truncated,
           WroteBoth, TookEffect, SawAnt, SawBoth, Stood
    <3>5. QED
      BY <3>3, <3>4
  <2>4. QED
    BY <1>1, <2>2, <2>3 DEF ResolverTypeOK, Suffixes
<1>5. CASE CheckExists(p)
  <2>1. /\ os = "linux" /\ step[p] = "check" /\ port'[p] = port[p]
        /\ config' = config /\ meddled' = meddled
    BY <1>5 DEF CheckExists, Looks, system
  <2>2. CASE config[suffix[p]] = {}
    BY <1>1, <1>5, <2>2, ReturnRow, IdleUndisturbed DEF CheckExists
  <2>3. CASE config[suffix[p]] # {} /\ suffix[p] = "ant"
    <3>1. step'[p] = "check" /\ config'["ant"] # {}
      BY <1>5, <2>1, <2>3 DEF CheckExists
    <3>2. QED
      BY <1>2, <2>1, <3>1 DEF Undisturbed, WroteAnt, Truncated, WroteBoth,
         TookEffect, SawAnt, SawBoth, Stood
  <2>4. CASE config[suffix[p]] # {} /\ suffix[p] = "autonomi"
    <3>1. step'[p] = "check_service"
      BY <1>1, <1>5, <2>4 DEF CheckExists, GoTo, ResolverTypeOK
    <3>2. ~meddled[p] => \A s \in Suffixes : config'[s] # {}
      BY <1>1, <2>1, <2>4 DEF Parts, SawAnt, Suffixes
    <3>3. QED
      BY <1>2, <2>1, <3>1, <3>2 DEF Undisturbed, WroteAnt, Truncated, WroteBoth,
         TookEffect, SawAnt, SawBoth, Stood
  <2>5. QED
    BY <1>1, <2>2, <2>3, <2>4 DEF ResolverTypeOK, Suffixes
<1>6. CASE CheckService(p) \/ CheckRules(p) \/ ReadFails(p)
  <2>1. /\ config' = config /\ active' = active /\ meddled' = meddled
        /\ port'[p] = port[p]
    BY <1>6 DEF CheckService, CheckRules, ReadFails, Looks, system
  <2>2. CASE Return(p, "false") \/ Return(p, "failed")
    BY <1>1, <2>2, ReturnRow, IdleUndisturbed
  <2>3. CASE Return(p, "true")
    <3>1. step'[p] = "true"
      BY <1>1, <2>3, ReturnRow
    <3>o. ~Return(p, "false") /\ ~Return(p, "failed")
      <4>1. Return(p, "false") => step'[p] = "false"
        BY <1>1, ReturnRow
      <4>2. Return(p, "failed") => step'[p] = "failed"
        BY <1>1, ReturnRow
      <4>3. QED
        BY <3>1, <4>1, <4>2
    <3>2. \/ step[p] = "check_service" /\ active
          \/ step[p] = "check_rules" /\ \E s \in Suffixes : config[s] # {}
      BY <1>6, <3>o DEF CheckService, CheckRules, ReadFails
    <3>3. \/ os = "linux" /\ step[p] = "check_service"
          \/ os = "windows" /\ step[p] = "check_rules"
      BY <1>1, <3>2 DEF StepFits
    <3>4. ~meddled[p] => Stood(p)'
      BY <1>1, <1>2, <2>1, <3>2, <3>3 DEF Parts, SawBoth, Stood
    <3>5. QED
      BY <2>1, <3>1, <3>4 DEF Undisturbed, WroteAnt, Truncated, WroteBoth,
         TookEffect, SawAnt, SawBoth
  <2>4. QED
    BY <1>6, <2>2, <2>3 DEF CheckService, CheckRules, ReadFails
<1>7. CASE ServiceIsActive(p)
  BY <1>1, <1>7, IdleUndisturbed DEF ServiceIsActive, GoTo, ResolverTypeOK
<1>8. CASE MakeDir(p)
  <2>1. step'[p] = "open" /\ suffix'[p] = "ant"
    BY <1>1, <1>8 DEF MakeDir, GoTo, ResolverTypeOK, StepFits
  <2>2. QED
    BY <2>1 DEF Undisturbed, WroteAnt, Truncated, WroteBoth, TookEffect, SawAnt,
       SawBoth, Stood
<1>9. CASE OpenFile(p)
  <2>1. /\ step[p] = "open" /\ step'[p] = "write" /\ suffix'[p] = suffix[p]
        /\ port'[p] = port[p]
    BY <1>1, <1>9 DEF OpenFile, GoTo, ResolverTypeOK
  <2>2. meddled'[p] = meddled[p]
    BY <1>1, <1>9, OwnMeddle DEF OpenFile
  <2>3. /\ config'[suffix[p]] = {Cut}
        /\ \A s \in Suffixes \ {suffix[p]} : config'[s] = config[s]
    BY <1>1, <1>9, WritesOneFile DEF OpenFile
  <2>4. ~meddled[p] => WroteAnt(p)'
    BY <1>1, <1>2, <2>1, <2>3 DEF Parts, WroteAnt, Suffixes
  <2>5. Truncated(p)'
    BY <2>1, <2>3 DEF Truncated
  <2>6. QED
    BY <2>1, <2>2, <2>4, <2>5 DEF Undisturbed, WroteBoth, TookEffect, SawAnt,
       SawBoth, Stood
<1>10. CASE WriteFile(p) \/ add_nrpt_rule(p)
  <2>1. /\ AfterFile(p) /\ port'[p] = port[p] /\ loaded' = loaded
        /\ meddled'[p] = meddled[p] /\ step[p] \in {"write", "add"}
    BY <1>1, <1>10, OwnMeddle DEF WriteFile, add_nrpt_rule
  <2>2. \A s \in Suffixes \ {suffix[p]} : config'[s] = config[s]
    BY <1>1, <1>10, WritesOneFile DEF WriteFile, add_nrpt_rule
  <2>3. ~meddled[p] =>
           /\ port[p] \in config'[suffix[p]]
           /\ os # "windows" => config'[suffix[p]] = {port[p]}
    <3>1. CASE WriteFile(p)
      <4>1. PICK content \in Written(p) :
               config' = [config EXCEPT ![suffix[p]] = content]
        BY <3>1 DEF WriteFile
      <4>2. config'[suffix[p]] = content
        BY <1>1, <4>1, WritesOneFile
      <4>3. ~meddled[p] => config[suffix[p]] = {Cut}
        BY <1>1, <3>1 DEF WriteFile, Parts, Truncated
      <4>4. ~meddled[p] => content = {port[p]}
        BY <4>1, <4>3 DEF Written
      <4>5. QED
        BY <4>2, <4>4
    <3>2. CASE add_nrpt_rule(p)
      <4>1. os = "windows"
        BY <1>1, <3>2 DEF add_nrpt_rule, StepFits
      <4>2. config'[suffix[p]] = config[suffix[p]] \cup {port[p]}
        BY <1>1, <3>2, WritesOneFile DEF add_nrpt_rule
      <4>3. QED
        BY <4>1, <4>2
    <3>3. QED
      BY <1>10, <3>1, <3>2
  <2>4. CASE suffix[p] = "ant"
    <3>1. step'[p] \in {"add", "open"} /\ suffix'[p] = "autonomi"
      BY <1>1, <2>1, <2>4, AfterFileRow
    <3>2. ~meddled[p] => WroteAnt(p)'
      BY <1>2, <2>1, <2>3, <2>4 DEF WroteAnt
    <3>3. QED
      BY <2>1, <3>1, <3>2 DEF Undisturbed, Truncated, WroteBoth, TookEffect,
         SawAnt, SawBoth, Stood
  <2>5. CASE suffix[p] = "autonomi"
    <3>1. ~meddled[p] =>
             \A s \in Suffixes : /\ port[p] \in config'[s]
                                 /\ os # "windows" => config'[s] = {port[p]}
      <4>1. step[p] \in {"open", "write", "add"}
        BY <2>1
      <4>2. ~meddled[p] => /\ port[p] \in config["ant"]
                           /\ os # "windows" => config["ant"] = {port[p]}
        BY <1>1, <2>5, <4>1 DEF Parts, WroteAnt
      <4>3. QED
        BY <2>2, <2>3, <2>5, <4>2 DEF Suffixes
    <3>2. CASE os = "linux"
      <4>1. step'[p] = "restart"
        BY <1>1, <2>1, <2>5, <3>2, AfterFileRow
      <4>2. ~meddled[p] => WroteBoth(p)'
        BY <2>1, <3>1, <3>2 DEF WroteBoth
      <4>3. QED
        BY <2>1, <4>1, <4>2 DEF Undisturbed, WroteAnt, Truncated, TookEffect,
           SawAnt, SawBoth, Stood
    <3>3. CASE os # "linux"
      <4>1. step'[p] = "done"
        BY <1>1, <2>1, <2>5, <3>3, AfterFileRow
      <4>2. \A s \in Suffixes : Nameservers(s)' = config'[s] \ {Cut}
        BY <1>2, <3>3 DEF Nameservers
      <4>3. port[p] # Cut
        BY <1>1, <2>1, ResolverAssumption DEF StepFits, SettingUp
      <4>4. ~meddled[p] => TookEffect(p)'
        <5>1. SUFFICES ASSUME ~meddled[p], NEW s \in Suffixes
                       PROVE  /\ port[p] \in config'[s] \ {Cut}
                              /\ os # "windows" => config'[s] \ {Cut} = {port[p]}
          BY <1>2, <2>1, <4>2 DEF TookEffect
        <5>2. QED
          BY <3>1, <4>3, <5>1
      <4>5. QED
        BY <2>1, <4>1, <4>4 DEF Undisturbed, WroteAnt, Truncated, WroteBoth, SawAnt,
           SawBoth, Stood
    <3>4. QED
      BY <3>2, <3>3
  <2>6. QED
    BY <1>1, <2>4, <2>5 DEF ResolverTypeOK, Suffixes
<1>11. CASE Restart(p)
  <2>1. /\ step[p] = "restart" /\ step'[p] = "done" /\ port'[p] = port[p]
        /\ meddled'[p] = meddled[p]
        /\ loaded' = [s \in Suffixes |-> config[s] \ {Cut}]
    BY <1>1, <1>11, ReturnRow, OwnMeddle DEF Restart
  <2>2. os = "linux" /\ port[p] # Cut
    BY <1>1, <2>1, ResolverAssumption DEF StepFits, SettingUp
  <2>3. \A s \in Suffixes : Nameservers(s)' = config[s] \ {Cut}
    BY <1>2, <2>1, <2>2 DEF Nameservers
  <2>4. ~meddled[p] => \A s \in Suffixes : config[s] \ {Cut} = {port[p]}
    BY <1>1, <2>1, <2>2 DEF Parts, WroteBoth
  <2>5. ~meddled[p] => TookEffect(p)'
    BY <1>2, <2>1, <2>3, <2>4 DEF TookEffect
  <2>6. QED
    BY <2>1, <2>5 DEF Undisturbed, WroteAnt, Truncated, WroteBoth, SawAnt, SawBoth,
       Stood
<1>12. CASE CommandRefused(p) \/ WriteFails(p) \/ RestartFails(p) \/ Leave(p)
  BY <1>1, <1>12, ReturnRow, IdleUndisturbed
     DEF CommandRefused, WriteFails, RestartFails, Fail, Leave
<1>13. QED
  BY <1>3, <1>4, <1>5, <1>6, <1>7, <1>8, <1>9, <1>10, <1>11, <1>12
     DEF ResolverStep, Check, Setup
-----------------------------------------------------------------------------
(***************************************************************************)
(* Types, and what set-ups for one port leave undone between them.         *)
(***************************************************************************)

LEMMA ConfigTyped ==
    ASSUME ResolverInv, NEW p \in Procs, ResolverStep(p)
    PROVE  config' \in [Suffixes -> IF os = "windows" THEN SUBSET Ports ELSE Files]
<1>1. ResolverTypeOK /\ StepFits(p)
  BY DEF ResolverInv
<1> DEFINE Said == IF os = "windows" THEN SUBSET Ports ELSE Files
<1>2. config \in [Suffixes -> Said]
  BY <1>1 DEF ResolverTypeOK
<1> HIDE DEF Said
<1>3. CASE config' = config
  BY <1>2, <1>3 DEF Said
<1>4. ASSUME NEW content \in {{Cut}, {port[p]}}, step[p] \in {"open", "write"},
             config' = [config EXCEPT ![suffix[p]] = content]
      PROVE  config' \in [Suffixes -> Said]
  <2>1. os # "windows" /\ port[p] \in Ports
    BY <1>1, <1>4 DEF StepFits, SettingUp
  <2>2. content \in Said
    BY <1>4, <2>1 DEF Said, Files
  <2>3. QED
    BY <1>2, <1>4, <2>2
<1>5. CASE add_nrpt_rule(p)
  <2>1. os = "windows" /\ port[p] \in Ports /\ suffix[p] \in Suffixes
    BY <1>1, <1>5 DEF add_nrpt_rule, StepFits, SettingUp, ResolverTypeOK
  <2>2. config[suffix[p]] \cup {port[p]} \in Said
    BY <1>2, <2>1 DEF Said
  <2>3. config' = [config EXCEPT ![suffix[p]] = config[suffix[p]] \cup {port[p]}]
    BY <1>5 DEF add_nrpt_rule
  <2>4. QED
    BY <1>2, <2>2, <2>3 DEF Said
<1>6. CASE OpenFile(p)
  BY <1>4, <1>6 DEF OpenFile, Said
<1>7. CASE WriteFile(p) \/ WriteFails(p)
  <2>1. PICK content \in Written(p) :
           config' = [config EXCEPT ![suffix[p]] = content]
    BY <1>7 DEF WriteFile, WriteFails
  <2>2. step[p] = "write" /\ content \in {{Cut}, {port[p]}}
    BY <1>7, <2>1 DEF WriteFile, WriteFails, Written
  <2>3. QED
    BY <1>4, <2>1, <2>2 DEF Said
<1>8. CASE Leave(p)
  <2>1. ASSUME step[p] = "write", NEW content \in Written(p),
               config' = [config EXCEPT ![suffix[p]] = content]
        PROVE  config' \in [Suffixes -> Said]
    BY <1>4, <2>1 DEF Written
  <2>2. QED
    BY <1>3, <1>8, <2>1 DEF Leave, Said
<1>9. ASSUME NEW n \in Ports,
             check_resolver_config(p, n) \/ setup_resolver_config(p, n)
      PROVE  config' = config
  BY <1>9 DEF check_resolver_config, setup_resolver_config, Call, system
<1>10. CASE Check(p) \/ ServiceIsActive(p) \/ MakeDir(p) \/ Restart(p)
            \/ CommandRefused(p) \/ RestartFails(p)
  <2>1. config' = config
    BY <1>10 DEF Check, check_resolver_file, ReadFails, CheckExists, CheckService,
       CheckRules, Looks, ServiceIsActive, MakeDir, Restart, CommandRefused,
       RestartFails, system
  <2>2. QED
    BY <1>3, <2>1
<1>11. QED
  BY <1>3, <1>5, <1>6, <1>7, <1>8, <1>9, <1>10 DEF ResolverStep, Setup, Said

LEMMA LoadedTyped ==
    ASSUME ResolverInv, NEW p \in Procs, ResolverStep(p)
    PROVE  loaded' \in [Suffixes -> SUBSET Ports]
<1>1. ResolverTypeOK /\ StepFits(p)
  BY DEF ResolverInv
<1>2. CASE loaded' = loaded
  BY <1>1, <1>2 DEF ResolverTypeOK
<1>3. CASE Restart(p)
  <2>1. os = "linux"
    BY <1>1, <1>3 DEF Restart, StepFits
  <2>2. \A s \in Suffixes : config[s] \in Files
    BY <1>1, <2>1 DEF ResolverTypeOK
  <2>3. \A s \in Suffixes : config[s] \ {Cut} \in SUBSET Ports
    BY <2>2 DEF Files
  <2>4. QED
    BY <1>3, <2>3 DEF Restart
<1>4. CASE RestartFails(p)
  BY <1>4 DEF RestartFails
<1>5. ASSUME ~Restart(p), ~RestartFails(p) PROVE loaded' = loaded
  <2>1. ASSUME NEW n \in Ports,
               check_resolver_config(p, n) \/ setup_resolver_config(p, n)
        PROVE  loaded' = loaded
    BY <2>1 DEF check_resolver_config, setup_resolver_config, Call, system
  <2>2. CASE Check(p)
    BY <2>2 DEF Check, check_resolver_file, ReadFails, CheckExists, CheckService,
       CheckRules, Looks, system
  <2>3. CASE Setup(p)
    BY <1>5, <2>3 DEF Setup, ServiceIsActive, MakeDir, OpenFile, WriteFile,
       add_nrpt_rule, CommandRefused, WriteFails, system
  <2>4. CASE Leave(p)
    BY <2>4 DEF Leave
  <2>5. QED
    BY <2>1, <2>2, <2>3, <2>4 DEF ResolverStep
<1>6. QED
  BY <1>2, <1>3, <1>4, <1>5

\* The two booleans and the history.
LEMMA RestTyped ==
    ASSUME ResolverInv, NEW p \in Procs, ResolverStep(p)
    PROVE  dir' \in BOOLEAN /\ active' \in BOOLEAN /\ agreed' \in Ports \cup {None, Cut}
<1>1. dir \in BOOLEAN /\ active \in BOOLEAN /\ agreed \in Ports \cup {None, Cut}
  BY DEF ResolverInv, ResolverTypeOK
<1>2. ASSUME NEW n \in Ports,
             check_resolver_config(p, n) \/ setup_resolver_config(p, n)
      PROVE  /\ dir' = dir /\ active' = active
             /\ agreed' \in {agreed, n, Cut}
  BY <1>2 DEF check_resolver_config, setup_resolver_config, Call, system
<1>3. CASE Check(p) \/ Setup(p) \/ Leave(p)
  BY <1>1, <1>3 DEF Check, check_resolver_file, ReadFails, CheckExists, CheckService,
     CheckRules, Looks, system, Setup, ServiceIsActive, MakeDir, OpenFile, WriteFile,
     add_nrpt_rule, Restart, CommandRefused, WriteFails, RestartFails, Fail, Leave
<1>4. QED
  BY <1>1, <1>2, <1>3 DEF ResolverStep

LEMMA TypedOn ==
    ASSUME ResolverInv, NEW p \in Procs, ResolverStep(p)
    PROVE  ResolverTypeOK'
<1>1. ResolverTypeOK
  BY DEF ResolverInv
<1>2. Moves(p) /\ Disturbs(p)
  BY <1>1, MovesOn, DisturbsOthers
<1>3. QED
  BY <1>1, <1>2, ConfigTyped, LoadedTyped, RestTyped
     DEF ResolverTypeOK, Moves, Disturbs, Steps
\* Every one of Agreement's claims but for the values of agreed that say nothing.
Agreed(n) ==
    /\ os # "other"
    /\ \A p \in Procs : step[p] \in SettingUp => port[p] = n
    /\ \A s \in Suffixes :
          /\ config[s] \subseteq {n, Cut}
          /\ config[s] = {} => \E p \in Procs : Before(p, s)
          /\ config[s] = {Cut} => \E p \in Procs : step[p] = "write" /\ suffix[p] = s
          /\ os = "linux" /\ loaded[s] # {n} => \E p \in Procs : step[p] \in SettingUp

Untouched ==
    /\ \A s \in Suffixes : config[s] = {} /\ loaded[s] = {}
    /\ \A p \in Procs : step[p] \notin SettingUp

LEMMA AgreementIs ==
    Agreement <=> (agreed = None => Untouched) /\ (agreed \in Ports => Agreed(agreed))
BY DEF Agreement, Agreed, Untouched

\* Whoever is not the process that takes the step has still to do what it had to.
LEMMA WitnessesStay ==
    ASSUME NEW p \in Procs, Moves(p), NEW q \in Procs \ {p}
    PROVE  /\ step'[q] = step[q] /\ port'[q] = port[q] /\ suffix'[q] = suffix[q]
           /\ \A s \in Suffixes : Before(q, s) => Before(q, s)'
BY DEF Moves, Before

\* A process that sets nothing up does not count.
LEMMA AgreementAside ==
    ASSUME ResolverInv, NEW p \in Procs, ResolverStep(p),
           step[p] \notin SettingUp, step'[p] \notin SettingUp,
           config' = config, loaded' = loaded, agreed' = agreed
    PROVE  Agreement'
<1>1. Agreement /\ Moves(p) /\ os' = os
  BY MovesOn DEF ResolverInv, Moves
<1>2. ASSUME agreed = None PROVE Untouched'
  <2>1. Untouched
    BY <1>1, <1>2, AgreementIs
  <2>2. \A q \in Procs : step'[q] \notin SettingUp
    BY <1>1, <2>1, WitnessesStay DEF Untouched
  <2>3. QED
    BY <2>1, <2>2 DEF Untouched
<1>3. ASSUME NEW n \in Ports, agreed = n PROVE Agreed(n)'
  <2>1. Agreed(n)
    BY <1>1, <1>3, AgreementIs
  <2>2. \A q \in Procs : step'[q] \in SettingUp => port'[q] = n
    BY <1>1, <2>1, WitnessesStay DEF Agreed
  <2>3. ASSUME NEW s \in Suffixes
        PROVE  /\ config'[s] \subseteq {n, Cut}
               /\ config'[s] = {} => \E q \in Procs : Before(q, s)'
               /\ config'[s] = {Cut} =>
                     \E q \in Procs : step'[q] = "write" /\ suffix'[q] = s
               /\ os = "linux" /\ loaded'[s] # {n} =>
                     \E q \in Procs : step'[q] \in SettingUp
    <3>1. ASSUME config[s] = {} PROVE \E q \in Procs : Before(q, s)'
      <4>1. PICK q \in Procs : Before(q, s)
        BY <2>1, <3>1 DEF Agreed
      <4>2. q # p
        BY <4>1 DEF Before
      <4>3. QED
        BY <1>1, <4>1, <4>2, WitnessesStay
    <3>2. ASSUME config[s] = {Cut}
          PROVE  \E q \in Procs : step'[q] = "write" /\ suffix'[q] = s
      <4>1. PICK q \in Procs : step[q] = "write" /\ suffix[q] = s
        BY <2>1, <3>2 DEF Agreed
      <4>2. q # p
        BY <4>1 DEF SettingUp
      <4>3. QED
        BY <1>1, <4>1, <4>2, WitnessesStay
    <3>3. ASSUME os = "linux", loaded[s] # {n}
          PROVE  \E q \in Procs : step'[q] \in SettingUp
      <4>1. PICK q \in Procs : step[q] \in SettingUp
        BY <2>1, <3>3 DEF Agreed
      <4>2. QED
        BY <1>1, <4>1, WitnessesStay
    <3>4. QED
      BY <2>1, <3>1, <3>2, <3>3 DEF Agreed
  <2>4. QED
    BY <1>1, <2>1, <2>2, <2>3 DEF Agreed
<1>4. QED
  BY <1>2, <1>3, AgreementIs DEF Agreement, Agreed, Untouched

\* A new set-up has everything still to do.
LEMMA AgreementCall ==
    ASSUME ResolverInv, NEW p \in Procs, NEW n \in Ports, setup_resolver_config(p, n)
    PROVE  Agreement'
<1>1. ResolverStep(p)
  BY DEF ResolverStep
<1>2. ResolverTypeOK /\ Agreement
  BY DEF ResolverInv
<1>3. Moves(p) /\ os' = os
  BY <1>1, <1>2, MovesOn DEF Moves
<1>4. /\ config' = config /\ loaded' = loaded /\ step[p] \notin SettingUp
      /\ port'[p] = n /\ suffix'[p] = "ant"
      /\ os # "other" => step'[p] \in SettingUp \ {"restart", "write"}
  BY <1>2 DEF setup_resolver_config, Call, system, ResolverTypeOK, GoTo, SettingUp,
     Systems
<1>5. agreed' = IF os # "other" /\ agreed \in {None, n} THEN n ELSE Cut
  BY DEF setup_resolver_config
<1>6. CASE ~(os # "other" /\ agreed \in {None, n})
  BY <1>5, <1>6, ResolverAssumption DEF Agreement
<1>7. CASE os # "other" /\ agreed \in {None, n}
  <2>1. agreed' = n /\ n # None
    BY <1>5, <1>7, ResolverAssumption
  <2>2. \A s \in Suffixes : Before(p, s)'
    BY <1>4, <1>7 DEF Before
  <2>3. \A q \in Procs \ {p} : step[q] \in SettingUp => port[q] = n
    BY <1>2, <1>7 DEF Agreement
  <2>4. \A q \in Procs : step'[q] \in SettingUp => port'[q] = n
    BY <1>3, <1>4, <2>3, WitnessesStay
  <2>5. ASSUME NEW s \in Suffixes
        PROVE  /\ config[s] \subseteq {n, Cut}
               /\ config[s] = {Cut} =>
                     \E q \in Procs : step'[q] = "write" /\ suffix'[q] = s
    <3>1. CASE agreed = None
      BY <1>2, <3>1 DEF Agreement
    <3>2. CASE agreed = n
      <4>1. Agreed(n)
        BY <1>2, <3>2, AgreementIs
      <4>2. ASSUME config[s] = {Cut}
            PROVE  \E q \in Procs : step'[q] = "write" /\ suffix'[q] = s
        <5>1. PICK q \in Procs : step[q] = "write" /\ suffix[q] = s
          BY <4>1, <4>2 DEF Agreed
        <5>2. q # p
          BY <1>4, <5>1 DEF SettingUp
        <5>3. QED
          BY <1>3, <5>1, <5>2, WitnessesStay
      <4>3. QED
        BY <4>1, <4>2 DEF Agreed
    <3>3. QED
      BY <1>7, <3>1, <3>2
  <2>6. step'[p] \in SettingUp
    BY <1>4, <1>7
  <2>7. Agreed(n)'
    BY <1>3, <1>4, <1>7, <2>2, <2>4, <2>5, <2>6 DEF Agreed
  <2>8. QED
    BY <2>1, <2>7 DEF Agreement, Agreed
<1>8. QED
  BY <1>6, <1>7
\* A step of a set-up that goes on, or succeeds: p has done its part of what is
\* left, and whatever else is left is for others as before.
LEMMA AgreementGoesOn ==
    ASSUME ResolverInv, NEW p \in Procs, ResolverStep(p), step[p] \in SettingUp,
           agreed' = agreed, port' = port,
           \A s \in Suffixes :
               /\ config'[s] \subseteq config[s] \cup {port[p], Cut}
               /\ config'[s] = {} => config[s] = {} /\ (Before(p, s) => Before(p, s)')
               /\ config'[s] = {Cut} =>
                     \/ step'[p] = "write" /\ suffix'[p] = s
                     \/ config[s] = {Cut} /\ ~(step[p] = "write" /\ suffix[p] = s)
               /\ os = "linux" =>
                     \/ step'[p] \in SettingUp
                     \/ loaded'[s] = config'[s] \ {Cut} /\ config'[s] = config[s]
    PROVE  Agreement'
<1>1. ResolverTypeOK /\ Agreement /\ Moves(p) /\ os' = os
  BY MovesOn DEF ResolverInv, Moves
<1>2. agreed # None
  BY <1>1 DEF Agreement
<1>3. ASSUME NEW n \in Ports, agreed = n PROVE Agreed(n)'
  <2>1. Agreed(n) /\ port[p] = n
    BY <1>1, <1>3, AgreementIs DEF Agreed
  <2>2. \A q \in Procs : step'[q] \in SettingUp => port'[q] = n
    BY <1>1, <2>1, WitnessesStay DEF Agreed
  <2>3. ASSUME NEW s \in Suffixes, config'[s] = {} PROVE \E q \in Procs : Before(q, s)'
    <3>1. PICK q \in Procs : Before(q, s)
      BY <2>1, <2>3 DEF Agreed
    <3>2. QED
      BY <1>1, <2>3, <3>1, WitnessesStay
  <2>4. ASSUME NEW s \in Suffixes, config'[s] = {Cut}
        PROVE  \E q \in Procs : step'[q] = "write" /\ suffix'[q] = s
    <3>1. CASE step'[p] = "write" /\ suffix'[p] = s
      BY <3>1
    <3>2. CASE config[s] = {Cut} /\ ~(step[p] = "write" /\ suffix[p] = s)
      <4>1. PICK q \in Procs : step[q] = "write" /\ suffix[q] = s
        BY <2>1, <3>2 DEF Agreed
      <4>2. QED
        BY <1>1, <3>2, <4>1, WitnessesStay
    <3>3. QED
      BY <2>4, <3>1, <3>2
  <2>5. ASSUME NEW s \in Suffixes, os = "linux", loaded'[s] # {n}
        PROVE  \E q \in Procs : step'[q] \in SettingUp
    <3>1. CASE step'[p] \in SettingUp
      BY <3>1
    <3>2. CASE loaded'[s] = config'[s] \ {Cut} /\ config'[s] = config[s]
      <4>1. config[s] \subseteq {n, Cut} /\ config[s] \ {Cut} # {n}
        BY <2>1, <2>5, <3>2 DEF Agreed
      <4>2. config'[s] = {} \/ config'[s] = {Cut}
        BY <3>2, <4>1
      <4>3. CASE config'[s] = {}
        BY <2>3, <4>3 DEF Before
      <4>4. CASE config'[s] = {Cut}
        BY <2>4, <4>4 DEF SettingUp
      <4>5. QED
        BY <4>2, <4>3, <4>4
    <3>3. QED
      BY <2>5, <3>1, <3>2
  <2>6. \A s \in Suffixes : config'[s] \subseteq {n, Cut}
    BY <2>1 DEF Agreed
  <2>7. QED
    BY <1>1, <2>1, <2>2, <2>3, <2>4, <2>5, <2>6 DEF Agreed
<1>4. QED
  BY <1>2, <1>3, AgreementIs DEF Agreement, Agreed

LEMMA AgreementOn ==
    ASSUME ResolverInv, NEW p \in Procs, ResolverStep(p)
    PROVE  Agreement'
<1>1. ResolverTypeOK /\ StepFits(p) /\ Agreement
  BY DEF ResolverInv
<1>2. ASSUME NEW n \in Ports, check_resolver_config(p, n) PROVE Agreement'
  <2>1. /\ step[p] \notin SettingUp /\ step'[p] \notin SettingUp
        /\ config' = config /\ loaded' = loaded /\ agreed' = agreed
    BY <1>1, <1>2 DEF check_resolver_config, Call, GoTo, system, ResolverTypeOK,
       SettingUp, Checking
  <2>2. QED
    BY <2>1, AgreementAside
<1>3. CASE Check(p)
  <2>1. /\ config' = config /\ loaded' = loaded /\ agreed' = agreed
        /\ step[p] \in Checking
    BY <1>3 DEF Check, check_resolver_file, ReadFails, CheckExists, CheckService,
       CheckRules, Looks, system, Checking
  <2>2. step'[p] \in Checking \cup {"true", "false", "failed"}
    <3>1. ASSUME NEW outcome \in {"true", "false", "failed"}, Return(p, outcome)
          PROVE  step'[p] \in {"true", "false", "failed"}
      BY <1>1, <3>1, ReturnRow
    <3>2. \/ \E outcome \in {"true", "false", "failed"} : Return(p, outcome)
          \/ step' = step
          \/ step' = [step EXCEPT ![p] = "check_service"]
      BY <1>3 DEF Check, check_resolver_file, ReadFails, CheckExists, CheckService,
         CheckRules, GoTo
    <3>3. QED
      BY <1>1, <2>1, <3>1, <3>2 DEF Checking, ResolverTypeOK
  <2>3. QED
    BY <2>1, <2>2, AgreementAside DEF Checking, SettingUp
<1>4. ASSUME agreed' = Cut PROVE Agreement'
  BY <1>4, ResolverAssumption DEF Agreement
<1>5. CASE CommandRefused(p) \/ WriteFails(p) \/ RestartFails(p)
  BY <1>4, <1>5 DEF CommandRefused, WriteFails, RestartFails, Fail
<1>6. CASE Leave(p)
  <2>1. CASE step[p] \in SettingUp
    BY <1>4, <1>6, <2>1 DEF Leave
  <2>2. CASE step[p] \notin SettingUp
    <3>1. /\ config' = config /\ loaded' = loaded /\ agreed' = agreed
          /\ step'[p] = "idle"
      BY <1>1, <1>6, <2>2, ReturnRow DEF Leave, SettingUp
    <3>2. QED
      BY <2>2, <3>1, AgreementAside DEF SettingUp
  <2>3. QED
    BY <2>1, <2>2
<1>7. CASE ServiceIsActive(p) \/ MakeDir(p)
  <2>1. /\ step[p] \in {"service", "dir"} /\ step'[p] \in {"dir", "open"}
        /\ suffix' = suffix /\ port' = port /\ config' = config /\ agreed' = agreed
    BY <1>1, <1>7 DEF ServiceIsActive, MakeDir, GoTo, ResolverTypeOK, system
  <2>2. \A s \in Suffixes : Before(p, s) => Before(p, s)'
    BY <2>1 DEF Before, SettingUp
  <2>3. QED
    BY <2>1, <2>2, AgreementGoesOn DEF SettingUp
<1>8. CASE OpenFile(p)
  <2>1. /\ step[p] = "open" /\ step'[p] = "write"
        /\ suffix' = suffix /\ port' = port /\ agreed' = agreed
    BY <1>1, <1>8 DEF OpenFile, GoTo, ResolverTypeOK
  <2>2. /\ config'[suffix[p]] = {Cut}
        /\ \A s \in Suffixes \ {suffix[p]} : config'[s] = config[s]
    BY <1>1, <1>8, WritesOneFile DEF OpenFile
  <2>3. \A s \in Suffixes : Before(p, s) => Before(p, s)'
    BY <2>1 DEF Before, SettingUp
  <2>4. \A s \in Suffixes :
           /\ config'[s] \subseteq config[s] \cup {port[p], Cut}
           /\ config'[s] = {} => config[s] = {} /\ (Before(p, s) => Before(p, s)')
           /\ config'[s] = {Cut} =>
                 \/ step'[p] = "write" /\ suffix'[p] = s
                 \/ config[s] = {Cut} /\ ~(step[p] = "write" /\ suffix[p] = s)
    BY <2>1, <2>2, <2>3
  <2>5. QED
    BY <2>1, <2>4, AgreementGoesOn DEF SettingUp
<1>9. CASE WriteFile(p) \/ add_nrpt_rule(p)
  <2>1. /\ step[p] \in {"write", "add"} /\ AfterFile(p)
        /\ port' = port /\ agreed' = agreed
    BY <1>9 DEF WriteFile, add_nrpt_rule
  <2>2. agreed \notin Ports => Agreement'
    BY <1>1, <2>1 DEF Agreement, SettingUp
  <2>3. SUFFICES ASSUME NEW n \in Ports, agreed = n PROVE Agreement'
    BY <2>2
  <2>4. /\ port[p] = n /\ n # Cut
        /\ \A s \in Suffixes : config[s] \subseteq {n, Cut}
        /\ suffix[p] \in Suffixes
    BY <1>1, <2>1, <2>3, ResolverAssumption DEF Agreement, SettingUp, ResolverTypeOK
  <2>5. /\ n \in config'[suffix[p]] /\ config'[suffix[p]] \subseteq {n, Cut}
        /\ config'[suffix[p]] # {Cut}
        /\ \A s \in Suffixes \ {suffix[p]} : config'[s] = config[s]
    <3>1. CASE WriteFile(p)
      <4>1. PICK content \in Written(p) :
               config' = [config EXCEPT ![suffix[p]] = content]
        BY <3>1 DEF WriteFile
      <4>2. content = {n}
        BY <2>4, <4>1 DEF Written
      <4>3. /\ config'[suffix[p]] = {n}
            /\ \A s \in Suffixes \ {suffix[p]} : config'[s] = config[s]
        BY <1>1, <4>1, <4>2, WritesOneFile
      <4>4. QED
        BY <2>4, <4>3
    <3>2. CASE add_nrpt_rule(p)
      <4>1. config' = [config EXCEPT ![suffix[p]] = config[suffix[p]] \cup {n}]
        BY <2>4, <3>2 DEF add_nrpt_rule
      <4>2. /\ config'[suffix[p]] = config[suffix[p]] \cup {n}
            /\ \A s \in Suffixes \ {suffix[p]} : config'[s] = config[s]
        BY <1>1, <4>1, WritesOneFile
      <4>3. QED
        BY <2>4, <4>2
    <3>3. QED
      BY <1>9, <3>1, <3>2
  <2>6. /\ suffix[p] = "ant" =>
              suffix'[p] = "autonomi" /\ step'[p] \in SettingUp \ {"restart"}
        /\ os = "linux" => step'[p] \in SettingUp
    BY <1>1, <2>1, AfterFileRow DEF SettingUp
  <2>7. \A s \in Suffixes \ {suffix[p]} : Before(p, s) => Before(p, s)'
    BY <2>4, <2>6 DEF Before, Suffixes
  <2>8. \A s \in Suffixes :
           /\ config'[s] \subseteq config[s] \cup {port[p], Cut}
           /\ config'[s] = {} => config[s] = {} /\ (Before(p, s) => Before(p, s)')
           /\ config'[s] = {Cut} =>
                 \/ step'[p] = "write" /\ suffix'[p] = s
                 \/ config[s] = {Cut} /\ ~(step[p] = "write" /\ suffix[p] = s)
    BY <2>4, <2>5, <2>7
  <2>9. QED
    BY <2>1, <2>6, <2>8, AgreementGoesOn DEF SettingUp
<1>10. CASE Restart(p)
  <2>1. /\ step[p] = "restart" /\ config' = config /\ port' = port
        /\ agreed' = agreed /\ \A s \in Suffixes : loaded'[s] = config[s] \ {Cut}
    BY <1>10 DEF Restart
  <2>2. \A s \in Suffixes : ~Before(p, s)
    BY <2>1 DEF Before
  <2>3. QED
    BY <2>1, <2>2, AgreementGoesOn DEF SettingUp
<1>11. QED
  BY <1>2, <1>3, <1>5, <1>6, <1>7, <1>8, <1>9, <1>10, AgreementCall
     DEF ResolverStep, Setup

LEMMA ResolverInvariant ==
    ResolverInv /\ [ResolverNext]_resolverVars => ResolverInv'
<1> SUFFICES ASSUME ResolverInv, [ResolverNext]_resolverVars PROVE ResolverInv'
  OBVIOUS
<1>1. CASE ResolverNext
  <2>1. PICK p \in Procs : ResolverStep(p)
    BY <1>1 DEF ResolverNext, ResolverStep
  <2>2. \A q \in Procs : StepFits(q)' /\ Undisturbed(q)'
    BY <2>1, OwnFits, OwnUndisturbed, OthersKeep
  <2>3. QED
    BY <2>1, <2>2, TypedOn, AgreementOn DEF ResolverInv
<1>2. CASE UNCHANGED resolverVars
  BY <1>2 DEF resolverVars, system, ResolverInv, ResolverTypeOK, StepFits,
     Undisturbed, WroteAnt, Truncated, WroteBoth, TookEffect, SawAnt, SawBoth, Stood,
     Nameservers, Agreement, Before
<1>3. QED
  BY <1>1, <1>2

-----------------------------------------------------------------------------

THEOREM ResolverInvHolds == ResolverSpec => []ResolverInv
BY InitResolver, ResolverInvariant, PTL DEF ResolverSpec

\* Type correctness of the system's configuration and of every call.
THEOREM ResolverTypes == ResolverSpec => []ResolverTypeOK
<1>1. ResolverInv => ResolverTypeOK
  BY DEF ResolverInv
<1>2. QED
  BY <1>1, ResolverInvHolds, PTL

\* setup_resolver_config's message, for any number of processes and ports: a
\* set-up that reports success while nobody else has changed anything has queries
\* for both suffixes go to its port.
THEOREM SetupsTakeEffect == ResolverSpec => []SetupTakesEffect
<1>1. ResolverInv => SetupTakesEffect
  <2>1. SUFFICES ASSUME ResolverInv, NEW p \in Procs, step[p] = "done", ~meddled[p]
                 PROVE  \A s \in Suffixes :
                           /\ port[p] \in Nameservers(s)
                           /\ os # "windows" => Nameservers(s) = {port[p]}
    BY DEF SetupTakesEffect
  <2>2. QED
    BY <2>1 DEF ResolverInv, Undisturbed, TookEffect
<1>2. QED
  BY <1>1, ResolverInvHolds, PTL

\* check_resolver_config: what its yes stands for on each system.
THEOREM ChecksStandFor == ResolverSpec => []CheckStandsFor
<1>1. ResolverInv => CheckStandsFor
  <2>1. SUFFICES ASSUME ResolverInv, NEW p \in Procs, step[p] = "true", ~meddled[p]
                 PROVE  CASE os = "macos" -> \A s \in Suffixes : config[s] = {port[p]}
                          [] os = "linux" ->
                                active /\ \A s \in Suffixes : config[s] # {}
                          [] os = "windows" -> \E s \in Suffixes : config[s] # {}
                          [] OTHER -> FALSE
    BY DEF CheckStandsFor
  <2>2. os \in {"macos", "linux", "windows"}
    BY <2>1 DEF ResolverInv, ResolverTypeOK, StepFits, Systems
  <2>3. Stood(p)
    BY <2>1 DEF ResolverInv, Undisturbed
  <2>4. QED
    BY <2>1, <2>2, <2>3 DEF Stood
<1>2. QED
  BY <1>1, ResolverInvHolds, PTL

\* setup_resolver_config from any number of processes at once: set-ups for one
\* port, step by step in any order, leave both files whole and in force.
THEOREM AgreeingSetups == ResolverSpec => []AgreeingSetupsSettle
<1>1. ResolverInv => AgreeingSetupsSettle
  <2>1. SUFFICES ASSUME ResolverInv, agreed \in Ports,
                        \A p \in Procs : step[p] \notin SettingUp, NEW s \in Suffixes
                 PROVE  config[s] = {agreed} /\ Nameservers(s) = {agreed}
    BY DEF AgreeingSetupsSettle
  <2>2. /\ config[s] \subseteq {agreed, Cut} /\ config[s] # {} /\ config[s] # {Cut}
        /\ os = "linux" => loaded[s] = {agreed}
    BY <2>1 DEF ResolverInv, Agreement, Before, SettingUp
  <2>3. config[s] # {agreed, Cut}
    BY <2>1, ResolverAssumption DEF ResolverInv, ResolverTypeOK, Files
  <2>4. config[s] = {agreed} /\ agreed # Cut
    BY <2>1, <2>2, <2>3, ResolverAssumption
  <2>5. QED
    BY <2>2, <2>4 DEF Nameservers
<1>2. QED
  BY <1>1, ResolverInvHolds, PTL
=============================================================================
