----------------------------- MODULE ResolverSetup -----------------------------
(***************************************************************************)
(* check_resolver_config and setup_resolver_config                         *)
(* (src/src/server/resolver_setup.rs) as antns processes of one machine    *)
(* call them: what the operating system sends queries for .ant and         *)
(* .autonomi to, and the external commands that look at it and change it,  *)
(* one step each.  A caller starts a call with check_resolver_config(p, n) *)
(* or setup_resolver_config(p, n) and finds the outcome in step[p].        *)
(*                                                                         *)
(* A configuration file is what it says the port is.  tee truncates it     *)
(* when it opens it, and what two of them write at once may be the end of  *)
(* one behind the other; a file that does not say what either wrote is     *)
(* Cut.  On Windows there are rules in place of files, and a suffix may    *)
(* have several.                                                           *)
(***************************************************************************)
CONSTANTS
    Procs,  \* antns processes
    Ports,
    None,
    Cut

ASSUME ResolverAssumption == Cut \notin Ports /\ None \notin Ports /\ Cut # None

Systems  == {"macos", "linux", "windows", "other"}
Suffixes == {"ant", "autonomi"}

VARIABLES
    os,       \* std::env::consts::OS
    dir,      \* whether the directory of the files exists
    config,   \* for each suffix, what its file says or its rules say
    active,   \* whether the service that resolves names runs
    loaded,   \* Linux: what the files said when that service started
    step,     \* what each process does next in its call, or the call's outcome
    suffix,   \* the file or the rule it is at
    port,     \* the argument
    found,    \* macOS: ant_ok, the first of the two files is right
    meddled,  \* history: whether somebody else has changed something since
    agreed    \* history: the one port every set-up so far asked for; None
              \* before the first, Cut after one for another port or a failure

system       == <<dir, config, active, loaded>>
resolverVars == <<os, system, step, suffix, port, found, meddled, agreed>>

Checking  == {"check", "check_service", "check_rules"}
SettingUp == {"service", "dir", "open", "write", "add", "restart"}
Outcomes  == {"true", "false", "done", "failed"}

\* A file says one thing.
Files == {{}} \cup {{x} : x \in Ports \cup {Cut}}

ResolverTypeOK ==
    /\ os \in Systems
    /\ dir \in BOOLEAN /\ active \in BOOLEAN
    /\ config \in [Suffixes -> IF os = "windows" THEN SUBSET Ports ELSE Files]
    /\ loaded \in [Suffixes -> SUBSET Ports]
    /\ step \in [Procs -> {"idle"} \cup Checking \cup SettingUp \cup Outcomes]
    /\ suffix \in [Procs -> Suffixes]
    /\ port \in [Procs -> Ports \cup {None}]
    /\ found \in [Procs -> BOOLEAN]
    /\ meddled \in [Procs -> BOOLEAN]
    /\ agreed \in Ports \cup {None, Cut}

\* A machine nobody has set up yet.
ResolverInit ==
    /\ os \in Systems
    /\ dir \in BOOLEAN
    /\ config = [s \in Suffixes |-> {}]
    /\ active \in IF os = "linux" THEN BOOLEAN ELSE {TRUE}
    /\ loaded = [s \in Suffixes |-> {}]
    /\ step = [p \in Procs |-> "idle"]
    /\ suffix = [p \in Procs |-> "ant"]
    /\ port = [p \in Procs |-> None]
    /\ found = [p \in Procs |-> FALSE]
    /\ meddled = [p \in Procs |-> FALSE]
    /\ agreed = None

\* The servers that queries for names under s go to.
Nameservers(s) ==
    IF os = "linux" THEN loaded[s] ELSE config[s] \ {Cut}

-----------------------------------------------------------------------------

GoTo(p, next) == step' = [step EXCEPT ![p] = next]

\* The call returns, and its locals are gone.
Return(p, outcome) ==
    /\ GoTo(p, outcome)
    /\ suffix' = [suffix EXCEPT ![p] = "ant"]
    /\ found' = [found EXCEPT ![p] = FALSE]

Call(p, n, first) ==
    /\ step[p] \notin Checking \cup SettingUp
    /\ GoTo(p, first)
    /\ suffix' = [suffix EXCEPT ![p] = "ant"]
    /\ port' = [port EXCEPT ![p] = n]
    /\ found' = [found EXCEPT ![p] = FALSE]
    /\ meddled' = [meddled EXCEPT ![p] = FALSE]
    /\ UNCHANGED <<os, system>>

check_resolver_config(p, n) ==
    /\ Call(p, n, CASE os \in {"macos", "linux"} -> "check"
                    [] os = "windows" -> "check_rules"
                    [] OTHER -> "false")
    /\ UNCHANGED agreed

setup_resolver_config(p, n) ==
    /\ Call(p, n, CASE os = "macos" -> "dir"
                    [] os = "linux" -> "service"
                    [] os = "windows" -> "add"
                    [] OTHER -> "failed")
    /\ agreed' = IF os # "other" /\ agreed \in {None, n} THEN n ELSE Cut

\* Steps that only look leave the system and the history alone.
Looks(p) == UNCHANGED <<os, system, port, meddled, agreed>>

\* Mutant of check_resolver_file: one right file is enough.
check_either_file(p) ==
    LET right == config[suffix[p]] = {port[p]}
    IN  /\ os = "macos" /\ step[p] = "check"
        /\ IF suffix[p] = "ant"
           THEN /\ suffix' = [suffix EXCEPT ![p] = "autonomi"]
                /\ found' = [found EXCEPT ![p] = right]
                /\ UNCHANGED step
           ELSE Return(p, IF found[p] \/ right THEN "true" ELSE "false")
        /\ Looks(p)

\* Both files are read, the second one whatever the first one says.
check_resolver_file(p) ==
    LET right == config[suffix[p]] = {port[p]}
    IN  /\ os = "macos" /\ step[p] = "check"
        /\ IF suffix[p] = "ant"
           THEN /\ suffix' = [suffix EXCEPT ![p] = "autonomi"]
                /\ found' = [found EXCEPT ![p] = right]
                /\ UNCHANGED step
           ELSE Return(p, IF found[p] /\ right THEN "true" ELSE "false")
        /\ Looks(p)

\* A file that exists and cannot be read ends the check with an error.
ReadFails(p) ==
    /\ os = "macos" /\ step[p] = "check"
    /\ config[suffix[p]] # {}
    /\ Return(p, "failed")
    /\ Looks(p)

\* Linux: the files have to exist; neither what they say nor what the service
\* has loaded is looked at.
CheckExists(p) ==
    /\ os = "linux" /\ step[p] = "check"
    /\ \/ /\ config[suffix[p]] = {}
          /\ Return(p, "false")
       \/ /\ config[suffix[p]] # {} /\ suffix[p] = "ant"
          /\ suffix' = [suffix EXCEPT ![p] = "autonomi"]
          /\ UNCHANGED <<step, found>>
       \/ /\ config[suffix[p]] # {} /\ suffix[p] = "autonomi"
          /\ GoTo(p, "check_service")
          /\ UNCHANGED <<suffix, found>>
    /\ Looks(p)

\* systemctl is-active; one that cannot be run counts as a no.
CheckService(p) ==
    /\ step[p] = "check_service"
    /\ \/ active /\ Return(p, "true")
       \/ Return(p, "false")
    /\ Looks(p)

\* Windows: any rule for either suffix, to whatever server.
CheckRules(p) ==
    /\ step[p] = "check_rules"
    /\ \/ (\E s \in Suffixes : config[s] # {}) /\ Return(p, "true")
       \/ Return(p, "false")
    /\ Looks(p)

-----------------------------------------------------------------------------

\* p changes the system under everybody else.
Meddle(p) ==
    meddled' = [q \in Procs |->
        meddled[q] \/ (q # p /\ step[q] \notin {"idle", "false", "failed"})]

\* Mutant of AfterFile: Linux does without the restart.
AfterFileNoRestart(p) ==
    IF suffix[p] = "ant"
    THEN /\ suffix' = [suffix EXCEPT ![p] = "autonomi"]
         /\ GoTo(p, IF os = "windows" THEN "add" ELSE "open")
         /\ UNCHANGED found
    ELSE Return(p, "done")

\* ant first, then autonomi, then on Linux the restart.
AfterFile(p) ==
    IF suffix[p] = "ant"
    THEN /\ suffix' = [suffix EXCEPT ![p] = "autonomi"]
         /\ GoTo(p, IF os = "windows" THEN "add" ELSE "open")
         /\ UNCHANGED found
    ELSE IF os = "linux"
         THEN GoTo(p, "restart") /\ UNCHANGED <<suffix, found>>
         ELSE Return(p, "done")

\* Linux: systemctl is-active comes first.
ServiceIsActive(p) ==
    /\ step[p] = "service"
    /\ active
    /\ GoTo(p, "dir")
    /\ UNCHANGED <<os, system, suffix, port, found, meddled, agreed>>

MakeDir(p) ==
    /\ step[p] = "dir"
    /\ dir' = TRUE
    /\ GoTo(p, "open")
    /\ UNCHANGED <<os, config, active, loaded, suffix, port, found, meddled,
                   agreed>>

\* sudo tee opens the file, which truncates it ...
OpenFile(p) ==
    /\ step[p] = "open"
    /\ dir
    /\ config' = [config EXCEPT ![suffix[p]] = {Cut}]
    /\ GoTo(p, "write")
    /\ Meddle(p)
    /\ UNCHANGED <<os, dir, active, loaded, suffix, port, found, agreed>>

\* Mutant of Written: tee -a.
WrittenBehind(p) == {config[suffix[p]] \cup {port[p]}}

\* ... and writes it from its start, over what another tee has written since.
Written(p) ==
    IF config[suffix[p]] \subseteq {Cut, port[p]}
    THEN {{port[p]}}
    ELSE {{port[p]}, {Cut}}

WriteFile(p) ==
    /\ step[p] = "write"
    /\ \E content \in Written(p) :
          config' = [config EXCEPT ![suffix[p]] = content]
    /\ AfterFile(p)
    /\ Meddle(p)
    /\ UNCHANGED <<os, dir, active, loaded, port, agreed>>

\* Rules are added to those there are.
add_nrpt_rule(p) ==
    /\ step[p] = "add"
    /\ config' = [config EXCEPT ![suffix[p]] = @ \cup {port[p]}]
    /\ AfterFile(p)
    /\ Meddle(p)
    /\ UNCHANGED <<os, dir, active, loaded, port, agreed>>

\* The service reads the files when it starts; a Cut one says nothing.
Restart(p) ==
    /\ step[p] = "restart"
    /\ active' = TRUE
    /\ loaded' = [s \in Suffixes |-> config[s] \ {Cut}]
    /\ Return(p, "done")
    /\ Meddle(p)
    /\ UNCHANGED <<os, dir, config, port, agreed>>

Fail(p) ==
    /\ Return(p, "failed")
    /\ agreed' = Cut
    /\ UNCHANGED <<os, port>>

\* A command that cannot be run, or that refuses without doing anything: the
\* service is not active, sudo is not granted, the directory is not made.
CommandRefused(p) ==
    /\ step[p] \in SettingUp
    /\ step[p] = "dir" => ~dir
    /\ Fail(p)
    /\ UNCHANGED <<system, meddled>>

\* Mutant of WriteFails: the status of tee is not looked at.
WriteFailsUnseen(p) ==
    /\ step[p] = "write"
    /\ AfterFile(p)
    /\ Meddle(p)
    /\ UNCHANGED <<os, system, port, agreed>>

\* tee fails when it has written everything.
WriteFails(p) ==
    /\ step[p] = "write"
    /\ \E content \in Written(p) :
          config' = [config EXCEPT ![suffix[p]] = content]
    /\ Fail(p)
    /\ Meddle(p)
    /\ UNCHANGED <<dir, active, loaded>>

\* The service stops and does not come back.
RestartFails(p) ==
    /\ step[p] = "restart"
    /\ active' = FALSE
    /\ loaded' = [s \in Suffixes |-> {}]
    /\ Fail(p)
    /\ Meddle(p)
    /\ UNCHANGED <<dir, config>>

Check(p) ==
    \/ check_resolver_file(p) \/ ReadFails(p)
    \/ CheckExists(p) \/ CheckService(p) \/ CheckRules(p)

Setup(p) ==
    \/ ServiceIsActive(p) \/ MakeDir(p)
    \/ OpenFile(p) \/ WriteFile(p) \/ add_nrpt_rule(p) \/ Restart(p)
    \/ CommandRefused(p) \/ WriteFails(p) \/ RestartFails(p)

\* The process ends, with its call's outcome or in the middle of the call.  A
\* tee it has started may still write.
Leave(p) ==
    /\ Return(p, "idle")
    /\ port' = [port EXCEPT ![p] = None]
    /\ agreed' = IF step[p] \in SettingUp THEN Cut ELSE agreed
    /\ \/ UNCHANGED config
       \/ /\ step[p] = "write"
          /\ \E content \in Written(p) :
                config' = [config EXCEPT ![suffix[p]] = content]
    /\ meddled' = [q \in Procs |-> q # p /\ (meddled[q]
          \/ (step[p] = "write" /\ step[q] \notin {"idle", "false", "failed"}))]
    /\ UNCHANGED <<os, dir, active, loaded>>

-----------------------------------------------------------------------------

ResolverNext ==
    \E p \in Procs :
        \/ \E n \in Ports : \/ check_resolver_config(p, n)
                            \/ setup_resolver_config(p, n)
        \/ Check(p) \/ Setup(p) \/ Leave(p)

ResolverSpec == ResolverInit /\ [][ResolverNext]_resolverVars

-----------------------------------------------------------------------------

\* "Resolver configuration complete! All .ant and .autonomi domains will now
\* resolve via localhost:{}": when a set-up reports success, and nobody else
\* has changed anything since it began, queries for both suffixes go to its
\* port and, but for older rules on Windows, nowhere else.
SetupTakesEffect ==
    \A p \in Procs : step[p] = "done" /\ ~meddled[p] =>
        \A s \in Suffixes :
            /\ port[p] \in Nameservers(s)
            /\ os # "windows" => Nameservers(s) = {port[p]}

\* What a check that says yes stands for while nobody else changes anything:
\* on macOS what its caller takes it for, on Linux that the files are there and
\* the service runs, on Windows that there is one rule at least.
CheckStandsFor ==
    \A p \in Procs : step[p] = "true" /\ ~meddled[p] =>
        CASE os = "macos" -> \A s \in Suffixes : config[s] = {port[p]}
          [] os = "linux" -> active /\ \A s \in Suffixes : config[s] # {}
          [] os = "windows" -> \E s \in Suffixes : config[s] # {}
          [] OTHER -> FALSE

\* However many set-ups for one port overlap, file by file and restart by
\* restart, once none is under way and all have succeeded both files, or
\* rules, are whole, and they are what the system goes by.
AgreeingSetupsSettle ==
    agreed \in Ports /\ (\A p \in Procs : step[p] \notin SettingUp) =>
        \A s \in Suffixes :
            config[s] = {agreed} /\ Nameservers(s) = {agreed}

\* "Check if resolver configuration is set up correctly", on Linux: where every
\* set-up so far has succeeded for one and the same port and none is under way,
\* a check that says yes has found that queries for both suffixes go to the port
\* it was asked about.
ConfiguredMeansResolving ==
    os = "linux" /\ agreed \in Ports /\ (\A p \in Procs : step[p] \notin SettingUp) =>
        \A p \in Procs : step[p] = "true" =>
            \A s \in Suffixes : Nameservers(s) = {port[p]}
=============================================================================
