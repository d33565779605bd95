------------------------- MODULE ServerLifecycleProofs -------------------------
(***************************************************************************)
(* What antns server start, setup and status promise, for any processes,   *)
(* ports and options.  The invariant is that of the resolver set-up, whose *)
(* steps are the only ones that commands take in it, and which sockets a   *)
(* process has at each of its stages; that no two services share a port    *)
(* and that races for them have winners follows from it.                   *)
(***************************************************************************)
EXTENDS ServerLifecycle, ResolverSetupProofs

\* The stages that come with ports.
Running == {"config", "prompt", "setup", "udp", "tcp", "init", "up"}

PortsSet(p) == pc[p] \in Running => port[p] \in Ports /\ proxy[p] \in Ports

ServerInv ==
    /\ ResolverInv
    /\ TypeOK
    /\ \A p \in Procs : PortsSet(p)
    /\ BothServersOrNeither

\* A step of a command outside the calls it makes.
Begins(p) == start_command(p) \/ setup_command(p) \/ status_command(p)

Passes(p) ==
    \/ ResolverReady(p) \/ AskUser(p) \/ AnswerNo(p)
    \/ BindUdp(p) \/ BindTcp(p) \/ BindHttp(p)
    \/ ProbeDns(p) \/ CloseDns(p) \/ DnsInUse(p) \/ ProbeProxy(p)

Ends(p) == pc[p] # "idle" /\ End(p)

ServerStep(p) ==
    \/ Begins(p) \/ AnswerYes(p) \/ InCall(p) \/ Passes(p)
    \/ StatusChecked(p) \/ Ends(p)

-----------------------------------------------------------------------------

LEMMA StepsAre ==
    ASSUME Next
    PROVE  \E p \in Procs : ServerStep(p)
<1>1. PICK p \in Procs :
        \/ start_command(p) \/ setup_command(p) \/ status_command(p)
        \/ InCall(p) \/ ResolverReady(p) \/ AskUser(p)
        \/ AnswerYes(p) \/ AnswerNo(p) \/ CallFails(p) \/ SetupOnlyDone(p)
        \/ Launch(p) \/ ServerFails(p) \/ Status(p) \/ Interrupt(p)
  BY DEF Next
<1>2. CASE CallFails(p) \/ SetupOnlyDone(p) \/ ServerFails(p) \/ Interrupt(p)
           \/ StartupFails(p) \/ StatusEnds(p)
  <2>1. Ends(p)
    BY <1>2 DEF CallFails, SetupOnlyDone, ServerFails, Interrupt, StartupFails,
       StatusEnds, Starting, Ends
  <2>2. QED
    BY <2>1 DEF ServerStep
<1>3. CASE ~(CallFails(p) \/ SetupOnlyDone(p) \/ ServerFails(p) \/ Interrupt(p)
             \/ StartupFails(p) \/ StatusEnds(p))
  BY <1>1, <1>3 DEF Launch, Status, ServerStep, Begins, Passes
<1>4. QED
  BY <1>2, <1>3

LEMMA CallKeepsPort ==
    ASSUME NEW p \in Procs, Check(p) \/ Setup(p)
    PROVE  port' = port
BY DEF Check, check_resolver_file, ReadFails, CheckExists, CheckService, CheckRules,
   Looks, Setup, ServiceIsActive, MakeDir, OpenFile, WriteFile, add_nrpt_rule,
   Restart, CommandRefused, WriteFails, RestartFails, Fail

\* Commands do nothing to the resolver but what ResolverSetup does.
LEMMA ResolverOnly ==
    ASSUME ServerInv, NEW p \in Procs, ServerStep(p)
    PROVE  ResolverStep(p) \/ UNCHANGED resolverVars
<1>1. CASE Begins(p)
  <2>1. ASSUME NEW option \in Options PROVE option[1] \in Ports
    BY <2>1, ServerAssumption
  <2>2. PICK n \in Ports : check_resolver_config(p, n) \/ setup_resolver_config(p, n)
    BY <1>1, <2>1, ServerAssumption
       DEF Begins, start_command, setup_command, status_command
  <2>3. QED
    BY <2>2 DEF ResolverStep
<1>2. CASE AnswerYes(p)
  <2>1. setup_resolver_config(p, port[p]) /\ port[p] \in Ports
    BY <1>2 DEF AnswerYes, Move, ServerInv, PortsSet, Running
  <2>2. QED
    BY <2>1 DEF ResolverStep
<1>3. CASE InCall(p)
  BY <1>3 DEF InCall, ResolverStep
<1>4. CASE Passes(p)
  BY <1>4 DEF Passes, ResolverReady, AskUser, AnswerNo, BindUdp, BindTcp, BindHttp,
     ProbeDns, CloseDns, DnsInUse, ProbeProxy, Bind, Release
<1>5. CASE StatusChecked(p) \/ Ends(p)
  BY <1>5 DEF StatusChecked, Ends, End, ResolverStep
<1>6. QED
  BY <1>1, <1>2, <1>3, <1>4, <1>5 DEF ServerStep
LEMMA ResolverOn ==
    ASSUME ServerInv, NEW p \in Procs, ServerStep(p)
    PROVE  ResolverInv' /\ ([ResolverNext]_resolverVars)
<1>1. ResolverStep(p) => ResolverNext
  BY DEF ResolverStep, ResolverNext
<1>2. [ResolverNext]_resolverVars
  BY <1>1, ResolverOnly
<1>3. QED
  BY <1>2, ResolverInvariant DEF ServerInv

\* What the others are at is theirs.
LEMMA OthersServe ==
    ASSUME ServerInv, NEW p \in Procs, ServerStep(p), NEW q \in Procs \ {p}
    PROVE  pc'[q] = pc[q] /\ proxy'[q] = proxy[q] /\ port'[q] = port[q]
<1>1. /\ pc \in [Procs -> Stages] /\ proxy \in [Procs -> Ports \cup {None}]
      /\ ResolverTypeOK
  BY DEF ServerInv, TypeOK
<1>2. port'[q] = port[q]
  BY <1>1, ResolverOnly, MovesOn, WitnessesStay DEF resolverVars
<1>3. pc'[q] = pc[q] /\ proxy'[q] = proxy[q]
  <2>1. CASE Begins(p) \/ AnswerYes(p)
    BY <1>1, <2>1 DEF Begins, start_command, setup_command, status_command, AnswerYes,
       Move
  <2>2. CASE InCall(p)
    BY <2>2 DEF InCall, serverVars
  <2>3. CASE Passes(p)
    BY <1>1, <2>3 DEF Passes, ResolverReady, AskUser, AnswerNo, BindUdp, BindTcp,
       BindHttp, ProbeDns, CloseDns, DnsInUse, ProbeProxy, Bind, Release, Move
  <2>4. CASE StatusChecked(p) \/ Ends(p)
    BY <1>1, <2>4 DEF StatusChecked, Ends, End, Move
  <2>5. QED
    BY <2>1, <2>2, <2>3, <2>4 DEF ServerStep
<1>4. QED
  BY <1>2, <1>3

\* A process binds a socket that nobody has, gives one back, or ends.
Takes(p, s) ==
    /\ s \in Sockets /\ bound[s] = None
    /\ bound' = [bound EXCEPT ![s] = p]
    /\ Holds(p)' = Holds(p) \cup {s}

GivesBack(p, s) ==
    /\ s \in Holds(p)
    /\ bound' = [bound EXCEPT ![s] = None]
    /\ Holds(p)' = Holds(p) \ {s}

GivesUp(p) ==
    /\ bound' = [s \in Sockets |-> IF bound[s] = p THEN None ELSE bound[s]]
    /\ Holds(p)' = {}

Keeps(p) == bound' = bound /\ Holds(p)' = Holds(p)

LEMMA SocketsAre ==
    ASSUME NEW n \in Ports
    PROVE  Udp(n) \in Sockets /\ Tcp(n) \in Sockets
BY DEF Udp, Tcp, Sockets

LEMMA StageOn ==
    ASSUME ServerInv, NEW p \in Procs, ServerStep(p)
    PROVE  /\ pc' \in [Procs -> Stages]
           /\ proxy' \in [Procs -> Ports \cup {None}]
           /\ PortsSet(p)'
<1>1. /\ pc \in [Procs -> Stages] /\ proxy \in [Procs -> Ports \cup {None}]
      /\ port \in [Procs -> Ports \cup {None}] /\ PortsSet(p)
  BY DEF ServerInv, TypeOK, ResolverTypeOK
<1>2. CASE start_command(p)
  <2>1. PICK option \in Options :
           /\ Move(p, "idle", "config")
           /\ proxy' = [proxy EXCEPT ![p] = option[2]]
           /\ check_resolver_config(p, option[1])
    BY <1>2 DEF start_command
  <2>2. option[1] \in Ports /\ option[2] \in Ports
    BY ServerAssumption
  <2>3. port'[p] = option[1]
    BY <1>1, <2>1 DEF check_resolver_config, Call
  <2>4. QED
    BY <1>1, <2>1, <2>2, <2>3 DEF Move, Stages, PortsSet
<1>3. CASE setup_command(p) \/ status_command(p)
  BY <1>1, <1>3 DEF setup_command, status_command, Move, Stages, PortsSet, Running
<1>4. CASE AnswerYes(p)
  <2>1. /\ pc[p] = "prompt" /\ pc' = [pc EXCEPT ![p] = "setup"] /\ proxy' = proxy
        /\ setup_resolver_config(p, port[p])
    BY <1>4 DEF AnswerYes, Move
  <2>2. port'[p] = port[p]
    BY <1>1, <2>1 DEF setup_resolver_config, Call
  <2>3. QED
    BY <1>1, <2>1, <2>2 DEF Stages, PortsSet, Running
<1>5. CASE InCall(p)
  BY <1>1, <1>5, CallKeepsPort DEF InCall, serverVars, PortsSet
<1>6. CASE Passes(p)
  BY <1>1, <1>6 DEF Passes, ResolverReady, AskUser, AnswerNo, BindUdp, BindTcp,
     BindHttp, ProbeDns, CloseDns, DnsInUse, ProbeProxy, Bind, Release, Move,
     resolverVars, Stages, PortsSet, Running
<1>7. CASE StatusChecked(p) \/ Ends(p)
  BY <1>1, <1>7 DEF StatusChecked, Ends, End, Move, Stages, PortsSet, Running
<1>8. QED
  BY <1>2, <1>3, <1>4, <1>5, <1>6, <1>7 DEF ServerStep, Begins

\* Stage by stage, what a process has of sockets before and after.
LEMMA SocketsStep ==
    ASSUME ServerInv, NEW p \in Procs, ServerStep(p)
    PROVE  \/ Keeps(p) \/ GivesUp(p)
           \/ \E s \in Sockets : Takes(p, s) \/ GivesBack(p, s)
<1>1. /\ pc \in [Procs -> Stages] /\ ResolverTypeOK /\ PortsSet(p)
  BY DEF ServerInv, TypeOK
<1>2. CASE Begins(p) \/ StatusChecked(p) \/ AnswerYes(p)
  <2>1. /\ bound' = bound
        /\ pc[p] \in {"idle", "status", "prompt"}
        /\ pc'[p] \in {"config", "setup_only", "status", "probe_dns", "setup"}
    BY <1>1, <1>2 DEF Begins, start_command, setup_command, status_command,
       StatusChecked, AnswerYes, Move
  <2>2. QED
    BY <2>1 DEF Keeps, Holds
<1>3. CASE InCall(p)
  <2>1. bound' = bound /\ pc' = pc /\ proxy' = proxy /\ port' = port
    BY <1>3, CallKeepsPort DEF InCall, serverVars
  <2>2. QED
    BY <2>1 DEF Keeps, Holds
<1>4. CASE ResolverReady(p) \/ AskUser(p) \/ AnswerNo(p) \/ DnsInUse(p)
  <2>1. /\ bound' = bound
        /\ pc[p] \in {"config", "setup", "prompt", "probe_dns"}
        /\ pc'[p] \in {"udp", "prompt", "probe_proxy"}
    BY <1>1, <1>4 DEF ResolverReady, AskUser, AnswerNo, DnsInUse, Move
  <2>2. QED
    BY <2>1 DEF Keeps, Holds
<1>5. CASE BindUdp(p)
  <2>1. /\ pc[p] = "udp" /\ pc'[p] = "tcp" /\ port' = port
        /\ Bind(p, Udp(port[p])) /\ port[p] \in Ports
    BY <1>1, <1>5 DEF BindUdp, Move, Bind, resolverVars, PortsSet, Running
  <2>2. Takes(p, Udp(port[p]))
    BY <2>1, SocketsAre DEF Takes, Bind, Holds
  <2>3. QED
    BY <2>2 DEF Takes
<1>6. CASE BindTcp(p)
  <2>1. /\ pc[p] = "tcp" /\ pc'[p] = "init" /\ port' = port
        /\ Bind(p, Tcp(port[p])) /\ port[p] \in Ports
    BY <1>1, <1>6 DEF BindTcp, Move, Bind, resolverVars, PortsSet, Running
  <2>2. Takes(p, Tcp(port[p]))
    BY <2>1, SocketsAre DEF Takes, Bind, Holds
  <2>3. QED
    BY <2>2 DEF Takes
<1>7. CASE BindHttp(p)
  <2>1. /\ pc[p] = "init" /\ pc'[p] = "up" /\ port' = port /\ proxy' = proxy
        /\ Bind(p, Tcp(proxy[p])) /\ proxy[p] \in Ports
    BY <1>1, <1>7 DEF BindHttp, Move, Bind, resolverVars, PortsSet, Running
  <2>2. Takes(p, Tcp(proxy[p]))
    BY <2>1, SocketsAre DEF Takes, Bind, Holds
  <2>3. QED
    BY <2>2 DEF Takes
<1>8. CASE ProbeDns(p) \/ ProbeProxy(p)
  <2>1. PICK n \in Ports :
           /\ Bind(p, Tcp(n))
           /\ \/ pc[p] = "probe_dns" /\ pc'[p] = "close_dns" /\ n = DnsPort
              \/ pc[p] = "probe_proxy" /\ pc'[p] = "close_proxy" /\ n = ProxyPort
    BY <1>1, <1>8, ServerAssumption DEF ProbeDns, ProbeProxy, Move
  <2>2. Takes(p, Tcp(n))
    BY <2>1, SocketsAre DEF Takes, Bind, Holds
  <2>3. QED
    BY <2>2 DEF Takes
<1>9. CASE CloseDns(p)
  <2>1. /\ pc[p] = "close_dns" /\ pc'[p] = "probe_proxy" /\ Release(Tcp(DnsPort))
    BY <1>1, <1>9 DEF CloseDns, Move
  <2>2. GivesBack(p, Tcp(DnsPort))
    BY <2>1 DEF GivesBack, Release, Holds
  <2>3. QED
    BY <2>2, SocketsAre, ServerAssumption
<1>10. CASE Ends(p)
  <2>1. pc'[p] = "idle"
    BY <1>1, <1>10 DEF Ends, End
  <2>2. QED
    BY <1>10, <2>1 DEF Ends, End, GivesUp, Holds
<1>11. QED
  BY <1>2, <1>3, <1>4, <1>5, <1>6, <1>7, <1>8, <1>9, <1>10 DEF ServerStep, Passes
LEMMA HoldsSame ==
    ASSUME NEW q \in Procs, pc'[q] = pc[q], proxy'[q] = proxy[q], port'[q] = port[q]
    PROVE  Holds(q)' = Holds(q)
BY DEF Holds

LEMMA SocketsOn ==
    ASSUME ServerInv, NEW p \in Procs, ServerStep(p)
    PROVE  bound' \in [Sockets -> Procs \cup {None}] /\ BothServersOrNeither'
<1>1. /\ bound \in [Sockets -> Procs \cup {None}]
      /\ \A q \in Procs : {s \in Sockets : bound[s] = q} = Holds(q)
      /\ None \notin Procs
  BY ServerAssumption DEF ServerInv, TypeOK, BothServersOrNeither
<1>2. \A q \in Procs \ {p} : Holds(q)' = Holds(q)
  BY OthersServe, HoldsSame
<1>3. SUFFICES /\ bound' \in [Sockets -> Procs \cup {None}]
               /\ \A q \in Procs : {s \in Sockets : bound'[s] = q} = Holds(q)'
  BY DEF BothServersOrNeither
<1>4. CASE Keeps(p)
  BY <1>1, <1>2, <1>4 DEF Keeps
<1>5. CASE GivesUp(p)
  <2>1. bound' \in [Sockets -> Procs \cup {None}]
    BY <1>1, <1>5 DEF GivesUp
  <2>2. {s \in Sockets : bound'[s] = p} = Holds(p)'
    BY <1>1, <1>5 DEF GivesUp
  <2>3. ASSUME NEW q \in Procs \ {p}
        PROVE  {s \in Sockets : bound'[s] = q} = {s \in Sockets : bound[s] = q}
    BY <1>1, <1>5 DEF GivesUp
  <2>4. QED
    BY <1>1, <1>2, <2>1, <2>2, <2>3
<1>6. ASSUME NEW s \in Sockets, Takes(p, s)
      PROVE  /\ bound' \in [Sockets -> Procs \cup {None}]
             /\ \A q \in Procs : {t \in Sockets : bound'[t] = q} = Holds(q)'
  <2>1. bound' = [bound EXCEPT ![s] = p] /\ bound[s] = None
        /\ Holds(p)' = Holds(p) \cup {s}
    BY <1>6 DEF Takes
  <2>2. /\ bound' \in [Sockets -> Procs \cup {None}] /\ bound'[s] = p
        /\ \A t \in Sockets \ {s} : bound'[t] = bound[t]
    BY <1>1, <2>1
  <2>3. {t \in Sockets : bound'[t] = p} = {t \in Sockets : bound[t] = p} \cup {s}
    BY <2>2
  <2>4. ASSUME NEW q \in Procs \ {p}
        PROVE  {t \in Sockets : bound'[t] = q} = {t \in Sockets : bound[t] = q}
    BY <1>1, <2>1, <2>2
  <2>5. QED
    BY <1>1, <1>2, <2>1, <2>2, <2>3, <2>4
<1>7. ASSUME NEW s \in Sockets, GivesBack(p, s)
      PROVE  /\ bound' \in [Sockets -> Procs \cup {None}]
             /\ \A q \in Procs : {t \in Sockets : bound'[t] = q} = Holds(q)'
  <2>1. bound' = [bound EXCEPT ![s] = None] /\ bound[s] = p
        /\ Holds(p)' = Holds(p) \ {s}
    BY <1>1, <1>7 DEF GivesBack
  <2>2. /\ bound' \in [Sockets -> Procs \cup {None}] /\ bound'[s] = None
        /\ \A t \in Sockets \ {s} : bound'[t] = bound[t]
    BY <1>1, <2>1
  <2>3. {t \in Sockets : bound'[t] = p} = {t \in Sockets : bound[t] = p} \ {s}
    BY <1>1, <2>2
  <2>4. ASSUME NEW q \in Procs \ {p}
        PROVE  {t \in Sockets : bound'[t] = q} = {t \in Sockets : bound[t] = q}
    BY <1>1, <2>1, <2>2
  <2>5. QED
    BY <1>1, <1>2, <2>1, <2>2, <2>3, <2>4
<1>8. QED
  BY <1>4, <1>5, <1>6, <1>7, SocketsStep

LEMMA InitServers == Init => ServerInv
<1> SUFFICES ASSUME Init PROVE ServerInv
  OBVIOUS
<1>1. ResolverInv
  BY InitResolver DEF Init
<1>2. TypeOK
  BY <1>1 DEF Init, TypeOK, Stages, ResolverInv
<1>3. \A p \in Procs : PortsSet(p)
  BY DEF Init, PortsSet, Running
<1>4. BothServersOrNeither
  <2>1. ASSUME NEW p \in Procs PROVE {s \in Sockets : bound[s] = p} = Holds(p)
    <3>1. pc[p] = "idle" /\ \A s \in Sockets : bound[s] # p
      BY ServerAssumption DEF Init
    <3>2. QED
      BY <3>1 DEF Holds
  <2>2. QED
    BY <2>1 DEF BothServersOrNeither
<1>5. QED
  BY <1>1, <1>2, <1>3, <1>4 DEF ServerInv

LEMMA ServerInvariant == ServerInv /\ [Next]_vars => ServerInv'
<1> SUFFICES ASSUME ServerInv, [Next]_vars PROVE ServerInv'
  OBVIOUS
<1>1. CASE Next
  <2>1. PICK p \in Procs : ServerStep(p)
    BY <1>1, StepsAre
  <2>2. ResolverInv'
    BY <2>1, ResolverOn
  <2>3. TypeOK'
    BY <2>1, <2>2, StageOn, SocketsOn DEF TypeOK, ResolverInv
  <2>4. ASSUME NEW q \in Procs PROVE PortsSet(q)'
    <3>1. CASE q = p
      BY <2>1, <3>1, StageOn
    <3>2. CASE q # p
      BY <2>1, <3>2, OthersServe DEF ServerInv, PortsSet
    <3>3. QED
      BY <3>1, <3>2
  <2>5. QED
    BY <2>1, <2>2, <2>3, <2>4, SocketsOn DEF ServerInv
<1>2. CASE UNCHANGED vars
  <2>1. UNCHANGED resolverVars /\ pc' = pc /\ proxy' = proxy /\ bound' = bound
    BY <1>2 DEF vars, serverVars
  <2>2. port' = port
    BY <2>1 DEF resolverVars
  <2>3. ResolverInv'
    BY <2>1, ResolverInvariant DEF ServerInv
  <2>4. TypeOK' /\ \A q \in Procs : PortsSet(q)'
    BY <2>1, <2>2, <2>3 DEF ServerInv, TypeOK, ResolverInv, PortsSet
  <2>5. \A q \in Procs : Holds(q)' = Holds(q)
    BY <2>1, <2>2, HoldsSame
  <2>6. BothServersOrNeither'
    BY <2>1, <2>5 DEF ServerInv, BothServersOrNeither
  <2>7. QED
    BY <2>3, <2>4, <2>6 DEF ServerInv
<1>3. QED
  BY <1>1, <1>2

-----------------------------------------------------------------------------

THEOREM ServerInvHolds == Spec => []ServerInv
BY InitServers, ServerInvariant, PTL DEF Spec

\* Whatever commands run, and however they end, the resolver is set up and
\* checked as ResolverSetup says: everything proved of it holds here.
THEOREM CommandsOnlySetUp == Spec => ResolverSpec
<1>1. Init => ResolverInit
  BY DEF Init
<1>2. ServerInv /\ [Next]_vars => [ResolverNext]_resolverVars
  <2>1. SUFFICES ASSUME ServerInv, [Next]_vars PROVE [ResolverNext]_resolverVars
    OBVIOUS
  <2>2. CASE Next
    <3>1. PICK p \in Procs : ServerStep(p)
      BY <2>2, StepsAre
    <3>2. QED
      BY <2>1, <3>1, ResolverOn
  <2>3. CASE UNCHANGED vars
    BY <2>3 DEF vars
  <2>4. QED
    BY <2>1, <2>2, <2>3
<1>3. QED
  BY <1>1, <1>2, ServerInvHolds, PTL DEF Spec, ResolverSpec

\* In particular set-ups and checks that commands make stand for what they
\* report, and those for one port settle, whatever processes and users do.
THEOREM CallsOfCommands ==
    Spec => [](SetupTakesEffect /\ CheckStandsFor /\ AgreeingSetupsSettle)
BY CommandsOnlySetUp, SetupsTakeEffect, ChecksStandFor, AgreeingSetups, PTL

\* Type correctness of the commands of any number of processes.
THEOREM ServerTypes == Spec => []TypeOK
<1>1. ServerInv => TypeOK
  BY DEF ServerInv
<1>2. QED
  BY <1>1, ServerInvHolds, PTL

\* start_command's select!: for any processes, ports and options, a process has
\* the sockets of its stage and no others, and once it has ended none.
THEOREM SocketsOfStages == Spec => []BothServersOrNeither
<1>1. ServerInv => BothServersOrNeither
  BY DEF ServerInv
<1>2. QED
  BY <1>1, ServerInvHolds, PTL
LEMMA SocketsDiffer ==
    \A m, n : /\ Udp(m) # Tcp(n)
              /\ Udp(m) = Udp(n) => m = n
              /\ Tcp(m) = Tcp(n) => m = n
BY DEF Udp, Tcp

\* The select! of start_command: of two starts that want each other's ports, one
\* gets all of its own, however their binds interleave.
THEOREM RacesEnd == Spec => []RacesHaveWinners
<1>1. ServerInv => RacesHaveWinners
  <2>1. SUFFICES ASSUME ServerInv, NEW p \in Procs, NEW q \in Procs, p # q,
                        NEW s \in Tries(p), bound[s] = q,
                        ~(port[p] = proxy[q] /\ proxy[p] = port[q]),
                        NEW t \in Wants(q), bound[t] = p
                 PROVE  FALSE
    BY DEF RacesHaveWinners
  <2>2. /\ PortsSet(p) /\ PortsSet(q)
        /\ \A u \in Sockets : (bound[u] = p <=> u \in Holds(p))
                              /\ (bound[u] = q <=> u \in Holds(q))
    <3>1. /\ {u \in Sockets : bound[u] = p} = Holds(p)
          /\ {u \in Sockets : bound[u] = q} = Holds(q)
      BY <2>1 DEF ServerInv, BothServersOrNeither
    <3>2. QED
      BY <2>1, <3>1 DEF ServerInv
  <2>3. pc[p] \in Starting /\ pc[q] \in Starting
    BY <2>1 DEF Tries, Wants, Starting
  <2>4. port[p] \in Ports /\ proxy[p] \in Ports /\ port[q] \in Ports /\ proxy[q] \in Ports
    BY <2>2, <2>3 DEF PortsSet, Running, Starting
  <2>5. s \in Sockets /\ t \in Sockets
    BY <2>1, <2>4, SocketsAre DEF Tries, Wants
  <2>6. s \in Holds(q) /\ t \in Holds(p)
    BY <2>1, <2>2, <2>5
  <2>7. pc[p] # "udp" /\ pc[q] # "udp"
    BY <2>6 DEF Holds
  <2>8. CASE pc[p] = "tcp"
    <3>1. t = Udp(port[p])
      BY <2>6, <2>8 DEF Holds
    <3>2. t \in {Tcp(port[q]), Tcp(proxy[q])}
      BY <2>1, <2>3, <2>7 DEF Wants, Starting
    <3>3. QED
      BY <3>1, <3>2, SocketsDiffer
  <2>9. CASE pc[p] = "init"
    <3>1. s = Tcp(proxy[p])
      BY <2>1, <2>9 DEF Tries
    <3>2. pc[q] = "init" /\ s \in {Udp(port[q]), Tcp(port[q])}
      BY <2>3, <2>6, <2>7, <3>1, SocketsDiffer DEF Holds, Starting
    <3>3. t = Tcp(proxy[q]) /\ t \in {Udp(port[p]), Tcp(port[p])}
      BY <2>1, <2>6, <2>9, <3>2 DEF Wants, Holds
    <3>4. proxy[p] = port[q] /\ proxy[q] = port[p]
      BY <3>1, <3>2, <3>3, SocketsDiffer
    <3>5. QED
      BY <2>1, <3>4
  <2>10. QED
    BY <2>3, <2>7, <2>8, <2>9 DEF Starting
<1>2. QED
  BY <1>1, ServerInvHolds, PTL

\* setup_resolver_config, the DNS server and the proxy together: where a set-up,
\* or on macOS a check, said so, names lead to the servers of the process.
THEOREM NamesLeadToServers == Spec => []NamesAreServed
<1>1. ServerInv => NamesAreServed
  <2>1. SUFFICES ASSUME ServerInv, NEW p \in Procs, pc[p] = "up", ~meddled[p],
                        step[p] = "done" \/ (step[p] = "true" /\ os = "macos"),
                        NEW s \in Suffixes
                 PROVE  /\ p \in ServersOf(s)
                        /\ os # "windows" => ServersOf(s) = {p}
    BY DEF NamesAreServed
  <2>2. port[p] \in Ports /\ proxy[p] \in Ports
    BY <2>1 DEF ServerInv, PortsSet, Running
  <2>3. /\ port[p] \in Nameservers(s)
        /\ os # "windows" => Nameservers(s) = {port[p]}
    <3>1. Undisturbed(p)
      BY <2>1 DEF ServerInv, ResolverInv
    <3>2. CASE step[p] = "done"
      BY <2>1, <3>1, <3>2 DEF Undisturbed, TookEffect
    <3>3. CASE step[p] = "true" /\ os = "macos"
      <4>1. config[s] = {port[p]} /\ port[p] # Cut
        BY <2>1, <2>2, <3>1, <3>3, ResolverAssumption DEF Undisturbed, Stood
      <4>2. QED
        BY <3>3, <4>1 DEF Nameservers
    <3>4. QED
      BY <2>1, <3>2, <3>3
  <2>4. bound[Udp(port[p])] = p /\ bound[Tcp(proxy[p])] = p
    <3>1. {u \in Sockets : bound[u] = p} = Holds(p)
      BY <2>1 DEF ServerInv, BothServersOrNeither
    <3>2. Udp(port[p]) \in Holds(p) /\ Tcp(proxy[p]) \in Holds(p)
      BY <2>1 DEF Holds
    <3>3. QED
      BY <3>1, <3>2
  <2>5. Answer([suffix |-> s, type |-> "A"]).records = {"127.0.0.1"}
    BY DEF Answer
  <2>6. p \in ServersOf(s)
    BY <2>2, <2>3, <2>4, <2>5, ResolverAssumption DEF ServersOf
  <2>7. ASSUME os # "windows", NEW q \in ServersOf(s) PROVE q = p
    BY <2>3, <2>4, <2>7 DEF ServersOf
  <2>8. QED
    BY <2>6, <2>7
<1>2. QED
  BY <1>1, ServerInvHolds, PTL

-----------------------------------------------------------------------------
(***************************************************************************)
(* A process that is up is a service of NameService.                       *)
(***************************************************************************)

Up == {p \in Procs : pc[p] = "up"}

\* Its two ports.
Pair(p) == [dns |-> port[p], proxy |-> proxy[p]]

Serving == {Pair(p) : p \in Up}

\* A service, and one that is about to come up, share no port with another one,
\* for each has its sockets to itself.
LEMMA PortsDisjoint ==
    ASSUME ServerInv, NEW p \in Procs, pc[p] \in {"init", "up"},
           pc[p] = "init" => bound[Tcp(proxy[p])] = None,
           NEW q \in Up, q # p
    PROVE  Service!Disjoint(Pair(p), Pair(q))
<1>1. /\ {s \in Sockets : bound[s] = p} = Holds(p)
      /\ {s \in Sockets : bound[s] = q} = Holds(q)
      /\ pc[q] = "up" /\ q \in Procs /\ None \notin Procs
  BY ServerAssumption DEF ServerInv, BothServersOrNeither, Up
<1>2. /\ bound[Udp(port[q])] = q /\ bound[Tcp(port[q])] = q
      /\ bound[Tcp(proxy[q])] = q
  <2>1. {Udp(port[q]), Tcp(port[q]), Tcp(proxy[q])} = Holds(q)
    BY <1>1 DEF Holds
  <2>2. QED
    BY <1>1, <2>1
<1>3. /\ bound[Udp(port[p])] = p /\ bound[Tcp(port[p])] = p
      /\ bound[Tcp(proxy[p])] \in {None, p}
  <2>1. CASE pc[p] = "init"
    <3>1. {Udp(port[p]), Tcp(port[p])} = Holds(p)
      BY <2>1 DEF Holds
    <3>2. QED
      BY <1>1, <2>1, <3>1
  <2>2. CASE pc[p] = "up"
    <3>1. {Udp(port[p]), Tcp(port[p]), Tcp(proxy[p])} = Holds(p)
      BY <2>2 DEF Holds
    <3>2. QED
      BY <1>1, <3>1
  <2>3. QED
    BY <2>1, <2>2
<1>4. /\ port[p] # port[q] /\ port[p] # proxy[q]
      /\ proxy[p] # port[q] /\ proxy[p] # proxy[q]
  BY <1>1, <1>2, <1>3
<1>5. QED
  BY <1>4 DEF Service!Disjoint, Pair

LEMMA UpStep ==
    ASSUME ServerInv, NEW p \in Procs, ServerStep(p)
    PROVE  \/ BindHttp(p)
           \/ pc[p] = "up" /\ pc'[p] # "up"
           \/ pc[p] # "up" /\ pc'[p] # "up"
           \/ pc'[p] = pc[p] /\ port'[p] = port[p] /\ proxy'[p] = proxy[p]
<1>1. pc \in [Procs -> Stages]
  BY DEF ServerInv, TypeOK
<1>2. CASE InCall(p)
  BY <1>2, CallKeepsPort DEF InCall, serverVars
<1>3. CASE Begins(p) \/ AnswerYes(p) \/ StatusChecked(p) \/ Ends(p)
  BY <1>1, <1>3 DEF Begins, start_command, setup_command, status_command, AnswerYes,
     StatusChecked, Ends, End, Move
<1>4. CASE Passes(p)
  BY <1>1, <1>4 DEF Passes, ResolverReady, AskUser, AnswerNo, BindUdp, BindTcp,
     ProbeDns, CloseDns, DnsInUse, ProbeProxy, Move
<1>5. QED
  BY <1>2, <1>3, <1>4 DEF ServerStep

LEMMA ServiceStep ==
    ASSUME ServerInv, NEW p \in Procs, ServerStep(p)
    PROVE  \/ Serving' = Serving
           \/ \E s \in Service!Services :
                 \/ /\ s.dns # s.proxy
                    /\ \A t \in Serving : Service!Disjoint(s, t)
                    /\ Serving' = Serving \cup {s}
                 \/ s \in Serving /\ Serving' = Serving \ {s}
<1>1. /\ pc \in [Procs -> Stages] /\ pc' \in [Procs -> Stages] /\ PortsSet(p)
  BY StageOn DEF ServerInv, TypeOK
<1>2. ASSUME NEW q \in Procs \ {p}
      PROVE  (pc'[q] = "up" <=> pc[q] = "up") /\ Pair(q)' = Pair(q)
  BY <1>2, OthersServe DEF Pair
<1> DEFINE Others == {Pair(q) : q \in Up \ {p}}
<1>3. Others = {Pair(q)' : q \in Up' \ {p}}
  BY <1>2 DEF Up
<1>4. /\ Serving = Others \cup IF pc[p] = "up" THEN {Pair(p)} ELSE {}
      /\ Serving' = Others \cup IF pc'[p] = "up" THEN {Pair(p)'} ELSE {}
  BY <1>3 DEF Serving, Up
<1> HIDE DEF Others
<1>5. pc[p] \in {"init", "up"} => Pair(p) \in Service!Services
  BY <1>1 DEF PortsSet, Running, Pair, Service!Services
<1>6. CASE BindHttp(p)
  <2>1. /\ pc[p] = "init" /\ pc'[p] = "up" /\ Pair(p)' = Pair(p)
        /\ bound[Tcp(proxy[p])] = None
    BY <1>1, <1>6 DEF BindHttp, Move, Bind, resolverVars, Pair
  <2>2. \A t \in Serving : Service!Disjoint(Pair(p), t)
    BY <2>1, PortsDisjoint DEF Serving, Up
  <2>3. port[p] # proxy[p]
    <3>1. {s \in Sockets : bound[s] = p} = {Udp(port[p]), Tcp(port[p])}
      BY <2>1 DEF ServerInv, BothServersOrNeither, Holds
    <3>2. QED
      BY <2>1, <3>1, ServerAssumption
  <2>4. Pair(p).dns # Pair(p).proxy
    BY <2>3 DEF Pair
  <2>5. Serving' = Serving \cup {Pair(p)}
    BY <1>4, <2>1
  <2>6. QED
    BY <1>5, <2>1, <2>2, <2>4, <2>5
<1>7. CASE pc[p] = "up" /\ pc'[p] # "up"
  <2>1. Pair(p) \notin Others
    <3>1. SUFFICES ASSUME NEW q \in Up \ {p}, Pair(q) = Pair(p) PROVE FALSE
      BY DEF Others
    <3>2. Service!Disjoint(Pair(p), Pair(q))
      BY <1>7, PortsDisjoint
    <3>3. QED
      BY <3>1, <3>2 DEF Service!Disjoint
  <2>2. Serving' = Serving \ {Pair(p)} /\ Pair(p) \in Serving
    BY <1>4, <1>7, <2>1
  <2>3. QED
    BY <1>5, <1>7, <2>2
<1>8. CASE pc[p] # "up" /\ pc'[p] # "up"
  BY <1>4, <1>8
<1>9. CASE pc'[p] = pc[p] /\ port'[p] = port[p] /\ proxy'[p] = proxy[p]
  <2>1. Pair(p)' = Pair(p)
    BY <1>9 DEF Pair
  <2>2. QED
    BY <1>4, <1>9, <2>1
<1>10. QED
  BY <1>6, <1>7, <1>8, <1>9, UpStep

\* The machine sees pairs of servers that come up together and go down together,
\* and no two of them share a port, whatever else commands do.
THEOREM ServersAreServices == Spec => ImplementsService
<1>1. Init => Service!Init
  <2>1. SUFFICES ASSUME Init PROVE Service!Init
    OBVIOUS
  <2>2. \A p \in Procs : pc[p] # "up"
    BY <2>1 DEF Init
  <2>3. QED
    BY <2>2 DEF Service!Init
<1>2. ServerInv /\ [Next]_vars => [Service!Next]_Serving
  <2>1. SUFFICES ASSUME ServerInv, [Next]_vars PROVE [Service!Next]_Serving
    OBVIOUS
  <2>2. CASE Next
    <3>1. PICK p \in Procs : ServerStep(p)
      BY <2>2, StepsAre
    <3>2. CASE Serving' = Serving
      BY <3>2
    <3>3. ASSUME NEW s \in Service!Services,
                 \/ /\ s.dns # s.proxy
                    /\ \A t \in Serving : Service!Disjoint(s, t)
                    /\ Serving' = Serving \cup {s}
                 \/ s \in Serving /\ Serving' = Serving \ {s}
          PROVE  Service!Next
      BY <3>3 DEF Service!Next, Service!Open, Service!Close, Serving, Up, Pair
    <3>4. QED
      BY <2>1, <3>1, <3>2, <3>3, ServiceStep
  <2>3. CASE UNCHANGED vars
    BY <2>3 DEF vars, serverVars, resolverVars, Serving, Up, Pair
  <2>4. QED
    BY <2>1, <2>2, <2>3
<1>3. ServerInv /\ [Next]_vars =>
         [Service!Next]_{[dns |-> port[p], proxy |-> proxy[p]] :
                            p \in {q \in Procs : pc[q] = "up"}}
  <2>1. Serving = {[dns |-> port[p], proxy |-> proxy[p]] :
                     p \in {q \in Procs : pc[q] = "up"}}
    BY DEF Serving, Up, Pair
  <2>2. Serving' = {[dns |-> port[p], proxy |-> proxy[p]] :
                      p \in {q \in Procs : pc[q] = "up"}}'
    BY DEF Serving, Up, Pair
  <2>3. QED
    BY <1>2, <2>1, <2>2
<1>4. QED
  BY <1>1, <1>3, ServerInvHolds, PTL DEF Spec, ImplementsService, Service!Spec
=============================================================================
