---------------------------- MODULE ServerLifecycle ----------------------------
(***************************************************************************)
(* antns server start, setup and status (src/src/cli/server.rs), the DNS   *)
(* server (src/src/server/dns.rs) and the start of the HTTP proxy          *)
(* (src/src/server/http.rs) on one machine: processes that configure the   *)
(* resolver, bind sockets of 127.0.0.1 and stop, while the user answers    *)
(* prompts and interrupts them.  Calls of the resolver set-up are those of *)
(* ResolverSetup, step by step.  What the proxy does with a request is the *)
(* subject of HttpProxy.                                                   *)
(*                                                                         *)
(* start_command runs both servers as branches of one select!: the first   *)
(* one to end takes the other one with it.  run_dns binds its two sockets  *)
(* without giving up the thread, and run_http binds only after it has been *)
(* on the network, so the DNS sockets always come first.                   *)
(***************************************************************************)
EXTENDS ResolverSetup

CONSTANTS
    Options,    \* pairs of --dns-port and --proxy-port
    DnsPort,    \* what status_command takes them to be
    ProxyPort

ASSUME ServerAssumption ==
    /\ Options \subseteq Ports \X Ports
    /\ DnsPort \in Ports /\ ProxyPort \in Ports
    /\ None \notin Procs

VARIABLES
    pc,     \* where each process stands
    proxy,  \* its --proxy-port
    bound   \* for each socket, who has it

serverVars == <<pc, proxy, bound>>
vars == <<resolverVars, serverVars>>

Sockets == {"udp", "tcp"} \X Ports

Udp(n) == <<"udp", n>>
Tcp(n) == <<"tcp", n>>

Stages == {"idle", "config", "prompt", "setup", "udp", "tcp", "init",
           "up", "setup_only", "status", "probe_dns", "close_dns",
           "probe_proxy", "close_proxy"}

Starting == {"udp", "tcp", "init"}

TypeOK ==
    /\ ResolverTypeOK
    /\ pc \in [Procs -> Stages]
    /\ proxy \in [Procs -> Ports \cup {None}]
    /\ bound \in [Sockets -> Procs \cup {None}]

Init ==
    /\ ResolverInit
    /\ pc = [p \in Procs |-> "idle"]
    /\ proxy = [p \in Procs |-> None]
    /\ bound = [s \in Sockets |-> None]

-----------------------------------------------------------------------------

Move(p, from, to) == pc[p] = from /\ pc' = [pc EXCEPT ![p] = to]

\* A process ends, whatever it returns: the system closes its sockets.
End(p) ==
    /\ pc' = [pc EXCEPT ![p] = "idle"]
    /\ proxy' = [proxy EXCEPT ![p] = None]
    /\ bound' = [s \in Sockets |-> IF bound[s] = p THEN None ELSE bound[s]]
    /\ Leave(p)

start_command(p) ==
    \E option \in Options :
        /\ Move(p, "idle", "config")
        /\ proxy' = [proxy EXCEPT ![p] = option[2]]
        /\ check_resolver_config(p, option[1])
        /\ UNCHANGED bound

setup_command(p) ==
    \E option \in Options :
        /\ Move(p, "idle", "setup_only")
        /\ setup_resolver_config(p, option[1])
        /\ UNCHANGED <<proxy, bound>>

status_command(p) ==
    /\ Move(p, "idle", "status")
    /\ check_resolver_config(p, DnsPort)
    /\ UNCHANGED <<proxy, bound>>

\* A process inside check_resolver_config or setup_resolver_config.
InCall(p) ==
    /\ Check(p) \/ Setup(p)
    /\ UNCHANGED serverVars

\* start_command has its answer and goes on to the servers ...
ResolverReady(p) ==
    /\ \/ Move(p, "config", "udp") /\ step[p] = "true"
       \/ Move(p, "setup", "udp") /\ step[p] = "done"
    /\ UNCHANGED <<resolverVars, proxy, bound>>

\* ... or asks whether to set it up.
AskUser(p) ==
    /\ Move(p, "config", "prompt")
    /\ step[p] = "false"
    /\ UNCHANGED <<resolverVars, proxy, bound>>

AnswerYes(p) ==
    /\ Move(p, "prompt", "setup")
    /\ setup_resolver_config(p, port[p])
    /\ UNCHANGED <<proxy, bound>>

AnswerNo(p) ==
    /\ Move(p, "prompt", "udp")
    /\ UNCHANGED <<resolverVars, proxy, bound>>

\* An error of the call, of start, setup or status, is the command's error.
CallFails(p) ==
    /\ pc[p] \in {"config", "setup", "setup_only", "status"}
    /\ step[p] = "failed"
    /\ End(p)

SetupOnlyDone(p) ==
    /\ pc[p] = "setup_only"
    /\ step[p] = "done"
    /\ End(p)

-----------------------------------------------------------------------------
(***************************************************************************)
(* The two servers.                                                        *)
(***************************************************************************)

Bind(p, s) ==
    /\ bound[s] = None
    /\ bound' = [bound EXCEPT ![s] = p]
    /\ UNCHANGED <<resolverVars, proxy>>

\* Mutant of BindUdp: the proxy binds before it goes to the network, and
\* select! may poll it first.
BindEither(p) ==
    \/ Move(p, "udp", "tcp") /\ Bind(p, Udp(port[p]))
    \/ pc[p] = "udp" /\ Bind(p, Tcp(proxy[p])) /\ UNCHANGED pc

\* dns::run binds UDP, then TCP.
BindUdp(p) == Move(p, "udp", "tcp") /\ Bind(p, Udp(port[p]))

BindTcp(p) == Move(p, "tcp", "init") /\ Bind(p, Tcp(port[p]))

\* Mutant of BindHttp: a port may be shared.
ShareHttp(p) ==
    /\ Move(p, "init", "up")
    /\ bound' = [bound EXCEPT ![Tcp(proxy[p])] = p]
    /\ UNCHANGED <<resolverVars, proxy>>

\* http::run: once Client::init has been on the network.
BindHttp(p) == Move(p, "init", "up") /\ Bind(p, Tcp(proxy[p]))

\* A bind is refused, because the socket is taken or the user may not have it,
\* or Client::init fails: select! drops the other server too, and the command
\* prints that the servers have stopped and returns Ok.
StartupFails(p) ==
    /\ pc[p] \in Starting
    /\ End(p)

\* Mutant of ServerFails: the proxy is awaited on its own.
DnsFailsAlone(p) ==
    /\ pc[p] = "up"
    /\ bound' = [bound EXCEPT ![Udp(port[p])] = None, ![Tcp(port[p])] = None]
    /\ UNCHANGED <<resolverVars, pc, proxy>>

\* A server that has been running returns: the same.
ServerFails(p) == pc[p] = "up" /\ End(p)

\* Ctrl-C, or a signal: once both servers run it is one of the branches of the
\* select!, before that it ends the process where it stands.
Interrupt(p) == pc[p] # "idle" /\ End(p)

-----------------------------------------------------------------------------
(***************************************************************************)
(* status_command: check_port_in_use binds the port and drops the listener *)
(* again; a bind that fails, for whatever reason, means "in use".          *)
(***************************************************************************)

StatusChecked(p) ==
    /\ Move(p, "status", "probe_dns")
    /\ step[p] \in {"true", "false"}
    /\ Leave(p)
    /\ UNCHANGED <<proxy, bound>>

Release(s) ==
    /\ bound' = [bound EXCEPT ![s] = None]
    /\ UNCHANGED <<resolverVars, proxy>>

ProbeDns(p) == Move(p, "probe_dns", "close_dns") /\ Bind(p, Tcp(DnsPort))

CloseDns(p) == Move(p, "close_dns", "probe_proxy") /\ Release(Tcp(DnsPort))

DnsInUse(p) ==
    /\ Move(p, "probe_dns", "probe_proxy")
    /\ UNCHANGED <<resolverVars, proxy, bound>>

ProbeProxy(p) ==
    Move(p, "probe_proxy", "close_proxy") /\ Bind(p, Tcp(ProxyPort))

StatusEnds(p) == pc[p] \in {"probe_proxy", "close_proxy"} /\ End(p)

-----------------------------------------------------------------------------

Launch(p) ==
    BindUdp(p) \/ BindTcp(p) \/ BindHttp(p) \/ StartupFails(p)

Status(p) ==
    \/ StatusChecked(p) \/ ProbeDns(p) \/ CloseDns(p) \/ DnsInUse(p)
    \/ ProbeProxy(p) \/ StatusEnds(p)

Next ==
    \E p \in Procs :
        \/ start_command(p) \/ setup_command(p) \/ status_command(p)
        \/ InCall(p) \/ ResolverReady(p) \/ AskUser(p)
        \/ AnswerYes(p) \/ AnswerNo(p) \/ CallFails(p) \/ SetupOnlyDone(p)
        \/ Launch(p) \/ ServerFails(p) \/ Status(p) \/ Interrupt(p)

Spec == Init /\ [][Next]_vars

-----------------------------------------------------------------------------

\* The sockets a process has at each of its stages: both servers have theirs
\* or, once the process has ended, neither, and no socket is left behind by any
\* end of any command.
Holds(p) ==
    CASE pc[p] = "tcp" -> {Udp(port[p])}
      [] pc[p] = "init" -> {Udp(port[p]), Tcp(port[p])}
      [] pc[p] = "up" -> {Udp(port[p]), Tcp(port[p]), Tcp(proxy[p])}
      [] pc[p] = "close_dns" -> {Tcp(DnsPort)}
      [] pc[p] = "close_proxy" -> {Tcp(ProxyPort)}
      [] OTHER -> {}

BothServersOrNeither ==
    \A p \in Procs : {s \in Sockets : bound[s] = p} = Holds(p)

\* "Start both servers concurrently": they come up together, they go down
\* together, and no two services share a port.
Service == INSTANCE NameService WITH
    serving <- {[dns |-> port[p], proxy |-> proxy[p]] :
                    p \in {q \in Procs : pc[q] = "up"}}

ImplementsService == Service!Spec

\* Mutant of Answer: one suffix is left out.
AnswerAnt(query) ==
    IF query.suffix = "ant"
    THEN [code |-> "NoError",
          records |-> IF query.type = "A" THEN {"127.0.0.1"} ELSE {}]
    ELSE [code |-> "NXDomain", records |-> {}]

\* AntDnsHandler::handle_request: the address of the proxy for the A queries
\* of the two suffixes, no records for their other types.
Answer(query) ==
    IF query.suffix \in Suffixes
    THEN [code |-> "NoError",
          records |-> IF query.type = "A" THEN {"127.0.0.1"} ELSE {}]
    ELSE [code |-> "NXDomain", records |-> {}]

\* The processes that a URL of a name under s leads to: those whose DNS server
\* the system asks and whose answer leads to the port of their own proxy.  The
\* URL carries that port; without one a browser takes port 80, the default of
\* --proxy-port.
ServersOf(s) ==
    {p \in Procs :
        /\ \E n \in Nameservers(s) : bound[Udp(n)] = p
        /\ Answer([suffix |-> s, type |-> "A"]).records = {"127.0.0.1"}
        /\ proxy[p] # None /\ bound[Tcp(proxy[p])] = p}

\* Where a set-up, or on macOS a check, said that names will resolve and nobody
\* has changed the configuration since, URLs of these names with the port of the
\* proxy lead to the servers that are up, and but for older rules on Windows to
\* no others.
NamesAreServed ==
    \A p \in Procs :
        pc[p] = "up" /\ ~meddled[p]
            /\ (step[p] = "done" \/ (step[p] = "true" /\ os = "macos")) =>
        \A s \in Suffixes :
            /\ p \in ServersOf(s)
            /\ os # "windows" => ServersOf(s) = {p}

\* The sockets a start has yet to bind.
Wants(p) ==
    CASE pc[p] = "udp" -> {Udp(port[p]), Tcp(port[p]), Tcp(proxy[p])}
      [] pc[p] = "tcp" -> {Tcp(port[p]), Tcp(proxy[p])}
      [] pc[p] = "init" -> {Tcp(proxy[p])}
      [] OTHER -> {}

\* The socket a start tries to bind next.
Tries(p) ==
    CASE pc[p] = "udp" -> {Udp(port[p])}
      [] pc[p] = "tcp" -> {Tcp(port[p])}
      [] pc[p] = "init" -> {Tcp(proxy[p])}
      [] OTHER -> {}

\* Two starts never put each other down: one that finds its socket taken by
\* another has none that the other still wants.  The exception is a start
\* whose --dns-port is the other's --proxy-port and the other way round.
RacesHaveWinners ==
    \A p, q \in Procs :
        /\ p # q
        /\ \E s \in Tries(p) : bound[s] = q
        /\ ~(port[p] = proxy[q] /\ proxy[p] = port[q])
        => \A s \in Wants(q) : bound[s] # p
=============================================================================
