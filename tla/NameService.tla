------------------------------ MODULE NameService ------------------------------
(***************************************************************************)
(* What antns server start is to the machine it runs on: a DNS server and  *)
(* an HTTP proxy that come up and go down together, on ports that nobody   *)
(* shares.                                                                 *)
(***************************************************************************)
CONSTANT Ports

VARIABLE serving  \* the pairs of servers that are up

Services == [dns : Ports, proxy : Ports]

Init == serving = {}

\* DNS listens on UDP and on TCP, so no two of the ports of two services, nor
\* of one, may be the same.
Disjoint(s, t) == {s.dns, s.proxy} \cap {t.dns, t.proxy} = {}

Open(s) ==
    /\ s.dns # s.proxy
    /\ \A t \in serving : Disjoint(s, t)
    /\ serving' = serving \cup {s}

Close(s) ==
    /\ s \in serving
    /\ serving' = serving \ {s}

Next == \E s \in Services : Open(s) \/ Close(s)

Spec == Init /\ [][Next]_serving
=============================================================================
