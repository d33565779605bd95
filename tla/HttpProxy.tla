------------------------------- MODULE HttpProxy -------------------------------
(***************************************************************************)
(* The HTTP proxy (src/src/server/http.rs): one process, one task for each *)
(* connection, and a cache of resolved targets behind a mutex that every   *)
(* task shares.  A request that finds no fresh entry releases the mutex,   *)
(* scans the domain's register, and takes the mutex again to store what it *)
(* found, so other requests, new publications and the clock move in        *)
(* between.                                                                *)
(*                                                                         *)
(* lookup_domain is one step here, the last history call of its scan.  It  *)
(* answers with what the domain says at that moment (AnswersAreCurrent of  *)
(* DomainRegister) or, when it has skipped newer entries because their     *)
(* downloads failed, with an older target; nothing tells the proxy which.  *)
(* A target is identified with the domain that publishes it and the number *)
(* of its publication.                                                     *)
(***************************************************************************)
EXTENDS Naturals, SequencesExt

CONSTANTS
    Connections,  \* each carries one request at a time
    Names,        \* what stands before the suffix of a host
    TtlMinutes,   \* values of --ttl
    Minute,       \* ticks of the clock in a minute
    Word,         \* 2^64: Duration::from_secs takes a u64
    None,
    MaxVersions,  \* bound: targets each domain publishes
    MaxClock      \* bound: reading of the clock

Hosts   == [name : Names, suffix : {"ant", "autonomi", "antns.net", "other"}]
Domains == [name : Names, suffix : {"ant", "autonomi"}]

ASSUME ProxyAssumption ==
    /\ TtlMinutes \subseteq Nat
    /\ Minute \in Nat \ {0} /\ Word \in Nat \ {0}
    /\ MaxVersions \in [Domains -> Nat]
    /\ MaxClock \in Nat

VARIABLES
    published,  \* for each domain, how many targets it has published
    clock,      \* SystemTime::now()
    cache_ttl,  \* in ticks; 0 disables the cache
    cache,      \* the HashMap of CachedLookup, None where it has no entry
    filled,     \* history: how each entry came about
    queue,      \* tasks at the mutex in the order they came; the head holds it
    pc,         \* where each connection's request stands
    job         \* the request, and what it resolved to

vars == <<published, clock, cache_ttl, cache, filled, queue, pc, job>>

World == <<published, clock, cache_ttl>>

Targets == [domain : Domains, version : Nat \ {0}]

Stages == {"idle", "check", "lookup", "store", "upstream"}

\* History variables: floor is the version the domain had when the request came
\* that asked the network for the target, and missed is true when that lookup
\* has skipped the current target.
NoJob == [domain |-> None, target |-> None, floor |-> 0, missed |-> FALSE]

Jobs == [domain : Domains \cup {None}, target : Targets \cup {None},
         floor : Nat, missed : BOOLEAN]

Origins == [floor : Nat, missed : BOOLEAN, at : Nat]

TypeOK ==
    /\ published \in [Domains -> Nat]
    /\ clock \in Nat
    /\ cache_ttl \in Nat
    /\ cache \in [Domains -> [target : Targets, timestamp : Nat] \cup {None}]
    /\ filled \in [Domains -> Origins]
    /\ queue \in Seq(Connections)
    /\ pc \in [Connections -> Stages]
    /\ job \in [Connections -> Jobs]

\* run: the product wraps in a release build.
Init ==
    /\ published = [dom \in Domains |-> 0]
    /\ clock = 0
    /\ cache_ttl \in {(m * Minute) % Word : m \in TtlMinutes}
    /\ cache = [dom \in Domains |-> None]
    /\ filled = [dom \in Domains |-> [floor |-> 0, missed |-> FALSE, at |-> 0]]
    /\ queue = <<>>
    /\ pc = [c \in Connections |-> "idle"]
    /\ job = [c \in Connections |-> NoJob]

-----------------------------------------------------------------------------

Supported(host) == host.suffix # "other"

\* The name to look up: .antns.net stands for .ant.
lookup_domain(host) ==
    [host EXCEPT !.suffix = IF @ = "antns.net" THEN "ant" ELSE @]

\* A request comes in; anything but a supported host is a 400 at once.
Accept(c) ==
    /\ pc[c] = "idle"
    /\ \E host \in Hosts :
          /\ Supported(host)
          /\ LET dom == lookup_domain(host)
             IN  job' = [job EXCEPT ![c] =
                    [NoJob EXCEPT !.domain = dom, !.floor = published[dom]]]
    /\ IF cache_ttl > 0
       THEN /\ pc' = [pc EXCEPT ![c] = "check"]
            /\ queue' = Append(queue, c)
       ELSE /\ pc' = [pc EXCEPT ![c] = "lookup"]
            /\ UNCHANGED queue
    /\ UNCHANGED <<World, cache, filled>>

HoldsLock(c) == queue # <<>> /\ Head(queue) = c

\* Mutant of Fresh: an entry from the future is taken for a new one.
FreshUntil(dom) ==
    /\ cache[dom] # None
    /\ clock < cache[dom].timestamp + cache_ttl

\* An entry whose timestamp lies ahead of the clock has an infinite age.
Fresh(dom) ==
    /\ cache[dom] # None
    /\ cache[dom].timestamp <= clock
    /\ clock - cache[dom].timestamp < cache_ttl

\* Mutant of CacheHit: every hit renews the entry.
CacheHitRenews(c) ==
    LET dom == job[c].domain
    IN  /\ pc[c] = "check"
        /\ HoldsLock(c)
        /\ Fresh(dom)
        /\ job' = [job EXCEPT ![c].target = cache[dom].target,
                              ![c].floor = filled[dom].floor,
                              ![c].missed = filled[dom].missed]
        /\ cache' = [cache EXCEPT ![dom].timestamp = clock]
        /\ queue' = Tail(queue)
        /\ pc' = [pc EXCEPT ![c] = "upstream"]
        /\ UNCHANGED <<World, filled>>

CacheHit(c) ==
    LET dom == job[c].domain
    IN  /\ pc[c] = "check"
        /\ HoldsLock(c)
        /\ Fresh(dom)
        /\ job' = [job EXCEPT ![c].target = cache[dom].target,
                              ![c].floor = filled[dom].floor,
                              ![c].missed = filled[dom].missed]
        /\ queue' = Tail(queue)
        /\ pc' = [pc EXCEPT ![c] = "upstream"]
        /\ UNCHANGED <<World, cache, filled>>

\* Mutant of CacheMiss: the guard lives on through the lookup.
CacheMissLocked(c) ==
    LET dom == job[c].domain
    IN  /\ pc[c] = "check"
        /\ HoldsLock(c)
        /\ ~Fresh(dom)
        /\ pc' = [pc EXCEPT ![c] = "lookup"]
        /\ UNCHANGED <<World, cache, filled, queue, job>>

\* drop(cache) before lookup_and_cache, for the mutex is not reentrant.
CacheMiss(c) ==
    LET dom == job[c].domain
    IN  /\ pc[c] = "check"
        /\ HoldsLock(c)
        /\ ~Fresh(dom)
        /\ queue' = Tail(queue)
        /\ pc' = [pc EXCEPT ![c] = "lookup"]
        /\ UNCHANGED <<World, cache, filled, job>>

\* lookup_domain answers, with an older target if the newer ones could not be
\* downloaded; with the cache on, the task lines up to store the answer.
LookupAnswers(c) ==
    LET dom == job[c].domain
    IN  /\ pc[c] = "lookup"
        /\ \E v \in 1..published[dom] :
              job' = [job EXCEPT ![c].target = [domain |-> dom, version |-> v],
                                 ![c].missed = v # published[dom]]
        /\ IF cache_ttl > 0
           THEN /\ pc' = [pc EXCEPT ![c] = "store"]
                /\ queue' = Append(queue, c)
           ELSE /\ pc' = [pc EXCEPT ![c] = "upstream"]
                /\ UNCHANGED queue
        /\ UNCHANGED <<World, cache, filled>>

Close(c) ==
    /\ pc' = [pc EXCEPT ![c] = "idle"]
    /\ job' = [job EXCEPT ![c] = NoJob]
    /\ UNCHANGED <<World, cache, filled>>

\* Mutant of LookupFails: the failure is cached like an answer.
LookupFailsCached(c) ==
    LET dom == job[c].domain
    IN  /\ pc[c] = "lookup"
        /\ cache' = [cache EXCEPT ![dom] = [target |-> None, timestamp |-> clock]]
        /\ pc' = [pc EXCEPT ![c] = "idle"]
        /\ job' = [job EXCEPT ![c] = NoJob]
        /\ UNCHANGED <<World, filled, queue>>

\* No such domain, no target, or no network: a 404, whatever the cache holds.
LookupFails(c) ==
    /\ pc[c] = "lookup"
    /\ Close(c)
    /\ UNCHANGED queue

\* Mutant of Store: the cache is keyed by the name without its suffix.
StoreWithoutSuffix(c) ==
    LET dom == [job[c].domain EXCEPT !.suffix = "ant"]
    IN  /\ pc[c] = "store"
        /\ HoldsLock(c)
        /\ cache' = [cache EXCEPT ![dom] =
              [target |-> job[c].target, timestamp |-> clock]]
        /\ filled' = [filled EXCEPT ![dom] =
              [floor |-> job[c].floor, missed |-> job[c].missed, at |-> clock]]
        /\ queue' = Tail(queue)
        /\ pc' = [pc EXCEPT ![c] = "upstream"]
        /\ UNCHANGED <<World, job>>

\* The insert replaces whatever another request has stored in the meantime,
\* and its timestamp is that of the insert.
Store(c) ==
    LET dom == job[c].domain
    IN  /\ pc[c] = "store"
        /\ HoldsLock(c)
        /\ cache' = [cache EXCEPT ![dom] =
              [target |-> job[c].target, timestamp |-> clock]]
        /\ filled' = [filled EXCEPT ![dom] =
              [floor |-> job[c].floor, missed |-> job[c].missed, at |-> clock]]
        /\ queue' = Tail(queue)
        /\ pc' = [pc EXCEPT ![c] = "upstream"]
        /\ UNCHANGED <<World, job>>

\* The upstream server's answer, a 502 in its place, or a 500 when the target
\* makes no URL.  The statuses are left out: no later step depends on them.
Respond(c) ==
    /\ pc[c] = "upstream"
    /\ Close(c)
    /\ UNCHANGED queue

\* A future that waits for the mutex, or has it, gives up its turn.
LeaveQueue(c) ==
    \/ /\ \A i \in 1..Len(queue) : queue[i] # c
       /\ UNCHANGED queue
    \/ \E i \in 1..Len(queue) :
          /\ queue[i] = c
          /\ queue' = RemoveAt(queue, i)

\* The client goes away: the connection's future is dropped where it stands.
Disconnect(c) ==
    /\ pc[c] # "idle"
    /\ LeaveQueue(c)
    /\ Close(c)

-----------------------------------------------------------------------------
(***************************************************************************)
(* The world outside: domains change, time passes, clocks are set back.    *)
(***************************************************************************)

Publish ==
    \E dom \in Domains :
        /\ published[dom] < MaxVersions[dom]
        /\ published' = [published EXCEPT ![dom] = @ + 1]
        /\ UNCHANGED <<clock, cache_ttl, cache, filled, queue, pc, job>>

Tick ==
    /\ clock < MaxClock
    /\ clock' = clock + 1
    /\ UNCHANGED <<published, cache_ttl, cache, filled, queue, pc, job>>

SetBack ==
    /\ clock' \in 0..clock
    /\ UNCHANGED <<published, cache_ttl, cache, filled, queue, pc, job>>

\* The steps a request takes until it knows its target, or that it has none.
Resolve(c) ==
    \/ CacheHit(c) \/ CacheMiss(c) \/ LookupAnswers(c) \/ LookupFails(c)
    \/ Store(c)

Next ==
    \/ \E c \in Connections :
          Accept(c) \/ Resolve(c) \/ Respond(c) \/ Disconnect(c)
    \/ Publish \/ Tick \/ SetBack

Spec == Init /\ [][Next]_vars

\* tokio runs every task that can go on and hands the mutex out in order, and
\* every network call returns.  Nothing makes an upstream server answer: the
\* proxy sets no timeout.
FairSpec == Spec /\ \A c \in Connections : WF_vars(Resolve(c))

-----------------------------------------------------------------------------

\* A request is never handed, and the cache never holds, a target of another
\* domain or one that its domain has not published.  Unless the lookup behind it
\* has missed an entry that could not be downloaded, that target was moreover
\* current at some time since the request came that asked the network for it,
\* whichever of two overlapping lookups stored its answer last.
Backed(dom, target, floor, missed) ==
    /\ target.domain = dom
    /\ target.version \in 1..published[dom]
    /\ missed \/ floor <= target.version

AnswersBelong ==
    /\ \A c \in Connections : pc[c] \in {"store", "upstream"} =>
          Backed(job[c].domain, job[c].target, job[c].floor, job[c].missed)
    /\ \A dom \in Domains : cache[dom] # None =>
          Backed(dom, cache[dom].target, filled[dom].floor, filled[dom].missed)

\* The mutex belongs to the request at the head of the queue, and what queues
\* there is every request that is about to read or fill the cache, once each,
\* and nothing else: a task that scans a register, hangs upstream or has lost
\* its client neither holds the mutex nor is ever handed it.
OnlyWaitersQueue ==
    /\ \A i, j \in 1..Len(queue) : queue[i] = queue[j] => i = j
    /\ \A c \in Connections :
          pc[c] \in {"check", "store"} <=> \E i \in 1..Len(queue) : queue[i] = c

\* "Returns cached result if less than TTL old": an answer is served from the
\* cache for cache_ttl after it was stored and no longer, however often it is
\* served, and never while the clock stands before the moment it was stored.
HitsAreFresh ==
    [][\A c \in Connections :
        pc[c] = "check" /\ pc'[c] = "upstream" =>
            LET at == filled[job[c].domain].at
            IN  at <= clock /\ clock < at + cache_ttl]_vars

\* A request gets its target or its 404 although other requests hang upstream,
\* go away in the queue or wait for the network: nobody keeps the mutex.
RequestsResolve ==
    \A c \in Connections :
        pc[c] \in {"check", "lookup", "store"} ~> pc[c] \in {"upstream", "idle"}
=============================================================================
