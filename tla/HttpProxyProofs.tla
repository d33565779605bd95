---------------------------- MODULE HttpProxyProofs ----------------------------
(***************************************************************************)
(* AnswersBelong and HitsAreFresh for any number of connections, domains,  *)
(* publications and ticks.  AnswersBelong is not inductive by itself: a    *)
(* request on its way to the network must be known to have come no later   *)
(* than the domain's present version (Asked), and an entry's timestamp     *)
(* must be the moment it was filled (Stamped).  The mutex plays no part:   *)
(* both hold for any order in which the tasks reach the cache.             *)
(***************************************************************************)
EXTENDS HttpProxy, SequenceTheorems, TLAPS

Entries == [target : Targets, timestamp : Nat]

Typed ==
    /\ published \in [Domains -> Nat]
    /\ clock \in Nat
    /\ cache_ttl \in Nat
    /\ cache \in [Domains -> Entries \cup {None}]
    /\ filled \in [Domains -> Origins]
    /\ pc \in [Connections -> Stages]
    /\ job \in [Connections -> Jobs]

Asked ==
    \A c \in Connections : pc[c] # "idle" =>
        /\ job[c].domain \in Domains
        /\ pc[c] \in {"check", "lookup"} =>
              job[c].floor <= published[job[c].domain]
        /\ pc[c] \in {"store", "upstream"} => job[c].target \in Targets

Stamped ==
    \A dom \in Domains : cache[dom] # None =>
        cache[dom].timestamp = filled[dom].at

ProxyInv == Typed /\ Asked /\ Stamped /\ AnswersBelong

\* One connection's share of the invariant.
Request(c) ==
    /\ pc[c] \in Stages
    /\ job[c] \in Jobs
    /\ pc[c] # "idle" =>
          /\ job[c].domain \in Domains
          /\ pc[c] \in {"check", "lookup"} =>
                job[c].floor <= published[job[c].domain]
    /\ pc[c] \in {"store", "upstream"} =>
          /\ job[c].target \in Targets
          /\ Backed(job[c].domain, job[c].target, job[c].floor, job[c].missed)

\* One cache entry's share.
Entry(dom) ==
    cache[dom] # None =>
        /\ cache[dom].timestamp = filled[dom].at
        /\ Backed(dom, cache[dom].target, filled[dom].floor, filled[dom].missed)

LEMMA Shares ==
    ProxyInv <=> /\ Typed
                 /\ \A c \in Connections : Request(c)
                 /\ \A dom \in Domains : Entry(dom)
BY DEF ProxyInv, Typed, Asked, Stamped, AnswersBelong, Request, Entry

LEMMA SharesNext ==
    ASSUME Typed', \A c \in Connections : Request(c)',
           \A dom \in Domains : Entry(dom)'
    PROVE  ProxyInv'
BY DEF ProxyInv, Typed, Asked, Stamped, AnswersBelong, Request, Entry

LEMMA InitProxy == Init => ProxyInv
<1> SUFFICES ASSUME Init PROVE ProxyInv
  OBVIOUS
<1>1. cache_ttl \in Nat
  BY ProxyAssumption DEF Init
<1>2. NoJob \in Jobs
  BY DEF NoJob, Jobs
<1>3. Typed
  BY <1>1, <1>2 DEF Init, Typed, Stages, Origins
<1>4. Asked /\ Stamped /\ AnswersBelong
  BY DEF Init, Asked, Stamped, AnswersBelong
<1>5. QED
  BY <1>3, <1>4 DEF ProxyInv

\* The other connections keep their share, for versions only grow.
LEMMA OthersKeep ==
    ASSUME NEW c \in Connections, Typed, Request(c),
           pc'[c] = pc[c], job'[c] = job[c],
           published' \in [Domains -> Nat],
           \A dom \in Domains : published[dom] <= published'[dom]
    PROVE  Request(c)'
<1>1. CASE pc[c] \in {"store", "upstream"}
  <2>1. job[c].target.version \in Nat
    BY <1>1 DEF Targets, Request
  <2>2. QED
    BY <1>1, <2>1 DEF Request, Backed, Stages, Typed
<1>2. CASE pc[c] \in {"check", "lookup"}
  <2>1. job[c].floor \in Nat /\ job[c].domain \in Domains
    BY <1>2 DEF Request, Jobs
  <2>2. QED
    BY <1>2, <2>1 DEF Request, Typed
<1>3. CASE pc[c] = "idle"
  BY <1>3 DEF Request
<1>4. QED
  BY <1>1, <1>2, <1>3 DEF Typed, Stages

\* What a step of connection c leaves alone, and that it keeps the types.
LEMMA StepTypes ==
    ASSUME ProxyInv, NEW c \in Connections,
           Accept(c) \/ Resolve(c) \/ Respond(c) \/ Disconnect(c)
    PROVE  /\ Typed'
           /\ published' = published
           /\ \A x \in Connections \ {c} : pc'[x] = pc[x] /\ job'[x] = job[x]
<1> USE DEF ProxyInv, Typed
<1>0. NoJob \in Jobs
  BY DEF NoJob, Jobs
<1>1. CASE Accept(c)
  <2>1. PICK host \in Hosts :
           /\ Supported(host)
           /\ job' = [job EXCEPT ![c] =
                 [NoJob EXCEPT !.domain = lookup_domain(host),
                               !.floor = published[lookup_domain(host)]]]
    BY <1>1 DEF Accept
  <2>2. lookup_domain(host) \in Domains
    BY <2>1 DEF Hosts, Supported, lookup_domain, Domains
  <2>3. published[lookup_domain(host)] \in Nat
    BY <2>2
  <2>4. [NoJob EXCEPT !.domain = lookup_domain(host),
                      !.floor = published[lookup_domain(host)]] \in Jobs
    BY <2>2, <2>3 DEF NoJob, Jobs
  <2>5. job' \in [Connections -> Jobs]
    BY <2>1, <2>4
  <2>6. pc' \in [Connections -> Stages]
    BY <1>1 DEF Accept, Stages
  <2>7. QED
    BY <1>1, <2>1, <2>5, <2>6 DEF Accept, World
<1>2. CASE CacheHit(c)
  <2> DEFINE dom == job[c].domain
  <2>1. dom \in Domains /\ cache[dom] \in Entries
    BY <1>2 DEF CacheHit, Fresh, Asked
  <2>2. /\ cache[dom].target \in Targets /\ filled[dom].floor \in Nat
        /\ filled[dom].missed \in BOOLEAN
    BY <2>1 DEF Entries, Origins
  <2>3. [job[c] EXCEPT !.target = cache[dom].target,
                       !.floor = filled[dom].floor,
                       !.missed = filled[dom].missed] \in Jobs
    BY <2>2 DEF Jobs
  <2>4. job' \in [Connections -> Jobs]
    BY <1>2, <2>3 DEF CacheHit
  <2>5. QED
    BY <1>2, <2>4 DEF CacheHit, World, Stages
<1>3. CASE CacheMiss(c)
  BY <1>3 DEF CacheMiss, World, Stages
<1>4. CASE LookupAnswers(c)
  <2> DEFINE dom == job[c].domain
  <2>1. dom \in Domains /\ published[dom] \in Nat
    BY <1>4 DEF LookupAnswers, Asked
  <2>2. PICK v \in 1..published[dom] :
           job' = [job EXCEPT ![c].target = [domain |-> dom, version |-> v],
                              ![c].missed = v # published[dom]]
    BY <1>4 DEF LookupAnswers
  <2>3. [domain |-> dom, version |-> v] \in Targets
    BY <2>1, <2>2 DEF Targets
  <2>4. \A t \in Targets, b \in BOOLEAN :
           [job[c] EXCEPT !.target = t, !.missed = b] \in Jobs
    BY DEF Jobs
  <2>5. [job[c] EXCEPT !.target = [domain |-> dom, version |-> v],
                       !.missed = v # published[dom]] \in Jobs
    BY <2>3, <2>4
  <2>6. job' \in [Connections -> Jobs]
    BY <2>2, <2>5
  <2>7. QED
    BY <1>4, <2>6 DEF LookupAnswers, World, Stages
<1>5. CASE LookupFails(c) \/ Respond(c) \/ Disconnect(c)
  BY <1>0, <1>5 DEF LookupFails, Respond, Disconnect, Close, World, Stages
<1>6. CASE Store(c)
  <2> DEFINE dom == job[c].domain
  <2>1. dom \in Domains
    BY <1>6 DEF Store, Asked
  <2>3. job[c].target \in Targets
    BY <1>6 DEF Store, Asked
  <2>4. [target |-> job[c].target, timestamp |-> clock] \in Entries
    BY <2>3 DEF Entries
  <2>5. job[c].floor \in Nat /\ job[c].missed \in BOOLEAN
    BY DEF Jobs
  <2>6. [floor |-> job[c].floor, missed |-> job[c].missed, at |-> clock]
          \in Origins
    BY <2>5 DEF Origins
  <2>7. QED
    BY <1>6, <2>4, <2>6 DEF Store, World, Stages
<1>7. QED
  BY <1>1, <1>2, <1>3, <1>4, <1>5, <1>6 DEF Resolve

\* A step of connection c leaves its own share of the invariant intact.
LEMMA OwnShare ==
    ASSUME ProxyInv, NEW c \in Connections,
           Accept(c) \/ Resolve(c) \/ Respond(c) \/ Disconnect(c)
    PROVE  Request(c)'
<1>0. Typed' /\ published' = published /\ Request(c)
  BY StepTypes, Shares
<1>t. pc \in [Connections -> Stages] /\ job \in [Connections -> Jobs]
  BY DEF ProxyInv, Typed
<1>p. pc'[c] \in Stages /\ job'[c] \in Jobs
  BY <1>0 DEF Typed
<1>1. CASE Accept(c)
  <2>1. PICK host \in Hosts :
           /\ Supported(host)
           /\ job' = [job EXCEPT ![c] =
                 [NoJob EXCEPT !.domain = lookup_domain(host),
                               !.floor = published[lookup_domain(host)]]]
    BY <1>1 DEF Accept
  <2>2. lookup_domain(host) \in Domains
    BY <2>1 DEF Hosts, Supported, lookup_domain, Domains
  <2>3. /\ job'[c].domain = lookup_domain(host)
        /\ job'[c].floor = published[lookup_domain(host)]
    BY <1>t, <2>1 DEF NoJob
  <2>4. pc'[c] \in {"check", "lookup"}
    BY <1>1, <1>t DEF Accept
  <2>5. published[lookup_domain(host)] \in Nat
    BY <2>2 DEF ProxyInv, Typed
  <2>6. QED
    BY <1>0, <1>p, <2>2, <2>3, <2>4, <2>5 DEF Request
<1>2. CASE CacheHit(c)
  <2> DEFINE dom == job[c].domain
  <2>1. dom \in Domains /\ cache[dom] # None /\ cache[dom] \in Entries
    BY <1>2 DEF CacheHit, Fresh, ProxyInv, Typed, Asked
  <2>2. /\ cache[dom].target \in Targets
        /\ Backed(dom, cache[dom].target, filled[dom].floor, filled[dom].missed)
    BY <2>1 DEF Entries, ProxyInv, AnswersBelong
  <2>3. /\ pc'[c] = "upstream"
        /\ job'[c].domain = dom
        /\ job'[c].target = cache[dom].target
        /\ job'[c].floor = filled[dom].floor
        /\ job'[c].missed = filled[dom].missed
    BY <1>2, <1>t DEF CacheHit, Jobs
  <2>4. QED
    BY <1>0, <1>p, <2>1, <2>2, <2>3 DEF Request, Backed
<1>3. CASE CacheMiss(c)
  <2>1. pc'[c] = "lookup" /\ job' = job /\ pc[c] = "check"
    BY <1>3, <1>t DEF CacheMiss
  <2>2. QED
    BY <1>0, <1>p, <2>1 DEF Request
<1>4. CASE LookupAnswers(c)
  <2> DEFINE dom == job[c].domain
  <2>0. pc[c] = "lookup"
    BY <1>4 DEF LookupAnswers
  <2>a. dom \in Domains /\ job[c].floor <= published[dom]
    BY <2>0 DEF ProxyInv, Asked
  <2>1. published[dom] \in Nat
    BY <2>a DEF ProxyInv, Typed
  <2>2. PICK v \in 1..published[dom] :
           job' = [job EXCEPT ![c].target = [domain |-> dom, version |-> v],
                              ![c].missed = v # published[dom]]
    BY <1>4 DEF LookupAnswers
  <2>3. [domain |-> dom, version |-> v] \in Targets
    BY <2>1, <2>a DEF Targets
  <2>4. /\ pc'[c] \in {"store", "upstream"}
        /\ job'[c].domain = dom
        /\ job'[c].target = [domain |-> dom, version |-> v]
        /\ job'[c].floor = job[c].floor
        /\ job'[c].missed = (v # published[dom])
    BY <1>4, <1>t, <2>2 DEF LookupAnswers, Jobs
  <2>5. Backed(dom, [domain |-> dom, version |-> v], job[c].floor,
               v # published[dom])
    BY <2>a, <2>1, <2>2 DEF Backed
  <2>6. QED
    BY <1>0, <1>p, <2>a, <2>3, <2>4, <2>5 DEF Request, Backed
<1>5. CASE LookupFails(c) \/ Respond(c) \/ Disconnect(c)
  <2>1. pc'[c] = "idle"
    BY <1>5, <1>t DEF LookupFails, Respond, Disconnect, Close
  <2>2. QED
    BY <1>p, <2>1 DEF Request
<1>6. CASE Store(c)
  <2>1. pc'[c] = "upstream" /\ job' = job /\ pc[c] = "store"
    BY <1>6, <1>t DEF Store
  <2>2. QED
    BY <1>0, <1>p, <2>1 DEF Request, Backed
<1>7. QED
  BY <1>1, <1>2, <1>3, <1>4, <1>5, <1>6 DEF Resolve

\* Of the steps of connection c only Store touches an entry, and it stores an
\* answer that c has got for the entry's own domain.
LEMMA EntriesKeep ==
    ASSUME ProxyInv, NEW c \in Connections,
           Accept(c) \/ Resolve(c) \/ Respond(c) \/ Disconnect(c),
           NEW dom \in Domains
    PROVE  Entry(dom)'
<1>0. published' = published /\ Entry(dom)
  BY StepTypes, Shares
<1>1. CASE Store(c)
  <2>1. /\ cache \in [Domains -> Entries \cup {None}]
        /\ filled \in [Domains -> Origins]
    BY DEF ProxyInv, Typed
  <2>2. CASE dom = job[c].domain
    <3>1. /\ cache'[dom].timestamp = filled'[dom].at
          /\ cache'[dom].target = job[c].target
          /\ filled'[dom].floor = job[c].floor
          /\ filled'[dom].missed = job[c].missed
      BY <1>1, <2>1, <2>2 DEF Store
    <3>2. Backed(dom, job[c].target, job[c].floor, job[c].missed)
      BY <1>1, <2>2 DEF Store, ProxyInv, AnswersBelong
    <3>3. QED
      BY <1>0, <3>1, <3>2 DEF Entry, Backed
  <2>3. CASE dom # job[c].domain
    <3>1. cache'[dom] = cache[dom] /\ filled'[dom] = filled[dom]
      BY <1>1, <2>1, <2>3 DEF Store
    <3>2. QED
      BY <1>0, <3>1 DEF Entry, Backed
  <2>4. QED
    BY <2>2, <2>3
<1>2. CASE ~Store(c)
  <2>1. cache' = cache /\ filled' = filled
    BY <1>2 DEF Accept, Resolve, CacheHit, CacheMiss, LookupAnswers,
                LookupFails, Respond, Disconnect, Close
  <2>2. QED
    BY <1>0, <2>1 DEF Entry, Backed
<1>3. QED
  BY <1>1, <1>2

LEMMA ConnectionSteps ==
    ASSUME ProxyInv, NEW c \in Connections,
           Accept(c) \/ Resolve(c) \/ Respond(c) \/ Disconnect(c)
    PROVE  ProxyInv'
<1>1. /\ Typed' /\ published' = published
      /\ \A x \in Connections \ {c} : pc'[x] = pc[x] /\ job'[x] = job[x]
  BY StepTypes
<1>2. ASSUME NEW x \in Connections
      PROVE  Request(x)'
  <2>1. CASE x = c
    BY <2>1, OwnShare
  <2>2. CASE x # c
    <3>1. Typed /\ Request(x)
      BY Shares
    <3>2. published' \in [Domains -> Nat]
      BY <1>1 DEF Typed
    <3>3. \A dom \in Domains : published[dom] <= published'[dom]
      BY <1>1, <3>2
    <3>4. QED
      BY <1>1, <2>2, <3>1, <3>2, <3>3, OthersKeep
  <2>3. QED
    BY <2>1, <2>2
<1>3. \A dom \in Domains : Entry(dom)'
  BY EntriesKeep
<1>4. (/\ Typed
       /\ \A x \in Connections : Request(x)
       /\ \A dom \in Domains : Entry(dom))'
  BY <1>1, <1>2, <1>3
<1>5. QED
  BY <1>4, SharesNext

\* Publications and the clock touch no request and no entry.
LEMMA WorldSteps ==
    ASSUME ProxyInv, Publish \/ Tick \/ SetBack \/ UNCHANGED vars
    PROVE  ProxyInv'
<1>0. Typed /\ (\A x \in Connections : Request(x))
            /\ (\A dom \in Domains : Entry(dom))
  BY Shares
<1>1. published' \in [Domains -> Nat]
  BY <1>0 DEF Typed, Publish, Tick, SetBack, vars
<1>2. \A dom \in Domains : published[dom] <= published'[dom]
  BY <1>0, <1>1 DEF Typed, Publish, Tick, SetBack, vars
<1>3. clock' \in Nat
  BY <1>0, ProxyAssumption DEF Typed, Publish, Tick, SetBack, vars
<1>4. /\ cache' = cache /\ filled' = filled /\ cache_ttl' = cache_ttl
      /\ pc' = pc /\ job' = job
  BY DEF Publish, Tick, SetBack, vars
<1>5. Typed'
  BY <1>0, <1>1, <1>3, <1>4 DEF Typed
<1>6. \A x \in Connections : Request(x)'
  BY <1>0, <1>1, <1>2, <1>4, OthersKeep
<1>7. ASSUME NEW dom \in Domains PROVE Entry(dom)'
  <2>1. Entry(dom)
    BY <1>0
  <2>2. CASE cache[dom] # None
    <3>1. cache[dom].target.version \in Nat
      BY <1>0, <2>2 DEF Typed, Entries, Targets
    <3>2. published[dom] \in Nat /\ published'[dom] \in Nat
      BY <1>0, <1>1 DEF Typed
    <3>3. QED
      BY <1>2, <1>4, <2>1, <2>2, <3>1, <3>2 DEF Entry, Backed
  <2>3. CASE cache[dom] = None
    BY <1>4, <2>3 DEF Entry
  <2>4. QED
    BY <2>2, <2>3
<1>8. (/\ Typed
       /\ \A x \in Connections : Request(x)
       /\ \A dom \in Domains : Entry(dom))'
  BY <1>5, <1>6, <1>7
<1>9. QED
  BY <1>8, SharesNext

THEOREM ProxyInvariant == Spec => []ProxyInv
<1>1. ProxyInv /\ [Next]_vars => ProxyInv'
  BY ConnectionSteps, WorldSteps DEF Next
<1>2. QED
  BY InitProxy, <1>1, PTL DEF Spec

\* Whatever the interleaving of requests, publications, expiry and dropped
\* connections, the proxy neither hands on nor caches a target of another domain
\* or one that its domain has never published; and where no entry was missed
\* for want of its download, none that had been replaced before the request
\* came that asked the network for it.
THEOREM TargetsBelong == Spec => []AnswersBelong
<1>1. ProxyInv => AnswersBelong
  BY DEF ProxyInv
<1>2. QED
  BY ProxyInvariant, <1>1, PTL

\* An answer leaves the cache only within cache_ttl of the moment it was
\* stored, for every --ttl, every wrap of its product and every move of the
\* clock.
THEOREM HitsExpire == Spec => HitsAreFresh
<1>1. ASSUME ProxyInv, Next, NEW c \in Connections,
             pc[c] = "check", pc'[c] = "upstream"
      PROVE  LET at == filled[job[c].domain].at
             IN  at <= clock /\ clock < at + cache_ttl
  <2>1. CacheHit(c)
    <3>1. pc \in [Connections -> Stages]
      BY <1>1 DEF ProxyInv, Typed
    <3>2. PICK x \in Connections :
             Accept(x) \/ Resolve(x) \/ Respond(x) \/ Disconnect(x)
      BY <1>1 DEF Next, Publish, Tick, SetBack
    <3>3. x = c
      BY <1>1, <3>2, StepTypes
    <3>4. QED
      BY <1>1, <3>1, <3>2, <3>3 DEF Resolve, Accept, CacheMiss, LookupAnswers,
         LookupFails, Store, Respond, Disconnect, Close
  <2>2. LET dom == job[c].domain
        IN  /\ dom \in Domains /\ cache[dom] # None
            /\ cache[dom].timestamp <= clock
            /\ clock - cache[dom].timestamp < cache_ttl
    BY <1>1, <2>1 DEF CacheHit, Fresh, ProxyInv, Asked
  <2>3. LET dom == job[c].domain
        IN  cache[dom].timestamp = filled[dom].at /\ filled[dom].at \in Nat
    BY <1>1, <2>2 DEF ProxyInv, Typed, Origins, Stamped
  <2>4. QED
    BY <1>1, <2>2, <2>3 DEF ProxyInv, Typed
<1>2. ProxyInv /\ [Next]_vars =>
        [\A c \in Connections : pc[c] = "check" /\ pc'[c] = "upstream" =>
            LET at == filled[job[c].domain].at
            IN  at <= clock /\ clock < at + cache_ttl]_vars
  BY <1>1
<1>3. QED
  BY ProxyInvariant, <1>2, PTL DEF Spec, HitsAreFresh

-----------------------------------------------------------------------------
(***************************************************************************)
(* The mutex's queue.                                                      *)
(***************************************************************************)

\* Nobody stands in q twice.
Once(q) == \A i, j \in 1..Len(q) : q[i] = q[j] => i = j

StandsIn(c, q) == \E i \in 1..Len(q) : q[i] = c

\* Who joins at the end.
LEMMA Joined ==
    ASSUME NEW q \in Seq(Connections), NEW c \in Connections,
           Once(q), ~StandsIn(c, q)
    PROVE  /\ Append(q, c) \in Seq(Connections)
           /\ Once(Append(q, c))
           /\ \A x : StandsIn(x, Append(q, c)) <=> StandsIn(x, q) \/ x = c
<1> DEFINE r == Append(q, c)
<1>1. /\ r \in Seq(Connections) /\ Len(q) \in Nat /\ Len(r) = Len(q) + 1
      /\ \A i \in 1..Len(q) : r[i] = q[i]
      /\ r[Len(q) + 1] = c
  BY AppendProperties, LenProperties
<1>2. 1..Len(r) = (1..Len(q)) \cup {Len(q) + 1}
  BY <1>1
<1> HIDE DEF r
<1>3. \A x : StandsIn(x, r) <=> StandsIn(x, q) \/ x = c
  BY <1>1, <1>2 DEF StandsIn
<1>4. Once(r)
  BY <1>1, <1>2 DEF Once, StandsIn
<1>5. QED
  BY <1>1, <1>3, <1>4 DEF r

\* Who leaves, from wherever it stood.
LEMMA Left ==
    ASSUME NEW q \in Seq(Connections), NEW n \in 1..Len(q), Once(q)
    PROVE  /\ RemoveAt(q, n) \in Seq(Connections)
           /\ Once(RemoveAt(q, n))
           /\ \A x : StandsIn(x, RemoveAt(q, n)) <=> StandsIn(x, q) /\ x # q[n]
<1> DEFINE r == RemoveAt(q, n)
           front == SubSeq(q, 1, n - 1)
           back == SubSeq(q, n + 1, Len(q))
<1>1. Len(q) \in Nat /\ n \in Nat /\ \A i \in 1..Len(q) : q[i] \in Connections
  BY LenProperties, ElementOfSeq
<1>2. /\ front \in Seq(Connections) /\ Len(front) = n - 1
      /\ \A i \in 1..(n - 1) : front[i] = q[i]
  <2>1. /\ 1 \in Int /\ n - 1 \in Int
        /\ \A i \in 1..(n - 1) : q[i] \in Connections
    BY <1>1
  <2>2. QED
    BY <1>1, <2>1, SubSeqProperties
<1>3. /\ back \in Seq(Connections) /\ Len(back) = Len(q) - n
      /\ \A i \in 1..(Len(q) - n) : back[i] = q[n + i]
  <2>1. /\ n + 1 \in Int /\ Len(q) \in Int
        /\ \A i \in (n + 1)..Len(q) : q[i] \in Connections
    BY <1>1
  <2>2. /\ back \in Seq(Connections)
        /\ Len(back) = IF n + 1 <= Len(q) THEN Len(q) - (n + 1) + 1 ELSE 0
        /\ \A i \in 1..(Len(q) - (n + 1) + 1) : back[i] = q[n + 1 + i - 1]
    BY <2>1, SubSeqProperties
  <2>3. QED
    <3> HIDE DEF back
    <3> QED BY <1>1, <2>2
<1>4. /\ r \in Seq(Connections) /\ Len(r) = Len(q) - 1
      /\ \A i \in 1..(Len(q) - 1) : r[i] = IF i < n THEN q[i] ELSE q[i + 1]
  <2>1. r = front \o back
    BY DEF RemoveAt
  <2>2. /\ r \in Seq(Connections) /\ Len(r) = Len(front) + Len(back)
        /\ \A i \in 1..(Len(front) + Len(back)) :
              r[i] = IF i <= Len(front) THEN front[i] ELSE back[i - Len(front)]
    <3> HIDE DEF r, front, back
    <3> QED BY <1>2, <1>3, <2>1, ConcatProperties
  <2>3. ASSUME NEW i \in 1..(Len(q) - 1)
        PROVE  r[i] = IF i < n THEN q[i] ELSE q[i + 1]
    <3> HIDE DEF r, front, back
    <3>1. CASE i < n
      <4>1. i \in 1..(n - 1) /\ i <= Len(front) /\ i \in 1..(Len(front) + Len(back))
        BY <1>1, <1>2, <1>3, <3>1
      <4>2. QED
        BY <1>2, <2>2, <3>1, <4>1
    <3>2. CASE ~(i < n)
      <4>1. /\ i - (n - 1) \in 1..(Len(q) - n) /\ ~(i <= Len(front))
            /\ i \in 1..(Len(front) + Len(back)) /\ n + (i - (n - 1)) = i + 1
        BY <1>1, <1>2, <1>3, <3>2
      <4>2. back[i - (n - 1)] = q[i + 1]
        BY <1>3, <4>1
      <4>3. QED
        BY <1>2, <2>2, <3>2, <4>1, <4>2
    <3>3. QED
      BY <3>1, <3>2
  <2>4. Len(r) = Len(q) - 1
    <3> HIDE DEF r, front, back
    <3> QED BY <1>1, <1>2, <1>3, <2>2
  <2>5. QED
    BY <2>2, <2>3, <2>4
<1> HIDE DEF r, front, back
<1>5. ASSUME NEW x
      PROVE  StandsIn(x, r) <=> StandsIn(x, q) /\ x # q[n]
  <2>1. ASSUME NEW i \in 1..Len(r), r[i] = x
        PROVE  StandsIn(x, q) /\ x # q[n]
    <3>1. CASE i < n
      BY <1>1, <1>4, <2>1, <3>1 DEF StandsIn, Once
    <3>2. CASE ~(i < n)
      <4>1. i + 1 \in 1..Len(q) /\ i + 1 # n /\ q[i + 1] = x
        BY <1>1, <1>4, <2>1, <3>2
      <4>2. QED
        BY <4>1 DEF StandsIn, Once
    <3>3. QED
      BY <3>1, <3>2
  <2>2. ASSUME NEW i \in 1..Len(q), q[i] = x, x # q[n]
        PROVE  StandsIn(x, r)
    <3>1. CASE i < n
      BY <1>1, <1>4, <2>2, <3>1 DEF StandsIn
    <3>2. CASE i > n
      <4>1. i - 1 \in 1..Len(r) /\ r[i - 1] = q[i]
        BY <1>1, <1>4, <3>2
      <4>2. QED
        BY <2>2, <4>1 DEF StandsIn
    <3>3. QED
      BY <1>1, <2>2, <3>1, <3>2
  <2>3. QED
    BY <2>1, <2>2 DEF StandsIn
<1>6. Once(r)
  <2> SUFFICES ASSUME NEW i \in 1..Len(r), NEW j \in 1..Len(r), r[i] = r[j]
               PROVE  i = j
    BY DEF Once
  <2> DEFINE at(k) == IF k < n THEN k ELSE k + 1
  <2>1. \A k \in 1..Len(r) : at(k) \in 1..Len(q) /\ r[k] = q[at(k)]
    BY <1>1, <1>4
  <2>2. at(i) = at(j)
    <3> HIDE DEF at
    <3> QED BY <2>1 DEF Once
  <2>3. QED
    BY <1>1, <1>4, <2>2
<1>7. QED
  BY <1>4, <1>5, <1>6 DEF r

\* Who is served at the head.
LEMMA Served ==
    ASSUME NEW q \in Seq(Connections), q # <<>>, Once(q)
    PROVE  /\ Tail(q) \in Seq(Connections)
           /\ Once(Tail(q))
           /\ \A x : StandsIn(x, Tail(q)) <=> StandsIn(x, q) /\ x # Head(q)
<1>1. Len(q) \in Nat \ {0} /\ 1 \in 1..Len(q)
  BY EmptySeq
<1>2. Head(q) = q[1]
  BY <1>1, HeadTailProperties
<1>3. RemoveAt(q, 1) = Tail(q)
  <2>1. SubSeq(q, 1, 0) = <<>>
    BY SubSeqEmpty
  <2>2. Tail(q) \in Seq(Connections) /\ Tail(q) = SubSeq(q, 2, Len(q))
    BY HeadTailProperties, TailIsSubSeq
  <2>3. QED
    BY <2>1, <2>2, ConcatEmptySeq DEF RemoveAt
<1>4. /\ RemoveAt(q, 1) \in Seq(Connections)
      /\ Once(RemoveAt(q, 1))
      /\ \A x : StandsIn(x, RemoveAt(q, 1)) <=> StandsIn(x, q) /\ x # q[1]
  BY <1>1, Left
<1>5. QED
  BY <1>2, <1>3, <1>4

\* What holds of the queue and of who waits.
Waiting ==
    /\ queue \in Seq(Connections)
    /\ Once(queue)
    /\ \A x : StandsIn(x, queue) <=>
          x \in Connections /\ pc[x] \in {"check", "store"}

\* One task moves on while the queue does what the task's step does to it.
LEMMA Moved ==
    ASSUME Waiting, NEW c \in Connections, NEW stage,
           pc \in [Connections -> Stages],
           pc' = [pc EXCEPT ![c] = stage],
           \/ /\ pc[c] \notin {"check", "store"}
              /\ \/ stage \in {"check", "store"} /\ queue' = Append(queue, c)
                 \/ stage \notin {"check", "store"} /\ UNCHANGED queue
           \/ /\ stage \notin {"check", "store"}
              /\ \/ HoldsLock(c) /\ queue' = Tail(queue)
                 \/ LeaveQueue(c)
    PROVE  Waiting'
<1>1. \A x \in Connections : pc'[x] = IF x = c THEN stage ELSE pc[x]
  OBVIOUS
<1>2. ASSUME queue' \in Seq(Connections), Once(queue'),
             \A x : StandsIn(x, queue') <=> StandsIn(x, queue) /\ x # c,
             stage \notin {"check", "store"}
      PROVE  Waiting'
  BY <1>1, <1>2 DEF Waiting, StandsIn, Once
<1>3. CASE /\ pc[c] \notin {"check", "store"}
           /\ stage \in {"check", "store"} /\ queue' = Append(queue, c)
  <2>1. ~StandsIn(c, queue)
    BY <1>3 DEF Waiting
  <2>2. /\ queue' \in Seq(Connections) /\ Once(queue')
        /\ \A x : StandsIn(x, queue') <=> StandsIn(x, queue) \/ x = c
    BY <1>3, <2>1, Joined DEF Waiting
  <2>3. QED
    BY <1>1, <1>3, <2>2 DEF Waiting, StandsIn, Once
<1>4. CASE /\ pc[c] \notin {"check", "store"}
           /\ stage \notin {"check", "store"} /\ UNCHANGED queue
  BY <1>1, <1>4 DEF Waiting, StandsIn, Once
<1>5. CASE /\ stage \notin {"check", "store"}
           /\ HoldsLock(c) /\ queue' = Tail(queue)
  BY <1>2, <1>5, Served DEF Waiting, HoldsLock
<1>6. CASE stage \notin {"check", "store"} /\ LeaveQueue(c)
  <2>1. CASE UNCHANGED queue /\ \A i \in 1..Len(queue) : queue[i] # c
    BY <1>2, <1>6, <2>1 DEF Waiting, StandsIn
  <2>2. CASE \E i \in 1..Len(queue) :
                queue[i] = c /\ queue' = RemoveAt(queue, i)
    <3>1. PICK i \in 1..Len(queue) :
                  queue[i] = c /\ queue' = RemoveAt(queue, i)
      BY <2>2
    <3>2. /\ RemoveAt(queue, i) \in Seq(Connections)
          /\ Once(RemoveAt(queue, i))
          /\ \A x : StandsIn(x, RemoveAt(queue, i)) <=>
                StandsIn(x, queue) /\ x # queue[i]
      BY Left DEF Waiting
    <3>3. QED
      BY <1>2, <1>6, <3>1, <3>2
  <2>3. QED
    BY <1>6, <2>1, <2>2 DEF LeaveQueue
<1>7. QED
  BY <1>3, <1>4, <1>5, <1>6

LEMMA QueueStep == ProxyInv /\ Waiting /\ [Next]_vars => Waiting'
<1> SUFFICES ASSUME ProxyInv, Waiting, [Next]_vars
             PROVE  Waiting'
  OBVIOUS
<1>1. pc \in [Connections -> Stages]
  BY DEF ProxyInv, Typed
<1>2. ASSUME NEW c \in Connections, Accept(c)
      PROVE  Waiting'
  BY <1>1, <1>2, Moved DEF Accept
<1>3. ASSUME NEW c \in Connections, CacheHit(c)
      PROVE  Waiting'
  BY <1>1, <1>3, Moved DEF CacheHit
<1>4. ASSUME NEW c \in Connections, CacheMiss(c)
      PROVE  Waiting'
  BY <1>1, <1>4, Moved DEF CacheMiss
<1>5. ASSUME NEW c \in Connections, LookupAnswers(c)
      PROVE  Waiting'
  BY <1>1, <1>5, Moved DEF LookupAnswers
<1>6. ASSUME NEW c \in Connections, LookupFails(c) \/ Respond(c)
      PROVE  Waiting'
  BY <1>1, <1>6, Moved DEF LookupFails, Respond, Close
<1>7. ASSUME NEW c \in Connections, Store(c)
      PROVE  Waiting'
  BY <1>1, <1>7, Moved DEF Store
<1>8. ASSUME NEW c \in Connections, Disconnect(c)
      PROVE  Waiting'
  BY <1>1, <1>8, Moved DEF Disconnect, Close
<1>9. ASSUME Publish \/ Tick \/ SetBack \/ UNCHANGED vars
      PROVE  Waiting'
  BY <1>9 DEF Publish, Tick, SetBack, vars, Waiting, StandsIn, Once
<1>10. QED
  BY <1>2, <1>3, <1>4, <1>5, <1>6, <1>7, <1>8, <1>9 DEF Next, Resolve

THEOREM QueueInvariant == Spec => []Waiting
<1>1. Init => Waiting
  BY EmptySeq DEF Init, Waiting, StandsIn, Once
<1>2. QED
  BY <1>1, QueueStep, ProxyInvariant, PTL DEF Spec

\* The mutex is held by nobody who scans, hangs upstream or has gone, and
\* whoever wants it queues for it once (server/http.rs:152-188, 208-232).
THEOREM OnlyWaitersHaveTheMutex == Spec => []OnlyWaitersQueue
<1>1. Waiting => OnlyWaitersQueue
  BY DEF Waiting, OnlyWaitersQueue, StandsIn, Once
<1>2. QED
  BY <1>1, QueueInvariant, PTL

\* What the variables hold.
THEOREM ProxyTypes == Spec => []TypeOK
<1>1. ProxyInv /\ Waiting => TypeOK
  BY DEF ProxyInv, Typed, Entries, Waiting, TypeOK
<1>2. QED
  BY <1>1, ProxyInvariant, QueueInvariant, PTL
=============================================================================
