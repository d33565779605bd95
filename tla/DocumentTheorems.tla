--------------------------- MODULE DocumentTheorems ---------------------------
(***************************************************************************)
(* Facts about the operators of Documents: what one more entry adds to     *)
(* what a register says.                                                   *)
(***************************************************************************)
EXTENDS Documents, SequenceTheorems, FiniteSetTheorems, WellFoundedInduction,
        TLAPS

\* A set of numbers that is bounded and not empty has a greatest member, and
\* Latest picks it: the newest of the valid entries exists.
LEMMA LatestExists ==
    ASSUME NEW n \in Nat, NEW S \in SUBSET (0..n), S # {}
    PROVE  Latest(S) \in S /\ \A j \in S : j <= Latest(S)
<1> DEFINE D == {n - i : i \in S}
           L == OpToRel(<, Nat)
<1>1. D \subseteq Nat /\ D # {}
  <2>1. \A i \in S : i \in 0..n
    OBVIOUS
  <2>2. \A i \in 0..n : n - i \in Nat
    OBVIOUS
  <2>3. D \subseteq Nat
    BY <2>1, <2>2
  <2>4. PICK i \in S : TRUE
    OBVIOUS
  <2>5. n - i \in D
    BY <2>4
  <2>6. QED
    BY <2>3, <2>5
<1>2. PICK x \in D : \A y \in D : ~(<<y, x>> \in L)
  <2>1. IsWellFoundedOn(L, Nat)
    BY NatLessThanWellFounded
  <2>2. QED
    <3> HIDE DEF L, D
    <3> QED BY <1>1, <2>1, WFMin
<1>3. PICK i \in S : x = n - i
  OBVIOUS
<1>4. \A j \in S : j <= i
  <2> SUFFICES ASSUME NEW j \in S, ~(j <= i) PROVE FALSE
    OBVIOUS
  <2>1. n - j \in D /\ n - j \in Nat /\ n - i \in Nat /\ n - j < n - i
    BY <1>3
  <2>2. <<n - j, n - i>> \in L
    BY <2>1 DEF OpToRel
  <2>3. QED
    BY <1>2, <1>3, <2>1, <2>2
<1>5. QED
  BY <1>4 DEF Latest

\* A greatest member is what Latest picks.
LEMMA LatestIs ==
    ASSUME NEW S \in SUBSET Nat, NEW i \in S, \A j \in S : j <= i
    PROVE  Latest(S) = i
<1>1. Latest(S) \in S /\ \A j \in S : j <= Latest(S)
  <2>1. \E k \in S : \A j \in S : j <= k
    OBVIOUS
  <2>2. QED
    BY <2>1, Zenon DEF Latest
<1>2. i \in Nat /\ Latest(S) \in Nat /\ i <= Latest(S) /\ Latest(S) <= i
  BY <1>1
<1>3. QED
  BY <1>2

\* The first entry of a register names the same owner forever.
LEMMA OwnerOfLonger ==
    ASSUME NEW h \in Seq(Documents), h # <<>>, NEW doc \in Documents
    PROVE  /\ Owner(Append(h, doc)) = Owner(h)
           /\ Append(h, doc) # <<>>
           /\ Append(h, doc) \in Seq(Documents)
           /\ Len(Append(h, doc)) = Len(h) + 1
           /\ \A i \in 1..Len(h) : Append(h, doc)[i] = h[i]
           /\ Append(h, doc)[Len(h) + 1] = doc
<1>1. Len(h) \in Nat /\ Len(h) >= 1
  BY EmptySeq, LenProperties
<1>2. QED
  BY <1>1, AppendProperties DEF Owner

\* Appending leaves what the entries up to n say as it is.
LEMMA PrefixIsStable ==
    ASSUME NEW h \in Seq(Documents), h # <<>>, NEW doc \in Documents,
           NEW n \in 1..Len(h)
    PROVE  /\ RecordsUpTo(Append(h, doc), n) = RecordsUpTo(h, n)
           /\ TargetUpTo(Append(h, doc), n) = TargetUpTo(h, n)
<1> DEFINE g == Append(h, doc)
<1> HIDE DEF g
<1>1. /\ Owner(g) = Owner(h)
      /\ \A i \in 1..n : g[i] = h[i]
  BY OwnerOfLonger DEF g
<1>2. n \in Nat
  BY LenProperties
<1>3. ValidEntries(g, n) = ValidEntries(h, n)
  BY <1>1, <1>2 DEF ValidEntries
<1>4. \A i \in ValidEntries(h, n) : i \in 1..n
  BY <1>2 DEF ValidEntries
<1>5. RootedEntries(g, n) = RootedEntries(h, n)
  BY <1>1, <1>3, <1>4 DEF RootedEntries
<1>6. ValidEntries(h, n) \in SUBSET (0..n) /\ RootedEntries(h, n) \in SUBSET (0..n)
  BY <1>2, <1>4 DEF RootedEntries
<1>7. RecordsUpTo(g, n) = RecordsUpTo(h, n)
  <2>1. CASE ValidEntries(h, n) = {}
    BY <1>3, <2>1 DEF RecordsUpTo
  <2>2. CASE ValidEntries(h, n) # {}
    <3>1. Latest(ValidEntries(h, n)) \in 1..n
      BY <1>2, <1>4, <1>6, <2>2, LatestExists
    <3>2. QED
      BY <1>1, <1>3, <2>2, <3>1 DEF RecordsUpTo
  <2>3. QED
    BY <2>1, <2>2
<1>8. TargetUpTo(g, n) = TargetUpTo(h, n)
  <2>1. CASE RootedEntries(h, n) = {}
    BY <1>5, <2>1 DEF TargetUpTo
  <2>2. CASE RootedEntries(h, n) # {}
    <3>1. Latest(RootedEntries(h, n)) \in RootedEntries(h, n)
      BY <1>2, <1>6, <2>2, LatestExists
    <3>2. Latest(RootedEntries(h, n)) \in 1..n
      BY <1>4, <3>1 DEF RootedEntries
    <3>3. QED
      BY <1>1, <1>5, <2>2, <3>2 DEF TargetUpTo
  <2>3. QED
    BY <2>1, <2>2
<1>9. QED
  BY <1>7, <1>8 DEF g

\* One more entry replaces the records if it is valid, the target if it has a
\* root record besides, and changes nothing otherwise.
LEMMA NextEntry ==
    ASSUME NEW h \in Seq(Documents), NEW n \in 1..Len(h), n + 1 <= Len(h)
    PROVE  LET doc == h[n + 1]
               valid == IsValid(doc, Owner(h))
           IN  /\ RecordsUpTo(h, n + 1) =
                     IF valid THEN doc.records ELSE RecordsUpTo(h, n)
               /\ TargetUpTo(h, n + 1) =
                     IF valid /\ Target(doc.records) # None
                     THEN Target(doc.records) ELSE TargetUpTo(h, n)
<1> DEFINE doc == h[n + 1]
           valid == IsValid(doc, Owner(h))
           rooted == valid /\ Target(doc.records) # None
<1>1. n \in Nat /\ n >= 1 /\ n + 1 \in Nat
  BY LenProperties
<1>2. 2..(n + 1) = (2..n) \cup {n + 1}
  BY <1>1
<1>3. ValidEntries(h, n + 1) =
        IF valid THEN ValidEntries(h, n) \cup {n + 1} ELSE ValidEntries(h, n)
  BY <1>2 DEF ValidEntries
<1>4. RootedEntries(h, n + 1) =
        IF rooted THEN RootedEntries(h, n) \cup {n + 1} ELSE RootedEntries(h, n)
  BY <1>3 DEF RootedEntries
<1>5. \A i \in ValidEntries(h, n) : i \in Nat /\ i <= n + 1
  BY <1>1 DEF ValidEntries
<1>6. \A i \in RootedEntries(h, n) : i \in Nat /\ i <= n + 1
  BY <1>5 DEF RootedEntries
<1>7. valid => Latest(ValidEntries(h, n + 1)) = n + 1 /\ ValidEntries(h, n + 1) # {}
  <2> SUFFICES ASSUME valid
               PROVE  Latest(ValidEntries(h, n + 1)) = n + 1 /\ n + 1 \in ValidEntries(h, n + 1)
    OBVIOUS
  <2> DEFINE S == ValidEntries(h, n + 1)
  <2>1. S \in SUBSET Nat /\ n + 1 \in S /\ \A j \in S : j <= n + 1
    BY <1>1, <1>3, <1>5
  <2>2. QED
    <3> HIDE DEF S
    <3> Latest(S) = n + 1 BY <2>1, LatestIs
    <3> QED BY <2>1 DEF S
<1>8. rooted => Latest(RootedEntries(h, n + 1)) = n + 1 /\ RootedEntries(h, n + 1) # {}
  <2> SUFFICES ASSUME rooted
               PROVE  Latest(RootedEntries(h, n + 1)) = n + 1 /\ n + 1 \in RootedEntries(h, n + 1)
    OBVIOUS
  <2> DEFINE S == RootedEntries(h, n + 1)
  <2>1. S \in SUBSET Nat /\ n + 1 \in S /\ \A j \in S : j <= n + 1
    BY <1>1, <1>4, <1>6
  <2>2. QED
    <3> HIDE DEF S
    <3> Latest(S) = n + 1 BY <2>1, LatestIs
    <3> QED BY <2>1 DEF S
<1>9. RecordsUpTo(h, n + 1) = IF valid THEN doc.records ELSE RecordsUpTo(h, n)
  BY <1>3, <1>7 DEF RecordsUpTo
<1>10. TargetUpTo(h, n + 1) = IF rooted THEN Target(doc.records) ELSE TargetUpTo(h, n)
  BY <1>4, <1>8 DEF TargetUpTo
<1>11. QED
  BY <1>9, <1>10

-----------------------------------------------------------------------------

\* The first root record of a list that has one is a record of it.
LEMMA TargetType ==
    ASSUME NEW rs \in Seq(Records)
    PROVE  Target(rs) \in Records \cup {None}
<1> DEFINE roots == {i \in 1..Len(rs) : rs[i] \in RootRecords}
           L == OpToRel(<, Nat)
<1>1. CASE roots = {}
  BY <1>1 DEF Target
<1>2. CASE roots # {}
  <2>1. roots \subseteq Nat
    BY LenProperties
  <2>2. IsWellFoundedOn(L, Nat)
    BY NatLessThanWellFounded
  <2>3. \E i \in roots : \A j \in roots : ~(<<j, i>> \in L)
    <3> HIDE DEF roots, L
    <3> QED BY <1>2, <2>1, <2>2, WFMin
  <2>4. \A i, j \in roots : ~(<<j, i>> \in L) => i <= j
    BY <2>1 DEF OpToRel
  <2>5. \E i \in roots : \A j \in roots : i <= j
    <3> HIDE DEF roots, L
    <3> QED BY <2>3, <2>4
  <2> DEFINE first == CHOOSE i \in roots : \A j \in roots : i <= j
  <2>6. first \in roots
    <3> HIDE DEF roots
    <3> QED BY <2>5
  <2>7. rs[first] \in Records
    <3>1. first \in 1..Len(rs)
      BY <2>6
    <3> HIDE DEF first, roots
    <3> QED BY <3>1, ElementOfSeq
  <2>8. Target(rs) = rs[first]
    BY <1>2 DEF Target
  <2>9. QED
    BY <2>7, <2>8
<1>3. QED
  BY <1>1, <1>2

\* Documents are made of keys and records, and tell what they are.
LEMMA DocumentTypes ==
    /\ \A k \in Keys : /\ DomainOwnerDocument(k) \in Documents
                       /\ OwnerOf(DomainOwnerDocument(k)) = k
    /\ \A rs \in Seq(Records), k \in Keys :
          /\ SignedRecords(rs, k) \in Documents
          /\ OwnerOf(SignedRecords(rs, k)) = None
    /\ \A doc \in Documents :
          /\ OwnerOf(doc) \in Keys \cup {None}
          /\ doc.kind = "records" => doc.records \in Seq(Records)
          /\ \A k : IsValid(doc, k) => doc.records \in Seq(Records)
          /\ \A k : Status(doc, k) \in {"valid", "spam", "corrupt"}
<1>1. \A k \in Keys : /\ DomainOwnerDocument(k) \in Documents
                      /\ OwnerOf(DomainOwnerDocument(k)) = k
  BY DEF DomainOwnerDocument, Documents, OwnerDocuments, OwnerOf
<1>2. \A rs \in Seq(Records), k \in Keys :
         /\ SignedRecords(rs, k) \in Documents
         /\ OwnerOf(SignedRecords(rs, k)) = None
  BY DEF SignedRecords, sign_records, Documents, RecordsDocuments, Signatures,
         OwnerOf
<1>3. ASSUME NEW doc \in Documents
      PROVE  /\ OwnerOf(doc) \in Keys \cup {None}
             /\ doc.kind = "records" => doc.records \in Seq(Records)
  BY <1>3 DEF Documents, OwnerDocuments, RecordsDocuments, Garbage, OwnerOf
<1>4. QED
  BY <1>1, <1>2, <1>3 DEF IsValid, Status

\* The number of entries with a status is a number.
LEMMA HavingType ==
    ASSUME NEW S, NEW trail \in Seq(S), NEW s
    PROVE  Having(trail, s) \in Nat
<1> DEFINE having == {i \in 1..Len(trail) : trail[i] = s}
<1>1. Len(trail) \in Nat
  BY LenProperties
<1>2. IsFiniteSet(1..Len(trail))
  BY <1>1, FS_Interval
<1>3. IsFiniteSet(having)
  BY <1>2, FS_Subset
<1>4. QED
  BY <1>3, FS_CardinalityType DEF Having

\* The statistics are counts.
LEMMA StatsType ==
    ASSUME NEW S, NEW trail \in Seq(S)
    PROVE  HistoryStats(trail) \in
             [total : Nat, valid : Nat, spam : Nat, invalid : Nat]
<1>1. Len(trail) \in Nat
  BY LenProperties
<1>2. \A s : Having(trail, s) \in Nat
  BY HavingType
<1>3. QED
  BY <1>1, <1>2 DEF HistoryStats

\* The statuses of the entries after the owner document count as many valid
\* ones as the register has: status i is that of entry i + 1.
LEMMA ValidCount ==
    ASSUME NEW h, NEW n \in Nat \ {0}, NEW S, NEW trail \in Seq(S),
           Len(trail) = n - 1,
           \A i \in 1..(n - 1) :
               trail[i] = "valid" <=> IsValid(h[i + 1], Owner(h))
    PROVE  Having(trail, "valid") = Cardinality(ValidEntries(h, n))
<1> DEFINE A == {i \in 1..Len(trail) : trail[i] = "valid"}
           B == ValidEntries(h, n)
           f == [i \in A |-> i + 1]
<1>1. \A i \in A : i \in Nat /\ i \in 1..(n - 1) /\ i + 1 \in B
  BY DEF ValidEntries
<1>2. \A k \in B : k - 1 \in A /\ (k - 1) + 1 = k
  BY DEF ValidEntries
<1>3. f \in [A -> B]
  BY <1>1
<1>4. \A i, j \in A : f[i] = f[j] => i = j
  <2> SUFFICES ASSUME NEW i \in A, NEW j \in A, i + 1 = j + 1 PROVE i = j
    OBVIOUS
  <2> HIDE DEF A
  <2> QED BY <1>1
<1>5. \A k \in B : \E i \in A : f[i] = k
  <2> SUFFICES ASSUME NEW k \in B PROVE k - 1 \in A /\ f[k - 1] = k
    OBVIOUS
  <2> HIDE DEF A, B
  <2> QED BY <1>2
<1>6. f \in Bijection(A, B)
  <2> HIDE DEF A, B, f
  <2> QED BY <1>3, <1>4, <1>5 DEF Bijection, Injection, Surjection, IsInjective
<1>7. IsFiniteSet(A)
  <2>1. 1 \in Int /\ Len(trail) \in Int
    OBVIOUS
  <2>2. IsFiniteSet(1..Len(trail))
    BY <2>1, FS_Interval
  <2>3. QED
    BY <2>2, FS_Subset
<1>8. Cardinality(B) = Cardinality(A)
  <2> HIDE DEF A, B, f
  <2> QED BY <1>6, <1>7, FS_Bijection DEF ExistsBijection
<1>9. QED
  BY <1>8 DEF Having

\* What get_domain_history prints adds up: every entry is counted once.
LEMMA StatsAddUp ==
    ASSUME NEW trail \in Seq({"valid", "spam", "corrupt"})
    PROVE  LET stats == HistoryStats(trail)
           IN  stats.total = stats.valid + stats.spam + stats.invalid
<1> DEFINE n == Len(trail)
           Of(s) == {i \in 1..n : trail[i] = s}
<1>1. n \in Nat /\ IsFiniteSet(1..n) /\ Cardinality(1..n) = n
  <2>1. n \in Nat
    BY LenProperties
  <2> HIDE DEF n
  <2>2. 1 \in Int /\ n \in Int
    BY <2>1
  <2>3. QED
    BY <2>1, <2>2, FS_Interval
<1>2. \A i \in 1..n : trail[i] \in {"valid", "spam", "corrupt"}
  BY ElementOfSeq
<1> HIDE DEF n
<1>3. \A s : IsFiniteSet(Of(s)) /\ Cardinality(Of(s)) \in Nat
  BY <1>1, FS_Subset, FS_CardinalityType
<1>4. /\ 1..n = (Of("valid") \cup Of("spam")) \cup Of("corrupt")
      /\ Of("valid") \cap Of("spam") = {}
      /\ (Of("valid") \cup Of("spam")) \cap Of("corrupt") = {}
  BY <1>2
<1> DEFINE V == Of("valid")
           M == Of("spam")
           C == Of("corrupt")
<1>5. /\ IsFiniteSet(V \cup M)
      /\ Cardinality(V \cup M) = Cardinality(V) + Cardinality(M) - 0
  <2>1. IsFiniteSet(V) /\ IsFiniteSet(M) /\ V \cap M = {}
    BY <1>3, <1>4
  <2>2. QED
    <3> HIDE DEF V, M
    <3> QED BY <2>1, FS_Union, FS_EmptySet
<1>6. Cardinality((V \cup M) \cup C) = Cardinality(V \cup M) + Cardinality(C) - 0
  <2>1. IsFiniteSet(C) /\ (V \cup M) \cap C = {}
    BY <1>3, <1>4
  <2>2. QED
    <3> HIDE DEF V, M, C
    <3> QED BY <1>5, <2>1, FS_Union, FS_EmptySet
<1>7. n = Cardinality(V) + Cardinality(M) + Cardinality(C)
  <2>1. /\ Cardinality(V) \in Nat /\ Cardinality(M) \in Nat
        /\ Cardinality(C) \in Nat
        /\ 1..n = (V \cup M) \cup C
    BY <1>3, <1>4
  <2>2. n = Cardinality((V \cup M) \cup C)
    <3> HIDE DEF V, M, C
    <3> QED BY <1>1, <2>1, Zenon
  <2>3. QED
    <3> HIDE DEF V, M, C
    <3> QED BY <1>5, <1>6, <2>1, <2>2
<1>8. /\ Having(trail, "valid") = Cardinality(V)
      /\ Having(trail, "spam") = Cardinality(M)
      /\ Having(trail, "corrupt") = Cardinality(C)
  BY DEF Having, n
<1>9. /\ Cardinality(V) \in Nat /\ Cardinality(M) \in Nat
      /\ Cardinality(C) \in Nat
  BY <1>3
<1>10. QED
  <2> HIDE DEF V, M, C
  <2>1. /\ HistoryStats(trail).total = n + 1
        /\ HistoryStats(trail).valid = Cardinality(V) + 1
        /\ HistoryStats(trail).spam = Cardinality(M)
        /\ HistoryStats(trail).invalid = Cardinality(C)
    BY <1>8 DEF HistoryStats, n
  <2>2. QED
    BY <1>1, <1>7, <1>9, <2>1

\* What a register says is a list of records.
LEMMA CurrentType ==
    ASSUME NEW h \in Seq(Documents)
    PROVE  CurrentRecords(h) \in Seq(Records)
<1> DEFINE n == Len(h)
           V == ValidEntries(h, n)
<1>1. n \in Nat /\ \A i \in 1..n : h[i] \in Documents
  BY LenProperties, ElementOfSeq
<1>2. CASE V = {}
  BY <1>2, EmptySeq DEF CurrentRecords, RecordsUpTo
<1>3. CASE V # {}
  <2>1. V \in SUBSET (0..n)
    BY <1>1 DEF ValidEntries
  <2>2. Latest(V) \in V
    <3> HIDE DEF V, n
    <3> QED BY <1>1, <1>3, <2>1, LatestExists
  <2>3. h[Latest(V)] \in Documents /\ IsValid(h[Latest(V)], Owner(h))
    BY <1>1, <2>2 DEF ValidEntries
  <2>4. h[Latest(V)].records \in Seq(Records)
    BY <2>3, DocumentTypes
  <2>5. QED
    BY <1>3, <2>4 DEF CurrentRecords, RecordsUpTo
<1>4. QED
  BY <1>2, <1>3

\* When the newest valid list has a root record, the target a resolver ends
\* with is the one of that list: only a list without one leaves an old target.
LEMMA TargetOfCurrent ==
    ASSUME NEW h \in Seq(Documents), Target(CurrentRecords(h)) # None
    PROVE  TargetUpTo(h, Len(h)) = Target(CurrentRecords(h))
<1> DEFINE n == Len(h)
           V == ValidEntries(h, n)
           R == RootedEntries(h, n)
<1>1. n \in Nat
  BY LenProperties
<1>2. V # {}
  <2>1. Target(<<>>) = None
    <3>1. {i \in 1..Len(<<>>) : <<>>[i] \in RootRecords} = {}
      BY EmptySeq
    <3>2. QED
      BY <3>1 DEF Target
  <2>2. QED
    BY <2>1 DEF CurrentRecords, RecordsUpTo
<1>3. V \in SUBSET (0..n) /\ V \in SUBSET Nat
  BY <1>1 DEF ValidEntries
<1>4. Latest(V) \in V /\ \A j \in V : j <= Latest(V)
  <2> HIDE DEF V, n
  <2> QED BY <1>1, <1>2, <1>3, LatestExists
<1>5. CurrentRecords(h) = h[Latest(V)].records
  BY <1>2 DEF CurrentRecords, RecordsUpTo
<1>6. Latest(V) \in R /\ R \subseteq V
  BY <1>4, <1>5 DEF RootedEntries
<1>7. Latest(R) = Latest(V)
  <2> HIDE DEF V, R
  <2> QED BY <1>3, <1>4, <1>6, LatestIs
<1>8. QED
  BY <1>5, <1>6, <1>7 DEF TargetUpTo
=============================================================================
