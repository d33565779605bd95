-------------------------- MODULE DomainOwnershipProofs --------------------------
(***************************************************************************)
(* Who owns a domain and who can change what it says, for any number of    *)
(* devices, keys and records.  The races between registrations are decided *)
(* by Ownership: keys under registration are fresh and pairwise distinct,  *)
(* and a registration that has been accepted is the one the register       *)
(* names.  What a domain says changes only by an entry that verifies       *)
(* (NewEntry), and that is what makes the register implement               *)
(* AbstractDomain!Spec.                                                    *)
(***************************************************************************)
EXTENDS DomainRegisterProofs

Registering(d) == job[d].op = "register"

Ownership ==
    /\ \A d \in Devices : Registering(d) => job[d].key \in minted
    /\ \A d, e \in Devices :
          d # e /\ Registering(d) /\ Registering(e) => job[d].key # job[e].key
    /\ \A d \in Devices : pc[d] = "save" => job[d].key = Owner(register)

-----------------------------------------------------------------------------

LEMMA OwnerTypes ==
    ASSUME TypeInv
    PROVE  /\ register \in Seq(Documents) /\ Len(register) \in Nat
           /\ \A i \in 1..Len(register) : register[i] \in Documents
           /\ Owner(register) \in Keys \cup {None}
           /\ None \notin Keys
           /\ Owner(register) \in Keys => register # <<>>
<1>1. /\ register \in Seq(Documents) /\ Len(register) \in Nat
      /\ \A i \in 1..Len(register) : register[i] \in Documents
  BY LenProperties, ElementOfSeq DEF TypeInv, TypeOK
<1>2. register # <<>> => 1 \in 1..Len(register)
  BY <1>1, EmptySeq
<1>3. None \notin Keys
  BY DocumentAssumption
<1>4. QED
  BY <1>1, <1>2, <1>3, DocumentTypes DEF Owner

\* Once a register exists its owner is settled.
LEMMA OwnerKept ==
    ASSUME TypeInv, [Next]_vars, register # <<>>
    PROVE  Owner(register') = Owner(register)
BY RegisterGrows, OwnerOfLonger, OwnerTypes

\* A registration that is accepted makes the register and names its own key.
LEMMA CreateNames ==
    ASSUME TypeInv, NEW d \in Devices, CreateRegister(d)
    PROVE  /\ register = <<>> /\ Registering(d)
           /\ job' = job /\ pc'[d] = "save"
           /\ Owner(register') = job[d].key
<1>1. /\ pc[d] = "commit" /\ register = <<>> /\ Registering(d) /\ job' = job
      /\ register' = Append(register, draft[d]) /\ pc'[d] = "save"
  BY DEF CreateRegister, Commit, Accepted, Registering, TypeInv, TypeOK
<1>2. draft[d] = DomainOwnerDocument(job[d].key) /\ job[d].key \in Keys
  BY <1>1 DEF TypeInv, JobsFit, JobFits, IsDraft, Registering
<1>3. draft[d] \in Documents /\ OwnerOf(draft[d]) = job[d].key
  BY <1>2, DocumentTypes
<1>4. register' # <<>> /\ register'[1] = draft[d]
  BY <1>1, <1>3, EmptySeq, AppendProperties
<1>5. QED
  BY <1>1, <1>3, <1>4 DEF Owner

\* What a step of device d does to jobs: it ends one, goes on with it, begins
\* one that registers nothing, or generates a key and begins to register it.
LEMMA JobSteps ==
    ASSUME TypeInv, NEW d \in Devices, Start(d) \/ Advance(d) \/ Crash(d)
    PROVE  /\ minted \subseteq minted'
           /\ \A e \in Devices \ {d} : pc'[e] = pc[e] /\ job'[e] = job[e]
           /\ \/ job'[d] = job[d]
              \/ job'[d].op # "register"
              \/ job'[d].key \in minted' \ minted
           /\ pc'[d] = "save" => CreateRegister(d)
<1>t. /\ pc \in [Devices -> Stages] /\ job \in [Devices -> Jobs]
      /\ pc[d] = "save" => job[d].op = "register"
  BY DEF TypeInv, TypeOK, JobsFit, JobFits
<1>1. CASE StartRegister(d)
  <2>1. PICK k \in Keys \ minted :
           /\ minted' = minted \cup {k}
           /\ Begin(d, "upload", [NoJob EXCEPT !.op = "register", !.key = k],
                    DomainOwnerDocument(k))
    BY <1>1 DEF StartRegister
  <2>2. [NoJob EXCEPT !.op = "register", !.key = k].key = k
    BY DEF NoJob
  <2>3. QED
    BY <1>t, <2>1, <2>2 DEF Begin
<1>2. CASE StartEdit(d)
  <2>1. PICK j \in EditJobs(keyfile[d]) : Begin(d, "owner", j, None)
    BY <1>2 DEF StartEdit
  <2>2. j.op # "register"
    BY <2>1 DEF EditJobs
  <2>3. minted' = minted
    BY <1>2 DEF StartEdit
  <2>4. QED
    BY <1>t, <2>1, <2>2, <2>3 DEF Begin
<1>3. CASE StartSet(d)
  <2>1. PICK r \in RootRecords :
           Begin(d, "upload",
                 [op |-> "set", record |-> r, index |-> 0, key |-> keyfile[d]],
                 SignedRecords(<<r>>, keyfile[d]))
    BY <1>3 DEF StartSet
  <2>2. minted' = minted
    BY <1>3 DEF StartSet
  <2>3. QED
    BY <1>t, <2>1, <2>2 DEF Begin
<1>4. CASE StartQuery(d)
  <2>1. PICK op \in Queries : Begin(d, "owner", [NoJob EXCEPT !.op = op], None)
    BY <1>4 DEF StartQuery
  <2>2. [NoJob EXCEPT !.op = op].op # "register"
    BY DEF NoJob, Queries
  <2>3. minted' = minted
    BY <1>4 DEF StartQuery
  <2>4. QED
    BY <1>t, <2>1, <2>2, <2>3 DEF Begin
<1>5. CASE QuickLookup(d) \/ Import(d)
  BY <1>t, <1>5 DEF QuickLookup, Import, Disks
<1>6. CASE FetchOwner(d) \/ ScanEntry(d) \/ Upload(d) \/ CreateRegister(d)
           \/ (\E records : SignDraft(d, records))
  BY <1>t, <1>6 DEF FetchOwner, ScanEntry, Upload, CreateRegister, SignDraft, Disks
<1>7. ASSUME NEW result, Finish(d, result), minted' = minted
      PROVE  /\ minted \subseteq minted'
             /\ \A e \in Devices \ {d} : pc'[e] = pc[e] /\ job'[e] = job[e]
             /\ job'[d].op # "register" /\ pc'[d] # "save"
  BY <1>t, <1>7 DEF Finish, NoJob
<1>8. CASE RejectIndex(d) \/ AnswerQuery(d) \/ LookupFails(d) \/ UploadFails(d)
           \/ UpdateRegister(d) \/ CommitRefused(d) \/ CommitReplyLost(d)
           \/ SaveKey(d) \/ SaveFails(d) \/ Crash(d)
  <2>1. minted' = minted /\ \E result : Finish(d, result)
    BY <1>8 DEF RejectIndex, AnswerQuery, LookupFails, UploadFails, UpdateRegister,
       CommitRefused, CommitReplyLost, SaveKey, SaveFails, Crash, Disks
  <2>2. QED
    BY <1>7, <2>1
<1>9. CASE DraftEdit(d) \/ AddToNothing(d)
  BY <1>6, <1>9 DEF DraftEdit, AddToNothing
<1>10. QED
  BY <1>1, <1>2, <1>3, <1>4, <1>5, <1>6, <1>8, <1>9 DEF Start, Advance

LEMMA OwnershipStep == TypeInv /\ Ownership /\ [Next]_vars => Ownership'
<1> SUFFICES ASSUME TypeInv, Ownership, [Next]_vars PROVE Ownership'
  OBVIOUS
\* Who has been accepted stays the owner.
<1>1. ASSUME NEW e \in Devices, pc[e] = "save"
      PROVE  job[e].key = Owner(register')
  <2>1. job[e].key \in Keys /\ job[e].key = Owner(register)
    BY <1>1 DEF TypeInv, JobsFit, JobFits, Ownership
  <2>2. QED
    BY <2>1, OwnerTypes, OwnerKept
<1>2. ASSUME NEW d \in Devices, Start(d) \/ Advance(d) \/ Crash(d)
      PROVE  Ownership'
  <2>1. /\ minted \subseteq minted'
        /\ \A e \in Devices \ {d} : pc'[e] = pc[e] /\ job'[e] = job[e]
        /\ \/ job'[d] = job[d]
           \/ job'[d].op # "register"
           \/ job'[d].key \in minted' \ minted
        /\ pc'[d] = "save" => CreateRegister(d)
    BY <1>2, JobSteps
  <2>2. ASSUME NEW e \in Devices, Registering(e)'
        PROVE  job'[e].key \in minted'
    BY <2>1, <2>2 DEF Ownership, Registering
  <2>3. ASSUME NEW e \in Devices, NEW f \in Devices, e # f,
               Registering(e)', Registering(f)'
        PROVE  job'[e].key # job'[f].key
    BY <2>1, <2>3 DEF Ownership, Registering
  <2>4. ASSUME NEW e \in Devices, pc'[e] = "save"
        PROVE  job'[e].key = Owner(register')
    <3>1. CASE e = d
      BY <2>1, <2>4, <3>1, CreateNames
    <3>2. CASE e # d
      BY <1>1, <2>1, <2>4, <3>2
    <3>3. QED
      BY <3>1, <3>2
  <2>5. QED
    BY <2>2, <2>3, <2>4 DEF Ownership
<1>3. CASE ForeignWrite \/ UNCHANGED vars
  <2>1. pc' = pc /\ job' = job /\ minted' = minted
    BY <1>3 DEF ForeignWrite, Disks, vars
  <2>2. QED
    BY <1>1, <2>1 DEF Ownership, Registering
<1>4. QED
  BY <1>2, <1>3 DEF Next

LEMMA OwnershipInvariant == Spec => [](TypeInv /\ Ownership)
<1>1. Init => Ownership
  BY DEF Init, Ownership, Registering, NoJob
<1>2. QED
  BY <1>1, TypeInit, TypeStep, OwnershipStep, PTL DEF Spec

\* Of any number of registrations that race for a name at most one reaches its
\* key file, and the key it saves there is the one the register names.
THEOREM OnlyOneRegistrant == Spec => []RegistrantOwnsDomain
<1>1. TypeInv /\ Ownership => RegistrantOwnsDomain
  BY DEF TypeInv, JobsFit, JobFits, Ownership, Registering, RegistrantOwnsDomain
<1>2. QED
  BY OwnershipInvariant, <1>1, PTL

\* No command writes a key file, whole, with a key that is not the owner's:
\* neither a refused registration nor one that lost its answer.
THEOREM KeyFilesNameOwners == Spec => KeyFileNamesOwner
<1>1. ASSUME TypeInv, Ownership, NEW e \in Devices,
             Start(e) \/ Advance(e) \/ Crash(e), NEW d \in Devices,
             keyfile'[d] # keyfile[d], keyfile'[d] # None, pc[d] # "idle"
      PROVE  keyfile'[d] = Owner(register)
  <2>t. keyfile \in [Devices -> Keys \cup {None}]
    BY <1>1 DEF TypeInv, TypeOK
  <2>1. Import(e) \/ SaveKey(e) \/ SaveFails(e)
    BY <1>1 DEF Start, StartRegister, StartEdit, StartSet, StartQuery, Begin,
       QuickLookup, Advance, FetchOwner, ScanEntry, DraftEdit, SignDraft,
       RejectIndex, AnswerQuery, AddToNothing, LookupFails, Upload, UploadFails,
       CreateRegister, UpdateRegister, CommitRefused, CommitReplyLost, Crash,
       Disks
  <2>2. CASE Import(e)
    <3>1. PICK k \in Keys : keyfile' \in Saved(e, k)
      BY <2>2 DEF Import
    <3>2. pc[e] = "idle" /\ d # e
      BY <1>1, <2>2 DEF Import
    <3>3. keyfile'[d] = keyfile[d]
      BY <2>t, <3>1, <3>2 DEF Saved
    <3>4. QED
      BY <1>1, <3>3
  <2>3. CASE SaveKey(e) \/ SaveFails(e)
    <3>1. pc[e] = "save" /\ keyfile' \in Saved(e, job[e].key)
      BY <2>3 DEF SaveKey, SaveFails, Saved
    <3>2. d = e /\ keyfile'[d] = job[e].key
      BY <1>1, <2>t, <3>1 DEF Saved
    <3>3. QED
      BY <1>1, <3>1, <3>2 DEF Ownership
  <2>4. QED
    BY <2>1, <2>2, <2>3
<1>2. TypeInv /\ Ownership /\ [Next]_vars =>
        [\A d \in Devices :
            /\ keyfile'[d] # keyfile[d] /\ keyfile'[d] # None
            /\ pc[d] # "idle"
            => keyfile'[d] = Owner(register)]_vars
  <2>1. ForeignWrite => keyfile' = keyfile
    BY DEF ForeignWrite, Disks
  <2>2. QED
    BY <1>1, <2>1 DEF Next
<1>3. QED
  BY OwnershipInvariant, <1>2, PTL DEF Spec, KeyFileNamesOwner

-----------------------------------------------------------------------------
(***************************************************************************)
(* What a domain says.                                                     *)
(***************************************************************************)

\* One more entry changes what a register says when it verifies under the
\* owner's key, and not otherwise.
LEMMA NewEntry ==
    ASSUME NEW h \in Seq(Documents), NEW doc \in Documents
    PROVE  CurrentRecords(Append(h, doc)) =
             IF h # <<>> /\ IsValid(doc, Owner(h)) THEN doc.records
             ELSE CurrentRecords(h)
<1>1. CASE h = <<>>
  <2>1. Len(h) = 0 /\ Len(Append(h, doc)) = 1
    BY <1>1, EmptySeq, AppendProperties
  <2>2. ValidEntries(h, 0) = {} /\ ValidEntries(Append(h, doc), 1) = {}
    BY DEF ValidEntries
  <2>3. QED
    BY <1>1, <2>1, <2>2 DEF CurrentRecords, RecordsUpTo
<1>2. CASE h # <<>>
  <2> DEFINE g == Append(h, doc)
             n == Len(h)
  <2>1. /\ g \in Seq(Documents) /\ Len(g) = n + 1 /\ g[n + 1] = doc
        /\ Owner(g) = Owner(h) /\ n \in Nat /\ n >= 1
    BY <1>2, OwnerOfLonger, EmptySeq, LenProperties
  <2>2. RecordsUpTo(g, n) = RecordsUpTo(h, n)
    BY <1>2, <2>1, PrefixIsStable
  <2>3. RecordsUpTo(g, n + 1) =
          IF IsValid(doc, Owner(h)) THEN doc.records ELSE RecordsUpTo(g, n)
    <3> HIDE DEF g
    <3>1. n \in 1..Len(g) /\ n + 1 <= Len(g)
      BY <2>1
    <3>2. QED
      BY <2>1, <3>1, NextEntry
  <2>4. QED
    BY <1>2, <2>1, <2>2, <2>3 DEF CurrentRecords
<1>3. QED
  BY <1>1, <1>2

\* The entry behind a change of what a domain says.
LEMMA RecordsChange ==
    ASSUME TypeInv, [Next]_vars, CurrentRecords(register') # CurrentRecords(register)
    PROVE  \E doc \in Documents :
              /\ register' = Append(register, doc) /\ register # <<>>
              /\ IsValid(doc, Owner(register)) /\ Owner(register) \in Keys
              /\ CurrentRecords(register') = doc.records
              /\ Foreign(doc) \/ \E d \in Devices : Committed(d, doc)
<1>1. PICK doc \in Documents :
         /\ register' = Append(register, doc)
         /\ Foreign(doc) \/ \E d \in Devices : Committed(d, doc)
  BY RegisterGrows
<1>2. /\ register # <<>> /\ IsValid(doc, Owner(register))
      /\ CurrentRecords(register') = doc.records
  BY <1>1, OwnerTypes, NewEntry
<1>3. Owner(register) \in Keys
  BY <1>2, OwnerTypes, NoneSignsNothing
<1>4. QED
  BY <1>1, <1>2, <1>3

\* A list that verifies was signed by a command with the owner's key.
LEMMA SignerOwns ==
    ASSUME NEW d \in Devices, NEW doc, Committed(d, doc), register # <<>>,
           IsValid(doc, Owner(register))
    PROVE  job[d].key = Owner(register)
<1>1. job[d].op # "register"
  BY DEF Committed, Accepted
<1>2. doc.signature = [by |-> job[d].key, over |-> doc.records]
  BY <1>1 DEF Committed, IsDraft, sign_records
<1>3. doc.signature = [by |-> Owner(register), over |-> doc.records]
  BY DEF IsValid, verify_records
<1>4. doc.signature.by = job[d].key /\ doc.signature.by = Owner(register)
  BY <1>2, <1>3
<1>5. QED
  BY <1>4

\* What makes a domain say something else is a draft that its own device
\* commits with the owner's key or, with replays, an entry that the owner has
\* signed for this register before.
LEMMA WhoChanges ==
    ASSUME TypeInv, [Next]_vars, CurrentRecords(register') # CurrentRecords(register)
    PROVE  \/ \E d \in Devices : HolderPublishes(d)
           \/ /\ Replays
              /\ \E i \in ValidEntries(register, Len(register)) :
                    CurrentRecords(register') = register[i].records
<1>1. PICK doc \in Documents :
         /\ register' = Append(register, doc) /\ register # <<>>
         /\ IsValid(doc, Owner(register)) /\ Owner(register) \in Keys
         /\ CurrentRecords(register') = doc.records
         /\ Foreign(doc) \/ \E d \in Devices : Committed(d, doc)
  BY RecordsChange
<1>2. ASSUME NEW d \in Devices, Committed(d, doc)
      PROVE  HolderPublishes(d)
  BY <1>1, <1>2, SignerOwns DEF Committed, HolderPublishes
<1>3. CASE Foreign(doc)
  <2>1. PICK i \in 1..Len(register) : Replays /\ doc = register[i]
    BY <1>1, <1>3 DEF Foreign
  \* The owner document is no list, so it is not the entry appended again.
  <2>2. i # 1
    <3>1. doc.kind = "records" /\ None \notin Keys
      BY <1>1, DocumentAssumption DEF IsValid
    <3>2. ASSUME i = 1 PROVE FALSE
      BY <1>1, <2>1, <3>1, <3>2 DEF Owner, OwnerOf
    <3>3. QED
      BY <3>2
  <2>3. i \in 2..Len(register)
    BY <2>1, <2>2, OwnerTypes
  <2>4. i \in ValidEntries(register, Len(register))
    BY <1>1, <2>1, <2>3 DEF ValidEntries
  <2>5. QED
    BY <1>1, <2>1, <2>4
<1>4. QED
  BY <1>1, <1>2, <1>3

\* Where nobody appends an old entry again, what a domain says changes only by
\* a commit of a device that has the owner's key, to the list of that device's
\* own draft: whatever strangers write, however often calls fail and processes
\* die.
THEOREM OnlyHoldersChangeDomains == ~Replays => (Spec => OnlyHolderChangesDomain)
<1> DEFINE Kept == TypeInv /\ ~Replays
<1>1. ~Replays => (Init => Kept)
  BY TypeInit
<1>2. Kept /\ [Next]_vars => Kept'
  BY TypeStep
<1>3. Kept /\ [Next]_vars =>
        [CurrentRecords(register') # CurrentRecords(register) =>
           \E d \in Devices : HolderPublishes(d)]_vars
  BY WhoChanges
<1> HIDE DEF Kept
<1>4. QED
  BY <1>1, <1>2, <1>3, PTL DEF Spec, OnlyHolderChangesDomain

\* With replays too, a domain only ever says what its owner has published in its
\* register: a draft of a device with the owner's key, or an old list of theirs.
THEOREM OnlyOwnersListsAreSaid == Spec => StrangersSayNothingNew
<1>1. TypeInv /\ [Next]_vars =>
        [CurrentRecords(register') # CurrentRecords(register) =>
           \/ \E d \in Devices : HolderPublishes(d)
           \/ \E i \in ValidEntries(register, Len(register)) :
                 CurrentRecords(register') = register[i].records]_vars
  BY WhoChanges
<1>2. QED
  BY <1>1, TypeInit, TypeStep, PTL DEF Spec, StrangersSayNothingNew

LEMMA DomainInit == Init => Domain!AbstractInit
<1> SUFFICES ASSUME Init PROVE Domain!AbstractInit
  OBVIOUS
<1>1. register = <<>> /\ Len(register) = 0
  BY EmptySeq DEF Init
<1>2. ValidEntries(register, 0) = {}
  BY DEF ValidEntries
<1>3. QED
  BY <1>1, <1>2 DEF Domain!AbstractInit, Owner, CurrentRecords, RecordsUpTo

\* A domain gets its owner when nobody has it, and with it no records.
LEMMA ClaimStep ==
    ASSUME TypeInv, [Next]_vars, Owner(register') # Owner(register)
    PROVE  Domain!Claim
<1>1. register = <<>>
  BY OwnerKept
<1>2. Owner(register) = None
  BY <1>1 DEF Owner
<1>3. PICK doc \in Documents : register' = Append(register, doc)
  BY RegisterGrows
<1>4. register' # <<>> /\ register'[1] = doc
  BY <1>1, <1>3, EmptySeq, AppendProperties
<1>5. Owner(register') \in Keys \cup {None}
  BY <1>4, DocumentTypes DEF Owner
<1>6. CurrentRecords(register') = CurrentRecords(register)
  BY <1>1, <1>3, OwnerTypes, NewEntry
<1>7. QED
  BY <1>2, <1>5, <1>6 DEF Domain!Claim

\* A register is a domain: nobody's until a registration is accepted, then one
\* owner's for good, and without records until its owner has published some.
THEOREM RegisterIsDomain == Spec => ImplementsDomain
<1>1. Init => Domain!AbstractInit
  BY DomainInit
<1>2. ASSUME TypeInv, [Next]_vars
      PROVE  [Domain!Claim \/ Domain!Publish]_<<Owner(register), CurrentRecords(register)>>
  <2>1. CASE CurrentRecords(register') # CurrentRecords(register)
    <3>1. PICK doc \in Documents :
             /\ register # <<>> /\ IsValid(doc, Owner(register))
             /\ Owner(register) \in Keys
             /\ CurrentRecords(register') = doc.records
      BY <1>2, <2>1, RecordsChange
    <3>2. doc.records \in Seq(Records)
      BY <3>1, DocumentTypes
    <3>3. Owner(register') = Owner(register) /\ Owner(register) # None
      BY <1>2, <3>1, OwnerKept, OwnerTypes
    <3>4. QED
      BY <3>1, <3>2, <3>3 DEF Domain!Publish
  <2>2. CASE Owner(register') # Owner(register)
    BY <1>2, <2>2, ClaimStep
  <2>3. QED
    BY <2>1, <2>2
<1>3. QED
  BY <1>1, <1>2, TypeInit, TypeStep, PTL DEF Spec, ImplementsDomain, Domain!Spec
=============================================================================
