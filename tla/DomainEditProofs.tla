---------------------------- MODULE DomainEditProofs ----------------------------
(***************************************************************************)
(* Where the commands that edit a domain keep what their comments promise, *)
(* for any number of devices, keys and records.  With any editors and any  *)
(* faults an edit is one of a list the domain has said.  Each of the other *)
(* theorems names the conditions it needs, and the runs that violate the   *)
(* same property show what happens without them:                           *)
(*                                                                         *)
(*   OneEditor    edits are atomic when one device edits, no stranger      *)
(*                appends an old entry again, and lookups do not fail      *)
(*   NoImports    what reports success has taken effect when keys come     *)
(*                from registrations only                                  *)
(*   KeysReachDisk  the owner's key is on some device when, besides,       *)
(*                registrations are not cut short after their commit       *)
(***************************************************************************)
EXTENDS DomainOwnershipProofs

\* The commands of d that append a list to the register.
Editing(d) == Commands[d] \cap (Edits \cup {"set"})

OneEditor ==
    /\ \A d, e \in Devices : d # e => Editing(d) = {} \/ Editing(e) = {}
    /\ ~Replays
    /\ Faults \cap {"owner", "history", "download"} = {}

NoImports == \A d \in Devices : "import" \notin Commands[d]

KeysReachDisk == NoImports /\ Faults \cap {"commit", "save", "crash"} = {}

-----------------------------------------------------------------------------
(***************************************************************************)
(* The invariants.                                                         *)
(***************************************************************************)

\* Nobody runs a command its user does not run, and an edit has its arguments.
Issued ==
    \A d \in Devices :
        /\ job[d].op \in Commands[d] \cup {"none"}
        /\ job[d].op \in Edits => job[d] \in EditJobs(job[d].key)

\* A key under registration is known to the device that registers it and to
\* nobody else: it is in no key file and in no other command.
Apart(d, e) ==
    Registering(e) =>
        /\ job[e].key \in minted
        /\ keyfile[d] # job[e].key
        /\ d # e => job[d].key # job[e].key

Fresh ==
    /\ \A d \in Devices : keyfile[d] \in minted \cup {None}
    /\ \A d \in Devices : job[d].key \in minted \cup {None}
    /\ \A d, e \in Devices : Apart(d, e)

Publishing(d) == pc[d] \in {"upload", "commit"}

Unmissed == \A d \in Devices : pc[d] = "scan" => ~scan[d].missed

SetDrafts ==
    \A d \in Devices : Publishing(d) /\ job[d].op = "set" =>
        \E r \in RootRecords : draft[d].records = <<r>>

\* The list on its way to the register is the current one with the edit the
\* user asked for: an edit has read nothing that is out of date by now.
UpToDate(d) ==
    Publishing(d) /\ job[d].op \in Edits /\ job[d].key = Owner(register) =>
        /\ InBounds(CurrentRecords(register), job[d])
        /\ draft[d].records = Edited(CurrentRecords(register), job[d])

EditInv ==
    /\ OneEditor /\ LookupInv /\ Issued /\ Fresh /\ Unmissed /\ SetDrafts
    /\ \A d \in Devices : UpToDate(d)

\* Every key on a device, and every key a command signs with, is the owner's.
HeldKeys ==
    \A d \in Devices :
        /\ keyfile[d] \in {None, Owner(register)}
        /\ job[d].op \in Edits \cup {"set"} =>
              job[d].key = Owner(register) /\ job[d].key \in Keys

Unanswered == \A d \in Devices : pc[d] # "idle" => answer[d] = None

-----------------------------------------------------------------------------
(***************************************************************************)
(* What a step of device d does to the rows of the devices.                *)
(***************************************************************************)

LEMMA RowSteps ==
    ASSUME TypeInv, NEW d \in Devices, Start(d) \/ Advance(d) \/ Crash(d)
    PROVE  /\ \A e \in Devices \ {d} :
                 /\ pc'[e] = pc[e] /\ job'[e] = job[e] /\ scan'[e] = scan[e]
                 /\ draft'[e] = draft[e] /\ answer'[e] = answer[e]
           /\ \/ StartRegister(d) \/ StartEdit(d) \/ StartSet(d) \/ StartQuery(d)
              \/ pc'[d] = "idle" /\ job'[d] = NoJob
              \/ job'[d] = job[d] /\ pc[d] # "idle" /\ answer'[d] = answer[d]
              \/ job'[d] = job[d] /\ pc'[d] = pc[d] /\ pc[d] = "idle"
<1> USE DEF TypeInv, TypeOK
<1>1. CASE StartRegister(d) \/ StartEdit(d) \/ StartSet(d) \/ StartQuery(d)
  BY <1>1 DEF StartRegister, StartEdit, StartSet, StartQuery, Begin
<1>2. CASE QuickLookup(d) \/ Import(d)
  BY <1>2 DEF QuickLookup, Import
<1>3. CASE \E result : Finish(d, result)
  BY <1>3 DEF Finish
<1>4. CASE RejectIndex(d) \/ AnswerQuery(d) \/ LookupFails(d) \/ UploadFails(d)
           \/ UpdateRegister(d) \/ CommitRefused(d) \/ CommitReplyLost(d)
           \/ SaveKey(d) \/ SaveFails(d) \/ Crash(d)
  BY <1>3, <1>4 DEF RejectIndex, AnswerQuery, LookupFails, UploadFails,
     UpdateRegister, CommitRefused, CommitReplyLost, SaveKey, SaveFails, Crash
<1>5. CASE FetchOwner(d) \/ ScanEntry(d) \/ Upload(d) \/ CreateRegister(d)
  BY <1>5 DEF FetchOwner, ScanEntry, Upload, CreateRegister, Commit
<1>6. CASE DraftEdit(d) \/ AddToNothing(d)
  BY <1>6 DEF DraftEdit, AddToNothing, SignDraft, AtEnd, LookupError
<1>7. QED
  BY <1>1, <1>2, <1>4, <1>5, <1>6 DEF Start, Advance

\* The job of a command that begins, and where its key comes from.
LEMMA BegunJob ==
    ASSUME TypeInv, NEW d \in Devices,
           StartRegister(d) \/ StartEdit(d) \/ StartSet(d) \/ StartQuery(d)
    PROVE  /\ keyfile' = keyfile /\ register' = register
           /\ job'[d].op \in Commands[d] /\ answer'[d] = None
           /\ \/ /\ StartRegister(d) /\ job'[d].op = "register"
                 /\ job'[d].key \in Keys \ minted
                 /\ minted' = minted \cup {job'[d].key}
              \/ /\ StartEdit(d) /\ job'[d].op \in Edits /\ pc'[d] = "owner"
                 /\ job'[d].key = keyfile[d] /\ minted' = minted
                 /\ job'[d] \in EditJobs(keyfile[d])
              \/ /\ StartSet(d) /\ job'[d].op = "set"
                 /\ job'[d].key = keyfile[d] /\ minted' = minted
                 /\ \E r \in RootRecords : draft'[d].records = <<r>>
              \/ /\ StartQuery(d) /\ job'[d].op \in Queries /\ pc'[d] = "owner"
                 /\ job'[d].key = None /\ minted' = minted
<1> USE DEF TypeInv, TypeOK
<1>1. CASE StartRegister(d)
  <2>1. PICK k \in Keys \ minted :
           /\ minted' = minted \cup {k}
           /\ Begin(d, "upload", [NoJob EXCEPT !.op = "register", !.key = k],
                    DomainOwnerDocument(k))
    BY <1>1 DEF StartRegister
  <2>2. /\ [NoJob EXCEPT !.op = "register", !.key = k].key = k
        /\ [NoJob EXCEPT !.op = "register", !.key = k].op = "register"
    BY DEF NoJob
  <2>3. "register" \in Commands[d]
    BY <1>1 DEF StartRegister
  <2>4. QED
    BY <1>1, <2>1, <2>2, <2>3 DEF Begin, Network
<1>2. CASE StartEdit(d)
  <2>1. keyfile[d] \in Keys /\ minted' = minted
    BY <1>2 DEF StartEdit
  <2>2. PICK j \in EditJobs(keyfile[d]) :
           j.op \in Commands[d] /\ Begin(d, "owner", j, None)
    BY <1>2 DEF StartEdit
  <2>3. j.op \in Edits /\ j.key = keyfile[d]
    BY <2>1, EditJobsTyped
  <2>4. QED
    BY <1>2, <2>1, <2>2, <2>3 DEF Begin, Network
<1>3. CASE StartSet(d)
  <2> DEFINE j(r) == [op |-> "set", record |-> r, index |-> 0, key |-> keyfile[d]]
  <2>1. PICK r \in RootRecords :
           Begin(d, "upload", j(r), SignedRecords(<<r>>, keyfile[d]))
    BY <1>3 DEF StartSet
  <2>2. j(r).op = "set" /\ j(r).key = keyfile[d]
    OBVIOUS
  <2>3. SignedRecords(<<r>>, keyfile[d]).records = <<r>>
    BY DEF SignedRecords
  <2>4. "set" \in Commands[d] /\ minted' = minted
    BY <1>3 DEF StartSet
  <2>5. QED
    <3> HIDE DEF j
    <3> QED BY <1>3, <2>1, <2>2, <2>3, <2>4 DEF Begin, Network
<1>4. CASE StartQuery(d)
  <2>1. PICK op \in Commands[d] \cap Queries :
           Begin(d, "owner", [NoJob EXCEPT !.op = op], None)
    BY <1>4 DEF StartQuery
  <2>2. /\ [NoJob EXCEPT !.op = op].op = op
        /\ [NoJob EXCEPT !.op = op].key = None
    BY DEF NoJob
  <2>3. minted' = minted
    BY <1>4 DEF StartQuery
  <2>4. QED
    BY <1>4, <2>1, <2>2, <2>3 DEF Begin, Network
<1>5. QED
  BY <1>1, <1>2, <1>3, <1>4

\* Key files change when a registration ends and when a key is imported.
LEMMA KeyFileSteps ==
    ASSUME TypeInv, NEW d \in Devices, Start(d) \/ Advance(d) \/ Crash(d)
    PROVE  \/ keyfile' = keyfile
           \/ Import(d)
           \/ /\ SaveKey(d) \/ SaveFails(d)
              /\ pc[d] = "save" /\ Registering(d) /\ job[d].key \in Keys
              /\ keyfile' \in Saved(d, job[d].key)
              /\ minted' = minted /\ register' = register /\ job'[d] = NoJob
<1>1. ASSUME SaveKey(d) \/ SaveFails(d)
      PROVE  /\ pc[d] = "save" /\ Registering(d) /\ job[d].key \in Keys
             /\ keyfile' \in Saved(d, job[d].key)
             /\ minted' = minted /\ register' = register /\ job'[d] = NoJob
  BY <1>1 DEF SaveKey, SaveFails, Saved, TypeInv, TypeOK, JobsFit, JobFits,
     Registering, Finish, Network
<1>2. Start(d) => keyfile' = keyfile \/ Import(d)
  BY DEF Start, StartRegister, StartEdit, StartSet, StartQuery, Begin,
     QuickLookup, Disks
<1>3. Crash(d) => keyfile' = keyfile
  BY DEF Crash, Disks
<1>4. Advance(d) => keyfile' = keyfile \/ SaveKey(d) \/ SaveFails(d)
  BY DEF Advance, FetchOwner, ScanEntry, DraftEdit, SignDraft,
     RejectIndex, AnswerQuery, AddToNothing, LookupFails, Upload, UploadFails,
     CreateRegister, UpdateRegister, CommitRefused, CommitReplyLost, Disks
<1>5. QED
  BY <1>1, <1>2, <1>3, <1>4

-----------------------------------------------------------------------------
(***************************************************************************)
(* Keys under registration.                                                *)
(***************************************************************************)

LEMMA FreshStep == TypeInv /\ Fresh /\ [Next]_vars => Fresh'
<1> SUFFICES ASSUME TypeInv, Fresh, [Next]_vars PROVE Fresh'
  OBVIOUS
<1>t. /\ keyfile \in [Devices -> Keys \cup {None}] /\ minted \subseteq Keys
      /\ None \notin Keys /\ NoJob.op # "register" /\ NoJob.key = None
      /\ job \in [Devices -> Jobs]
  BY DocumentAssumption DEF TypeInv, TypeOK, NoJob
<1>1. ASSUME NEW d \in Devices, Start(d) \/ Advance(d) \/ Crash(d)
      PROVE  Fresh'
  <2>1. \A e \in Devices \ {d} : job'[e] = job[e]
    BY <1>1, RowSteps
  \* Who has a key after the step had it before, or got it from d.
  <2>2. ASSUME minted \subseteq minted',
               \A e \in Devices : keyfile'[e] \in minted' \cup {None},
               job'[d].key \in minted' \cup {None},
               \A e \in Devices : Apart(d, e)' /\ Apart(e, d)',
               \A e, f \in Devices \ {d} :
                  Registering(f) => keyfile'[e] # job[f].key
        PROVE  Fresh'
    <3>1. \A e \in Devices : job'[e].key \in minted' \cup {None}
      BY <2>1, <2>2 DEF Fresh
    <3>2. ASSUME NEW e \in Devices \ {d}, NEW f \in Devices \ {d}
          PROVE  Apart(e, f)'
      <4>1. Apart(e, f) /\ job'[e] = job[e] /\ job'[f] = job[f]
        BY <2>1 DEF Fresh
      <4>2. QED
        BY <2>2, <4>1 DEF Apart, Registering
    <3>3. QED
      BY <2>2, <3>1, <3>2 DEF Fresh
  <2>3. CASE StartRegister(d) \/ StartEdit(d) \/ StartSet(d) \/ StartQuery(d)
    <3>1. /\ keyfile' = keyfile /\ minted \subseteq minted'
          /\ \/ /\ Registering(d)' /\ job'[d].key \in Keys \ minted
                /\ job'[d].key \in minted'
             \/ ~Registering(d)' /\ job'[d].key \in {keyfile[d], None}
      BY <1>t, <2>3, BegunJob DEF Registering, Edits, Queries
    <3>2. ASSUME NEW e \in Devices
          PROVE  Apart(d, e)' /\ Apart(e, d)'
      <4>1. /\ Apart(d, e) /\ Apart(e, d)
            /\ keyfile[e] \in minted \cup {None} /\ job[e].key \in minted \cup {None}
        BY DEF Fresh
      <4>2. CASE e = d
        BY <1>t, <3>1, <4>1, <4>2 DEF Apart, Registering
      <4>3. CASE e # d
        <5>1. job'[e] = job[e]
          BY <2>1, <4>3
        <5>2. QED
          BY <1>t, <3>1, <4>1, <4>3, <5>1 DEF Apart, Registering
      <4>4. QED
        BY <4>2, <4>3
    <3>3. QED
      BY <2>2, <3>1, <3>2 DEF Fresh, Apart
  <2>4. ASSUME job'[d] = job[d] \/ job'[d] = NoJob, minted \subseteq minted',
               \A e \in Devices : keyfile'[e] \in minted' \cup {None},
               \A e, f \in Devices : Registering(f)' => keyfile'[e] # job'[f].key
        PROVE  Fresh'
    <3>1. ASSUME NEW e \in Devices
          PROVE  Apart(d, e)' /\ Apart(e, d)'
      <4>1. Apart(d, e) /\ Apart(e, d) /\ (e = d \/ job'[e] = job[e])
        BY <2>1 DEF Fresh
      <4>2. QED
        BY <1>t, <2>4, <4>1 DEF Apart, Registering
    <3>2. job'[d].key \in minted' \cup {None}
      BY <1>t, <2>4 DEF Fresh
    <3>3. QED
      BY <2>1, <2>2, <2>4, <3>1, <3>2 DEF Registering
  <2>5. CASE /\ job'[d] = job[d] \/ job'[d] = NoJob
             /\ keyfile' = keyfile
    <3>1. minted \subseteq minted'
      BY <1>1, JobSteps
    <3>2. \A e, f \in Devices : Registering(f)' => keyfile'[e] # job'[f].key
      <4>1. \A f \in Devices : Registering(f)' => job'[f] = job[f]
        BY <1>t, <2>1, <2>5 DEF Registering
      <4>2. QED
        BY <2>5, <4>1 DEF Fresh, Apart, Registering
    <3>3. QED
      BY <2>4, <2>5, <3>1, <3>2 DEF Fresh
  <2>6. CASE Import(d)
    <3>1. PICK k \in Keys :
            /\ k \in minted => \E e \in Devices : keyfile[e] = k
            /\ minted' = minted \cup {k}
            /\ keyfile' \in Saved(d, k)
      BY <2>6 DEF Import
    <3>2. job' = job
      BY <2>6 DEF Import
    <3>3. \A e \in Devices : keyfile'[e] \in {keyfile[e], k, None}
      BY <1>t, <3>1 DEF Saved
    <3>4. \A f \in Devices : Registering(f) =>
             /\ job[f].key \in minted /\ job[f].key # k /\ job[f].key # None
             /\ \A e \in Devices : keyfile[e] # job[f].key
      BY <1>t, <3>1 DEF Fresh, Apart
    <3>5. \A e, f \in Devices : Registering(f)' => keyfile'[e] # job'[f].key
      BY <3>2, <3>3, <3>4 DEF Registering
    <3>6. \A e \in Devices : keyfile'[e] \in minted' \cup {None}
      BY <3>1, <3>3 DEF Fresh
    <3>7. QED
      BY <2>4, <3>1, <3>2, <3>5, <3>6
  <2>7. CASE /\ Registering(d) /\ job[d].key \in Keys
             /\ keyfile' \in Saved(d, job[d].key)
             /\ minted' = minted /\ job'[d] = NoJob
    <3>1. \A e \in Devices : keyfile'[e] \in {keyfile[e], job[d].key, None}
      BY <1>t, <2>7 DEF Saved
    <3>2. \A f \in Devices : Registering(f)' =>
             /\ job'[f] = job[f] /\ f # d /\ job[f].key \in minted
             /\ job[f].key # job[d].key
             /\ \A e \in Devices : keyfile[e] # job[f].key
      BY <1>t, <2>1, <2>7 DEF Fresh, Apart, Registering
    <3>3. \A e, f \in Devices : Registering(f)' => keyfile'[e] # job'[f].key
      BY <1>t, <3>1, <3>2 DEF TypeInv, TypeOK
    <3>4. \A e \in Devices : keyfile'[e] \in minted' \cup {None}
      BY <2>7, <3>1 DEF Fresh, Apart
    <3>5. QED
      BY <2>4, <2>7, <3>3, <3>4
  <2>8. QED
    BY <1>1, <2>3, <2>5, <2>6, <2>7, RowSteps, KeyFileSteps
<1>2. CASE ForeignWrite \/ UNCHANGED vars
  BY <1>2 DEF ForeignWrite, Disks, vars, Fresh, Apart, Registering
<1>3. QED
  BY <1>1, <1>2 DEF Next

-----------------------------------------------------------------------------
(***************************************************************************)
(* What a command carries.                                                 *)
(***************************************************************************)

LEMMA IssuedStep == TypeInv /\ Issued /\ [Next]_vars => Issued'
<1> SUFFICES ASSUME TypeInv, Issued, [Next]_vars PROVE Issued'
  OBVIOUS
<1>1. ASSUME NEW d \in Devices, Start(d) \/ Advance(d) \/ Crash(d)
      PROVE  Issued'
  <2>1. NoJob.op = "none"
    BY DEF NoJob
  <2>2. CASE StartRegister(d) \/ StartEdit(d) \/ StartSet(d) \/ StartQuery(d)
    BY <1>1, <2>2, RowSteps, BegunJob DEF Issued, Edits, Queries
  <2>3. QED
    BY <1>1, <2>1, <2>2, RowSteps DEF Issued, Edits
<1>2. CASE ForeignWrite \/ UNCHANGED vars
  BY <1>2 DEF ForeignWrite, vars, Issued
<1>3. QED
  BY <1>1, <1>2 DEF Next

\* A command that has not ended has printed nothing.
LEMMA UnansweredStep == TypeInv /\ Unanswered /\ [Next]_vars => Unanswered'
<1> SUFFICES ASSUME TypeInv, Unanswered, [Next]_vars PROVE Unanswered'
  OBVIOUS
<1>1. ASSUME NEW d \in Devices, Start(d) \/ Advance(d) \/ Crash(d)
      PROVE  Unanswered'
  BY <1>1, RowSteps, BegunJob DEF Unanswered
<1>2. CASE ForeignWrite \/ UNCHANGED vars
  BY <1>2 DEF ForeignWrite, vars, Unanswered
<1>3. QED
  BY <1>1, <1>2 DEF Next

\* Where a list comes from that a device is about to publish.
LEMMA DraftSteps ==
    ASSUME TypeInv, NEW d \in Devices, Start(d) \/ Advance(d) \/ Crash(d),
           Publishing(d)'
    PROVE  \/ StartRegister(d) \/ StartSet(d)
           \/ /\ DraftEdit(d) \/ AddToNothing(d)
              /\ pc[d] \in {"owner", "scan"}
              /\ job[d].op \in Edits /\ job'[d] = job[d]
              /\ register' = register
           \/ /\ pc[d] = "upload" /\ job'[d] = job[d] /\ draft'[d] = draft[d]
              /\ register' = register
<1> USE DEF TypeInv, TypeOK
<1>1. ASSUME DraftEdit(d) \/ AddToNothing(d)
      PROVE  /\ pc[d] \in {"owner", "scan"}
             /\ job[d].op \in Edits /\ job'[d] = job[d] /\ register' = register
  BY <1>1 DEF DraftEdit, AddToNothing, AtEnd, LookupError, SignDraft, Network, Edits
<1>2. ASSUME Upload(d)
      PROVE  /\ pc[d] = "upload" /\ job'[d] = job[d] /\ draft'[d] = draft[d]
             /\ register' = register
  BY <1>2 DEF Upload
<1>3. ~\E result : Finish(d, result)
  BY DEF Finish, Publishing
<1>4. ~(StartEdit(d) \/ StartQuery(d) \/ QuickLookup(d) \/ Import(d))
  BY DEF StartEdit, StartQuery, QuickLookup, Import, Begin, Publishing
<1>5. ~(FetchOwner(d) \/ ScanEntry(d) \/ CreateRegister(d))
  BY DEF FetchOwner, ScanEntry, CreateRegister, Publishing
<1>6. ~(\/ RejectIndex(d) \/ AnswerQuery(d) \/ LookupFails(d) \/ UploadFails(d)
        \/ UpdateRegister(d) \/ CommitRefused(d) \/ CommitReplyLost(d)
        \/ SaveKey(d) \/ SaveFails(d) \/ Crash(d))
  BY <1>3 DEF RejectIndex, AnswerQuery, LookupFails, UploadFails,
     UpdateRegister, CommitRefused, CommitReplyLost, SaveKey, SaveFails, Crash
<1>7. QED
  BY <1>1, <1>2, <1>4, <1>5, <1>6 DEF Start, Advance

LEMMA SetDraftsStep == TypeInv /\ SetDrafts /\ [Next]_vars => SetDrafts'
<1> SUFFICES ASSUME TypeInv, SetDrafts, [Next]_vars PROVE SetDrafts'
  OBVIOUS
<1>1. ASSUME NEW d \in Devices, Start(d) \/ Advance(d) \/ Crash(d),
             NEW e \in Devices, Publishing(e)', job'[e].op = "set"
      PROVE  \E r \in RootRecords : draft'[e].records = <<r>>
  <2>1. CASE e # d
    BY <1>1, <2>1, RowSteps DEF SetDrafts, Publishing
  <2>2. CASE e = d
    <3>1. CASE StartRegister(d) \/ StartSet(d)
      BY <1>1, <2>2, <3>1, BegunJob DEF Edits, Queries
    <3>2. CASE job[d].op \in Edits /\ job'[d] = job[d]
      BY <1>1, <2>2, <3>2 DEF Edits
    <3>3. CASE pc[d] = "upload" /\ job'[d] = job[d] /\ draft'[d] = draft[d]
      BY <1>1, <2>2, <3>3 DEF SetDrafts, Publishing
    <3>4. QED
      BY <1>1, <2>2, <3>1, <3>2, <3>3, DraftSteps
  <2>3. QED
    BY <2>1, <2>2
<1>2. CASE ForeignWrite \/ UNCHANGED vars
  BY <1>2 DEF ForeignWrite, vars, SetDrafts, Publishing
<1>3. QED
  BY <1>1, <1>2 DEF Next, SetDrafts

\* Without download faults a lookup misses nothing that the network has.
LEMMA UnmissedStep ==
    ASSUME TypeInv, Unmissed, "download" \notin Faults, [Next]_vars
    PROVE  Unmissed'
<1>1. ASSUME NEW d \in Devices, Start(d) \/ Advance(d) \/ Crash(d),
             NEW e \in Devices, pc'[e] = "scan"
      PROVE  ~scan'[e].missed
  <2>1. CASE pc'[e] = pc[e] /\ scan'[e] = scan[e]
    BY <1>1, <2>1 DEF Unmissed
  <2>2. CASE FetchOwner(e)
    BY <2>2 DEF FetchOwner, TypeInv, TypeOK
  <2>3. CASE ScanEntry(e)
    <3>1. /\ scan[e] \in Scans /\ pc[e] = "scan" /\ scan[e].pos <= Len(register)
          /\ register \in Seq(Documents) /\ Len(register) \in Nat
          /\ scan[e].pos \in Nat \ {0, 1}
      BY <2>3, LenProperties
         DEF ScanEntry, TypeInv, TypeOK, JobsFit, JobFits, Scans
    <3>2. register[scan[e].pos] \in Documents
      BY <3>1, ElementOfSeq
    <3>3. PICK got \in BOOLEAN :
             scan' = [scan EXCEPT ![e] = ReadEntry(@, register[scan[e].pos], got)]
      BY <2>3 DEF ScanEntry
    <3>4. scan'[e] = ReadEntry(scan[e], register[scan[e].pos], got)
      BY <3>3 DEF TypeInv, TypeOK
    <3>5. scan'[e].missed = scan[e].missed
      BY <3>1, <3>2, <3>4, ReadEntryRow
    <3>6. QED
      BY <3>1, <3>5 DEF Unmissed
  <2>4. QED
    BY <1>1, <2>1, <2>2, <2>3, LookupSteps
<1>2. CASE ForeignWrite \/ UNCHANGED vars
  BY <1>2 DEF ForeignWrite, vars, Unmissed
<1>3. QED
  BY <1>1, <1>2 DEF Next, Unmissed

-----------------------------------------------------------------------------
(***************************************************************************)
(* Edits by any number of devices.                                         *)
(***************************************************************************)

\* What a lookup has read so far, downloads that failed left out, is a list the
\* domain has said, and what a draft edits is one too.
SeenBefore(d) ==
    pc[d] = "scan" => \E n \in 0..Len(register) :
                          scan[d].records = RecordsUpTo(register, n)

FitsPast(d) ==
    Publishing(d) /\ job[d].op \in Edits =>
        \E n \in 0..Len(register) :
            /\ InBounds(RecordsUpTo(register, n), job[d])
            /\ draft[d].records = Edited(RecordsUpTo(register, n), job[d])

PastInv == LookupInv /\ \A d \in Devices : SeenBefore(d) /\ FitsPast(d)

\* What the domain has said it will always have said.
LEMMA PastStays ==
    ASSUME TypeInv, [Next]_vars, NEW n \in 0..Len(register)
    PROVE  n \in 0..Len(register') /\ RecordsUpTo(register', n) = RecordsUpTo(register, n)
<1>t. register \in Seq(Documents) /\ Len(register) \in Nat
  BY LenProperties DEF TypeInv, TypeOK
<1>1. CASE register' = register
  BY <1>1
<1>2. ASSUME NEW doc \in Documents, register' = Append(register, doc)
      PROVE  n \in 0..Len(register') /\ RecordsUpTo(register', n) = RecordsUpTo(register, n)
  <2>1. Len(register') = Len(register) + 1
    BY <1>t, <1>2, AppendProperties
  <2>2. CASE n = 0
    <3>1. ValidEntries(register, n) = {} /\ ValidEntries(register', n) = {}
      BY <2>2 DEF ValidEntries
    <3>2. QED
      BY <1>t, <2>1, <2>2, <3>1 DEF RecordsUpTo
  <2>3. CASE n # 0
    <3>1. n \in 1..Len(register) /\ register # <<>>
      BY <1>t, <2>3, EmptySeq
    <3>2. QED
      BY <1>t, <1>2, <2>1, <3>1, PrefixIsStable
  <2>4. QED
    BY <2>2, <2>3
<1>3. QED
  BY <1>1, <1>2, RegisterGrows

\* Before its first valid entry a domain says the empty list.
LEMMA NothingAtFirst == RecordsUpTo(register, 0) = <<>>
<1>1. ValidEntries(register, 0) = {}
  BY DEF ValidEntries
<1>2. QED
  BY <1>1 DEF RecordsUpTo

LEMMA SeenKept ==
    ASSUME TypeInv, [Next]_vars, NEW d \in Devices, SeenBefore(d),
           pc'[d] = pc[d], scan'[d] = scan[d]
    PROVE  SeenBefore(d)'
BY PastStays DEF SeenBefore

LEMMA FitsKept ==
    ASSUME TypeInv, [Next]_vars, NEW d \in Devices, FitsPast(d),
           Publishing(d)' => Publishing(d), job'[d] = job[d], draft'[d] = draft[d]
    PROVE  FitsPast(d)'
<1> SUFFICES ASSUME Publishing(d)', job'[d].op \in Edits
             PROVE  \E n \in 0..Len(register') :
                       /\ InBounds(RecordsUpTo(register', n), job'[d])
                       /\ draft'[d].records = Edited(RecordsUpTo(register', n), job'[d])
  BY DEF FitsPast
<1>1. PICK n \in 0..Len(register) :
         /\ InBounds(RecordsUpTo(register, n), job[d])
         /\ draft[d].records = Edited(RecordsUpTo(register, n), job[d])
  BY DEF FitsPast
<1>2. n \in 0..Len(register') /\ RecordsUpTo(register', n) = RecordsUpTo(register, n)
  BY PastStays
<1>3. QED
  BY <1>1, <1>2

\* A round of the loop keeps the list it has or takes that of a valid entry.
LEMMA ScanSees ==
    ASSUME LookupInv, NEW d \in Devices, SeenBefore(d), ScanEntry(d)
    PROVE  SeenBefore(d)'
<1> DEFINE p == scan[d].pos
           doc == register[scan[d].pos]
<1>1. /\ scan[d] \in Scans /\ p \in Nat \ {0, 1} /\ p <= Len(register)
      /\ register \in Seq(Documents) /\ Len(register) \in Nat
      /\ register' = register /\ pc[d] = "scan" /\ scan[d].owner = Owner(register)
  BY LenProperties DEF ScanEntry, Network, LookupInv, TypeInv, TypeOK, JobsFit,
     JobFits, Scans, LookupFollowsRegister
<1>2. doc \in Documents
  BY <1>1, ElementOfSeq
<1>3. PICK got \in BOOLEAN, m \in BOOLEAN :
        scan'[d] = IF m THEN [ReadEntry(scan[d], doc, got) EXCEPT !.missed = TRUE]
                   ELSE ReadEntry(scan[d], doc, got)
  BY DEF ScanEntry, LookupInv, TypeInv, TypeOK
<1> DEFINE r == ReadEntry(scan[d], doc, got)
<1>4. /\ r \in Scans
      /\ r.records = IF got /\ IsValid(doc, Owner(register))
                     THEN doc.records ELSE scan[d].records
  BY <1>1, <1>2, ReadEntryRow
<1>5. scan'[d].records = r.records
  <2> HIDE DEF r, doc
  <2> QED BY <1>3, <1>4 DEF Scans, r
<1>6. CASE scan'[d].records = scan[d].records
  BY <1>1, <1>6 DEF SeenBefore
<1>7. CASE IsValid(doc, Owner(register)) /\ scan'[d].records = doc.records
  <2>1. /\ p - 1 \in 1..Len(register) /\ (p - 1) + 1 <= Len(register)
        /\ (p - 1) + 1 = p /\ p \in 0..Len(register)
    BY <1>1
  <2>2. RecordsUpTo(register, p) = doc.records
    <3>1. RecordsUpTo(register, (p - 1) + 1) =
             IF IsValid(register[(p - 1) + 1], Owner(register))
             THEN register[(p - 1) + 1].records ELSE RecordsUpTo(register, p - 1)
      BY <1>1, <2>1, NextEntry
    <3>2. QED
      BY <1>7, <2>1, <3>1
  <2>3. QED
    BY <1>1, <1>7, <2>1, <2>2 DEF SeenBefore
<1>8. QED
  BY <1>4, <1>5, <1>6, <1>7

\* A list is drafted from what the lookup has seen, or from nothing.
LEMMA DraftFits ==
    ASSUME LookupInv, NEW d \in Devices, SeenBefore(d), DraftEdit(d) \/ AddToNothing(d)
    PROVE  FitsPast(d)'
<1>1. /\ register' = register /\ job' = job /\ job[d].key \in Keys
      /\ draft \in [Devices -> Documents \cup {None}]
  <2>1. register' = register /\ job' = job /\ pc[d] \in {"owner", "scan"}
    BY DEF DraftEdit, AddToNothing, SignDraft, Network, AtEnd, LookupError
  <2>2. job[d].op \in Edits
    BY DEF DraftEdit, AddToNothing, Edits
  <2>3. QED
    BY <2>1, <2>2 DEF LookupInv, TypeInv, TypeOK, JobsFit, JobFits, Edits, Queries
<1>2. ASSUME NEW n \in 0..Len(register), InBounds(RecordsUpTo(register, n), job[d]),
             SignDraft(d, Edited(RecordsUpTo(register, n), job[d]))
      PROVE  FitsPast(d)'
  <2>1. draft'[d].records = Edited(RecordsUpTo(register, n), job[d])
    BY <1>1, <1>2 DEF SignDraft, SignedRecords
  <2>2. QED
    BY <1>1, <1>2, <2>1 DEF FitsPast
<1>3. CASE DraftEdit(d)
  <2>1. PICK n \in 0..Len(register) : scan[d].records = RecordsUpTo(register, n)
    BY <1>3 DEF DraftEdit, AtEnd, SeenBefore
  <2>2. QED
    BY <1>2, <1>3, <2>1 DEF DraftEdit
<1>4. CASE AddToNothing(d)
  <2>1. job[d].op = "add" /\ SignDraft(d, <<job[d].record>>)
    BY <1>4 DEF AddToNothing
  <2>2. Edited(<<>>, job[d]) = <<job[d].record>> /\ InBounds(<<>>, job[d])
    BY <2>1 DEF Edited, InBounds
  <2>3. 0 \in 0..Len(register)
    BY LenProperties DEF LookupInv, TypeInv, TypeOK
  <2>4. QED
    BY <1>2, <2>1, <2>2, <2>3, NothingAtFirst
<1>5. QED
  BY <1>3, <1>4

LEMMA PastStep == PastInv /\ [Next]_vars => PastInv'
<1> SUFFICES ASSUME PastInv, [Next]_vars PROVE PastInv'
  OBVIOUS
<1>t. TypeInv /\ LookupInv /\ \A d \in Devices : SeenBefore(d) /\ FitsPast(d)
  BY DEF PastInv, LookupInv
<1>1. LookupInv'
  BY <1>t, TypeStep, StoredStep, FollowsStep, TracksStep DEF LookupInv
<1>2. ASSUME NEW d \in Devices, Start(d) \/ Advance(d) \/ Crash(d), NEW e \in Devices
      PROVE  SeenBefore(e)' /\ FitsPast(e)'
  <2>1. CASE e # d
    <3>1. /\ pc'[e] = pc[e] /\ scan'[e] = scan[e] /\ job'[e] = job[e]
          /\ draft'[e] = draft[e]
      BY <1>t, <1>2, <2>1, RowSteps
    <3>2. QED
      BY <1>t, <3>1, SeenKept, FitsKept DEF Publishing
  <2>2. SeenBefore(d)'
    <3>1. CASE FetchOwner(d)
      <4>1. scan'[d].records = <<>> /\ register' = register
        BY <1>t, <3>1 DEF FetchOwner, Network, TypeInv, TypeOK
      <4>2. 0 \in 0..Len(register)
        BY <1>t, LenProperties DEF TypeInv, TypeOK
      <4>3. QED
        BY <4>1, <4>2, NothingAtFirst DEF SeenBefore
    <3>2. CASE ScanEntry(d)
      BY <1>t, <3>2, ScanSees
    <3>3. CASE pc'[d] # "scan"
      BY <3>3 DEF SeenBefore
    <3>4. CASE pc'[d] = pc[d] /\ scan'[d] = scan[d]
      BY <1>t, <3>4, SeenKept
    <3>5. QED
      BY <1>t, <1>2, <3>1, <3>2, <3>3, <3>4, LookupSteps
  <2>3. FitsPast(d)'
    <3>1. CASE ~Publishing(d)'
      BY <3>1 DEF FitsPast
    <3>2. CASE Publishing(d)' /\ (StartRegister(d) \/ StartSet(d))
      <4>1. job'[d].op \notin Edits
        BY <1>t, <3>2, BegunJob DEF Edits, Queries, Publishing
      <4>2. QED
        BY <4>1 DEF FitsPast
    <3>3. CASE DraftEdit(d) \/ AddToNothing(d)
      BY <1>t, <3>3, DraftFits
    <3>4. CASE pc[d] = "upload" /\ job'[d] = job[d] /\ draft'[d] = draft[d]
      BY <1>t, <3>4, FitsKept DEF Publishing
    <3>5. QED
      BY <1>t, <1>2, <3>1, <3>2, <3>3, <3>4, DraftSteps
  <2>4. QED
    BY <2>1, <2>2, <2>3
<1>3. CASE ForeignWrite \/ UNCHANGED vars
  <2>1. pc' = pc /\ scan' = scan /\ job' = job /\ draft' = draft
    BY <1>3 DEF ForeignWrite, vars
  <2>2. QED
    BY <1>t, <1>1, <2>1, SeenKept, FitsKept DEF PastInv, Publishing
<1>4. QED
  BY <1>1, <1>2, <1>3 DEF Next, PastInv

\* With any number of devices that edit at once, whatever fails, and whatever
\* strangers append or append again: the list that add, delete or update is
\* about to publish is the edit its user asked for of a list the domain has
\* said.  Editors can undo each other's edits; what they publish is still one
\* edit away from a list the domain has had.
THEOREM EditsStartFromThePast == Spec => []EditsFitThePast
<1>1. Init => \A d \in Devices : SeenBefore(d) /\ FitsPast(d)
  BY DEF Init, SeenBefore, FitsPast, Publishing
<1>2. PastInv => EditsFitThePast
  BY DEF PastInv, FitsPast, Publishing, EditsFitThePast
<1>3. Spec => []PastInv
  <2>1. Init /\ LookupInv => PastInv
    BY <1>1 DEF PastInv
  <2>2. QED
    BY <2>1, PastStep, LookupInvariant, PTL DEF Spec
<1>4. QED
  BY <1>2, <1>3, PTL

-----------------------------------------------------------------------------
(***************************************************************************)
(* Edits by one device.                                                    *)
(***************************************************************************)

\* Who appends what: nobody, a stranger, or a device that ends its command.
LEMMA WhoAppends ==
    ASSUME TypeInv, [Next]_vars
    PROVE  \/ register' = register
           \/ \E doc \in Documents :
                 /\ register' = Append(register, doc) /\ pc' = pc
                 /\ \/ OwnerOf(doc) = None /\ \A k \in Keys : ~IsValid(doc, k)
                    \/ Replays /\ \E i \in 1..Len(register) : doc = register[i]
           \/ \E d \in Devices :
                 /\ register' = Append(register, draft[d]) /\ draft[d] \in Documents
                 /\ Committed(d, draft[d]) /\ ~Publishing(d)'
                 /\ CreateRegister(d) \/ UpdateRegister(d) \/ CommitReplyLost(d)
<1>1. ASSUME NEW d \in Devices, Start(d) \/ Advance(d) \/ Crash(d),
             register' # register
      PROVE  /\ register' = Append(register, draft[d]) /\ draft[d] \in Documents
             /\ Committed(d, draft[d]) /\ ~Publishing(d)'
             /\ CreateRegister(d) \/ UpdateRegister(d) \/ CommitReplyLost(d)
  <2>1. CreateRegister(d) \/ UpdateRegister(d) \/ CommitReplyLost(d)
    <3>1. ~Start(d)
      BY <1>1 DEF Start, StartRegister, StartEdit, StartSet, StartQuery,
         QuickLookup, Import, Begin, Network
    <3>2. QED
      BY <1>1, <3>1 DEF Crash, Advance, FetchOwner, ScanEntry, DraftEdit,
         RejectIndex, AnswerQuery, AddToNothing, SignDraft, LookupFails, Upload,
         UploadFails, CommitRefused, SaveKey, SaveFails, Network
  <2>2. Commit(d) /\ pc'[d] \in {"save", "idle"}
    BY <2>1 DEF CreateRegister, UpdateRegister, CommitReplyLost, Finish,
       TypeInv, TypeOK
  <2>3. /\ job[d] \in Jobs /\ job[d].key \in Keys /\ IsDraft(draft[d], job[d])
        /\ Committed(d, draft[d])
    BY <2>2 DEF Commit, Committed, TypeInv, TypeOK, JobsFit, JobFits
  <2>4. draft[d] \in Documents
    BY <2>3, DraftType
  <2>5. QED
    BY <2>1, <2>2, <2>3, <2>4 DEF Commit, Publishing
<1>2. CASE ForeignWrite
  <2>1. \A i \in 1..Len(register) : register[i] \in Documents
    BY OwnerTypes
  <2>2. QED
    BY <1>2, <2>1, RegisterAssumption, StrangersSignNothing DEF ForeignWrite
<1>3. CASE UNCHANGED vars
  BY <1>3 DEF vars
<1>4. QED
  BY <1>1, <1>2, <1>3 DEF Next

\* An entry that a command puts behind others is a list of one of the devices
\* that edit.
LEMMA EditorCommits ==
    ASSUME Issued, NEW d \in Devices, Committed(d, draft[d]), register # <<>>
    PROVE  job[d].op \in Editing(d) /\ job[d].op # "register"
BY DEF Committed, Accepted, Issued, Editing, Writers, Edits

LEMMA UpToDateStep ==
    ASSUME EditInv, [Next]_vars, NEW d \in Devices
    PROVE  UpToDate(d)'
<1> SUFFICES ASSUME Publishing(d)', job'[d].op \in Edits,
                    job'[d].key = Owner(register')
             PROVE  /\ InBounds(CurrentRecords(register'), job'[d])
                    /\ draft'[d].records
                         = Edited(CurrentRecords(register'), job'[d])
  BY DEF UpToDate
<1>t. TypeInv /\ LookupInv /\ Issued /\ Fresh /\ ~Replays
  BY DEF EditInv, LookupInv, OneEditor
<1>1. CASE Publishing(d) /\ job'[d] = job[d] /\ draft'[d] = draft[d]
  <2>1. job[d].key \in Keys
    BY <1>t, <1>1 DEF TypeInv, JobsFit, JobFits, Publishing
  <2>2. ASSUME CurrentRecords(register') = CurrentRecords(register),
               Owner(register') = Owner(register)
        PROVE  /\ InBounds(CurrentRecords(register'), job'[d])
               /\ draft'[d].records = Edited(CurrentRecords(register'), job'[d])
    BY <1>1, <2>2 DEF EditInv, UpToDate
  <2>3. CASE register' = register
    BY <2>2, <2>3
  <2>4. ASSUME NEW doc \in Documents, register' = Append(register, doc),
               OwnerOf(doc) = None, \A k \in Keys : ~IsValid(doc, k)
        PROVE  /\ CurrentRecords(register') = CurrentRecords(register)
               /\ Owner(register') = Owner(register)
    <3>1. ~IsValid(doc, Owner(register))
      BY <1>t, <2>4, OwnerTypes, NoneSignsNothing
    <3>2. CurrentRecords(register') = CurrentRecords(register)
      BY <1>t, <2>4, <3>1, OwnerTypes, NewEntry
    <3>3. CASE register # <<>>
      BY <1>t, <3>2, <3>3, OwnerKept
    <3>4. CASE register = <<>>
      <4>1. register' # <<>> /\ register'[1] = doc
        BY <2>4, <3>4, EmptySeq, AppendProperties
      <4>2. QED
        BY <2>4, <3>2, <3>4, <4>1 DEF Owner
    <3>5. QED
      BY <3>3, <3>4
  <2>5. ASSUME NEW e \in Devices, register' = Append(register, draft[e]),
               draft[e] \in Documents, Committed(e, draft[e]), ~Publishing(e)'
        PROVE  FALSE
    <3>1. e # d
      BY <2>5
    <3>2. CASE register # <<>>
      <4>1. job[e].op \in Editing(e) /\ job[d].op \in Editing(d)
        BY <1>t, <1>1, <2>5, <3>2, EditorCommits DEF Issued, Editing, Edits
      <4>2. QED
        BY <3>1, <4>1 DEF EditInv, OneEditor
    <3>3. CASE register = <<>>
      <4>1. Registering(e) /\ job[e] \in Jobs /\ job[e].key \in Keys
            /\ IsDraft(draft[e], job[e])
        BY <1>t, <2>5, <3>3
           DEF Committed, Accepted, Registering, TypeInv, TypeOK
      <4>2. OwnerOf(draft[e]) = job[e].key
        BY <4>1, DraftType DEF Registering
      <4>3. register' # <<>> /\ register'[1] = draft[e]
        BY <2>5, <3>3, EmptySeq, AppendProperties
      <4>4. job[d].key = job[e].key
        BY <1>1, <4>2, <4>3 DEF Owner
      <4>5. QED
        BY <1>t, <3>1, <4>1, <4>4 DEF Fresh, Apart
    <3>4. QED
      BY <3>2, <3>3
  <2>6. QED
    BY <1>t, <2>2, <2>3, <2>4, <2>5, WhoAppends
<1>2. CASE DraftEdit(d)
  <2>1. /\ AtEnd(d) /\ InBounds(scan[d].records, job[d])
        /\ draft'[d] = SignedRecords(Edited(scan[d].records, job[d]), job[d].key)
        /\ job'[d] = job[d] /\ register' = register
    BY <1>t, <1>2 DEF DraftEdit, SignDraft, TypeInv, TypeOK, Network
  <2>2. ~scan[d].missed
    BY <2>1 DEF AtEnd, EditInv, Unmissed
  <2>3. scan[d].records = CurrentRecords(register)
    BY <1>t, <2>1, <2>2, ReadAll
  <2>4. QED
    BY <2>1, <2>3 DEF SignedRecords
<1>3. CASE AddToNothing(d)
  <2>1. ~FirstEntryReadable /\ register' = register /\ job'[d] = job[d]
        /\ pc[d] \in {"owner", "scan"} /\ job[d].op = "add"
    BY <1>t, <1>3 DEF AddToNothing, LookupError, EditInv, OneEditor, SignDraft,
       TypeInv, TypeOK, Network
  <2>2. Owner(register) \in Keys
    BY <1>t, <2>1 DEF TypeInv, JobsFit, JobFits, Queries
  <2>3. register # <<>> /\ 1 \in 1..Len(register) /\ OwnerOf(register[1]) # None
    <3>1. register # <<>> /\ register \in Seq(Documents) /\ Len(register) \in Nat
          /\ None \notin Keys
      BY <1>t, <2>2, OwnerTypes
    <3>2. QED
      BY <2>2, <3>1, EmptySeq DEF Owner
  <2>4. register[1] \in chunks
    BY <1>t, <2>3 DEF LookupInv, EntriesStored
  <2>5. QED
    BY <2>1, <2>3, <2>4 DEF FirstEntryReadable
<1>4. ASSUME NEW e \in Devices, Start(e) \/ Advance(e) \/ Crash(e)
      PROVE  \/ DraftEdit(d) \/ AddToNothing(d)
             \/ Publishing(d) /\ job'[d] = job[d] /\ draft'[d] = draft[d]
  <2>1. CASE e # d
    BY <1>t, <1>4, <2>1, RowSteps DEF Publishing
  <2>2. CASE e = d
    <3>1. ~StartRegister(d) /\ ~StartSet(d)
      BY <1>t, BegunJob DEF Edits, Publishing
    <3>2. QED
      BY <1>t, <1>4, <2>2, <3>1, DraftSteps DEF Publishing
  <2>3. QED
    BY <2>1, <2>2
<1>5. ForeignWrite \/ UNCHANGED vars =>
        Publishing(d) /\ job'[d] = job[d] /\ draft'[d] = draft[d]
  BY DEF ForeignWrite, vars, Publishing
<1>6. QED
  BY <1>1, <1>2, <1>3, <1>4, <1>5 DEF Next

\* Everything that EditInv names is kept, and so are the conditions, for they
\* speak of constants alone.
LEMMA EditInvariant == OneEditor /\ Spec => []EditInv
<1>1. OneEditor /\ Init => EditInv
  <2>1. Init => EntriesStored
    BY EmptySeq DEF Init, EntriesStored
  <2>2. Init => LookupInv
    BY <2>1, TypeInit
       DEF Init, LookupInv, LookupFollowsRegister, TrailsTrack, Tracks
  <2>3. Init => /\ Issued /\ Fresh /\ Unmissed /\ SetDrafts
                /\ \A d \in Devices : UpToDate(d)
    <3> SUFFICES ASSUME Init
                 PROVE  /\ Issued /\ Fresh /\ Unmissed /\ SetDrafts
                        /\ \A d \in Devices : UpToDate(d)
      OBVIOUS
    <3>1. \A d \in Devices :
             /\ pc[d] = "idle" /\ keyfile[d] = None /\ job[d].key = None
             /\ job[d].op = "none"
      BY DEF Init, NoJob
    <3>2. Issued /\ Fresh
      BY <3>1 DEF Issued, Edits, Fresh, Apart, Registering
    <3>3. Unmissed /\ SetDrafts /\ \A d \in Devices : UpToDate(d)
      BY <3>1 DEF Unmissed, SetDrafts, UpToDate, Publishing
    <3>4. QED
      BY <3>2, <3>3
  <2>4. QED
    BY <2>2, <2>3 DEF EditInv
<1>2. EditInv /\ [Next]_vars => EditInv'
  <2> SUFFICES ASSUME EditInv, [Next]_vars PROVE EditInv'
    OBVIOUS
  <2>1. LookupInv'
    BY TypeStep, StoredStep, FollowsStep, TracksStep DEF LookupInv, EditInv
  <2>2. Issued' /\ Fresh' /\ SetDrafts'
    BY IssuedStep, FreshStep, SetDraftsStep DEF LookupInv, EditInv
  <2>3. Unmissed'
    BY UnmissedStep DEF LookupInv, EditInv, OneEditor
  <2>4. \A d \in Devices : UpToDate(d)'
    BY UpToDateStep
  <2>5. OneEditor'
    BY DEF EditInv, OneEditor, Editing
  <2>6. QED
    BY <2>1, <2>2, <2>3, <2>4, <2>5 DEF EditInv
<1>3. QED
  BY <1>1, <1>2, PTL DEF Spec

\* What a command of d that takes effect appends.
LEMMA EditTakesEffect ==
    ASSUME EditInv, [Next]_vars, NEW d \in Devices,
           pc[d] = "commit", ~Publishing(d)', register' # register,
           job[d].op \in Edits, Owner(register) = job[d].key
    PROVE  /\ InBounds(CurrentRecords(register), job[d])
           /\ CurrentRecords(register')
                = Edited(CurrentRecords(register), job[d])
<1>t. TypeInv /\ LookupInv /\ Issued /\ ~Replays
  BY DEF EditInv, LookupInv, OneEditor
<1>1. /\ InBounds(CurrentRecords(register), job[d])
      /\ draft[d].records = Edited(CurrentRecords(register), job[d])
  BY DEF EditInv, UpToDate, Publishing
<1>2. job[d].key \in Keys
  BY <1>t DEF TypeInv, JobsFit, JobFits
<1>3. register # <<>> /\ job[d].op \in Editing(d)
  BY <1>t, <1>2, OwnerTypes DEF Issued, Editing, Edits
<1>4. PICK e \in Devices :
         /\ register' = Append(register, draft[e]) /\ draft[e] \in Documents
         /\ Committed(e, draft[e])
  BY <1>t, WhoAppends DEF Publishing
<1>5. e = d
  BY <1>t, <1>3, <1>4, EditorCommits DEF EditInv, OneEditor
<1>6. IsValid(draft[d], Owner(register))
  BY <1>t, <1>2, <1>3, <1>4, <1>5, EditorCommits, DraftType
     DEF Committed, TypeInv, TypeOK
<1>7. QED
  BY <1>t, <1>1, <1>3, <1>4, <1>5, <1>6, OwnerTypes, NewEntry

\* When one device edits and its lookups do not fail, add, delete and update
\* change the list that is current when they take effect by the edit the user
\* asked for: whoever else reads, registers or appends noise, and wherever the
\* editor's own commands fail or die after their lookup
\* (register/records.rs:14-100).
THEOREM OneEditorEditsAtomically == OneEditor => (Spec => EditsAreAtomic)
<1>1. EditInv /\ [Next]_vars =>
        [\A d \in Devices :
            /\ pc[d] = "commit" /\ pc'[d] = "idle" /\ register' # register
            /\ job[d].op \in Edits
            /\ Owner(register) = job[d].key
            => CurrentRecords(register')
                 = Edited(CurrentRecords(register), job[d])]_vars
  BY EditTakesEffect DEF Publishing
<1>2. QED
  BY EditInvariant, <1>1, PTL DEF Spec, EditsAreAtomic

\* Adding a record then keeps the others, even right after another edit of the
\* same device.
THEOREM OneEditorKeepsRecords == OneEditor => (Spec => AddKeepsRecords)
<1>1. ASSUME EditInv, [Next]_vars, NEW d \in Devices,
             pc[d] = "commit", pc'[d] = "idle", register' # register,
             job[d].op = "add", Owner(register) = job[d].key
      PROVE  CurrentRecords(register')
               = Append(CurrentRecords(register), job[d].record)
  <2>1. CurrentRecords(register') = Edited(CurrentRecords(register), job[d])
    BY <1>1, EditTakesEffect DEF Publishing, Edits
  <2>2. QED
    BY <1>1, <2>1 DEF Edited
<1>2. EditInv /\ [Next]_vars =>
        [\A d \in Devices :
            /\ pc[d] = "commit" /\ pc'[d] = "idle" /\ register' # register
            /\ job[d].op = "add"
            /\ Owner(register) = job[d].key
            => CurrentRecords(register')
                 = Append(CurrentRecords(register), job[d].record)]_vars
  BY <1>1
<1>3. QED
  BY EditInvariant, <1>2, PTL DEF Spec, AddKeepsRecords

\* An edit of the register is an edit of the abstract domain.
LEMMA EditIsAbstract ==
    ASSUME EditInv, NEW d \in Devices, job[d].op \in Edits,
           Owner(register) # None, Owner(register') = Owner(register),
           InBounds(CurrentRecords(register), job[d]),
           CurrentRecords(register') = Edited(CurrentRecords(register), job[d])
    PROVE  Domain!Edit
<1> DEFINE rs == CurrentRecords(register)
           j == job[d]
<1>1. rs \in Seq(Records) /\ Len(rs) \in Nat
  BY CurrentType, LenProperties DEF EditInv, LookupInv, TypeInv, TypeOK
<1>2. j \in EditJobs(j.key) /\ Indices \subseteq Nat
  BY RegisterAssumption DEF EditInv, Issued
<1>3. CASE j.op = "add"
  <2>1. j.record \in Records
    BY <1>2, <1>3 DEF EditJobs
  <2>2. QED
    BY <1>3, <2>1 DEF Edited, Domain!Edit, Domain!AddRecord
<1>4. CASE j.op = "delete"
  <2>1. j.index \in Nat /\ j.index < Len(rs)
    BY <1>2, <1>4 DEF EditJobs, InBounds
  <2>2. j.index + 1 \in 1..Len(rs) /\ (j.index + 1) - 1 = j.index
        /\ (j.index + 1) + 1 = j.index + 2
    BY <1>1, <2>1
  <2>3. CurrentRecords(register') = SubSeq(rs, 1, (j.index + 1) - 1)
                                      \o SubSeq(rs, (j.index + 1) + 1, Len(rs))
    BY <1>4, <2>2 DEF Edited
  <2>4. Domain!DeleteRecord
    BY <2>2, <2>3 DEF Domain!DeleteRecord
  <2>5. QED
    BY <2>4 DEF Domain!Edit
<1>5. CASE j.op = "update"
  <2>1. j.record \in Records /\ j.index \in Nat /\ j.index < Len(rs)
    BY <1>2, <1>5 DEF EditJobs, InBounds
  <2>2. j.index + 1 \in 1..Len(rs)
    BY <1>1, <2>1
  <2>3. CurrentRecords(register') = [rs EXCEPT ![j.index + 1] = j.record]
    BY <1>5 DEF Edited
  <2>4. Domain!ReplaceRecord
    BY <2>1, <2>2, <2>3 DEF Domain!ReplaceRecord
  <2>5. QED
    BY <2>4 DEF Domain!Edit
<1>6. QED
  BY <1>3, <1>4, <1>5 DEF Edits

\* Seen from outside, a domain that one device edits is the abstract domain of
\* the comments in register/update.rs: it is claimed once, and then each step is
\* one record added, removed or replaced, or the whole list set to one target.
THEOREM OneEditorRefinesEdits == OneEditor => (Spec => ImplementsEdits)
<1>1. ASSUME EditInv, [Next]_vars
      PROVE  [Domain!Claim \/ Domain!Edit]_<<Owner(register), CurrentRecords(register)>>
  <2>t. TypeInv /\ Issued /\ ~Replays
    BY <1>1 DEF EditInv, LookupInv, OneEditor
  <2>1. CASE Owner(register') # Owner(register)
    BY <1>1, <2>t, <2>1, ClaimStep
  <2>2. CASE /\ Owner(register') = Owner(register)
             /\ CurrentRecords(register') # CurrentRecords(register)
    <3>1. \A doc \in Documents : register' = Append(register, doc) =>
             register # <<>> /\ IsValid(doc, Owner(register))
             /\ CurrentRecords(register') = doc.records
      BY <2>t, <2>2, OwnerTypes, NewEntry
    <3>2. ASSUME NEW doc \in Documents, IsValid(doc, Owner(register))
          PROVE  Owner(register) \in Keys
      BY <2>t, <3>2, OwnerTypes, NoneSignsNothing
    <3>3. PICK d \in Devices :
             /\ register' = Append(register, draft[d]) /\ draft[d] \in Documents
             /\ Committed(d, draft[d]) /\ ~Publishing(d)'
      BY <1>1, <2>t, <2>2, <3>1, <3>2, WhoAppends
    <3>4. /\ register # <<>> /\ IsValid(draft[d], Owner(register))
          /\ CurrentRecords(register') = draft[d].records
          /\ Owner(register) \in Keys /\ Owner(register) # None
      BY <2>t, <3>1, <3>2, <3>3, OwnerTypes
    <3>5. job[d].key = Owner(register) /\ job[d].op \in Editing(d)
          /\ pc[d] = "commit"
      BY <2>t, <3>3, <3>4, SignerOwns, EditorCommits DEF Committed
    <3>6. CASE job[d].op \in Edits
      <4>1. /\ InBounds(CurrentRecords(register), job[d])
            /\ CurrentRecords(register')
                 = Edited(CurrentRecords(register), job[d])
        BY <1>1, <2>2, <3>3, <3>5, <3>6, EditTakesEffect
      <4>2. QED
        BY <1>1, <2>2, <3>4, <3>6, <4>1, EditIsAbstract
    <3>7. CASE job[d].op = "set"
      <4>1. \E r \in RootRecords : draft[d].records = <<r>>
        BY <1>1, <3>5, <3>7 DEF EditInv, SetDrafts, Publishing
      <4>2. QED
        BY <2>2, <3>4, <4>1 DEF Domain!Edit, Domain!SetTarget
    <3>8. QED
      BY <3>5, <3>6, <3>7 DEF Editing
  <2>3. QED
    BY <2>1, <2>2
<1>2. QED
  BY <1>1, DomainInit, EditInvariant, PTL DEF Spec, ImplementsEdits, Domain!EditSpec

-----------------------------------------------------------------------------
(***************************************************************************)
(* Keys from registrations only.                                           *)
(***************************************************************************)

LEMMA HeldKeysStep ==
    ASSUME TypeInv, Ownership, HeldKeys, NoImports, [Next]_vars
    PROVE  HeldKeys'
<1>t. None \notin Keys /\ keyfile \in [Devices -> Keys \cup {None}]
  BY DocumentAssumption DEF TypeInv, TypeOK
\* The owner of a key file or of a job stays the owner.
<1>1. ASSUME NEW k \in Keys, k = Owner(register)
      PROVE  k = Owner(register')
  BY <1>1, OwnerTypes, OwnerKept
<1>2. ASSUME NEW d \in Devices
      PROVE  /\ keyfile[d] \in {None, Owner(register')}
             /\ job[d].op \in Edits \cup {"set"} =>
                   job[d].key = Owner(register') /\ job[d].key \in Keys
  BY <1>1 DEF HeldKeys, TypeInv, TypeOK
<1>3. ASSUME NEW d \in Devices, Start(d) \/ Advance(d) \/ Crash(d)
      PROVE  HeldKeys'
  <2>1. \A e \in Devices : keyfile'[e] \in {None, Owner(register')}
    <3>1. CASE keyfile' = keyfile
      BY <1>2, <3>1
    <3>2. CASE /\ pc[d] = "save" /\ job[d].key \in Keys
               /\ keyfile' \in Saved(d, job[d].key)
      <4>1. job[d].key = Owner(register')
        BY <1>1, <3>2 DEF Ownership
      <4>2. QED
        BY <1>t, <1>2, <3>2, <4>1 DEF Saved
    <3>3. QED
      BY <1>3, <3>1, <3>2, KeyFileSteps DEF Import, NoImports
  <2>2. ASSUME NEW e \in Devices, job'[e].op \in Edits \cup {"set"}
        PROVE  job'[e].key = Owner(register') /\ job'[e].key \in Keys
    <3>1. CASE job'[e] = job[e]
      BY <1>2, <2>2, <3>1
    <3>2. CASE job'[e] = NoJob
      BY <2>2, <3>2 DEF NoJob, Edits
    <3>3. CASE /\ e = d
               /\ StartRegister(d) \/ StartEdit(d) \/ StartSet(d) \/ StartQuery(d)
      <4>1. (StartEdit(d) \/ StartSet(d)) /\ job'[d].key = keyfile[d]
        BY <2>2, <3>3, BegunJob DEF Edits, Queries
      <4>2. keyfile[d] \in Keys
        BY <1>t, <4>1 DEF StartEdit, StartSet
      <4>3. QED
        BY <1>t, <1>2, <3>3, <4>1, <4>2
    <3>4. QED
      BY <1>3, <3>1, <3>2, <3>3, RowSteps
  <2>3. QED
    BY <2>1, <2>2 DEF HeldKeys
<1>4. CASE ForeignWrite \/ UNCHANGED vars
  BY <1>2, <1>4 DEF ForeignWrite, vars, Disks, HeldKeys
<1>5. QED
  BY <1>3, <1>4 DEF Next

HeldInv == NoImports /\ TypeInv /\ Ownership /\ HeldKeys /\ Unanswered

LEMMA HeldInvariant == NoImports /\ Spec => []HeldInv
<1>1. Init => HeldKeys /\ Unanswered /\ Ownership
  BY DEF Init, HeldKeys, Unanswered, Ownership, Registering, NoJob, Edits
<1>2. HeldInv /\ [Next]_vars => HeldInv'
  <2>1. NoImports => NoImports'
    BY DEF NoImports
  <2>2. QED
    BY <2>1, TypeStep, OwnershipStep, HeldKeysStep, UnansweredStep DEF HeldInv
<1>3. NoImports /\ Init => HeldInv
  BY <1>1, TypeInit DEF HeldInv
<1>4. QED
  BY <1>2, <1>3, PTL DEF Spec

\* On devices that never import a key every key file holds the owner's key, so
\* an edit or a new target that is reported as done is what everybody who reads
\* the register finds: with any number of devices, whatever fails, and whatever
\* strangers append (register/update.rs:42-71, cli/records.rs:66-116).
THEOREM SuccessWithoutImports == NoImports => (Spec => SuccessTakesEffect)
<1>1. ASSUME HeldInv, [Next]_vars, NEW d \in Devices, pc[d] = "commit",
             answer'[d] # None, answer'[d].op # "register"
      PROVE  CurrentRecords(register') = draft[d].records
  <2>t. TypeInv
    BY <1>1 DEF HeldInv
  <2>1. answer[d] = None
    BY <1>1 DEF HeldInv, Unanswered
  <2>2. PICK e \in Devices : Start(e) \/ Advance(e) \/ Crash(e)
    BY <1>1, <2>1 DEF Next, ForeignWrite, vars
  <2>3. e = d
    BY <1>1, <2>t, <2>1, <2>2, RowSteps
  <2>4. UpdateRegister(d)
    <3>1. ~Start(d)
      BY <1>1 DEF Start, StartRegister, StartEdit, StartSet, StartQuery,
                  QuickLookup, Import, Begin
    <3>2. ~Finish(d, None)
      BY <1>1, <2>t DEF Finish, TypeInv, TypeOK
    <3>3. ~(\/ FetchOwner(d) \/ ScanEntry(d) \/ DraftEdit(d) \/ AddToNothing(d)
            \/ AnswerQuery(d) \/ Upload(d) \/ SaveKey(d))
      BY <1>1 DEF FetchOwner, ScanEntry, DraftEdit, AddToNothing, LookupError,
                  AtEnd, AnswerQuery, Upload, SaveKey
    <3>4. ~CreateRegister(d)
      BY <1>1, <2>1 DEF CreateRegister
    <3>5. QED
      BY <2>2, <2>3, <3>1, <3>2, <3>3, <3>4
         DEF Advance, RejectIndex, LookupFails, UploadFails, CommitRefused,
             CommitReplyLost, SaveFails, Crash
  <2>5. /\ register' = Append(register, draft[d]) /\ register # <<>>
        /\ job[d].op # "register"
    BY <2>4 DEF UpdateRegister, Commit, Accepted
  <2>6. /\ job[d] \in Jobs /\ job[d].key \in Keys /\ IsDraft(draft[d], job[d])
        /\ job[d].op \in Edits \cup {"set"}
    BY <1>1, <2>t, <2>5 DEF TypeInv, TypeOK, JobsFit, JobFits, Writers
  <2>7. draft[d] \in Documents /\ IsValid(draft[d], Owner(register))
    BY <1>1, <2>5, <2>6, DraftType DEF HeldInv, HeldKeys
  <2>8. QED
    BY <2>t, <2>5, <2>7, OwnerTypes, NewEntry
<1>2. HeldInv /\ [Next]_vars =>
        [\A d \in Devices :
            /\ pc[d] = "commit" /\ answer'[d] # None /\ answer'[d].op # "register"
            => CurrentRecords(register') = draft[d].records]_vars
  BY <1>1
<1>3. QED
  BY HeldInvariant, <1>2, PTL DEF Spec, SuccessTakesEffect

\* The only ways to register a domain whose key no device has are a commit whose
\* answer is lost and a process that ends before its key file is written:
\* without those, and without imports that overwrite the file, the key of every
\* registered domain is on a device, or about to be written there.
THEOREM OnlyCutShortRegistrationsLoseKeys ==
    KeysReachDisk => (Spec => []RegisteredKeyIsSaved)
<1> DEFINE Kept == KeysReachDisk /\ HeldInv /\ RegisteredKeyIsSaved
<1>1. KeysReachDisk /\ Init => RegisteredKeyIsSaved
  BY DEF Init, RegisteredKeyIsSaved, Owner
<1>2. ASSUME Kept, [Next]_vars
      PROVE  RegisteredKeyIsSaved'
  <2> SUFFICES ASSUME Owner(register') # None
               PROVE  \E d \in Devices :
                         pc'[d] = "save" \/ keyfile'[d] = Owner(register')
    BY DEF RegisteredKeyIsSaved
  <2>t. /\ TypeInv /\ Ownership
        /\ "commit" \notin Faults /\ "save" \notin Faults /\ "crash" \notin Faults
        /\ \A d \in Devices : ~Import(d)
    BY <1>2 DEF HeldInv, KeysReachDisk, NoImports, Import
  <2>1. CASE register = <<>>
    <3>1. \A doc \in Documents : register' = Append(register, doc) =>
             OwnerOf(doc) = Owner(register')
      <4>1. ASSUME NEW doc \in Documents, register' = Append(register, doc)
            PROVE  OwnerOf(doc) = Owner(register')
        <5>1. register' # <<>> /\ register'[1] = doc
          BY <2>1, <4>1, EmptySeq, AppendProperties
        <5>2. QED
          BY <5>1 DEF Owner
      <4>2. QED
        BY <4>1
    <3>2. register' # register /\ ~\E i \in 1..Len(register) : TRUE
      BY <2>1, EmptySeq DEF Owner
    <3>3. PICK d \in Devices :
             /\ Committed(d, draft[d])
             /\ CreateRegister(d) \/ UpdateRegister(d) \/ CommitReplyLost(d)
      BY <1>2, <2>t, <3>1, <3>2, WhoAppends
    <3>4. CreateRegister(d)
      BY <2>t, <2>1, <3>3
         DEF Committed, Accepted, UpdateRegister, CommitReplyLost
    <3>5. QED
      BY <2>t, <3>4, CreateNames
  <2>2. CASE register # <<>>
    <3>1. Owner(register') = Owner(register)
      BY <1>2, <2>t, <2>2, OwnerKept
    <3>2. PICK e \in Devices : pc[e] = "save" \/ keyfile[e] = Owner(register)
      BY <1>2, <3>1 DEF RegisteredKeyIsSaved
    <3>3. ASSUME NEW d \in Devices, Start(d) \/ Advance(d) \/ Crash(d)
          PROVE  \E f \in Devices :
                    pc'[f] = "save" \/ keyfile'[f] = Owner(register')
      <4>1. CASE SaveKey(d) \/ SaveFails(d)
        <5>1. pc[d] = "save" /\ keyfile'[d] = job[d].key
          BY <2>t, <4>1 DEF SaveKey, SaveFails, TypeInv, TypeOK
        <5>2. QED
          BY <2>t, <3>1, <5>1 DEF Ownership
      <4>2. CASE keyfile' = keyfile /\ ~(SaveKey(d) \/ SaveFails(d))
        <5>1. pc[e] = "save" => pc'[e] = "save"
          <6>1. CASE e # d
            BY <2>t, <3>3, <6>1, RowSteps
          <6>2. CASE e = d
            BY <2>t, <3>3, <4>2, <6>2
               DEF Start, StartRegister, StartEdit, StartSet, StartQuery, Begin,
               QuickLookup, Crash, Advance, FetchOwner, ScanEntry, DraftEdit,
               AtEnd, RejectIndex, AnswerQuery, AddToNothing, LookupFails,
               LookupError, Upload, UploadFails, CreateRegister, UpdateRegister,
               CommitRefused, CommitReplyLost, Commit
          <6>3. QED
            BY <6>1, <6>2
        <5>2. QED
          BY <3>1, <3>2, <4>2, <5>1
      <4>3. QED
        BY <2>t, <3>3, <4>1, <4>2, KeyFileSteps
    <3>4. CASE ForeignWrite \/ UNCHANGED vars
      BY <3>1, <3>2, <3>4 DEF ForeignWrite, Disks, vars
    <3>5. QED
      BY <1>2, <3>3, <3>4 DEF Next
  <2>3. QED
    BY <2>1, <2>2
<1>3. KeysReachDisk => NoImports
  BY DEF KeysReachDisk
<1>4. KeysReachDisk => KeysReachDisk'
  BY DEF KeysReachDisk, NoImports
<1>5. QED
  BY <1>1, <1>2, <1>3, <1>4, HeldInvariant, PTL DEF Spec, HeldInv

-----------------------------------------------------------------------------

\* A key that is being registered is known to its device alone: no key file and
\* no other command has it before register_command writes it.
THEOREM NewKeysArePrivate == Spec => []Fresh
<1>1. Init => Fresh
  <2>1. Init => \A d \in Devices :
                   keyfile[d] = None /\ job[d].key = None /\ job[d].op = "none"
    BY DEF Init, NoJob
  <2>2. QED
    BY <2>1 DEF Fresh, Apart, Registering
<1>2. QED
  BY <1>1, TypeInit, TypeStep, FreshStep, PTL DEF Spec
=============================================================================
