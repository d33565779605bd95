------------------------- MODULE DomainRegisterProofs -------------------------
(***************************************************************************)
(* Theorems about DomainRegister, for any number of devices, keys and      *)
(* records, any length of the register, and any choice of faults.          *)
(***************************************************************************)
EXTENDS DomainRegister, DocumentTheorems

(***************************************************************************)
(* Lemmas about the parts that several actions share.                      *)
(***************************************************************************)

\* The rows of all devices but d stay as they are.
OthersKeep(d) ==
    \A e \in Devices \ {d} :
        /\ pc'[e] = pc[e] /\ job'[e] = job[e] /\ scan'[e] = scan[e]
        /\ draft'[e] = draft[e]

RowsTyped ==
    /\ pc \in [Devices -> Stages]
    /\ job \in [Devices -> Jobs]
    /\ scan \in [Devices -> Scans \cup {None}]
    /\ draft \in [Devices -> Documents \cup {None}]
    /\ answer \in [Devices -> Answers]

\* A command that ends leaves an empty row.
LEMMA FinishRow ==
    ASSUME TypeOK, NEW d \in Devices, NEW result \in Answers, Finish(d, result)
    PROVE  /\ RowsTyped'
           /\ OthersKeep(d)
           /\ pc'[d] = "idle" /\ job'[d] = NoJob
<1>1. NoJob \in Jobs
  BY DEF NoJob, Jobs
<1>2. QED
  BY <1>1 DEF TypeOK, Finish, RowsTyped, OthersKeep, Stages

LEMMA NoneIsAnswer == None \in Answers
BY DEF Answers

\* A command that begins has the row it was given.
LEMMA BeginRow ==
    ASSUME TypeOK, NEW d \in Devices, NEW stage \in Stages, NEW j \in Jobs,
           NEW doc \in Documents \cup {None}, Begin(d, stage, j, doc)
    PROVE  /\ RowsTyped'
           /\ OthersKeep(d)
           /\ pc[d] = "idle"
           /\ pc'[d] = stage /\ job'[d] = j /\ draft'[d] = doc
           /\ scan'[d] = scan[d]
           /\ chunks' = chunks /\ register' = register /\ keyfile' = keyfile
BY DEF TypeOK, Begin, RowsTyped, OthersKeep, Answers, Network

LEMMA EditJobsTyped ==
    ASSUME NEW k \in Keys
    PROVE  /\ EditJobs(k) \subseteq Jobs
           /\ \A j \in EditJobs(k) : j.op \in Edits /\ j.key = k
<1>1. Indices \subseteq Nat /\ Edits \subseteq Ops \cup {"none"}
  BY RegisterAssumption DEF Ops, Writers
<1>2. ASSUME NEW j \in EditJobs(k)
      PROVE  j \in Jobs /\ j.op \in Edits /\ j.key = k
  <2>1. j = [op |-> j.op, record |-> j.record, index |-> j.index, key |-> j.key]
    BY DEF EditJobs
  <2>2. /\ j.op \in Edits /\ j.key = k
        /\ j.record \in Records \cup {None} /\ j.index \in Nat
    <3>1. CASE j \in [op : {"add"}, record : Records, index : {0}, key : {k}]
      BY <3>1 DEF Edits
    <3>2. CASE j \in [op : {"delete"}, record : {None}, index : Indices, key : {k}]
      BY <1>1, <3>2 DEF Edits
    <3>3. CASE j \in [op : {"update"}, record : Records, index : Indices, key : {k}]
      BY <1>1, <3>3 DEF Edits
    <3>4. QED
      BY <3>1, <3>2, <3>3 DEF EditJobs
  <2>3. QED
    BY <1>1, <2>1, <2>2 DEF Jobs
<1>3. QED
  BY <1>2

\* One round of the loop.
LEMMA ReadEntryRow ==
    ASSUME NEW s \in Scans, NEW doc \in Documents, NEW got \in BOOLEAN
    PROVE  LET r == ReadEntry(s, doc, got)
               valid == got /\ IsValid(doc, s.owner)
           IN  /\ r \in Scans
               /\ r.owner = s.owner /\ r.pos = s.pos + 1 /\ r.missed = s.missed
               /\ r.records = IF valid THEN doc.records ELSE s.records
               /\ r.target = IF valid /\ Target(doc.records) # None
                             THEN Target(doc.records) ELSE s.target
<1> DEFINE valid == got /\ IsValid(doc, s.owner)
           target == IF valid THEN Target(doc.records) ELSE None
           status == IF got THEN Status(doc, s.owner) ELSE "corrupt"
<1>1. valid => doc.records \in Seq(Records) /\ Target(doc.records) \in Records \cup {None}
  BY DocumentTypes, TargetType
<1>2. target \in Records \cup {None}
  BY <1>1
<1>3. status \in {"valid", "spam", "corrupt"}
  BY DocumentTypes
<1>4. s.trail \in Seq({"valid", "spam", "corrupt"}) /\ s.pos \in Nat \ {0, 1}
  BY DEF Scans
<1>5. Append(s.trail, status) \in Seq({"valid", "spam", "corrupt"})
  BY <1>3, <1>4, AppendProperties
<1>6. ReadEntry(s, doc, got) =
        [owner |-> s.owner, pos |-> s.pos + 1,
         records |-> IF valid THEN doc.records ELSE s.records,
         target |-> IF target # None THEN target ELSE s.target,
         trail |-> Append(s.trail, status), missed |-> s.missed]
  BY DEF ReadEntry
<1>7. QED
  <2> HIDE DEF status
  <2>1. s.records \in Seq(Records) /\ s.target \in Records \cup {None}
        /\ s.owner \in Keys \cup {None} /\ s.missed \in BOOLEAN
    BY DEF Scans
  <2>2. QED
    BY <1>1, <1>2, <1>4, <1>5, <1>6, <2>1 DEF Scans

\* An edit whose index is in bounds makes a list of records.
LEMMA EditedType ==
    ASSUME NEW rs \in Seq(Records), NEW k \in Keys, NEW j \in EditJobs(k),
           InBounds(rs, j)
    PROVE  Edited(rs, j) \in Seq(Records)
<1>1. Len(rs) \in Nat /\ \A i \in 1..Len(rs) : rs[i] \in Records
  BY LenProperties, ElementOfSeq
<1>2. CASE j.op = "add"
  <2>1. j.record \in Records
    BY <1>2 DEF EditJobs
  <2>2. QED
    BY <1>2, <2>1, AppendProperties DEF Edited
<1>3. CASE j.op = "delete"
  <2>1. j.index \in Nat /\ j.index < Len(rs)
    BY <1>3, RegisterAssumption DEF EditJobs, InBounds
  <2>2. SubSeq(rs, 1, j.index) \in Seq(Records)
    BY <1>1, <2>1, SubSeqProperties
  <2>3. SubSeq(rs, j.index + 2, Len(rs)) \in Seq(Records)
    BY <1>1, <2>1, SubSeqProperties
  <2>4. QED
    BY <1>3, <2>2, <2>3, ConcatProperties DEF Edited
<1>4. CASE j.op = "update"
  <2>1. j.record \in Records /\ j.index \in Nat /\ j.index < Len(rs)
    BY <1>4, RegisterAssumption DEF EditJobs, InBounds
  <2>2. j.index + 1 \in 1..Len(rs)
    BY <1>1, <2>1
  <2>3. QED
    BY <1>4, <2>1, <2>2, ExceptSeq DEF Edited
<1>5. QED
  BY <1>2, <1>3, <1>4 DEF EditJobs

\* What a draft is, as a document.
LEMMA DraftType ==
    ASSUME NEW j \in Jobs, j.key \in Keys, NEW doc, IsDraft(doc, j)
    PROVE  /\ doc \in Documents
           /\ j.op = "register" => OwnerOf(doc) = j.key
           /\ j.op # "register" => OwnerOf(doc) = None /\ IsValid(doc, j.key)
<1>1. CASE j.op = "register"
  BY <1>1, DocumentTypes DEF IsDraft
<1>2. CASE j.op # "register"
  <2>1. doc \in RecordsDocuments /\ doc.signature = sign_records(doc.records, j.key)
    BY <1>2 DEF IsDraft
  <2>2. doc \in Documents /\ OwnerOf(doc) = None
    BY <2>1 DEF Documents, RecordsDocuments, OwnerOf
  <2>3. IsValid(doc, j.key)
    BY <2>1 DEF IsValid, verify_records, sign_records, RecordsDocuments
  <2>4. QED
    BY <1>2, <2>2, <2>3
<1>3. QED
  BY <1>1, <1>2

\* A signed list is a draft of any command but register.
LEMMA SignedIsDraft ==
    ASSUME NEW rs \in Seq(Records), NEW j, j.op # "register", j.key \in Keys
    PROVE  IsDraft(SignedRecords(rs, j.key), j)
BY DEF IsDraft, SignedRecords, sign_records, RecordsDocuments, Signatures

LEMMA OthersFit ==
    ASSUME JobsFit, NEW d \in Devices, OthersKeep(d), chunks \subseteq chunks',
           JobFits(d)'
    PROVE  JobsFit'
<1> SUFFICES ASSUME NEW e \in Devices \ {d} PROVE JobFits(e)'
  BY DEF JobsFit
<1>1. JobFits(e)
  BY DEF JobsFit
<1>2. /\ pc'[e] = pc[e] /\ job'[e] = job[e] /\ scan'[e] = scan[e]
      /\ draft'[e] = draft[e]
  BY DEF OthersKeep
<1>3. QED
  BY <1>1, <1>2 DEF JobFits

\* A command that has ended needs nothing.
LEMMA FinishFits ==
    ASSUME JobsFit, NEW d \in Devices, OthersKeep(d), chunks \subseteq chunks',
           pc'[d] = "idle"
    PROVE  JobsFit'
BY OthersFit DEF JobFits

(***************************************************************************)
(* Type correctness.                                                       *)
(***************************************************************************)

TypeInv == TypeOK /\ JobsFit

LEMMA TypeInit == Init => TypeInv
<1> SUFFICES ASSUME Init PROVE TypeInv
  OBVIOUS
<1>1. NoJob \in Jobs
  BY DEF NoJob, Jobs
<1>2. <<>> \in Seq(Documents)
  BY EmptySeq
<1>3. TypeOK
  BY <1>1, <1>2 DEF Init, TypeOK, Stages, Answers
<1>4. JobsFit
  BY DEF Init, JobsFit, JobFits
<1>5. QED
  BY <1>3, <1>4 DEF TypeInv

LEMMA SignDraftStep ==
    ASSUME TypeInv, NEW d \in Devices, NEW rs \in Seq(Records),
           pc[d] \in {"owner", "scan"}, job[d].op \in Edits, SignDraft(d, rs)
    PROVE  TypeInv'
<1>1. job[d] \in Jobs /\ job[d].key \in Keys
  BY DEF TypeInv, TypeOK, JobsFit, JobFits, Edits, Queries
<1>2. SignedRecords(rs, job[d].key) \in Documents
  BY <1>1, DocumentTypes
<1>3. TypeOK'
  BY <1>2 DEF TypeInv, TypeOK, SignDraft, Network, Disks, Stages
<1>4. OthersKeep(d) /\ chunks' = chunks
  BY DEF OthersKeep, SignDraft, Network, TypeInv, TypeOK
<1>5. JobFits(d)'
  <2>1. pc'[d] = "upload" /\ job'[d] = job[d]
        /\ draft'[d] = SignedRecords(rs, job[d].key)
    BY DEF SignDraft, TypeInv, TypeOK
  <2>2. job[d].op # "register" /\ job[d].op \in Writers
    BY DEF Edits, Writers
  <2>3. IsDraft(draft'[d], job'[d])
    BY <1>1, <2>1, <2>2, SignedIsDraft
  <2>4. QED
    BY <1>1, <2>1, <2>2, <2>3 DEF JobFits
<1>6. QED
  BY <1>3, <1>4, <1>5, OthersFit DEF TypeInv

\* Every way a command ends.
LEMMA FinishStep ==
    ASSUME TypeInv, NEW d \in Devices, NEW result \in Answers,
           Finish(d, result), chunks' \in SUBSET Documents, chunks \subseteq chunks',
           register' \in Seq(Documents),
           keyfile' \in [Devices -> Keys \cup {None}], minted' = minted
    PROVE  TypeInv'
<1>1. RowsTyped' /\ OthersKeep(d) /\ pc'[d] = "idle"
  BY FinishRow DEF TypeInv
<1>2. TypeOK'
  BY <1>1 DEF RowsTyped, TypeOK, TypeInv
<1>3. QED
  BY <1>1, <1>2, FinishFits DEF TypeInv

LEMMA StartStep ==
    ASSUME TypeInv, NEW d \in Devices, Start(d)
    PROVE  TypeInv'
<1> USE DEF TypeInv
<1>0. ASSUME NEW stage \in {"upload", "owner"}, NEW j \in Jobs,
             NEW doc \in Documents \cup {None}, Begin(d, stage, j, doc),
             minted' \in SUBSET Keys,
             stage = "upload" =>
               j.op \in Writers /\ j.key \in Keys /\ IsDraft(doc, j),
             stage = "owner" =>
               j.op \in Queries \/ (j.key \in Keys /\ j \in EditJobs(j.key))
      PROVE  TypeInv'
  <2>1. /\ RowsTyped' /\ OthersKeep(d)
        /\ pc'[d] = stage /\ job'[d] = j /\ draft'[d] = doc
        /\ chunks' = chunks /\ register' = register /\ keyfile' = keyfile
    BY <1>0, BeginRow DEF Stages
  <2>2. TypeOK'
    BY <1>0, <2>1 DEF TypeOK, RowsTyped
  <2>3. JobFits(d)'
    BY <1>0, <2>1 DEF JobFits
  <2>4. QED
    BY <2>1, <2>2, <2>3, OthersFit
<1>1. CASE StartRegister(d)
  <2>1. PICK k \in Keys \ minted :
           /\ minted' = minted \cup {k}
           /\ Begin(d, "upload", [NoJob EXCEPT !.op = "register", !.key = k],
                    DomainOwnerDocument(k))
    BY <1>1 DEF StartRegister
  <2> DEFINE j == [NoJob EXCEPT !.op = "register", !.key = k]
  <2>2. j \in Jobs /\ j.op = "register" /\ j.key = k
    BY DEF NoJob, Jobs, Ops, Writers
  <2>3. IsDraft(DomainOwnerDocument(k), j)
    BY <2>2 DEF IsDraft
  <2>4. DomainOwnerDocument(k) \in Documents
    BY DocumentTypes
  <2>5. minted' \in SUBSET Keys
    BY <2>1 DEF TypeOK
  <2>6. QED
    <3> HIDE DEF j
    <3> QED BY <1>0, <2>1, <2>2, <2>3, <2>4, <2>5 DEF Writers, j
<1>2. CASE StartEdit(d)
  <2>1. keyfile[d] \in Keys
    BY <1>2 DEF StartEdit, TypeOK
  <2>2. PICK j \in EditJobs(keyfile[d]) : Begin(d, "owner", j, None)
    BY <1>2 DEF StartEdit
  <2>3. j \in Jobs /\ j.key = keyfile[d]
    BY <2>1, EditJobsTyped
  <2>4. QED
    BY <1>0, <1>2, <2>1, <2>2, <2>3 DEF StartEdit, TypeOK
<1>3. CASE StartSet(d)
  <2>1. keyfile[d] \in Keys
    BY <1>3 DEF StartSet, TypeOK
  <2> DEFINE j(r) == [op |-> "set", record |-> r, index |-> 0, key |-> keyfile[d]]
  <2>2. PICK r \in RootRecords :
           Begin(d, "upload", j(r), SignedRecords(<<r>>, keyfile[d]))
    BY <1>3 DEF StartSet
  <2>3. r \in Records
    BY DocumentAssumption
  <2>4. <<r>> \in Seq(Records)
    BY <2>3
  <2>5. /\ j(r) \in Jobs /\ j(r).op \in Writers /\ j(r).op # "register"
        /\ j(r).key = keyfile[d]
    BY <2>1, <2>3 DEF Jobs, Ops, Writers
  <2>6. SignedRecords(<<r>>, keyfile[d]) \in Documents
    BY <2>1, <2>4, DocumentTypes
  <2>7. IsDraft(SignedRecords(<<r>>, j(r).key), j(r))
    <3> HIDE DEF j
    <3> QED BY <2>1, <2>4, <2>5, SignedIsDraft
  <2>8. QED
    <3> HIDE DEF j
    <3> QED BY <1>0, <1>3, <2>1, <2>2, <2>5, <2>6, <2>7 DEF StartSet, TypeOK
<1>4. CASE StartQuery(d)
  <2>1. \A op \in Queries : /\ [NoJob EXCEPT !.op = op] \in Jobs
                            /\ [NoJob EXCEPT !.op = op].op = op
    BY DEF NoJob, Jobs, Ops
  <2>2. PICK j \in Jobs : j.op \in Queries /\ Begin(d, "owner", j, None)
    BY <1>4, <2>1 DEF StartQuery
  <2>3. minted' \in SUBSET Keys
    BY <1>4 DEF StartQuery, TypeOK
  <2>4. QED
    BY <1>0, <2>2, <2>3
<1>5. CASE QuickLookup(d)
  <2>1. /\ register[Len(register)] \in Documents
        /\ register[Len(register)].kind = "records"
    <3>1. Len(register) \in 1..Len(register)
      BY <1>5, EmptySeq, LenProperties DEF QuickLookup, TypeOK
    <3>2. QED
      BY <1>5, <3>1, ElementOfSeq DEF QuickLookup, TypeOK
  <2>2. Target(register[Len(register)].records) \in Records
    BY <1>5, <2>1, DocumentTypes, TargetType DEF QuickLookup
  <2>3. answer' \in [Devices -> Answers]
    BY <1>5, <2>2 DEF QuickLookup, TypeOK, Answers
  <2>4. QED
    BY <1>5, <2>3 DEF QuickLookup, TypeOK, JobsFit, JobFits, Network, Disks
<1>6. CASE Import(d)
  <2>1. PICK k \in Keys : minted' = minted \cup {k} /\ keyfile' \in Saved(d, k)
    BY <1>6 DEF Import
  <2>2. keyfile' \in [Devices -> Keys \cup {None}]
    BY <2>1 DEF Saved, TypeOK
  <2>3. QED
    BY <1>6, <2>1, <2>2 DEF Import, TypeOK, JobsFit, JobFits, Network
<1>7. QED
  BY <1>1, <1>2, <1>3, <1>4, <1>5, <1>6 DEF Start

LEMMA AdvanceStep ==
    ASSUME TypeInv, NEW d \in Devices, Advance(d)
    PROVE  TypeInv'
<1> USE DEF TypeInv
<1>0. /\ register \in Seq(Documents) /\ Len(register) \in Nat
      /\ \A i \in 1..Len(register) : register[i] \in Documents
      /\ job[d] \in Jobs
      /\ register # <<>> => Len(register) >= 1
      /\ None \in Answers
  BY LenProperties, ElementOfSeq, EmptySeq DEF TypeOK, Answers
<1>1. CASE FetchOwner(d)
  <2> DEFINE s == [owner |-> OwnerOf(register[1]), pos |-> 2, records |-> <<>>,
                   target |-> None, trail |-> <<>>, missed |-> FALSE]
  <2>1. register[1] \in Documents
    BY <1>0, <1>1 DEF FetchOwner, FirstEntryReadable
  <2>2. s \in Scans
    BY <2>1, DocumentTypes, EmptySeq DEF Scans
  <2>3. pc[d] = "owner" /\ pc' = [pc EXCEPT ![d] = "scan"]
        /\ scan' = [scan EXCEPT ![d] = s]
        /\ UNCHANGED <<chunks, register, keyfile, minted, job, draft, answer>>
    BY <1>1 DEF FetchOwner, Network, Disks
  <2> HIDE DEF s
  <2>4. TypeOK' /\ OthersKeep(d) /\ pc'[d] = "scan" /\ scan'[d] = s
    BY <2>2, <2>3 DEF TypeOK, Stages, OthersKeep
  <2>5. JobFits(d)'
    BY <2>2, <2>3, <2>4 DEF JobsFit, JobFits
  <2>6. QED
    BY <2>3, <2>4, <2>5, OthersFit
<1>2. CASE ScanEntry(d)
  <2>1. scan[d] \in Scans /\ scan[d].pos \in 1..Len(register)
    BY <1>0, <1>2 DEF ScanEntry, JobsFit, JobFits, Scans
  <2> DEFINE doc == register[scan[d].pos]
  <2>2. doc \in Documents
    BY <1>0, <2>1
  <2>3. PICK got \in BOOLEAN, m \in BOOLEAN :
          scan' = [scan EXCEPT ![d] =
                     IF m THEN [ReadEntry(scan[d], doc, got) EXCEPT !.missed = TRUE]
                     ELSE ReadEntry(scan[d], doc, got)]
    BY <1>2 DEF ScanEntry, TypeOK
  <2>4. ReadEntry(scan[d], doc, got) \in Scans
    BY <2>1, <2>2, ReadEntryRow
  <2>5. [ReadEntry(scan[d], doc, got) EXCEPT !.missed = TRUE] \in Scans
    BY <2>4 DEF Scans
  <2>6. scan'[d] \in Scans /\ scan' \in [Devices -> Scans \cup {None}]
    BY <2>3, <2>4, <2>5 DEF TypeOK
  <2>7. TypeOK' /\ OthersKeep(d) /\ pc' = pc /\ job' = job /\ chunks' = chunks
        /\ pc[d] = "scan"
    BY <1>2, <2>3, <2>6 DEF ScanEntry, TypeOK, OthersKeep, Network, Disks
  <2>8. JobFits(d)'
    BY <2>6, <2>7 DEF JobsFit, JobFits
  <2>9. QED
    BY <2>7, <2>8, OthersFit
<1>3. CASE DraftEdit(d)
  <2>1. /\ pc[d] = "scan" /\ scan[d].records \in Seq(Records)
        /\ job[d].key \in Keys /\ job[d] \in EditJobs(job[d].key)
    BY <1>3 DEF DraftEdit, AtEnd, JobsFit, JobFits, Scans, Edits, Queries
  <2>2. Edited(scan[d].records, job[d]) \in Seq(Records)
    BY <1>3, <2>1, EditedType DEF DraftEdit
  <2>3. QED
    BY <1>3, <2>1, <2>2, SignDraftStep DEF DraftEdit
<1>4. CASE RejectIndex(d)
  BY <1>0, <1>4, FinishStep DEF RejectIndex, Network, Disks, TypeOK
<1>5. CASE AnswerQuery(d)
  <2>1. scan[d] \in Scans /\ job[d].op \in Queries
    BY <1>5 DEF AnswerQuery, AtEnd, JobsFit, JobFits
  <2>2. Reply(scan[d], job[d].op) \in Answers
    <3>1. CASE job[d].op = "list"
      BY <2>1, <3>1 DEF Reply, Answers, Scans
    <3>2. CASE job[d].op = "history"
      <4>1. HistoryStats(scan[d].trail) \in
              [total : Nat, valid : Nat, spam : Nat, invalid : Nat]
        BY <2>1, StatsType DEF Scans
      <4>2. QED
        BY <3>2, <4>1 DEF Reply, Answers
    <3>3. CASE job[d].op = "resolve"
      BY <2>1, <3>3 DEF Reply, Answers, Scans
    <3>4. QED
      BY <2>1, <3>1, <3>2, <3>3 DEF Queries
  <2>3. QED
    BY <1>5, <2>2, FinishStep DEF AnswerQuery, Network, Disks, TypeOK
<1>6. CASE AddToNothing(d)
  <2>1. /\ pc[d] \in {"owner", "scan"} /\ job[d].op = "add"
        /\ SignDraft(d, <<job[d].record>>)
    BY <1>6 DEF AddToNothing, LookupError
  <2>2. job[d].record \in Records /\ job[d].op \in Edits
    BY <2>1 DEF JobsFit, JobFits, EditJobs, Edits, Queries
  <2>3. <<job[d].record>> \in Seq(Records)
    BY <2>2
  <2>4. QED
    BY <2>1, <2>2, <2>3, SignDraftStep
<1>7. CASE LookupFails(d)
  BY <1>0, <1>7, FinishStep DEF LookupFails, Network, Disks, TypeOK
<1>8. CASE Upload(d)
  <2>1. pc[d] = "upload" /\ draft[d] \in Documents
    BY <1>0, <1>8, DraftType DEF Upload, JobsFit, JobFits
  <2>2. TypeOK' /\ OthersKeep(d) /\ pc'[d] = "commit" /\ job' = job /\ scan' = scan
        /\ draft' = draft /\ chunks' = chunks \cup {draft[d]}
    BY <1>8, <2>1 DEF Upload, TypeOK, Stages, OthersKeep, Disks
  <2>3. JobFits(d)'
    BY <2>1, <2>2 DEF JobsFit, JobFits
  <2>4. QED
    BY <2>2, <2>3, OthersFit
<1>9. CASE UploadFails(d)
  <2>1. draft[d] \in Documents
    BY <1>0, <1>9, DraftType DEF UploadFails, JobsFit, JobFits
  <2>2. QED
    BY <1>0, <1>9, <2>1, FinishStep DEF UploadFails, Disks, TypeOK
<1>10. ASSUME Commit(d)
       PROVE  register' \in Seq(Documents)
  <2>1. draft[d] \in Documents
    BY <1>0, <1>10, DraftType DEF Commit, JobsFit, JobFits
  <2>2. QED
    BY <1>0, <1>10, <2>1, AppendProperties DEF Commit
<1>11. CASE CreateRegister(d)
  <2>1. register' \in Seq(Documents) /\ pc[d] = "commit"
    BY <1>10, <1>11 DEF CreateRegister, Commit
  <2>2. TypeOK' /\ OthersKeep(d) /\ pc'[d] = "save" /\ job' = job /\ chunks' = chunks
    BY <1>11, <2>1 DEF CreateRegister, TypeOK, Stages, OthersKeep, Disks
  <2>3. job[d].op = "register" /\ job[d].key \in Keys
    BY <1>11, <2>1 DEF CreateRegister, JobsFit, JobFits
  <2>4. JobFits(d)'
    BY <2>2, <2>3 DEF JobFits
  <2>5. QED
    BY <2>2, <2>4, OthersFit
<1>12. CASE UpdateRegister(d)
  <2>1. register' \in Seq(Documents)
    BY <1>10, <1>12 DEF UpdateRegister
  <2>2. [op |-> job[d].op, value |-> "done"] \in Answers
    BY <1>12 DEF UpdateRegister, Commit, JobsFit, JobFits, Answers
  <2>3. QED
    BY <1>12, <2>1, <2>2, FinishStep DEF UpdateRegister, Disks, TypeOK
<1>13. CASE CommitRefused(d)
  BY <1>0, <1>13, FinishStep DEF CommitRefused, Network, Disks, TypeOK
<1>14. CASE CommitReplyLost(d)
  BY <1>0, <1>10, <1>14, FinishStep DEF CommitReplyLost, Disks, TypeOK
<1>15. CASE SaveKey(d)
  <2>1. keyfile' \in [Devices -> Keys \cup {None}]
    BY <1>15 DEF SaveKey, TypeOK, JobsFit, JobFits
  <2>2. [op |-> "register", value |-> "done"] \in Answers
    BY DEF Answers, Writers
  <2>3. QED
    BY <1>15, <2>1, <2>2, FinishStep DEF SaveKey, Network, TypeOK
<1>16. CASE SaveFails(d)
  <2>1. keyfile' \in [Devices -> Keys \cup {None}]
    BY <1>16 DEF SaveFails, Saved, TypeOK, JobsFit, JobFits
  <2>2. QED
    BY <1>0, <1>16, <2>1, FinishStep DEF SaveFails, Network, TypeOK
<1>17. QED
  BY <1>1, <1>2, <1>3, <1>4, <1>5, <1>6, <1>7, <1>8, <1>9, <1>11, <1>12,
     <1>13, <1>14, <1>15, <1>16 DEF Advance

LEMMA TypeStep == TypeInv /\ [Next]_vars => TypeInv'
<1> SUFFICES ASSUME TypeInv, [Next]_vars PROVE TypeInv'
  OBVIOUS
<1>1. ASSUME NEW d \in Devices, Start(d) PROVE TypeInv'
  BY <1>1, StartStep
<1>2. ASSUME NEW d \in Devices, Advance(d) PROVE TypeInv'
  BY <1>2, AdvanceStep
<1>3. ASSUME NEW d \in Devices, Crash(d) PROVE TypeInv'
  BY <1>3, NoneIsAnswer, FinishStep DEF Crash, Network, Disks, TypeInv, TypeOK
<1>4. CASE ForeignWrite
  <2>1. \A i \in 1..Len(register) : register[i] \in Documents
    BY ElementOfSeq DEF TypeInv, TypeOK
  <2>2. PICK doc \in ForeignDocs \cup {register[i] : i \in 1..Len(register)} :
           /\ register' = Append(register, doc)
           /\ chunks' \in {chunks, chunks \cup {doc}}
    BY <1>4 DEF ForeignWrite
  <2>3. doc \in Documents
    BY <2>1, <2>2, RegisterAssumption
  <2>4. register' \in Seq(Documents) /\ chunks' \in SUBSET Documents
        /\ chunks \subseteq chunks'
    BY <2>2, <2>3, AppendProperties DEF TypeInv, TypeOK
  <2>5. QED
    BY <1>4, <2>4 DEF ForeignWrite, TypeInv, TypeOK, JobsFit, JobFits, Disks
<1>5. CASE UNCHANGED vars
  BY <1>5 DEF vars, TypeInv, TypeOK, JobsFit, JobFits
<1>6. QED
  BY <1>1, <1>2, <1>3, <1>4, <1>5 DEF Next

\* Every variable keeps its type, and every command under way has the key and
\* the document its next step uses.
THEOREM TypeCorrect == Spec => [](TypeOK /\ JobsFit)
<1>1. Init => TypeInv
  BY TypeInit
<1>2. TypeInv /\ [Next]_vars => TypeInv'
  BY TypeStep
<1>3. TypeInv => TypeOK /\ JobsFit
  BY DEF TypeInv
<1>4. QED
  BY <1>1, <1>2, <1>3, PTL DEF Spec

\* The types on their own: what the commands of any devices write to the register,
\* to storage, to key files and to their own rows is of the sort they read there.
THEOREM TypesKept == Spec => []TypeOK
BY TypeCorrect, PTL

(***************************************************************************)
(* How a step changes the network.                                         *)
(***************************************************************************)

\* No list verifies under the absent key.
LEMMA NoneSignsNothing == \A doc \in Documents : ~IsValid(doc, None)
<1> SUFFICES ASSUME NEW doc \in Documents, IsValid(doc, None) PROVE FALSE
  OBVIOUS
<1>1. doc \in RecordsDocuments /\ doc.signature.by = None
  BY DEF IsValid, verify_records, Documents, RecordsDocuments, OwnerDocuments, Garbage
<1>2. None \in Keys \cup {Outsider}
  BY <1>1 DEF RecordsDocuments, Signatures
<1>3. QED
  BY <1>2, DocumentAssumption

\* A document of a command that is about to commit.
Committed(d, doc) ==
    /\ pc[d] = "commit" /\ doc = draft[d] /\ doc \in chunks
    /\ job[d].op \in Writers /\ job[d].key \in Keys /\ IsDraft(doc, job[d])
    /\ Accepted(d)

\* A document of another program: one that no key of Keys has signed and that
\* names no owner, or, with replays, one that is in the register already.
Foreign(doc) ==
    \/ OwnerOf(doc) = None /\ \A k \in Keys : ~IsValid(doc, k)
    \/ Replays /\ \E i \in 1..Len(register) : doc = register[i]

\* What other programs write of their own verifies under nobody's key and names
\* no owner, for they hold none of the keys.
LEMMA StrangersSignNothing ==
    ASSUME NEW doc \in ForeignDocs
    PROVE  OwnerOf(doc) = None /\ \A k \in Keys : ~IsValid(doc, k)
<1>1. OwnerOf(doc) = None
  BY RegisterAssumption DEF OwnerOf
<1>2. ASSUME NEW k \in Keys, IsValid(doc, k)
      PROVE  FALSE
  <2>1. doc.kind = "records" /\ doc.signature = sign_records(doc.records, k)
    BY <1>2 DEF IsValid, verify_records, sign_records
  <2>2. QED
    BY <2>1, RegisterAssumption
<1>3. QED
  BY <1>1, <1>2

\* The register grows by one document at a time, and chunks are never lost.
LEMMA RegisterGrows ==
    ASSUME TypeInv, [Next]_vars
    PROVE  /\ chunks \subseteq chunks'
           /\ \/ register' = register
              \/ \E doc \in Documents :
                    /\ register' = Append(register, doc)
                    /\ Foreign(doc) \/ \E d \in Devices : Committed(d, doc)
<1>1. ASSUME NEW d \in Devices, Commit(d)
      PROVE  \E doc \in Documents : register' = Append(register, doc) /\ Committed(d, doc)
  <2>1. Committed(d, draft[d])
    BY <1>1 DEF Commit, Committed, TypeInv, JobsFit, JobFits
  <2>2. draft[d] \in Documents
    BY <2>1, DraftType DEF Committed, TypeInv, TypeOK
  <2>3. QED
    BY <1>1, <2>1, <2>2 DEF Commit
<1>2. ASSUME NEW d \in Devices, Start(d) \/ Advance(d) \/ Crash(d)
      PROVE  /\ chunks \subseteq chunks'
             /\ register' = register \/ Commit(d)
  <2>1. CASE Start(d)
    BY <2>1 DEF Start, StartRegister, StartEdit, StartSet, StartQuery, QuickLookup,
                Import, Begin, Network
  <2>2. CASE Crash(d)
    BY <2>2 DEF Crash, Network
  <2>3. CASE Advance(d)
    BY <2>3 DEF Advance, FetchOwner, ScanEntry, DraftEdit, RejectIndex, AnswerQuery,
                AddToNothing, SignDraft, LookupFails, Upload, UploadFails,
                CreateRegister, UpdateRegister, CommitRefused, CommitReplyLost,
                SaveKey, SaveFails, Network
  <2>4. QED
    BY <1>2, <2>1, <2>2, <2>3
<1>3. CASE ForeignWrite
  <2>1. PICK doc \in ForeignDocs
               \cup (IF Replays THEN {register[i] : i \in 1..Len(register)} ELSE {}) :
           /\ register' = Append(register, doc)
           /\ chunks' \in {chunks, chunks \cup {doc}}
    BY <1>3 DEF ForeignWrite
  <2>2. doc \in Documents
    BY <2>1, RegisterAssumption, ElementOfSeq DEF TypeInv, TypeOK
  <2>3. Foreign(doc)
    BY <2>1, StrangersSignNothing DEF Foreign
  <2>4. QED
    BY <2>1, <2>2, <2>3
<1>4. CASE UNCHANGED vars
  BY <1>4 DEF vars
<1>5. QED
  BY <1>1, <1>2, <1>3, <1>4 DEF Next

(***************************************************************************)
(* Signed entries can be downloaded.                                       *)
(***************************************************************************)

LEMMA StoredStep == TypeInv /\ EntriesStored /\ [Next]_vars => EntriesStored'
<1> SUFFICES ASSUME TypeInv, EntriesStored, [Next]_vars PROVE EntriesStored'
  OBVIOUS
<1>0. /\ register \in Seq(Documents) /\ Len(register) \in Nat
      /\ \A i \in 1..Len(register) : register[i] \in Documents
      /\ Owner(register) \in Keys \cup {None}
  <2>1. register \in Seq(Documents) /\ Len(register) \in Nat
        /\ \A i \in 1..Len(register) : register[i] \in Documents
    BY LenProperties, ElementOfSeq DEF TypeInv, TypeOK
  <2>2. register # <<>> => 1 \in 1..Len(register)
    BY <2>1, EmptySeq
  <2>3. QED
    BY <2>1, <2>2, DocumentTypes DEF Owner
<1>1. chunks \subseteq chunks'
  BY RegisterGrows
<1>2. CASE register' = register
  BY <1>1, <1>2 DEF EntriesStored
<1>3. ASSUME NEW doc \in Documents, register' = Append(register, doc),
             Foreign(doc) \/ \E d \in Devices : Committed(d, doc)
      PROVE  EntriesStored'
  <2>1. CASE \E d \in Devices : Committed(d, doc)
    <3>1. doc \in chunks'
      BY <1>1, <2>1 DEF Committed
    <3>2. CASE register # <<>>
      <4>1. /\ Owner(register') = Owner(register)
            /\ Len(register') = Len(register) + 1
            /\ \A i \in 1..Len(register) : register'[i] = register[i]
            /\ register'[Len(register) + 1] = doc
            /\ 1 \in 1..Len(register)
        BY <1>0, <1>3, <3>2, OwnerOfLonger, EmptySeq
      <4>2. QED
        BY <1>0, <1>1, <3>1, <4>1 DEF EntriesStored
    <3>3. CASE register = <<>>
      <4>1. Len(register') = 1 /\ register'[1] = doc
        BY <1>3, <3>3, AppendProperties, EmptySeq
      <4>2. QED
        BY <3>1, <4>1 DEF EntriesStored
    <3>4. QED
      BY <3>2, <3>3
  <2>2. CASE Foreign(doc)
    <3>1. CASE register # <<>>
      <4>1. /\ Owner(register') = Owner(register)
            /\ Len(register') = Len(register) + 1
            /\ \A i \in 1..Len(register) : register'[i] = register[i]
            /\ register'[Len(register) + 1] = doc
            /\ 1 \in 1..Len(register)
        BY <1>0, <1>3, <3>1, OwnerOfLonger, EmptySeq
      <4>2. IsValid(doc, Owner(register)) => doc \in chunks
        <5>1. ~IsValid(doc, None)
          BY NoneSignsNothing
        <5>2. QED
          BY <1>0, <2>2, <5>1 DEF Foreign, EntriesStored
      <4>3. QED
        BY <1>0, <1>1, <4>1, <4>2 DEF EntriesStored
    <3>2. CASE register = <<>>
      <4>1. Len(register') = 1 /\ register'[1] = doc /\ register' # <<>>
        BY <1>3, <3>2, AppendProperties, EmptySeq
      <4>2. Len(register) = 0
        BY <3>2, EmptySeq
      <4>3. OwnerOf(doc) = None
        BY <2>2, <4>2 DEF Foreign
      <4>4. Owner(register') = None
        BY <4>1, <4>3 DEF Owner
      <4>5. QED
        BY <4>1, <4>3, <4>4, NoneSignsNothing DEF EntriesStored
    <3>3. QED
      BY <3>1, <3>2
  <2>3. QED
    BY <1>3, <2>1, <2>2
<1>4. QED
  BY <1>2, <1>3, RegisterGrows

\* Whatever entry of a register its owner signed, and its owner document, were
\* stored before the register named them, and still are.
THEOREM SignedEntriesAreStored == Spec => []EntriesStored
<1>1. Init => EntriesStored
  BY EmptySeq DEF Init, EntriesStored
<1>2. QED
  BY <1>1, TypeInit, TypeStep, StoredStep, PTL DEF Spec

(***************************************************************************)
(* The lookup loop.                                                        *)
(***************************************************************************)

\* What LookupFollowsRegister says of one device.
Follows(d) ==
    pc[d] = "scan" =>
        /\ scan[d].owner = Owner(register)
        /\ scan[d].pos <= Len(register) + 1
        /\ ~scan[d].missed =>
              /\ scan[d].records = RecordsUpTo(register, scan[d].pos - 1)
              /\ scan[d].target = TargetUpTo(register, scan[d].pos - 1)

\* The rounds of a lookup that other steps leave alone stay right when the
\* register grows behind them.
LEMMA FollowsGrowth ==
    ASSUME TypeInv, [Next]_vars, NEW d \in Devices, Follows(d),
           pc'[d] = pc[d], scan'[d] = scan[d]
    PROVE  Follows(d)'
<1> SUFFICES ASSUME pc[d] = "scan" PROVE Follows(d)'
  BY DEF Follows
<1>1. /\ scan[d].pos \in Nat \ {0, 1} /\ register \in Seq(Documents)
      /\ Len(register) \in Nat
  BY LenProperties DEF TypeInv, TypeOK, JobsFit, JobFits, Scans
<1>2. scan[d].pos - 1 \in 1..Len(register) /\ register # <<>>
  BY <1>1, EmptySeq DEF Follows
<1>3. CASE register' = register
  BY <1>3 DEF Follows
<1>4. ASSUME NEW doc \in Documents, register' = Append(register, doc)
      PROVE  Follows(d)'
  <2>1. /\ Owner(register') = Owner(register)
        /\ Len(register') = Len(register) + 1
        /\ RecordsUpTo(register', scan[d].pos - 1)
             = RecordsUpTo(register, scan[d].pos - 1)
        /\ TargetUpTo(register', scan[d].pos - 1)
             = TargetUpTo(register, scan[d].pos - 1)
    BY <1>1, <1>2, <1>4, OwnerOfLonger, PrefixIsStable
  <2>2. QED
    BY <1>1, <2>1 DEF Follows
<1>5. QED
  BY <1>3, <1>4, RegisterGrows

LEMMA FetchFollows ==
    ASSUME TypeInv, NEW d \in Devices, FetchOwner(d)
    PROVE  Follows(d)'
<1>1. /\ scan'[d] = [owner |-> OwnerOf(register[1]), pos |-> 2, records |-> <<>>,
                     target |-> None, trail |-> <<>>, missed |-> FALSE]
      /\ register' = register /\ register # <<>>
  BY DEF FetchOwner, TypeInv, TypeOK, FirstEntryReadable, Network
<1>2. Len(register) \in Nat /\ Len(register) >= 1
  BY <1>1, EmptySeq, LenProperties DEF TypeInv, TypeOK
<1>3. ValidEntries(register, 1) = {} /\ RootedEntries(register, 1) = {}
  BY DEF ValidEntries, RootedEntries
<1>4. QED
  BY <1>1, <1>2, <1>3 DEF Follows, Owner, RecordsUpTo, TargetUpTo

LEMMA ScanFollows ==
    ASSUME TypeInv, EntriesStored, NEW d \in Devices, Follows(d), ScanEntry(d)
    PROVE  Follows(d)'
<1>1. /\ scan[d] \in Scans /\ pc[d] = "scan" /\ scan[d].pos <= Len(register)
      /\ register' = register /\ pc' = pc
  BY DEF ScanEntry, TypeInv, JobsFit, JobFits, Network
<1>2. /\ register \in Seq(Documents) /\ Len(register) \in Nat
      /\ scan[d].pos \in Nat \ {0, 1}
  BY <1>1, LenProperties DEF TypeInv, TypeOK, Scans
<1> DEFINE n == scan[d].pos - 1
           doc == register[scan[d].pos]
<1>3. n \in 1..Len(register) /\ n + 1 = scan[d].pos /\ n + 1 <= Len(register)
  BY <1>1, <1>2
<1>4. doc \in Documents /\ scan[d].pos \in 1..Len(register)
  BY <1>1, <1>2, ElementOfSeq
<1>5. PICK got \in BOOLEAN, m \in BOOLEAN :
        /\ scan'[d] = IF m THEN [ReadEntry(scan[d], doc, got) EXCEPT !.missed = TRUE]
                      ELSE ReadEntry(scan[d], doc, got)
        /\ ~m => (got <=> doc \in chunks)
  BY DEF ScanEntry, TypeInv, TypeOK
<1> DEFINE r == ReadEntry(scan[d], doc, got)
<1>6. /\ r \in Scans /\ r.owner = scan[d].owner /\ r.pos = scan[d].pos + 1
      /\ r.missed = scan[d].missed
      /\ r.records = IF got /\ IsValid(doc, scan[d].owner)
                     THEN doc.records ELSE scan[d].records
      /\ r.target = IF got /\ IsValid(doc, scan[d].owner)
                         /\ Target(doc.records) # None
                    THEN Target(doc.records) ELSE scan[d].target
  BY <1>1, <1>4, ReadEntryRow
<1>7. /\ scan'[d].owner = scan[d].owner /\ scan'[d].pos = scan[d].pos + 1
      /\ m => scan'[d].missed
      /\ ~m => scan'[d] = r
  <2> HIDE DEF r, doc
  <2>1. CASE m
    BY <1>5, <1>6, <2>1 DEF Scans, r
  <2>2. CASE ~m
    BY <1>5, <1>6, <2>2 DEF r
  <2>3. QED
    BY <2>1, <2>2
<1>8. ASSUME ~scan'[d].missed
      PROVE  /\ scan'[d].records = RecordsUpTo(register, n + 1)
             /\ scan'[d].target = TargetUpTo(register, n + 1)
  <2>1. ~m /\ scan'[d] = r /\ ~scan[d].missed
    BY <1>6, <1>7, <1>8
  <2>2. scan[d].records = RecordsUpTo(register, n)
        /\ scan[d].target = TargetUpTo(register, n)
        /\ scan[d].owner = Owner(register)
    BY <1>1, <2>1 DEF Follows
  <2>3. IsValid(doc, Owner(register)) => got
    BY <1>4, <1>5, <2>1 DEF EntriesStored
  <2>4. got /\ IsValid(doc, scan[d].owner) <=> IsValid(doc, Owner(register))
    BY <2>2, <2>3
  <2>5. /\ RecordsUpTo(register, n + 1) =
              IF IsValid(doc, Owner(register)) THEN doc.records
              ELSE RecordsUpTo(register, n)
        /\ TargetUpTo(register, n + 1) =
              IF IsValid(doc, Owner(register)) /\ Target(doc.records) # None
              THEN Target(doc.records) ELSE TargetUpTo(register, n)
    BY <1>2, <1>3, NextEntry
  <2>6. QED
    <3> HIDE DEF r, doc, n
    <3> QED BY <1>6, <2>1, <2>2, <2>4, <2>5
<1>9. scan'[d].pos - 1 = n + 1 /\ scan'[d].pos <= Len(register) + 1
  BY <1>1, <1>2, <1>3, <1>7
<1>10. scan[d].owner = Owner(register)
  BY <1>1 DEF Follows
<1>11. QED
  BY <1>1, <1>7, <1>8, <1>9, <1>10 DEF Follows

\* A step of device d leaves the rows of the others, and moves its own loop in
\* no way but FetchOwner and ScanEntry.
LEMMA LookupSteps ==
    ASSUME TypeInv, NEW d \in Devices, Start(d) \/ Advance(d) \/ Crash(d)
    PROVE  /\ \A e \in Devices \ {d} : pc'[e] = pc[e] /\ scan'[e] = scan[e]
           /\ FetchOwner(d) \/ ScanEntry(d) \/ pc'[d] # "scan"
              \/ (pc'[d] = pc[d] /\ scan'[d] = scan[d])
<1> USE DEF TypeInv, TypeOK
<1>1. CASE Start(d)
  BY <1>1 DEF Start, StartRegister, StartEdit, StartSet, StartQuery, QuickLookup,
              Import, Begin
<1>2. CASE Crash(d)
  BY <1>2 DEF Crash, Finish
<1>3. CASE Advance(d)
  BY <1>3 DEF Advance, FetchOwner, ScanEntry, DraftEdit, RejectIndex, AnswerQuery,
              AddToNothing, SignDraft, LookupFails, Upload, UploadFails,
              CreateRegister, UpdateRegister, CommitRefused, CommitReplyLost,
              SaveKey, SaveFails, Finish
<1>4. QED
  BY <1>1, <1>2, <1>3

LEMMA FollowsStep ==
    TypeInv /\ EntriesStored /\ LookupFollowsRegister /\ [Next]_vars
      => LookupFollowsRegister'
<1> SUFFICES ASSUME TypeInv, EntriesStored, LookupFollowsRegister, [Next]_vars,
                    NEW e \in Devices
             PROVE  Follows(e)'
  BY DEF LookupFollowsRegister, Follows
<1>1. Follows(e)
  BY DEF LookupFollowsRegister, Follows
<1>2. ASSUME NEW d \in Devices, Start(d) \/ Advance(d) \/ Crash(d)
      PROVE  Follows(e)'
  <2>1. CASE e # d
    BY <1>1, <1>2, <2>1, LookupSteps, FollowsGrowth
  <2>2. CASE e = d
    <3>1. CASE FetchOwner(e)
      BY <3>1, FetchFollows
    <3>2. CASE ScanEntry(e)
      BY <1>1, <3>2, ScanFollows
    <3>3. CASE pc'[e] # "scan"
      BY <3>3 DEF Follows
    <3>4. CASE pc'[e] = pc[e] /\ scan'[e] = scan[e]
      BY <1>1, <3>4, FollowsGrowth
    <3>5. QED
      BY <1>2, <2>2, <3>1, <3>2, <3>3, <3>4, LookupSteps
  <2>3. QED
    BY <2>1, <2>2
<1>3. CASE ForeignWrite
  BY <1>1, <1>3, FollowsGrowth DEF ForeignWrite
<1>4. CASE UNCHANGED vars
  BY <1>1, <1>4, FollowsGrowth DEF vars
<1>5. QED
  BY <1>2, <1>3, <1>4 DEF Next

\* However many entries are appended while a lookup runs, and whoever appends
\* them, its local variables hold what the entries it has read say.
THEOREM LookupIsFaithful == Spec => []LookupFollowsRegister
<1>1. Init => LookupFollowsRegister
  BY DEF Init, LookupFollowsRegister
<1>2. Init => EntriesStored
  BY EmptySeq DEF Init, EntriesStored
<1>3. QED
  BY <1>1, <1>2, TypeInit, TypeStep, StoredStep, FollowsStep, PTL DEF Spec

(***************************************************************************)
(* What the queries print.                                                 *)
(***************************************************************************)

\* The statuses kept by get_domain_history, one for each entry read: without a
\* failed download, "valid" stands at the valid ones and nowhere else.
Tracks(d) ==
    pc[d] = "scan" =>
        /\ Len(scan[d].trail) = scan[d].pos - 2
        /\ ~scan[d].missed =>
              \A i \in 1..Len(scan[d].trail) :
                  scan[d].trail[i] = "valid"
                    <=> IsValid(register[i + 1], Owner(register))

TrailsTrack == \A d \in Devices : Tracks(d)

LEMMA ReadEntryTrail ==
    ASSUME NEW s \in Scans, NEW doc \in Documents, NEW got \in BOOLEAN
    PROVE  LET r == ReadEntry(s, doc, got)
           IN  /\ Len(r.trail) = Len(s.trail) + 1
               /\ \A i \in 1..Len(s.trail) : r.trail[i] = s.trail[i]
               /\ r.trail[Len(s.trail) + 1] = "valid"
                     <=> got /\ IsValid(doc, s.owner)
<1> DEFINE status == IF got THEN Status(doc, s.owner) ELSE "corrupt"
<1>1. s.trail \in Seq({"valid", "spam", "corrupt"})
  BY DEF Scans
<1>2. status \in {"valid", "spam", "corrupt"}
  BY DocumentTypes
<1>3. status = "valid" <=> got /\ IsValid(doc, s.owner)
  BY DEF Status, IsValid
<1>4. ReadEntry(s, doc, got).trail = Append(s.trail, status)
  BY DEF ReadEntry
<1>5. QED
  <2> HIDE DEF status
  <2> QED BY <1>1, <1>2, <1>3, <1>4, AppendProperties

\* Entries appended behind a lookup change no status it has noted.
LEMMA TracksGrowth ==
    ASSUME TypeInv, [Next]_vars, NEW d \in Devices, Follows(d), Tracks(d),
           pc'[d] = pc[d], scan'[d] = scan[d]
    PROVE  Tracks(d)'
<1> SUFFICES ASSUME pc[d] = "scan" PROVE Tracks(d)'
  BY DEF Tracks
<1>1. /\ scan[d].pos \in Nat \ {0, 1} /\ register \in Seq(Documents)
      /\ Len(register) \in Nat
  BY LenProperties DEF TypeInv, TypeOK, JobsFit, JobFits, Scans
<1>2. scan[d].pos - 1 \in 1..Len(register) /\ register # <<>>
  BY <1>1, EmptySeq DEF Follows
<1>3. \A i \in 1..Len(scan[d].trail) : i + 1 \in 1..Len(register)
  BY <1>1, <1>2 DEF Tracks
<1>4. CASE register' = register
  BY <1>4 DEF Tracks
<1>5. ASSUME NEW doc \in Documents, register' = Append(register, doc)
      PROVE  Tracks(d)'
  <2>1. /\ Owner(register') = Owner(register)
        /\ \A i \in 1..Len(register) : register'[i] = register[i]
    BY <1>1, <1>2, <1>5, OwnerOfLonger
  <2>2. QED
    BY <1>3, <2>1 DEF Tracks
<1>6. QED
  BY <1>4, <1>5, RegisterGrows

LEMMA ScanTracks ==
    ASSUME TypeInv, EntriesStored, NEW d \in Devices, Follows(d), Tracks(d),
           ScanEntry(d)
    PROVE  Tracks(d)'
<1>1. /\ scan[d] \in Scans /\ pc[d] = "scan" /\ scan[d].pos <= Len(register)
      /\ register' = register /\ pc' = pc
  BY DEF ScanEntry, TypeInv, JobsFit, JobFits, Network
<1>2. /\ register \in Seq(Documents) /\ Len(register) \in Nat
      /\ scan[d].pos \in Nat \ {0, 1}
  BY <1>1, LenProperties DEF TypeInv, TypeOK, Scans
<1> DEFINE doc == register[scan[d].pos]
<1>3. doc \in Documents /\ scan[d].pos \in 1..Len(register)
  BY <1>1, <1>2, ElementOfSeq
<1>4. PICK got \in BOOLEAN, m \in BOOLEAN :
        /\ scan'[d] = IF m THEN [ReadEntry(scan[d], doc, got) EXCEPT !.missed = TRUE]
                      ELSE ReadEntry(scan[d], doc, got)
        /\ ~m => (got <=> doc \in chunks)
  BY DEF ScanEntry, TypeInv, TypeOK
<1> DEFINE r == ReadEntry(scan[d], doc, got)
           n == Len(scan[d].trail)
<1>5. /\ r \in Scans /\ r.pos = scan[d].pos + 1 /\ r.missed = scan[d].missed
      /\ Len(r.trail) = n + 1
      /\ \A i \in 1..n : r.trail[i] = scan[d].trail[i]
      /\ r.trail[n + 1] = "valid" <=> got /\ IsValid(doc, scan[d].owner)
  <2> HIDE DEF doc
  <2> QED BY <1>1, <1>3, ReadEntryRow, ReadEntryTrail DEF doc
<1>6. /\ scan'[d].pos = scan[d].pos + 1 /\ scan'[d].trail = r.trail
      /\ ~scan'[d].missed => ~m /\ ~scan[d].missed
  <2> HIDE DEF r, doc
  <2>1. CASE m
    BY <1>4, <1>5, <2>1 DEF Scans, r
  <2>2. CASE ~m
    BY <1>4, <1>5, <2>2 DEF r
  <2>3. QED
    BY <2>1, <2>2
<1>7. n = scan[d].pos - 2 /\ n \in Nat /\ n + 2 = scan[d].pos
  BY <1>1, <1>2 DEF Tracks
<1>8. ASSUME ~scan'[d].missed, NEW i \in 1..(n + 1)
      PROVE  r.trail[i] = "valid" <=> IsValid(register[i + 1], Owner(register))
  <2>1. CASE i \in 1..n
    <3> HIDE DEF r, n
    <3> QED BY <1>1, <1>5, <1>6, <1>8, <2>1 DEF Tracks, n
  <2>2. CASE i = n + 1
    <3>1. register[i + 1] = doc
      <4>1. i + 1 = scan[d].pos
        BY <1>7, <2>2
      <4>2. QED
        BY <4>1
    <3>2. IsValid(doc, Owner(register)) => got
      BY <1>3, <1>4, <1>6, <1>8 DEF EntriesStored
    <3>3. scan[d].owner = Owner(register)
      BY <1>1 DEF Follows
    <3>4. QED
      <4> HIDE DEF r, n, doc
      <4> QED BY <1>5, <2>2, <3>1, <3>2, <3>3
  <2>3. QED
    BY <1>7, <1>8, <2>1, <2>2
<1>9. Len(scan'[d].trail) = scan'[d].pos - 2
  <2> HIDE DEF r, n
  <2> QED BY <1>2, <1>5, <1>6, <1>7
<1>10. QED
  <2> HIDE DEF r, n
  <2> QED BY <1>1, <1>5, <1>6, <1>8, <1>9 DEF Tracks

LEMMA TracksStep ==
    TypeInv /\ EntriesStored /\ LookupFollowsRegister /\ TrailsTrack /\ [Next]_vars
      => TrailsTrack'
<1> SUFFICES ASSUME TypeInv, EntriesStored, LookupFollowsRegister, TrailsTrack,
                    [Next]_vars, NEW e \in Devices
             PROVE  Tracks(e)'
  BY DEF TrailsTrack
<1>1. Follows(e) /\ Tracks(e)
  BY DEF LookupFollowsRegister, Follows, TrailsTrack
<1>2. ASSUME NEW d \in Devices, Start(d) \/ Advance(d) \/ Crash(d)
      PROVE  Tracks(e)'
  <2>1. CASE e # d
    BY <1>1, <1>2, <2>1, LookupSteps, TracksGrowth
  <2>2. CASE e = d
    <3>1. CASE FetchOwner(e)
      <4>1. scan'[e].trail = <<>> /\ scan'[e].pos = 2
        BY <3>1 DEF FetchOwner, TypeInv, TypeOK
      <4>2. QED
        BY <4>1, EmptySeq DEF Tracks
    <3>2. CASE ScanEntry(e)
      BY <1>1, <3>2, ScanTracks
    <3>3. CASE pc'[e] # "scan"
      BY <3>3 DEF Tracks
    <3>4. CASE pc'[e] = pc[e] /\ scan'[e] = scan[e]
      BY <1>1, <3>4, TracksGrowth
    <3>5. QED
      BY <1>2, <2>2, <3>1, <3>2, <3>3, <3>4, LookupSteps
  <2>3. QED
    BY <2>1, <2>2
<1>3. CASE ForeignWrite
  BY <1>1, <1>3, TracksGrowth DEF ForeignWrite
<1>4. CASE UNCHANGED vars
  BY <1>1, <1>4, TracksGrowth DEF vars
<1>5. QED
  BY <1>2, <1>3, <1>4 DEF Next

LookupInv == TypeInv /\ EntriesStored /\ LookupFollowsRegister /\ TrailsTrack

LEMMA LookupInvariant == Spec => []LookupInv
<1>1. Init => LookupInv
  <2>1. Init => EntriesStored
    BY EmptySeq DEF Init, EntriesStored
  <2>2. QED
    BY <2>1, TypeInit
       DEF Init, LookupInv, LookupFollowsRegister, TrailsTrack, Tracks
<1>2. LookupInv /\ [Next]_vars => LookupInv'
  BY TypeStep, StoredStep, FollowsStep, TracksStep DEF LookupInv
<1>3. QED
  BY <1>1, <1>2, PTL DEF Spec

\* At the end of the loop nothing is left to read.
LEMMA ReadAll ==
    ASSUME LookupInv, NEW d \in Devices, AtEnd(d)
    PROVE  /\ scan[d].pos = Len(register) + 1 /\ Len(register) \in Nat \ {0}
           /\ scan[d].owner = Owner(register)
           /\ ~scan[d].missed =>
                 /\ scan[d].records = CurrentRecords(register)
                 /\ scan[d].target = TargetUpTo(register, Len(register))
<1>1. pc[d] = "scan" /\ scan[d] \in Scans /\ scan[d].pos > Len(register)
  BY DEF AtEnd, LookupInv, TypeInv, JobsFit, JobFits
<1>2. /\ scan[d].pos \in Nat \ {0, 1} /\ Len(register) \in Nat
      /\ scan[d].pos <= Len(register) + 1
  BY <1>1, LenProperties
     DEF Scans, LookupInv, TypeInv, TypeOK, LookupFollowsRegister
<1>3. scan[d].pos = Len(register) + 1 /\ scan[d].pos - 1 = Len(register)
  BY <1>1, <1>2
<1>4. QED
  BY <1>1, <1>2, <1>3 DEF LookupInv, LookupFollowsRegister, CurrentRecords

\* The statistics of a history that has been read to the end.
LEMMA StatsAreCurrent ==
    ASSUME LookupInv, NEW d \in Devices, AtEnd(d), ~scan[d].missed
    PROVE  LET stats == HistoryStats(scan[d].trail)
           IN  /\ stats.total = Len(register)
               /\ stats.valid - 1
                     = Cardinality(ValidEntries(register, Len(register)))
<1> DEFINE n == Len(register)
           trail == scan[d].trail
<1>1. pc[d] = "scan" /\ trail \in Seq({"valid", "spam", "corrupt"})
  BY DEF AtEnd, LookupInv, TypeInv, JobsFit, JobFits, Scans
<1>2. n \in Nat \ {0} /\ Len(trail) = n - 1
  BY <1>1, ReadAll DEF LookupInv, TrailsTrack, Tracks
<1>3. \A i \in 1..(n - 1) :
         trail[i] = "valid" <=> IsValid(register[i + 1], Owner(register))
  BY <1>1, <1>2 DEF LookupInv, TrailsTrack, Tracks
<1>4. Having(trail, "valid") = Cardinality(ValidEntries(register, n))
  <2> HIDE DEF n, trail
  <2> QED BY <1>1, <1>2, <1>3, ValidCount
<1>5. Having(trail, "valid") \in Nat
  BY <1>1, HavingType
<1>6. /\ HistoryStats(trail).total = Len(trail) + 1
      /\ HistoryStats(trail).valid = Having(trail, "valid") + 1
  BY DEF HistoryStats
<1>7. QED
  <2> HIDE DEF n, trail
  <2> QED BY <1>2, <1>4, <1>5, <1>6 DEF n, trail

\* Unless a download has failed, the list, the target and the statistics that
\* are printed are those of the register at the moment of the last history call,
\* whatever has been appended since the command began.
THEOREM AnswersAreExact == Spec => AnswersAreCurrent
<1>1. ASSUME LookupInv, [Next]_vars, NEW d \in Devices,
             pc[d] = "scan", pc'[d] = "idle", answer'[d] # None, ~scan[d].missed
      PROVE  \/ answer'[d] = [op |-> "list", value |-> CurrentRecords(register)]
             \/ answer'[d] = [op |-> "resolve",
                              value |-> TargetUpTo(register, Len(register))]
             \/ /\ answer'[d].op = "history"
                /\ answer'[d].value.total = Len(register)
                /\ answer'[d].value.valid - 1
                     = Cardinality(ValidEntries(register, Len(register)))
  <2> USE DEF LookupInv, TypeInv, TypeOK
  <2>1. PICK e \in Devices : Start(e) \/ Advance(e) \/ Crash(e)
    BY <1>1 DEF Next, ForeignWrite, vars
  <2>2. e = d
    BY <1>1, <2>1, LookupSteps
  <2>3. AnswerQuery(d)
    <3>1. ~Start(d)
      BY <1>1 DEF Start, StartRegister, StartEdit, StartSet, StartQuery,
                  QuickLookup, Import, Begin
    <3>2. ~Finish(d, None)
      BY <1>1 DEF Finish
    <3>3. ~(FetchOwner(d) \/ ScanEntry(d) \/ DraftEdit(d) \/ AddToNothing(d))
      BY <1>1 DEF FetchOwner, ScanEntry, DraftEdit, AddToNothing, SignDraft
    <3>4. ~(\/ Upload(d) \/ UploadFails(d) \/ CreateRegister(d)
            \/ UpdateRegister(d) \/ CommitRefused(d) \/ CommitReplyLost(d)
            \/ SaveKey(d) \/ SaveFails(d))
      BY <1>1 DEF Upload, UploadFails, CreateRegister, UpdateRegister, Commit,
                  CommitRefused, CommitReplyLost, SaveKey, SaveFails
    <3>5. QED
      BY <2>1, <2>2, <3>1, <3>2, <3>3, <3>4
         DEF Advance, RejectIndex, LookupFails, Crash
  <2>4. /\ AtEnd(d) /\ job[d].op \in Queries
        /\ answer'[d] = Reply(scan[d], job[d].op)
    BY <1>1, <2>3 DEF AnswerQuery, Finish
  <2>5. CASE job[d].op = "list"
    BY <1>1, <2>4, <2>5, ReadAll DEF Reply
  <2>6. CASE job[d].op = "resolve"
    BY <1>1, <2>4, <2>6, ReadAll DEF Reply
  <2>7. CASE job[d].op = "history"
    <3>1. answer'[d].op = "history" /\ answer'[d].value = HistoryStats(scan[d].trail)
      BY <2>4, <2>7 DEF Reply
    <3>2. QED
      BY <1>1, <2>4, <3>1, StatsAreCurrent
  <2>8. QED
    BY <2>4, <2>5, <2>6, <2>7 DEF Queries
<1>2. LookupInv /\ [Next]_vars =>
        [\A d \in Devices :
            /\ pc[d] = "scan" /\ pc'[d] = "idle" /\ answer'[d] # None
            /\ ~scan[d].missed
            => \/ answer'[d] = [op |-> "list", value |-> CurrentRecords(register)]
               \/ answer'[d] = [op |-> "resolve",
                                value |-> TargetUpTo(register, Len(register))]
               \/ /\ answer'[d].op = "history"
                  /\ answer'[d].value.total = Len(register)
                  /\ answer'[d].value.valid - 1
                       = Cardinality(ValidEntries(register, Len(register)))
           ]_vars
  BY <1>1
<1>3. QED
  BY LookupInvariant, <1>2, PTL DEF Spec, AnswersAreCurrent

\* ResolvesToCurrentTarget for the domains whose newest list has a root record.
RootedResolve ==
    [][\A d \in Devices :
        /\ pc[d] = "scan" /\ pc'[d] = "idle" /\ answer'[d] # None
        /\ answer'[d].op = "resolve" /\ ~scan[d].missed
        /\ Target(CurrentRecords(register)) # None
        => answer'[d].value = Target(CurrentRecords(register))]_vars

\* A list without a root record is the only thing that makes a domain resolve
\* to what it no longer says: as long as the newest list has one, and no
\* download fails, lookup_domain returns the first root record of that list.
THEOREM OnlyUnrootedListsStick == Spec => RootedResolve
<1>1. ASSUME LookupInv, NEW answered,
             Target(CurrentRecords(register)) # None,
             answered.op = "resolve",
             \/ answered = [op |-> "list", value |-> CurrentRecords(register)]
             \/ answered = [op |-> "resolve",
                            value |-> TargetUpTo(register, Len(register))]
             \/ /\ answered.op = "history"
                /\ answered.value.total = Len(register)
                /\ answered.value.valid - 1
                     = Cardinality(ValidEntries(register, Len(register)))
      PROVE  answered.value = Target(CurrentRecords(register))
  <2>1. register \in Seq(Documents)
    BY <1>1 DEF LookupInv, TypeInv, TypeOK
  <2>2. TargetUpTo(register, Len(register)) = Target(CurrentRecords(register))
    BY <1>1, <2>1, TargetOfCurrent
  <2>3. answered = [op |-> "resolve",
                    value |-> TargetUpTo(register, Len(register))]
    BY <1>1
  <2>4. QED
    BY <2>2, <2>3
<1>2. LookupInv /\
        [\A d \in Devices :
            /\ pc[d] = "scan" /\ pc'[d] = "idle" /\ answer'[d] # None
            /\ ~scan[d].missed
            => \/ answer'[d] = [op |-> "list", value |-> CurrentRecords(register)]
               \/ answer'[d] = [op |-> "resolve",
                                value |-> TargetUpTo(register, Len(register))]
               \/ /\ answer'[d].op = "history"
                  /\ answer'[d].value.total = Len(register)
                  /\ answer'[d].value.valid - 1
                       = Cardinality(ValidEntries(register, Len(register)))
           ]_vars =>
        [\A d \in Devices :
            /\ pc[d] = "scan" /\ pc'[d] = "idle" /\ answer'[d] # None
            /\ answer'[d].op = "resolve" /\ ~scan[d].missed
            /\ Target(CurrentRecords(register)) # None
            => answer'[d].value = Target(CurrentRecords(register))]_vars
  BY <1>1
<1>3. QED
  BY LookupInvariant, AnswersAreExact, <1>2, PTL
     DEF AnswersAreCurrent, RootedResolve

=============================================================================
