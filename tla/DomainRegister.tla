---------------------------- MODULE DomainRegister ----------------------------
(***************************************************************************)
(* One domain on the network and the devices that register, edit and look  *)
(* it up (src/src/register, with the commands of src/src/cli that call it).*)
(* A device runs one command at a time, as one process of the antns        *)
(* binary.  A command is a chain of network calls, and every call is a     *)
(* step of its own, so the steps of other devices and of strangers fall    *)
(* between them:                                                           *)
(*                                                                         *)
(*   register         upload -> commit -> save                             *)
(*   add, delete, ..  owner -> scan ... scan -> upload -> commit           *)
(*   list, resolve    owner -> scan ... scan                               *)
(*                                                                         *)
(* An error return and a killed process leave the same state behind: the   *)
(* command's local variables are gone, what it did to the network stays.   *)
(***************************************************************************)
EXTENDS Documents

CONSTANTS
    Devices,      \* machines, each with a key directory of its own
    Commands,     \* Commands[d]: the commands the user of d runs
    Indices,      \* the record indices users type
    Faults,       \* the calls that may fail or lose their answer
    ForeignDocs,  \* what other programs append
    Replays,      \* whether other programs append old entries again
    MaxEntries    \* bound: length of the register

Edits   == {"add", "delete", "update"}
Writers == Edits \cup {"register", "set"}
Queries == {"list", "resolve", "history"}
Ops     == Writers \cup Queries \cup {"quick", "import"}

FaultKinds ==
    {"owner", "history", "download", "upload", "commit", "save", "crash"}

ASSUME RegisterAssumption ==
    /\ Commands \in [Devices -> SUBSET Ops]
    /\ Indices \subseteq Nat
    /\ Faults \subseteq FaultKinds
    /\ ForeignDocs \subseteq Documents
    /\ \A doc \in ForeignDocs :
          /\ doc.kind # "owner"
          /\ doc.kind = "records" =>
                \A k \in Keys : doc.signature # sign_records(doc.records, k)
    /\ Replays \in BOOLEAN
    /\ MaxEntries \in Nat

VARIABLES
    chunks,    \* documents stored on the network
    register,  \* the register's history; empty until it is created
    keyfile,   \* domain-key-<domain>.txt of each device, None when unreadable
    minted,    \* keys that exist anywhere: generated here or brought along
    pc,        \* where each device's command stands
    job,       \* the command's arguments, and the key it signs with
    scan,      \* the local variables of the lookup loop
    draft,     \* the document on its way to the network
    answer     \* what the last command of each device printed

vars == <<chunks, register, keyfile, minted, pc, job, scan, draft, answer>>

Network == <<chunks, register>>
Disks   == <<keyfile, minted>>

-----------------------------------------------------------------------------

Stages == {"idle", "owner", "scan", "upload", "commit", "save"}

NoJob == [op |-> "none", record |-> None, index |-> 0, key |-> None]

Jobs == [op : Ops \cup {"none"}, record : Records \cup {None},
         index : Nat, key : Keys \cup {None}]

Scans == [owner : Keys \cup {None}, pos : Nat \ {0, 1}, records : Seq(Records),
          target : Records \cup {None},
          trail : Seq({"valid", "spam", "corrupt"}), missed : BOOLEAN]

Answers == [op : {"list"}, value : Seq(Records)]
    \cup [op : {"resolve", "quick"}, value : Records]
    \cup [op : {"history"},
          value : [total : Nat, valid : Nat, spam : Nat, invalid : Nat]]
    \cup [op : Writers, value : {"done"}]
    \cup {None}

TypeOK ==
    /\ chunks \subseteq Documents
    /\ register \in Seq(Documents)
    /\ keyfile \in [Devices -> Keys \cup {None}]
    /\ minted \subseteq Keys
    /\ pc \in [Devices -> Stages]
    /\ job \in [Devices -> Jobs]
    /\ scan \in [Devices -> Scans \cup {None}]
    /\ draft \in [Devices -> Documents \cup {None}]
    /\ answer \in [Devices -> Answers]

Init ==
    /\ chunks = {}
    /\ register = <<>>
    /\ keyfile = [d \in Devices |-> None]
    /\ minted = {}
    /\ pc = [d \in Devices |-> "idle"]
    /\ job = [d \in Devices |-> NoJob]
    /\ scan = [d \in Devices |-> None]
    /\ draft = [d \in Devices |-> None]
    /\ answer = [d \in Devices |-> None]

-----------------------------------------------------------------------------
(***************************************************************************)
(* Starting a command.                                                     *)
(***************************************************************************)

\* Bound: no more writes than the register has room for.
Room ==
    Len(register)
      + Cardinality({d \in Devices : job[d].op \in Writers}) < MaxEntries

Begin(d, stage, j, doc) ==
    /\ pc[d] = "idle"
    /\ pc' = [pc EXCEPT ![d] = stage]
    /\ job' = [job EXCEPT ![d] = j]
    /\ draft' = [draft EXCEPT ![d] = doc]
    /\ answer' = [answer EXCEPT ![d] = None]
    /\ UNCHANGED <<Network, keyfile, scan>>

\* register_domain generates a key pair nobody has and keeps it in memory
\* until register_command saves it.
StartRegister(d) ==
    /\ "register" \in Commands[d]
    /\ Room
    /\ \E k \in Keys \ minted :
          /\ minted' = minted \cup {k}
          /\ Begin(d, "upload", [NoJob EXCEPT !.op = "register", !.key = k],
                   DomainOwnerDocument(k))

EditJobs(key) ==
    [op : {"add"}, record : Records, index : {0}, key : {key}]
    \cup [op : {"delete"}, record : {None}, index : Indices, key : {key}]
    \cup [op : {"update"}, record : Records, index : Indices, key : {key}]

\* add, delete and update load the key file before they do anything else, and
\* nothing compares that key with the domain's owner.
StartEdit(d) ==
    /\ keyfile[d] # None
    /\ Room
    /\ \E j \in EditJobs(keyfile[d]) :
          /\ j.op \in Commands[d]
          /\ Begin(d, "owner", j, None)
    /\ UNCHANGED minted

\* update_domain replaces the whole list by one root record, without a lookup.
StartSet(d) ==
    /\ "set" \in Commands[d]
    /\ keyfile[d] # None
    /\ Room
    /\ \E r \in RootRecords :
          Begin(d, "upload",
                [op |-> "set", record |-> r, index |-> 0, key |-> keyfile[d]],
                SignedRecords(<<r>>, keyfile[d]))
    /\ UNCHANGED minted

StartQuery(d) ==
    /\ \E op \in Commands[d] \cap Queries :
          Begin(d, "owner", [NoJob EXCEPT !.op = op], None)
    /\ UNCHANGED minted

Finish(d, result) ==
    /\ pc' = [pc EXCEPT ![d] = "idle"]
    /\ job' = [job EXCEPT ![d] = NoJob]
    /\ scan' = [scan EXCEPT ![d] = None]
    /\ draft' = [draft EXCEPT ![d] = None]
    /\ answer' = [answer EXCEPT ![d] = result]

-----------------------------------------------------------------------------
(***************************************************************************)
(* The lookup loop, shared by lookup_domain, lookup_domain_records and     *)
(* get_domain_history.  Each of them keeps one of records, target and      *)
(* trail; missed is a history variable, true once the network failed to    *)
(* deliver a chunk it has.                                                 *)
(***************************************************************************)

FirstEntryReadable ==
    /\ register # <<>>
    /\ register[1] \in chunks
    /\ OwnerOf(register[1]) # None

\* Mutant of FetchOwner: the loop begins one entry late.
FetchOwnerSkipsEntry(d) ==
    /\ pc[d] = "owner"
    /\ FirstEntryReadable
    /\ scan' = [scan EXCEPT ![d] =
          [owner |-> OwnerOf(register[1]), pos |-> 3, records |-> <<>>,
           target |-> None, trail |-> <<>>, missed |-> FALSE]]
    /\ pc' = [pc EXCEPT ![d] = "scan"]
    /\ UNCHANGED <<Network, Disks, job, draft, answer>>

\* Mutant of FetchOwner: the loop begins at the owner document.
FetchOwnerReadsTwice(d) ==
    /\ pc[d] = "owner"
    /\ FirstEntryReadable
    /\ scan' = [scan EXCEPT ![d] =
          [owner |-> OwnerOf(register[1]), pos |-> 1, records |-> <<>>,
           target |-> None, trail |-> <<>>, missed |-> FALSE]]
    /\ pc' = [pc EXCEPT ![d] = "scan"]
    /\ UNCHANGED <<Network, Disks, job, draft, answer>>

FetchOwner(d) ==
    /\ pc[d] = "owner"
    /\ FirstEntryReadable
    /\ scan' = [scan EXCEPT ![d] =
          [owner |-> OwnerOf(register[1]), pos |-> 2, records |-> <<>>,
           target |-> None, trail |-> <<>>, missed |-> FALSE]]
    /\ pc' = [pc EXCEPT ![d] = "scan"]
    /\ UNCHANGED <<Network, Disks, job, draft, answer>>

\* Mutant of ReadEntry: takes any list that parses.
ReadUnverified(s, doc, got) ==
    LET valid == got /\ doc.kind = "records"
        target == IF valid THEN Target(doc.records) ELSE None
        status == IF got THEN Status(doc, s.owner) ELSE "corrupt"
    IN  [owner |-> s.owner, pos |-> s.pos + 1,
         records |-> IF valid THEN doc.records ELSE s.records,
         target |-> IF target # None THEN target ELSE s.target,
         trail |-> Append(s.trail, status), missed |-> s.missed]

\* One round of the loop over an entry, downloaded or not.
ReadEntry(s, doc, got) ==
    LET valid == got /\ IsValid(doc, s.owner)
        target == IF valid THEN Target(doc.records) ELSE None
        status == IF got THEN Status(doc, s.owner) ELSE "corrupt"
    IN  [owner |-> s.owner, pos |-> s.pos + 1,
         records |-> IF valid THEN doc.records ELSE s.records,
         target |-> IF target # None THEN target ELSE s.target,
         trail |-> Append(s.trail, status), missed |-> s.missed]

\* Mutant of ScanEntry: an entry that the network does not have is asked for
\* again, for ever; missed changes with each attempt.
ScanEntryRetries(d) ==
    /\ pc[d] = "scan"
    /\ scan[d].pos <= Len(register)
    /\ LET doc == register[scan[d].pos]
       IN  \/ /\ doc \in chunks
              /\ scan' = [scan EXCEPT ![d] = ReadEntry(@, doc, TRUE)]
           \/ /\ doc \notin chunks
              /\ scan' = [scan EXCEPT ![d].missed = ~@]
    /\ UNCHANGED <<Network, Disks, pc, job, draft, answer>>

ScanEntry(d) ==
    /\ pc[d] = "scan"
    /\ scan[d].pos <= Len(register)
    /\ LET doc == register[scan[d].pos]
       IN  \/ /\ doc \in chunks
              /\ scan' = [scan EXCEPT ![d] = ReadEntry(@, doc, TRUE)]
           \/ /\ doc \notin chunks
              /\ scan' = [scan EXCEPT ![d] = ReadEntry(@, doc, FALSE)]
           \/ /\ doc \in chunks
              /\ "download" \in Faults
              /\ scan' = [scan EXCEPT ![d] =
                    [ReadEntry(@, doc, FALSE) EXCEPT !.missed = TRUE]]
    /\ UNCHANGED <<Network, Disks, pc, job, draft, answer>>

\* Mutant of AtEnd: leaves the loop with the newest entry unread.
BeforeLast(d) == pc[d] = "scan" /\ scan[d].pos >= Len(register)

AtEnd(d) == pc[d] = "scan" /\ scan[d].pos > Len(register)

\* Mutant of Edited: delete drops the record behind the index as well.
EditedDropsTwo(records, j) ==
    CASE j.op = "add"    -> Append(records, j.record)
      [] j.op = "delete" -> SubSeq(records, 1, j.index)
                              \o SubSeq(records, j.index + 3, Len(records))
      [] j.op = "update" -> [records EXCEPT ![j.index + 1] = j.record]

\* What an edit makes of the records it read: push, remove, or assign.
Edited(records, j) ==
    CASE j.op = "add"    -> Append(records, j.record)
      [] j.op = "delete" -> SubSeq(records, 1, j.index)
                              \o SubSeq(records, j.index + 2, Len(records))
      [] j.op = "update" -> [records EXCEPT ![j.index + 1] = j.record]

InBounds(records, j) == j.op = "add" \/ j.index < Len(records)

\* Mutant of SignDraft: the list is signed before it is edited.
SignBeforeEdit(d, records) ==
    /\ draft' = [draft EXCEPT ![d] =
          [SignedRecords(records, job[d].key) EXCEPT
             !.signature = sign_records(scan[d].records, job[d].key)]]
    /\ pc' = [pc EXCEPT ![d] = "upload"]
    /\ scan' = [scan EXCEPT ![d] = None]
    /\ UNCHANGED <<Network, Disks, job, answer>>

SignDraft(d, records) ==
    /\ draft' = [draft EXCEPT ![d] = SignedRecords(records, job[d].key)]
    /\ pc' = [pc EXCEPT ![d] = "upload"]
    /\ scan' = [scan EXCEPT ![d] = None]
    /\ UNCHANGED <<Network, Disks, job, answer>>

\* Mutant of DraftEdit: an index that is one past the end is taken.
DraftBeyondEnd(d) ==
    /\ AtEnd(d)
    /\ job[d].op \in Edits
    /\ job[d].op = "add" \/ job[d].index <= Len(scan[d].records)
    /\ SignDraft(d, Edited(scan[d].records, job[d]))

DraftEdit(d) ==
    /\ AtEnd(d)
    /\ job[d].op \in Edits
    /\ InBounds(scan[d].records, job[d])
    /\ SignDraft(d, Edited(scan[d].records, job[d]))

RejectIndex(d) ==
    /\ AtEnd(d)
    /\ job[d].op \in Edits
    /\ ~InBounds(scan[d].records, job[d])
    /\ Finish(d, None)
    /\ UNCHANGED <<Network, Disks>>

Reply(s, op) ==
    CASE op = "list"    -> [op |-> op, value |-> s.records]
      [] op = "history" -> [op |-> op, value |-> HistoryStats(s.trail)]
      [] op = "resolve" -> IF s.target = None THEN None
                           ELSE [op |-> op, value |-> s.target]

AnswerQuery(d) ==
    /\ AtEnd(d)
    /\ job[d].op \in Queries
    /\ Finish(d, Reply(scan[d], job[d].op))
    /\ UNCHANGED <<Network, Disks>>

\* A lookup that ends in an error: no such register, an owner document that
\* cannot be had or read, a history call that fails.
LookupError(d) ==
    \/ pc[d] = "owner" /\ (~FirstEntryReadable \/ "owner" \in Faults)
    \/ pc[d] = "scan" /\ "history" \in Faults

\* add_domain_record takes any error for an empty list and goes on.
AddToNothing(d) ==
    /\ LookupError(d)
    /\ job[d].op = "add"
    /\ SignDraft(d, <<job[d].record>>)

LookupFails(d) ==
    /\ LookupError(d)
    /\ job[d].op # "add"
    /\ Finish(d, None)
    /\ UNCHANGED <<Network, Disks>>

\* quick_lookup reads the newest entry alone and verifies nothing.
QuickLookup(d) ==
    /\ pc[d] = "idle"
    /\ "quick" \in Commands[d]
    /\ register # <<>>
    /\ LET doc == register[Len(register)]
       IN  /\ doc \in chunks
           /\ doc.kind = "records"
           /\ Target(doc.records) # None
           /\ answer' = [answer EXCEPT ![d] =
                            [op |-> "quick", value |-> Target(doc.records)]]
    /\ UNCHANGED <<Network, Disks, pc, job, scan, draft>>

-----------------------------------------------------------------------------
(***************************************************************************)
(* Publishing: the document is uploaded, then its address is committed to  *)
(* the register.  register_create fails on an existing register,           *)
(* register_update on an absent one; each is one atomic step of the        *)
(* network.                                                                *)
(***************************************************************************)

\* Mutant of Upload: goes on before the network has the document.
UploadNotAwaited(d) ==
    /\ pc[d] = "upload"
    /\ pc' = [pc EXCEPT ![d] = "commit"]
    /\ UNCHANGED <<Network, Disks, job, scan, draft, answer>>

\* Mutant of Upload: waits for a list that is not empty.
UploadNonEmpty(d) ==
    /\ pc[d] = "upload"
    /\ draft[d].kind = "records" => draft[d].records # <<>>
    /\ chunks' = chunks \cup {draft[d]}
    /\ pc' = [pc EXCEPT ![d] = "commit"]
    /\ UNCHANGED <<register, Disks, job, scan, draft, answer>>

Upload(d) ==
    /\ pc[d] = "upload"
    /\ chunks' = chunks \cup {draft[d]}
    /\ pc' = [pc EXCEPT ![d] = "commit"]
    /\ UNCHANGED <<register, Disks, job, scan, draft, answer>>

UploadFails(d) ==
    /\ pc[d] = "upload"
    /\ "upload" \in Faults
    /\ chunks' \in {chunks, chunks \cup {draft[d]}}
    /\ Finish(d, None)
    /\ UNCHANGED <<register, Disks>>

\* Mutant of Accepted: a second registration is taken for an update.
AcceptedTwice(d) == job[d].op = "register" \/ register # <<>>

Accepted(d) == (job[d].op = "register") <=> (register = <<>>)

\* Mutant of Commit: a registration starts the register over.
CommitOverwrites(d) ==
    /\ pc[d] = "commit"
    /\ register' = IF job[d].op = "register" THEN <<draft[d]>>
                                             ELSE Append(register, draft[d])

Commit(d) ==
    /\ pc[d] = "commit"
    /\ Accepted(d)
    /\ register' = Append(register, draft[d])

CreateRegister(d) ==
    /\ Commit(d)
    /\ job[d].op = "register"
    /\ pc' = [pc EXCEPT ![d] = "save"]
    /\ draft' = [draft EXCEPT ![d] = None]
    /\ UNCHANGED <<chunks, Disks, job, scan, answer>>

UpdateRegister(d) ==
    /\ Commit(d)
    /\ job[d].op # "register"
    /\ Finish(d, [op |-> job[d].op, value |-> "done"])
    /\ UNCHANGED <<chunks, Disks>>

\* Mutant of CommitRefused: register_command saves its key all the same.
SaveAfterRefusal(d) ==
    /\ pc[d] = "commit"
    /\ ~Accepted(d)
    /\ pc' = [pc EXCEPT ![d] = IF job[d].op = "register" THEN "save" ELSE "idle"]
    /\ UNCHANGED <<Network, Disks, job, scan, draft, answer>>

CommitRefused(d) ==
    /\ pc[d] = "commit"
    /\ ~Accepted(d) \/ "commit" \in Faults
    /\ Finish(d, None)
    /\ UNCHANGED <<Network, Disks>>

\* The write takes effect and its answer is lost: the command reports an
\* error, and a registration drops the only copy of the key.
CommitReplyLost(d) ==
    /\ "commit" \in Faults
    /\ Commit(d)
    /\ Finish(d, None)
    /\ UNCHANGED <<chunks, Disks>>

\* What save_keypair may leave on disk: the key, whatever stood there, or a
\* file cut short, which load_keypair rejects.
Saved(d, k) ==
    {[keyfile EXCEPT ![d] = k]}
      \cup (IF "save" \in Faults
            THEN {keyfile, [keyfile EXCEPT ![d] = None]} ELSE {})

SaveKey(d) ==
    /\ pc[d] = "save"
    /\ keyfile' = [keyfile EXCEPT ![d] = job[d].key]
    /\ Finish(d, [op |-> "register", value |-> "done"])
    /\ UNCHANGED <<Network, minted>>

SaveFails(d) ==
    /\ pc[d] = "save"
    /\ "save" \in Faults
    /\ keyfile' \in Saved(d, job[d].key)
    /\ Finish(d, None)
    /\ UNCHANGED <<Network, minted>>

-----------------------------------------------------------------------------
(***************************************************************************)
(* The rest: imports, processes that die, and other programs.              *)
(***************************************************************************)

\* A key exported from another device, or one that belongs to another domain:
\* import_command does not tell them apart, and overwrites the file.
Import(d) ==
    /\ pc[d] = "idle"
    /\ "import" \in Commands[d]
    /\ \E k \in Keys :
          /\ k \in minted => \E e \in Devices : keyfile[e] = k
          /\ minted' = minted \cup {k}
          /\ keyfile' \in Saved(d, k)
    /\ UNCHANGED <<Network, pc, job, scan, draft, answer>>

Crash(d) ==
    /\ "crash" \in Faults
    /\ pc[d] # "idle"
    /\ Finish(d, None)
    /\ UNCHANGED <<Network, Disks>>

ForeignWrite ==
    /\ Room
    /\ \E doc \in ForeignDocs
          \cup (IF Replays THEN {register[i] : i \in 1..Len(register)} ELSE {}) :
          /\ register' = Append(register, doc)
          /\ chunks' \in {chunks, chunks \cup {doc}}
    /\ UNCHANGED <<Disks, pc, job, scan, draft, answer>>

-----------------------------------------------------------------------------

Start(d) ==
    \/ StartRegister(d) \/ StartEdit(d) \/ StartSet(d) \/ StartQuery(d)
    \/ QuickLookup(d) \/ Import(d)

\* The next step of a command under way: every network call returns, with an
\* answer or an error.
Advance(d) ==
    \/ FetchOwner(d) \/ ScanEntry(d) \/ DraftEdit(d) \/ RejectIndex(d)
    \/ AnswerQuery(d) \/ AddToNothing(d) \/ LookupFails(d)
    \/ Upload(d) \/ UploadFails(d)
    \/ CreateRegister(d) \/ UpdateRegister(d) \/ CommitRefused(d)
    \/ CommitReplyLost(d) \/ SaveKey(d) \/ SaveFails(d)

Next == (\E d \in Devices : Start(d) \/ Advance(d) \/ Crash(d)) \/ ForeignWrite

Spec == Init /\ [][Next]_vars

FairSpec == Spec /\ \A d \in Devices : WF_vars(Advance(d))

-----------------------------------------------------------------------------
(***************************************************************************)
(* Safety.                                                                 *)
(***************************************************************************)

\* A command holds what its stage needs: a key it was given, a document signed
\* with that key, and in "commit" one that the network already has.  A lookup
\* or an upload cannot be reached with another command's leftovers.
IsDraft(doc, j) ==
    IF j.op = "register" THEN doc = DomainOwnerDocument(j.key)
    ELSE /\ doc \in RecordsDocuments
         /\ doc.signature = sign_records(doc.records, j.key)

JobFits(d) ==
    /\ pc[d] \in {"owner", "scan"} =>
          \/ job[d].op \in Queries
          \/ job[d].key \in Keys /\ job[d] \in EditJobs(job[d].key)
    /\ pc[d] = "scan" => scan[d] \in Scans
    /\ pc[d] \in {"upload", "commit"} =>
          /\ job[d].op \in Writers
          /\ job[d].key \in Keys
          /\ IsDraft(draft[d], job[d])
    /\ pc[d] = "commit" => draft[d] \in chunks
    /\ pc[d] = "save" => job[d].op = "register" /\ job[d].key \in Keys

JobsFit == \A d \in Devices : JobFits(d)

\* Every signed entry of the register can be downloaded: upload_document_as_
\* chunk has returned before register_create or register_update is called.
\* Without it an edit would be current and unreadable.
EntriesStored ==
    \A i \in 1..Len(register) :
        \/ i = 1 /\ OwnerOf(register[1]) # None
        \/ IsValid(register[i], Owner(register))
        => register[i] \in chunks

\* While register_command is about to write its key file, that key is the one
\* the register names, and no other device is about to write one: two
\* registrations that race for a name cannot both win it.
RegistrantOwnsDomain ==
    \A d \in Devices : pc[d] = "save" =>
        /\ Owner(register) = job[d].key
        /\ \A e \in Devices \ {d} : pc[e] # "save"

\* The loop of the three lookup functions: after every round the local
\* variables hold what the entries read so far say, however many entries other
\* devices have appended in the meantime.
LookupFollowsRegister ==
    \A d \in Devices : pc[d] = "scan" =>
        /\ scan[d].owner = Owner(register)
        /\ scan[d].pos <= Len(register) + 1
        /\ ~scan[d].missed =>
              /\ scan[d].records = RecordsUpTo(register, scan[d].pos - 1)
              /\ scan[d].target = TargetUpTo(register, scan[d].pos - 1)

\* However many devices edit at once, and whatever lookups and downloads fail or
\* are cut short, the list that add, delete or update has on its way is the edit
\* its user asked for, in bounds, of a list the domain has said at some time,
\* or had before its first one: never of an unverified list, of a stale index
\* or of another command's list.
EditsFitThePast ==
    \A d \in Devices : pc[d] \in {"upload", "commit"} /\ job[d].op \in Edits =>
        \E n \in 0..Len(register) :
            /\ InBounds(RecordsUpTo(register, n), job[d])
            /\ draft[d].records = Edited(RecordsUpTo(register, n), job[d])

\* What list, resolve and history print is what the register says at the moment
\* of their last history call, unless a download failed: not what it said when
\* the command began, nor a mixture of the two.
AnswersAreCurrent ==
    [][\A d \in Devices :
        /\ pc[d] = "scan" /\ pc'[d] = "idle" /\ answer'[d] # None
        /\ ~scan[d].missed
        => \/ answer'[d] = [op |-> "list", value |-> CurrentRecords(register)]
           \/ answer'[d] = [op |-> "resolve",
                            value |-> TargetUpTo(register, Len(register))]
           \/ /\ answer'[d].op = "history"
              /\ answer'[d].value.total = Len(register)
              /\ answer'[d].value.valid - 1
                   = Cardinality(ValidEntries(register, Len(register)))
       ]_vars

\* The step in which a device with the owner's key has its own draft, and
\* nothing else, become what the domain says.
HolderPublishes(d) ==
    /\ pc[d] = "commit" /\ job[d].key = Owner(register)
    /\ register' = Append(register, draft[d])
    /\ CurrentRecords(register') = draft[d].records

\* "Only you can update it" (README.md:41): what a domain says changes only
\* when a device that holds the owner's key commits the list it has signed, and
\* it then says that list.  Entries signed with another key, entries that do
\* not parse and entries that cannot be downloaded never change it.
OnlyHolderChangesDomain ==
    [][CurrentRecords(register') # CurrentRecords(register) =>
         \E d \in Devices : HolderPublishes(d)]_vars

\* Where strangers append old entries again, they bring back at most a list
\* that the owner has signed for this register before: they never make a domain
\* say what its owner has not published there, in any order of races, failures
\* and lost answers.
StrangersSayNothingNew ==
    [][CurrentRecords(register') # CurrentRecords(register) =>
         \/ \E d \in Devices : HolderPublishes(d)
         \/ \E i \in ValidEntries(register, Len(register)) :
               CurrentRecords(register') = register[i].records]_vars

\* A registration that finds the name taken leaves the key file of the domain
\* alone: what a device writes there outside of import is the owner's key.
KeyFileNamesOwner ==
    [][\A d \in Devices :
        /\ keyfile'[d] # keyfile[d] /\ keyfile'[d] # None
        /\ pc[d] # "idle"
        => keyfile'[d] = Owner(register)]_vars

\* An edit that reports success has taken effect: everybody who reads the
\* register finds the list it signed.
SuccessTakesEffect ==
    [][\A d \in Devices :
        /\ pc[d] = "commit" /\ answer'[d] # None /\ answer'[d].op # "register"
        => CurrentRecords(register') = draft[d].records]_vars

\* add, delete and update change the list that is current when they take
\* effect by the one edit the user asked for.
EditsAreAtomic ==
    [][\A d \in Devices :
        /\ pc[d] = "commit" /\ pc'[d] = "idle" /\ register' # register
        /\ job[d].op \in Edits
        /\ Owner(register) = job[d].key
        => CurrentRecords(register')
             = Edited(CurrentRecords(register), job[d])]_vars

\* Adding a record keeps the records that are there.
AddKeepsRecords ==
    [][\A d \in Devices :
        /\ pc[d] = "commit" /\ pc'[d] = "idle" /\ register' # register
        /\ job[d].op = "add"
        /\ Owner(register) = job[d].key
        => CurrentRecords(register')
             = Append(CurrentRecords(register), job[d].record)]_vars

\* A domain resolves to the target of its current records.
ResolvesToCurrentTarget ==
    [][\A d \in Devices :
        /\ pc[d] = "scan" /\ pc'[d] = "idle" /\ answer'[d] # None
        /\ answer'[d].op = "resolve"
        => answer'[d].value = Target(CurrentRecords(register))]_vars

\* Once no registration is on its way to its key file, some device has the key
\* of a registered domain.
RegisteredKeyIsSaved ==
    \/ Owner(register) = None
    \/ \E d \in Devices : pc[d] = "save" \/ keyfile[d] = Owner(register)

(***************************************************************************)
(* Refinement and liveness.                                                *)
(***************************************************************************)

Domain == INSTANCE AbstractDomain
            WITH owner <- Owner(register), records <- CurrentRecords(register)

\* The register implements a domain with one owner for good.
ImplementsDomain == Domain!Spec

\* With a single editor and a network without faults the commands are atomic.
ImplementsEdits == Domain!EditSpec

\* Nobody appends to the register any more.
RegisterRests == <>[][UNCHANGED register]_vars

\* Once the register rests every command ends, whatever fails on the way: a
\* lookup passes over entries that cannot be downloaded or read, and every
\* refusal, lost answer and bad index is an error return.  While others go on
\* appending, the lookup loop need not end, for it reads as long as there is a
\* next entry.
CommandsEnd ==
    RegisterRests => \A d \in Devices : pc[d] # "idle" ~> pc[d] = "idle"

\* Without faults an edit of the owner that has passed its lookup is reported
\* as done: no refusal, no lost answer.
DraftsArePublished ==
    \A d \in Devices :
        pc[d] = "upload" /\ job[d].op \in Edits /\ job[d].key = Owner(register)
            ~> answer[d] # None
=============================================================================
