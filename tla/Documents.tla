------------------------------ MODULE Documents ------------------------------
(***************************************************************************)
(* The documents AntNS keeps on the network, their signatures, and what a  *)
(* register that lists them says about a domain.  No state: the operators  *)
(* here are shared by every module that reads or writes a register.        *)
(*                                                                         *)
(* A chunk's address is a hash of its content, so an address is modelled   *)
(* by the document stored there.  A register's history is a sequence of    *)
(* addresses, hence a sequence of documents: the owner document first,     *)
(* then whatever anybody appended, for the register's signing key is       *)
(* published in the source.                                                *)
(***************************************************************************)
EXTENDS Naturals, Sequences, FiniteSets

CONSTANTS
    Keys,         \* Ed25519 key pairs a user of AntNS may hold
    Records,      \* DNS records: a type, a name and a value
    RootRecords,  \* those of type "ant" (in any case) and name "."
    Outsider,     \* whoever signs with a key that is not in Keys
    None          \* no key, no record, no document

ASSUME DocumentAssumption ==
    /\ RootRecords \subseteq Records
    /\ Outsider \notin Keys
    /\ None \notin Keys \cup Records \cup {Outsider}

(***************************************************************************)
(* Signatures.  sign_records signs the serialised list; verify_records     *)
(* serialises the list it is given again and checks the signature over     *)
(* that, so a signature carried over to another list does not verify.      *)
(***************************************************************************)
sign_records(records, key) == [by |-> key, over |-> records]

\* Mutant of verify_records: checks what was signed and not by whom.
verify_contents(records, signature, key) == signature.over = records

verify_records(records, signature, key) ==
    signature = [by |-> key, over |-> records]

Signatures == [by : Keys \cup {Outsider}, over : Seq(Records)]

DomainOwnerDocument(key) == [kind |-> "owner", publicKey |-> key]

SignedRecords(records, key) ==
    [kind |-> "records", records |-> records,
     signature |-> sign_records(records, key)]

\* Bytes that parse as neither kind of document.
Garbage == [kind |-> "garbage"]

RecordsDocuments ==
    [kind : {"records"}, records : Seq(Records), signature : Signatures]

OwnerDocuments == [kind : {"owner"}, publicKey : Keys]

Documents == OwnerDocuments \cup RecordsDocuments \cup {Garbage}

(***************************************************************************)
(* What the readers make of one entry.  A document of the wrong kind fails *)
(* to parse, as an absent one fails to download.                           *)
(***************************************************************************)
OwnerOf(doc) == IF doc.kind = "owner" THEN doc.publicKey ELSE None

IsValid(doc, owner) ==
    /\ doc.kind = "records"
    /\ verify_records(doc.records, doc.signature, owner)

Status(doc, owner) ==
    IF doc.kind # "records" THEN "corrupt"
    ELSE IF IsValid(doc, owner) THEN "valid" ELSE "spam"

\* The value of the first root record, as iter().find() returns it; a record
\* is identified with its value here.
Target(records) ==
    LET roots == {i \in 1..Len(records) : records[i] \in RootRecords}
    IN  IF roots = {} THEN None
        ELSE records[CHOOSE i \in roots : \A j \in roots : i <= j]

(***************************************************************************)
(* What the first n entries of a register say, from their definition       *)
(* rather than from any loop: "The last valid entry represents the current *)
(* state of the domain" (RFC-ANT-DNS.md, 5.2).                             *)
(***************************************************************************)
Owner(history) == IF history = <<>> THEN None ELSE OwnerOf(history[1])

Latest(S) == CHOOSE i \in S : \A j \in S : j <= i

ValidEntries(history, n) ==
    {i \in 2..n : IsValid(history[i], Owner(history))}

RecordsUpTo(history, n) ==
    LET valid == ValidEntries(history, n)
    IN  IF valid = {} THEN <<>> ELSE history[Latest(valid)].records

CurrentRecords(history) == RecordsUpTo(history, Len(history))

\* The target a resolver holds after n entries: a valid entry without a root
\* record leaves the target of an earlier one in place.
RootedEntries(history, n) ==
    {i \in ValidEntries(history, n) : Target(history[i].records) # None}

TargetUpTo(history, n) ==
    LET rooted == RootedEntries(history, n)
    IN  IF rooted = {} THEN None
        ELSE Target(history[Latest(rooted)].records)

Having(trail, status) ==
    Cardinality({i \in 1..Len(trail) : trail[i] = status})

\* Mutant of HistoryStats: leaves the owner document out of the total.
HistoryStatsNoOwner(trail) ==
    [total |-> Len(trail),
     valid |-> Having(trail, "valid") + 1,
     spam |-> Having(trail, "spam"),
     invalid |-> Having(trail, "corrupt")]

\* calculate_history_stats over the statuses of the entries that follow the
\* owner document, which counts as a valid entry itself.
HistoryStats(trail) ==
    [total |-> Len(trail) + 1,
     valid |-> Having(trail, "valid") + 1,
     spam |-> Having(trail, "spam"),
     invalid |-> Having(trail, "corrupt")]
=============================================================================
