---------------------------- MODULE AbstractDomain ----------------------------
(***************************************************************************)
(* What a domain is to its users, with no network in sight: nobody's until *)
(* it is claimed, then one owner's for good, with one list of records.     *)
(*                                                                         *)
(* Spec is what AntNS keeps whatever happens: the owner never changes, and *)
(* an unclaimed domain has no records.  EditSpec is what the comments of   *)
(* register/update.rs promise of the commands: each changes the current    *)
(* list by one atomic edit.                                                *)
(***************************************************************************)
EXTENDS Naturals, Sequences

CONSTANTS Keys, Records, RootRecords, None

VARIABLES owner, records

AbstractInit == owner = None /\ records = <<>>

Claim ==
    /\ owner = None
    /\ owner' \in Keys
    /\ UNCHANGED records

\* Some list signed with the owner's key becomes the current one.
Publish ==
    /\ owner # None
    /\ records' \in Seq(Records)
    /\ UNCHANGED owner

Spec == AbstractInit /\ [][Claim \/ Publish]_<<owner, records>>

AddRecord == \E r \in Records : records' = Append(records, r)

DeleteRecord ==
    \E i \in 1..Len(records) :
        records' = SubSeq(records, 1, i - 1) \o SubSeq(records, i + 1, Len(records))

ReplaceRecord ==
    \E i \in 1..Len(records), r \in Records :
        records' = [records EXCEPT ![i] = r]

SetTarget == \E r \in RootRecords : records' = <<r>>

Edit ==
    /\ owner # None
    /\ AddRecord \/ DeleteRecord \/ ReplaceRecord \/ SetTarget
    /\ UNCHANGED owner

EditSpec == AbstractInit /\ [][Claim \/ Edit]_<<owner, records>>
=============================================================================
