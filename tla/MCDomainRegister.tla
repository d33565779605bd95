--------------------------- MODULE MCDomainRegister ---------------------------
(***************************************************************************)
(* Instances of DomainRegister for TLC.  Keys, devices and records are     *)
(* model values; the definitions here are the constants that a .cfg file   *)
(* cannot write down.                                                      *)
(***************************************************************************)
EXTENDS DomainRegister

CONSTANTS k1, k2, root, text, laptop, phone

\* A laptop registers, imports and edits; a phone registers and reads the
\* history.
RaceCommands ==
    [d \in Devices |-> IF d = laptop
                       THEN {"register", "import", "add"}
                       ELSE {"register", "history"}]

\* One device makes every edit; the other reads in every way there is.
SoleEditorCommands ==
    [d \in Devices |-> IF d = laptop
                       THEN {"register", "add", "delete", "update", "set"}
                       ELSE {"list", "history", "resolve", "quick"}]

\* Two devices that hold the owner's key.
TwoEditorsCommands ==
    [d \in Devices |-> IF d = laptop THEN {"register", "add"}
                                     ELSE {"import", "add"}]

OneDeviceCommands ==
    [d \in Devices |-> {"register", "add", "delete", "resolve"}]

\* What a stranger appends: noise, a list signed with a key of its own, and
\* a list that carries the signature of another one.
SpamDocs ==
    {Garbage, SignedRecords(<<text>>, Outsider),
     [SignedRecords(<<text>>, k1) EXCEPT !.records = <<root>>]}

NoiseDocs == {Garbage}
=============================================================================
