-------------------------------- MODULE KeyStore --------------------------------
(***************************************************************************)
(* The key files of several domains on the devices of one user, and the    *)
(* vault that `antns keys backup' and `antns keys restore' copy them to    *)
(* and from (src/src/vault.rs, cli/keys.rs, crypto/keypair.rs).  A vault   *)
(* belongs to a wallet: a command opens the one of the wallet it has       *)
(* loaded, and every device with that wallet writes the same one.          *)
(*                                                                         *)
(* A backup reads the key files one at a time and replaces the vault; a    *)
(* restore reads the vault and writes the key files one at a time.  Other  *)
(* processes on the device (names register, names import) write key files  *)
(* in between, and so do the commands of other devices to the vault.       *)
(***************************************************************************)
EXTENDS Wallet

CONSTANTS
    Devices,
    Domains,
    Keys,
    Absent,    \* no file, or no entry in a backup
    CutShort,  \* a file that holds no whole key: load_keypair rejects it
    Machine,   \* Machine[d]: the wallets of d
    Commands,  \* Commands[d]: the commands run on d
    Faults     \* what may go wrong

FaultKinds == {"read", "put", "get", "save", "crash", "loss"}

Ops == {"register", "import", "backup", "restore", "status"}

ASSUME KeyStoreAssumption ==
    /\ Absent # CutShort
    /\ Absent \notin Keys /\ CutShort \notin Keys
    /\ Machine \in [Devices -> Machines]
    /\ Commands \in [Devices -> SUBSET Ops]
    /\ Faults \subseteq FaultKinds

VARIABLES
    owner,   \* the key each domain's register names, Absent before
    files,   \* domain-key-<domain>.txt on each device
    vault,   \* the backup in each wallet's vault; all Absent when there is none
    op,      \* the keys command each device runs
    pc,      \* where it stands
    wallet,  \* the wallet it has loaded
    meant,   \* history: what its user has pointed at
    todo,    \* the domains it has yet to go through
    keys,    \* keys_map of a backup, the fetched backup of a restore
    before,  \* history: what the command had to copy when it began
    touched  \* history: files other processes wrote since

vars == <<owner, files, vault, op, pc, wallet, meant, todo, keys, before, touched>>

Command == <<op, pc, wallet, meant, todo, keys, before>>

Contents == Keys \cup {Absent, CutShort}

Nothing == [dom \in Domains |-> Absent]

Present(backup) == {dom \in Domains : backup[dom] # Absent}

TypeOK ==
    /\ owner \in [Domains -> Keys \cup {Absent}]
    /\ files \in [Devices -> [Domains -> Contents]]
    /\ vault \in [Wallets -> [Domains -> Contents]]
    /\ op \in [Devices -> {"none", "backup", "restore", "status"}]
    /\ pc \in [Devices -> {"idle", "collect", "fetch", "write"}]
    /\ wallet \in [Devices -> Wallets \cup {None}]
    /\ meant \in [Devices -> SUBSET (Wallets \cup {Garbage})]
    /\ todo \in [Devices -> SUBSET Domains]
    /\ keys \in [Devices -> [Domains -> Contents]]
    /\ before \in [Devices -> [Domains -> Contents]]
    /\ touched \in [Devices -> SUBSET Domains]
    /\ \A d \in Devices : /\ pc[d] = "idle" <=> op[d] = "none"
                          /\ pc[d] = "idle" <=> wallet[d] = None

Init ==
    /\ owner = Nothing
    /\ files = [d \in Devices |-> Nothing]
    /\ vault = [w \in Wallets |-> Nothing]
    /\ op = [d \in Devices |-> "none"]
    /\ pc = [d \in Devices |-> "idle"]
    /\ wallet = [d \in Devices |-> None]
    /\ meant = [d \in Devices |-> {}]
    /\ todo = [d \in Devices |-> {}]
    /\ keys = [d \in Devices |-> Nothing]
    /\ before = [d \in Devices |-> Nothing]
    /\ touched = [d \in Devices |-> {}]

-----------------------------------------------------------------------------

\* What save_keypair may leave in the file: std::fs::write truncates it first.
Saved(d, dom, k) ==
    {[files EXCEPT ![d][dom] = k]}
      \cup (IF "save" \in Faults
            THEN {files, [files EXCEPT ![d][dom] = CutShort]} ELSE {})

Touch(d, dom) ==
    touched' = [touched EXCEPT ![d] = IF op[d] = "none" THEN {} ELSE @ \cup {dom}]

\* A command loads the wallet before it looks at anything else, from files listed
\* in any order and for anything the user types; one that cannot ends there.
LoadWallet(d) ==
    \E listing \in Listings(Machine[d].files), input \in Inputs(Machine[d].files),
       password \in Passwords :
          /\ \E w \in load_wallet_with_private_key(Machine[d], listing, input, password) :
                wallet' = [wallet EXCEPT ![d] = w]
          /\ meant' = [meant EXCEPT ![d] = PointedAt(Machine[d], listing, input)]

\* A registration has to be paid for.
CanPay(d) ==
    \E listing \in Listings(Machine[d].files), input \in Inputs(Machine[d].files),
       password \in Passwords :
          load_wallet_with_private_key(Machine[d], listing, input, password) # {}

\* Mutant of Register: the key is saved before the network has accepted it.
RegisterUnasked(d) ==
    /\ "register" \in Commands[d]
    /\ \E dom \in Domains, k \in Keys :
          /\ \A other \in Domains : owner[other] # k
          /\ owner' = IF owner[dom] = Absent THEN [owner EXCEPT ![dom] = k] ELSE owner
          /\ files' \in Saved(d, dom, k)
          /\ Touch(d, dom)
    /\ UNCHANGED <<vault, Command>>

\* A registration that reaches the network, in another process of the device.
Register(d) ==
    /\ "register" \in Commands[d]
    /\ CanPay(d)
    /\ \E dom \in Domains, k \in Keys :
          /\ owner[dom] = Absent
          /\ \A other \in Domains : owner[other] # k
          /\ owner' = [owner EXCEPT ![dom] = k]
          /\ files' \in Saved(d, dom, k)
          /\ Touch(d, dom)
    /\ UNCHANGED <<vault, Command>>

\* names export on one device, names import on another.
Import(d) ==
    /\ "import" \in Commands[d]
    /\ \E dom \in Domains, e \in Devices :
          /\ files[e][dom] \in Keys
          /\ files' \in Saved(d, dom, files[e][dom])
          /\ Touch(d, dom)
    /\ UNCHANGED <<owner, vault, Command>>

Begin(d, command, stage, work, from) ==
    /\ pc[d] = "idle"
    /\ LoadWallet(d)
    /\ op' = [op EXCEPT ![d] = command]
    /\ pc' = [pc EXCEPT ![d] = stage]
    /\ todo' = [todo EXCEPT ![d] = work]
    /\ before' = [before EXCEPT ![d] = from]
    /\ UNCHANGED <<owner, files, vault, keys, touched>>

\* Mutant of End: the command's place is kept.
EndInPlace(d) ==
    /\ op' = [op EXCEPT ![d] = "none"]
    /\ UNCHANGED <<owner, pc, wallet, meant, todo, keys, before, touched>>

End(d) ==
    /\ op' = [op EXCEPT ![d] = "none"]
    /\ pc' = [pc EXCEPT ![d] = "idle"]
    /\ wallet' = [wallet EXCEPT ![d] = None]
    /\ meant' = [meant EXCEPT ![d] = {}]
    /\ todo' = [todo EXCEPT ![d] = {}]
    /\ keys' = [keys EXCEPT ![d] = Nothing]
    /\ before' = [before EXCEPT ![d] = Nothing]
    /\ touched' = [touched EXCEPT ![d] = {}]
    /\ UNCHANGED owner

-----------------------------------------------------------------------------
(***************************************************************************)
(* backup_keys                                                             *)
(***************************************************************************)

StartBackup(d) ==
    /\ "backup" \in Commands[d]
    /\ Begin(d, "backup", "collect", Present(files[d]), files[d])

\* Mutant of CollectFile: a file that cannot be read is passed over.
CollectUnread(d) ==
    /\ pc[d] = "collect"
    /\ \E dom \in todo[d] :
          /\ keys' \in {keys, [keys EXCEPT ![d][dom] = files[d][dom]]}
          /\ todo' = [todo EXCEPT ![d] = @ \ {dom}]
    /\ UNCHANGED <<owner, files, vault, op, pc, wallet, meant, before, touched>>

\* The directory is read as it is listed: a file that appears meanwhile may or
\* may not be found.  Its text goes into the backup whatever it says.
CollectFile(d) ==
    /\ pc[d] = "collect"
    /\ \E dom \in todo[d] \cup Present(files[d]) :
          /\ dom \notin Present(keys[d])
          /\ keys' = [keys EXCEPT ![d][dom] = files[d][dom]]
          /\ todo' = [todo EXCEPT ![d] = @ \ {dom}]
    /\ UNCHANGED <<owner, files, vault, op, pc, wallet, meant, before, touched>>

\* Mutant of PutBackup: an empty map is backed up too.
PutAnything(d) ==
    /\ pc[d] = "collect"
    /\ todo[d] = {}
    /\ vault' = [vault EXCEPT ![wallet[d]] = keys[d]]
    /\ End(d)
    /\ UNCHANGED files

\* vault_put replaces what the vault held.
PutBackup(d) ==
    /\ pc[d] = "collect"
    /\ todo[d] = {}
    /\ Present(keys[d]) # {}
    /\ vault' = [vault EXCEPT ![wallet[d]] = keys[d]]
    /\ End(d)
    /\ UNCHANGED files

\* Nothing to back up, a file that cannot be read, or a put that fails, with or
\* without effect.
BackupFails(d) ==
    /\ pc[d] = "collect"
    /\ \/ /\ todo[d] = {} /\ Present(keys[d]) = {}
          /\ UNCHANGED vault
       \/ /\ "read" \in Faults
          /\ todo[d] # {}
          /\ UNCHANGED vault
       \/ /\ "put" \in Faults
          /\ todo[d] = {} /\ Present(keys[d]) # {}
          /\ vault' \in {vault, [vault EXCEPT ![wallet[d]] = keys[d]]}
    /\ End(d)
    /\ UNCHANGED files

-----------------------------------------------------------------------------
(***************************************************************************)
(* restore_keys, for `keys restore' and for `keys status' alike.           *)
(***************************************************************************)

StartRestore(d) ==
    \E command \in {"restore", "status"} \cap Commands[d] :
        Begin(d, command, "fetch", {}, Nothing)

FetchBackup(d) ==
    /\ pc[d] = "fetch"
    /\ vault[wallet[d]] # Nothing
    /\ keys' = [keys EXCEPT ![d] = vault[wallet[d]]]
    /\ before' = [before EXCEPT ![d] = vault[wallet[d]]]
    /\ todo' = [todo EXCEPT ![d] = Present(vault[wallet[d]])]
    /\ touched' = [touched EXCEPT ![d] = {}]
    /\ pc' = [pc EXCEPT ![d] = "write"]
    /\ UNCHANGED <<owner, files, vault, op, wallet, meant>>

FetchFails(d) ==
    /\ pc[d] = "fetch"
    /\ vault[wallet[d]] = Nothing \/ "get" \in Faults
    /\ End(d)
    /\ UNCHANGED <<files, vault>>

\* Mutant of WriteFile: an entry that is no key is passed over.
WriteOrSkip(d) ==
    /\ pc[d] = "write"
    /\ \E dom \in todo[d] :
          /\ files' = IF keys[d][dom] = CutShort THEN files
                      ELSE [files EXCEPT ![d][dom] = keys[d][dom]]
          /\ todo' = [todo EXCEPT ![d] = @ \ {dom}]
    /\ UNCHANGED <<owner, vault, op, pc, wallet, meant, keys, before, touched>>

\* Entries come in the order of a HashMap, which is any.
WriteFile(d) ==
    /\ pc[d] = "write"
    /\ \E dom \in todo[d] :
          /\ keys[d][dom] \in Keys
          /\ files' = [files EXCEPT ![d][dom] = keys[d][dom]]
          /\ todo' = [todo EXCEPT ![d] = @ \ {dom}]
    /\ UNCHANGED <<owner, vault, op, pc, wallet, meant, keys, before, touched>>

\* An entry that is no key, or a file that cannot be written, ends the command
\* with the files restored so far in place.
WriteFails(d) ==
    /\ pc[d] = "write"
    /\ \E dom \in todo[d] :
          \/ /\ keys[d][dom] = CutShort
             /\ UNCHANGED files
          \/ /\ keys[d][dom] \in Keys
             /\ "save" \in Faults
             /\ files' \in Saved(d, dom, keys[d][dom])
    /\ End(d)
    /\ UNCHANGED vault

RestoreDone(d) ==
    /\ pc[d] = "write"
    /\ todo[d] = {}
    /\ End(d)
    /\ UNCHANGED <<files, vault>>

-----------------------------------------------------------------------------

Crash(d) ==
    /\ "crash" \in Faults
    /\ pc[d] # "idle"
    /\ End(d)
    /\ UNCHANGED <<files, vault>>

\* The disk is lost; the user goes on with a new one and the same wallets.
Lose(d) ==
    /\ "loss" \in Faults
    /\ files' = [files EXCEPT ![d] = Nothing]
    /\ End(d)
    /\ UNCHANGED vault

Next ==
    \E d \in Devices :
        \/ Register(d) \/ Import(d)
        \/ StartBackup(d) \/ CollectFile(d) \/ PutBackup(d) \/ BackupFails(d)
        \/ StartRestore(d) \/ FetchBackup(d) \/ FetchFails(d)
        \/ WriteFile(d) \/ WriteFails(d) \/ RestoreDone(d)
        \/ Crash(d) \/ Lose(d)

Spec == Init /\ [][Next]_vars

-----------------------------------------------------------------------------

\* Whoever imports only what was exported for the same domain never meets a
\* whole key file, on a device or in a vault, that does not hold the key of
\* the domain's owner, however backups and restores of several devices overlap.
KeysStayWithTheirDomain ==
    \A dom \in Domains :
        /\ \A w \in Wallets : vault[w][dom] \in {owner[dom], Absent, CutShort}
        /\ \A d \in Devices :
              {files[d][dom], keys[d][dom]} \subseteq {owner[dom], Absent, CutShort}

\* A backup that succeeds has every key file the device had when it began,
\* but for files other processes wrote meanwhile.
BackupIsComplete ==
    [][\A d \in Devices :
        pc[d] = "collect" /\ pc'[d] = "idle" /\ vault' # vault =>
            \A dom \in Domains \ touched[d] :
                vault'[wallet[d]][dom] = before[d][dom]]_vars

\* A restore that reports success has written every key of the backup it
\* fetched, but for files other processes wrote meanwhile.
RestoreIsComplete ==
    [][\A d \in Devices :
        pc[d] = "write" /\ todo[d] = {} /\ pc'[d] = "idle" =>
            \A dom \in Present(before[d]) \ touched[d] :
                files[d][dom] = before[d][dom]]_vars

\* A device without keys cannot empty a vault: "No domain keys found to
\* backup".
BackupNeverEmpties ==
    [][\A w \in Wallets : vault[w] # Nothing => vault'[w] # Nothing]_vars

\* "Let user select a wallet from multiple options": a vault changes only by a
\* backup whose user has pointed at its wallet, whatever other wallets the
\* device has and wherever they come from.
OnlyChosenVaultChanges ==
    [][\A w \in Wallets : vault'[w] # vault[w] =>
        \E d \in Devices : pc[d] = "collect" /\ pc'[d] = "idle" /\ meant[d] = {w}]_vars

\* "Recovery: Network vault backup survives device loss": replacing the backup
\* never drops the last copy of a domain's key.
BackupKeepsLastCopy ==
    [][\A w \in Wallets, dom \in Domains :
        vault[w][dom] \in Keys /\ vault'[w][dom] # vault[w][dom] =>
            \/ \E d \in Devices : files'[d][dom] = vault[w][dom]
            \/ \E v \in Wallets : vault'[v][dom] = vault[w][dom]]_vars
=============================================================================
