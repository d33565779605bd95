----------------------------- MODULE KeyStoreProofs -----------------------------
(***************************************************************************)
(* What backups and restores promise, for any devices, domains, keys and   *)
(* faults.  KeysStayWithTheirDomain is inductive but for its types.  That  *)
(* a successful copy is complete is a claim about the steps that end one;  *)
(* Copying says how far a command has got when it is under way, from its   *)
(* file listing or its fetched backup on, and is the invariant they need.  *)
(***************************************************************************)
EXTENDS KeyStore, FiniteSetTheorems, TLAPS

\* Whose vault the command of d opens, and how far it has got, as to the files
\* nobody else has touched.
Copying(d) ==
    /\ pc[d] = "idle" => touched[d] = {} /\ keys[d] = Nothing
    /\ pc[d] # "idle" => meant[d] = {wallet[d]}
    /\ pc[d] = "collect" =>
          \A dom \in Domains \ touched[d] :
              /\ files[d][dom] = before[d][dom]
              /\ dom \notin todo[d] => keys[d][dom] = before[d][dom]
    /\ pc[d] = "write" =>
          /\ keys[d] = before[d]
          /\ \A dom \in Present(before[d]) \ touched[d] :
                dom \notin todo[d] => files[d][dom] = before[d][dom]

StoreInv ==
    /\ TypeOK
    /\ KeysStayWithTheirDomain
    /\ \A d \in Devices : Copying(d)

Step(d) ==
    \/ Register(d) \/ Import(d)
    \/ StartBackup(d) \/ CollectFile(d) \/ PutBackup(d) \/ BackupFails(d)
    \/ StartRestore(d) \/ FetchBackup(d) \/ FetchFails(d)
    \/ WriteFile(d) \/ WriteFails(d) \/ RestoreDone(d)
    \/ Crash(d) \/ Lose(d)

-----------------------------------------------------------------------------

LEMMA NothingTyped == Nothing \in [Domains -> Keys \cup {Absent}]
BY DEF Nothing

\* What load_wallet_with_private_key returns is a wallet, and the one that the
\* user has pointed at: the number typed is that of the file's line in the list.
LEMMA LoadedIsMeant ==
    ASSUME NEW d \in Devices, NEW listing \in Listings(Machine[d].files),
           NEW input \in Inputs(Machine[d].files), NEW password \in Passwords,
           NEW w \in load_wallet_with_private_key(Machine[d], listing, input, password)
    PROVE  w \in Wallets /\ PointedAt(Machine[d], listing, input) = {w}
<1> DEFINE machine == Machine[d]
           n == Cardinality(machine.files)
<1>1. w \in Wallets
  BY DEF load_wallet_with_private_key
<1>2. CASE machine.secret_key # None
  BY <1>1, <1>2 DEF load_wallet_with_private_key, PointedAt
<1>3. CASE machine.secret_key = None
  <2>1. machine \in Machines
    BY KeyStoreAssumption
  <2>2. n \in Nat
    BY <2>1, FS_CardinalityType DEF Machines
  <2>3. DOMAIN listing = 0 .. n - 1
    BY DEF Listings, Bijection, Injection
  <2>4. Cardinality(DOMAIN listing) = n
    BY <2>2, <2>3, FS_Interval
  <2>5. PICK file \in IF n = 1 THEN {listing[0]}
                      ELSE select_wallet_from_list(listing, input) :
           w = file.text
    BY <1>3, <2>4 DEF load_wallet_with_private_key,
       load_wallet_with_key_from_disk, load_private_key_from_file
  <2>6. PointedAt(machine, listing, input) = {listing[i].text : i \in
            {j \in 0 .. n - 1 : n = 1 \/ j + 1 = input}}
    BY <1>3, <2>3 DEF PointedAt, Label
  <2>7. CASE n = 1
    <3>1. 0 .. n - 1 = {0}
      BY <2>7
    <3>2. QED
      BY <1>1, <2>5, <2>6, <2>7, <3>1
  <2>8. CASE n # 1
    <3>1. /\ input \in 0 .. n + 1 /\ 1 <= input /\ input <= n
          /\ file = listing[input - 1]
      BY <2>2, <2>4, <2>5, <2>8 DEF select_wallet_from_list, Inputs
    <3>2. {j \in 0 .. n - 1 : n = 1 \/ j + 1 = input} = {input - 1}
      BY <2>2, <2>8, <3>1
    <3>3. QED
      BY <1>1, <2>5, <2>6, <3>1, <3>2
  <2>9. QED
    BY <2>7, <2>8
<1>4. QED
  BY <1>2, <1>3

LEMMA InitStore == Init => StoreInv
<1> SUFFICES ASSUME Init PROVE StoreInv
  OBVIOUS
<1>1. TypeOK
  BY NothingTyped DEF Init, TypeOK, Contents
<1>2. KeysStayWithTheirDomain
  BY DEF Init, KeysStayWithTheirDomain, Nothing
<1>3. \A d \in Devices : Copying(d)
  BY DEF Init, Copying
<1>4. QED
  BY <1>1, <1>2, <1>3 DEF StoreInv

\* A save changes one file, to the key, to a file cut short, or not at all.
LEMMA SavedFile ==
    ASSUME TypeOK, NEW d \in Devices, NEW dom \in Domains, NEW k \in Keys,
           files' \in Saved(d, dom, k)
    PROVE  /\ files' \in [Devices -> [Domains -> Contents]]
           /\ files'[d][dom] \in {k, files[d][dom], CutShort}
           /\ \A x \in Domains \ {dom} : files'[d][x] = files[d][x]
           /\ \A e \in Devices \ {d} : files'[e] = files[e]
<1>1. files \in [Devices -> [Domains -> Contents]]
  BY DEF TypeOK
<1>2. k \in Contents /\ CutShort \in Contents
  BY DEF Contents
<1>3. CASE files' = [files EXCEPT ![d][dom] = k]
  BY <1>1, <1>2, <1>3
<1>4. CASE files' = [files EXCEPT ![d][dom] = CutShort]
  BY <1>1, <1>2, <1>4
<1>5. CASE files' = files
  BY <1>1, <1>5
<1>6. QED
  BY <1>3, <1>4, <1>5 DEF Saved

\* What ends a command clears it and leaves the other devices' commands alone.
LEMMA EndClears ==
    ASSUME TypeOK, NEW d \in Devices, End(d)
    PROVE  /\ owner' = owner
           /\ op' \in [Devices -> {"none", "backup", "restore", "status"}]
           /\ pc' \in [Devices -> {"idle", "collect", "fetch", "write"}]
           /\ wallet' \in [Devices -> Wallets \cup {None}]
           /\ meant' \in [Devices -> SUBSET (Wallets \cup {Garbage})]
           /\ todo' \in [Devices -> SUBSET Domains]
           /\ keys' \in [Devices -> [Domains -> Contents]]
           /\ before' \in [Devices -> [Domains -> Contents]]
           /\ touched' \in [Devices -> SUBSET Domains]
           /\ \A e \in Devices : /\ pc'[e] = "idle" <=> op'[e] = "none"
                                 /\ pc'[e] = "idle" <=> wallet'[e] = None
           /\ pc'[d] = "idle" /\ touched'[d] = {} /\ keys'[d] = Nothing
           /\ \A e \in Devices \ {d} :
                 /\ pc'[e] = pc[e] /\ todo'[e] = todo[e] /\ keys'[e] = keys[e]
                 /\ before'[e] = before[e] /\ touched'[e] = touched[e]
                 /\ wallet'[e] = wallet[e] /\ meant'[e] = meant[e]
<1>1. Nothing \in [Domains -> Contents]
  BY NothingTyped DEF Contents, Nothing
<1>2. QED
  BY <1>1 DEF TypeOK, End

\* The command of a device that takes no step is where it was.
LEMMA OthersCopy ==
    ASSUME NEW e \in Devices, Copying(e),
           pc'[e] = pc[e], todo'[e] = todo[e], keys'[e] = keys[e],
           before'[e] = before[e], touched'[e] = touched[e],
           files'[e] = files[e], wallet'[e] = wallet[e], meant'[e] = meant[e]
    PROVE  Copying(e)'
BY DEF Copying, Present, Nothing

\* A command that ends keeps the invariant, whatever it has done to the vault
\* and to its own files, as long as those still fit their domains.
LEMMA EndKeeps ==
    ASSUME StoreInv, NEW d \in Devices, End(d),
           vault' \in [Wallets -> [Domains -> Contents]],
           files' \in [Devices -> [Domains -> Contents]],
           \A e \in Devices \ {d} : files'[e] = files[e],
           \A dom \in Domains :
              /\ files'[d][dom] \in {owner[dom], Absent, CutShort}
              /\ \A w \in Wallets : vault'[w][dom] \in {owner[dom], Absent, CutShort}
    PROVE  StoreInv'
<1>0. TypeOK /\ KeysStayWithTheirDomain /\ \A e \in Devices : Copying(e)
  BY DEF StoreInv
<1>1. TypeOK'
  BY <1>0, EndClears DEF TypeOK
<1>2. ASSUME NEW dom \in Domains, NEW e \in Devices
      PROVE  {files'[e][dom], keys'[e][dom]}
                \subseteq {owner'[dom], Absent, CutShort}
  <2>1. owner' = owner
    BY <1>0, EndClears
  <2>2. CASE e = d
    BY <1>0, <2>1, <2>2, EndClears DEF Nothing
  <2>3. CASE e # d
    <3>1. files'[e] = files[e] /\ keys'[e] = keys[e]
      BY <1>0, <2>3, EndClears
    <3>2. {files[e][dom], keys[e][dom]} \subseteq {owner[dom], Absent, CutShort}
      BY <1>0 DEF KeysStayWithTheirDomain
    <3>3. QED
      BY <2>1, <3>1, <3>2
  <2>4. QED
    BY <2>2, <2>3
<1>3. KeysStayWithTheirDomain'
  BY <1>0, <1>2, EndClears DEF KeysStayWithTheirDomain
<1>4. ASSUME NEW e \in Devices PROVE Copying(e)'
  <2>1. CASE e = d
    BY <1>0, <2>1, EndClears DEF Copying, Nothing
  <2>2. CASE e # d
    BY <1>0, <2>2, EndClears, OthersCopy
  <2>3. QED
    BY <2>1, <2>2
<1>5. QED
  BY <1>1, <1>3, <1>4 DEF StoreInv

\* A file that another process writes while a command may be under way.
LEMMA FileWritten ==
    ASSUME StoreInv, NEW d \in Devices, NEW dom \in Domains, NEW k \in Keys,
           files' \in Saved(d, dom, k), Touch(d, dom),
           owner' \in [Domains -> Keys \cup {Absent}],
           owner'[dom] = k, owner[dom] \in {k, Absent},
           \A x \in Domains \ {dom} : owner'[x] = owner[x],
           UNCHANGED <<vault, Command>>
    PROVE  StoreInv'
<1>0. /\ TypeOK /\ KeysStayWithTheirDomain /\ \A e \in Devices : Copying(e)
      /\ vault' = vault /\ op' = op /\ pc' = pc /\ todo' = todo
      /\ keys' = keys /\ before' = before /\ wallet' = wallet /\ meant' = meant
  BY DEF StoreInv, Command
<1>1. /\ files' \in [Devices -> [Domains -> Contents]]
      /\ files'[d][dom] \in {k, files[d][dom], CutShort}
      /\ \A x \in Domains \ {dom} : files'[d][x] = files[d][x]
      /\ \A e \in Devices \ {d} : files'[e] = files[e]
  BY <1>0, SavedFile
<1>2. /\ touched' \in [Devices -> SUBSET Domains]
      /\ \A e \in Devices \ {d} : touched'[e] = touched[e]
      /\ pc[d] = "idle" => touched'[d] = {}
      /\ pc[d] # "idle" => touched'[d] = touched[d] \cup {dom}
  BY <1>0 DEF Touch, TypeOK
<1>3. TypeOK'
  BY <1>0, <1>1, <1>2 DEF TypeOK
<1>4. ASSUME NEW x \in Domains
      PROVE  /\ \A w \in Wallets : vault'[w][x] \in {owner'[x], Absent, CutShort}
             /\ \A e \in Devices :
                   {files'[e][x], keys'[e][x]} \subseteq {owner'[x], Absent, CutShort}
  <2>1. /\ \A w \in Wallets : vault[w][x] \in {owner'[x], Absent, CutShort}
        /\ \A e \in Devices :
              {files[e][x], keys[e][x]} \subseteq {owner'[x], Absent, CutShort}
    BY <1>0 DEF KeysStayWithTheirDomain
  <2>2. \A e \in Devices : files'[e][x] \in {owner'[x], Absent, CutShort}
    BY <1>1, <2>1
  <2>3. QED
    BY <1>0, <2>1, <2>2
<1>5. ASSUME NEW e \in Devices PROVE Copying(e)'
  <2>1. CASE e # d
    BY <1>0, <1>1, <1>2, <2>1, OthersCopy
  <2>2. CASE e = d
    BY <1>0, <1>1, <1>2, <2>2 DEF Copying, Present, Nothing
  <2>3. QED
    BY <2>1, <2>2
<1>6. QED
  BY <1>3, <1>4, <1>5 DEF StoreInv, KeysStayWithTheirDomain

\* A command that begins.
LEMMA BeginKeeps ==
    ASSUME StoreInv, NEW d \in Devices, StartBackup(d) \/ StartRestore(d)
    PROVE  StoreInv'
<1>0. TypeOK /\ KeysStayWithTheirDomain /\ \A e \in Devices : Copying(e)
  BY DEF StoreInv
<1>n. Nothing \in [Domains -> Contents]
  BY NothingTyped DEF Contents, Nothing
<1>1. PICK command \in {"backup", "restore", "status"},
           stage \in {"collect", "fetch"},
           work \in SUBSET Domains, from \in [Domains -> Contents] :
         /\ Begin(d, command, stage, work, from)
         /\ stage = "collect" => work = Present(files[d]) /\ from = files[d]
  <2>1. CASE StartBackup(d)
    <3>1. files[d] \in [Domains -> Contents] /\ Present(files[d]) \in SUBSET Domains
      BY <1>0 DEF TypeOK, Present
    <3>2. Begin(d, "backup", "collect", Present(files[d]), files[d])
      BY <2>1 DEF StartBackup
    <3>3. QED
      BY <3>1, <3>2
  <2>2. CASE StartRestore(d)
    <3>1. PICK command \in {"restore", "status"} :
             Begin(d, command, "fetch", {}, Nothing)
      BY <2>2 DEF StartRestore
    <3>2. QED
      BY <1>n, <3>1
  <2>3. QED
    BY <2>1, <2>2
<1>2. /\ owner' = owner /\ files' = files /\ vault' = vault
      /\ keys' = keys /\ touched' = touched
  BY <1>1 DEF Begin
<1>b. PICK w \in Wallets :
         /\ wallet' = [wallet EXCEPT ![d] = w]
         /\ meant' = [meant EXCEPT ![d] = {w}]
  <2>1. PICK listing \in Listings(Machine[d].files),
             input \in Inputs(Machine[d].files), password \in Passwords :
           /\ \E w \in load_wallet_with_private_key(Machine[d], listing, input,
                                                    password) :
                 wallet' = [wallet EXCEPT ![d] = w]
           /\ meant' = [meant EXCEPT ![d] = PointedAt(Machine[d], listing, input)]
    BY <1>1 DEF Begin, LoadWallet
  <2>2. PICK w \in load_wallet_with_private_key(Machine[d], listing, input, password) :
           wallet' = [wallet EXCEPT ![d] = w]
    BY <2>1
  <2>3. w \in Wallets /\ PointedAt(Machine[d], listing, input) = {w}
    BY LoadedIsMeant
  <2>4. QED
    BY <2>1, <2>2, <2>3
<1>w. /\ wallet' \in [Devices -> Wallets \cup {None}]
      /\ meant' \in [Devices -> SUBSET (Wallets \cup {Garbage})]
      /\ wallet'[d] # None /\ meant'[d] = {wallet'[d]}
      /\ \A e \in Devices \ {d} : wallet'[e] = wallet[e] /\ meant'[e] = meant[e]
  BY <1>0, <1>b, WalletAssumption DEF TypeOK
<1>3. TypeOK'
  BY <1>0, <1>1, <1>2, <1>w DEF TypeOK, Begin
<1>4. KeysStayWithTheirDomain'
  BY <1>0, <1>2 DEF KeysStayWithTheirDomain
<1>5. ASSUME NEW e \in Devices PROVE Copying(e)'
  <2>1. CASE e # d
    BY <1>0, <1>1, <1>2, <1>w, <2>1, OthersCopy DEF Begin, TypeOK
  <2>2. CASE e = d
    <3>1. /\ pc[d] = "idle" /\ pc'[d] = stage
          /\ todo'[d] = work /\ before'[d] = from
      BY <1>0, <1>1 DEF Begin, TypeOK
    <3>2. keys[d] = Nothing
      BY <1>0, <3>1 DEF Copying
    <3>3. CASE stage = "collect"
      <4>1. work = Present(files[d]) /\ from = files[d]
        BY <1>1, <3>3
      <4>2. QED
        BY <1>2, <1>w, <2>2, <3>1, <3>2, <3>3, <4>1
           DEF Copying, Present, Nothing
    <3>4. CASE stage = "fetch"
      BY <1>w, <2>2, <3>1, <3>4 DEF Copying
    <3>5. QED
      BY <3>3, <3>4
  <2>3. QED
    BY <2>1, <2>2
<1>6. QED
  BY <1>3, <1>4, <1>5 DEF StoreInv

LEMMA CollectKeeps ==
    ASSUME StoreInv, NEW d \in Devices, CollectFile(d)
    PROVE  StoreInv'
<1>0. TypeOK /\ KeysStayWithTheirDomain /\ \A e \in Devices : Copying(e)
  BY DEF StoreInv
<1>1. PICK dom \in todo[d] \cup Present(files[d]) :
         /\ keys' = [keys EXCEPT ![d][dom] = files[d][dom]]
         /\ todo' = [todo EXCEPT ![d] = @ \ {dom}]
  BY DEF CollectFile
<1>2. /\ pc[d] = "collect" /\ owner' = owner /\ files' = files
      /\ vault' = vault /\ op' = op /\ pc' = pc /\ wallet' = wallet
      /\ meant' = meant /\ before' = before /\ touched' = touched
  BY DEF CollectFile
<1>3. dom \in Domains
  BY <1>0, <1>1 DEF TypeOK, Present
<1>4. /\ keys' \in [Devices -> [Domains -> Contents]]
      /\ todo' \in [Devices -> SUBSET Domains]
      /\ keys'[d][dom] = files[d][dom]
      /\ \A x \in Domains \ {dom} : keys'[d][x] = keys[d][x]
      /\ todo'[d] = todo[d] \ {dom}
      /\ \A e \in Devices \ {d} : keys'[e] = keys[e] /\ todo'[e] = todo[e]
  BY <1>0, <1>1, <1>3 DEF TypeOK
<1>5. TypeOK'
  BY <1>0, <1>2, <1>4 DEF TypeOK
<1>6. KeysStayWithTheirDomain'
  BY <1>0, <1>2, <1>4 DEF KeysStayWithTheirDomain
<1>7. ASSUME NEW e \in Devices PROVE Copying(e)'
  <2>1. CASE e # d
    BY <1>0, <1>2, <1>4, <2>1, OthersCopy
  <2>2. CASE e = d
    BY <1>0, <1>2, <1>4, <2>2 DEF Copying
  <2>3. QED
    BY <2>1, <2>2
<1>8. QED
  BY <1>5, <1>6, <1>7 DEF StoreInv

LEMMA FetchKeeps ==
    ASSUME StoreInv, NEW d \in Devices, FetchBackup(d)
    PROVE  StoreInv'
<1>0. TypeOK /\ KeysStayWithTheirDomain /\ \A e \in Devices : Copying(e)
  BY DEF StoreInv
<1> DEFINE backup == vault[wallet[d]]
<1>1. /\ owner' = owner /\ files' = files /\ vault' = vault /\ op' = op
      /\ wallet' = wallet /\ meant' = meant /\ pc[d] = "fetch"
  BY DEF FetchBackup
<1>2. /\ Present(backup) \in SUBSET Domains
      /\ wallet[d] \in Wallets
      /\ backup \in [Domains -> Contents]
  BY <1>0, <1>1 DEF Present, TypeOK
<1>3. /\ keys' \in [Devices -> [Domains -> Contents]]
      /\ before' \in [Devices -> [Domains -> Contents]]
      /\ todo' \in [Devices -> SUBSET Domains]
      /\ touched' \in [Devices -> SUBSET Domains]
      /\ pc' \in [Devices -> {"idle", "collect", "fetch", "write"}]
      /\ keys'[d] = backup /\ before'[d] = backup
      /\ todo'[d] = Present(backup) /\ pc'[d] = "write"
      /\ \A e \in Devices \ {d} :
            /\ pc'[e] = pc[e] /\ todo'[e] = todo[e] /\ keys'[e] = keys[e]
            /\ before'[e] = before[e] /\ touched'[e] = touched[e]
  <2>1. /\ keys' = [keys EXCEPT ![d] = backup]
        /\ before' = [before EXCEPT ![d] = backup]
        /\ todo' = [todo EXCEPT ![d] = Present(backup)]
        /\ touched' = [touched EXCEPT ![d] = {}]
        /\ pc' = [pc EXCEPT ![d] = "write"]
    BY DEF FetchBackup
  <2> HIDE DEF backup
  <2>2. QED
    BY <1>0, <1>2, <2>1 DEF TypeOK
<1>4. TypeOK'
  BY <1>0, <1>1, <1>3 DEF TypeOK
<1>5. KeysStayWithTheirDomain'
  <2>1. \A dom \in Domains : backup[dom] \in {owner[dom], Absent, CutShort}
    BY <1>0, <1>2 DEF KeysStayWithTheirDomain
  <2>2. \A dom \in Domains, e \in Devices :
           keys'[e][dom] \in {keys[e][dom], backup[dom]}
    BY <1>3
  <2>3. \A dom \in Domains, e \in Devices :
           keys'[e][dom] \in {owner[dom], Absent, CutShort}
    BY <1>0, <2>1, <2>2 DEF KeysStayWithTheirDomain
  <2>4. QED
    BY <1>0, <1>1, <2>3 DEF KeysStayWithTheirDomain
<1>6. ASSUME NEW e \in Devices PROVE Copying(e)'
  <2>1. CASE e # d
    BY <1>0, <1>1, <1>3, <2>1, OthersCopy
  <2>2. CASE e = d
    BY <1>0, <1>1, <1>3, <2>2 DEF Copying, Present
  <2>3. QED
    BY <2>1, <2>2
<1>7. QED
  BY <1>4, <1>5, <1>6 DEF StoreInv

LEMMA WriteKeeps ==
    ASSUME StoreInv, NEW d \in Devices, WriteFile(d)
    PROVE  StoreInv'
<1>0. TypeOK /\ KeysStayWithTheirDomain /\ \A e \in Devices : Copying(e)
  BY DEF StoreInv
<1>1. PICK dom \in todo[d] :
         /\ keys[d][dom] \in Keys
         /\ files' = [files EXCEPT ![d][dom] = keys[d][dom]]
         /\ todo' = [todo EXCEPT ![d] = @ \ {dom}]
  BY DEF WriteFile
<1>2. /\ pc[d] = "write" /\ owner' = owner /\ vault' = vault /\ op' = op
      /\ wallet' = wallet /\ meant' = meant
      /\ pc' = pc /\ keys' = keys /\ before' = before /\ touched' = touched
  BY DEF WriteFile
<1>3. dom \in Domains
  BY <1>0, <1>1 DEF TypeOK
<1>4. /\ files' \in [Devices -> [Domains -> Contents]]
      /\ todo' \in [Devices -> SUBSET Domains]
      /\ files'[d][dom] = keys[d][dom]
      /\ \A x \in Domains \ {dom} : files'[d][x] = files[d][x]
      /\ todo'[d] = todo[d] \ {dom}
      /\ \A e \in Devices \ {d} : files'[e] = files[e] /\ todo'[e] = todo[e]
  BY <1>0, <1>1, <1>3 DEF TypeOK, Contents
<1>5. TypeOK'
  BY <1>0, <1>2, <1>4 DEF TypeOK
<1>6. KeysStayWithTheirDomain'
  BY <1>0, <1>2, <1>4 DEF KeysStayWithTheirDomain
<1>7. ASSUME NEW e \in Devices PROVE Copying(e)'
  <2>1. CASE e # d
    BY <1>0, <1>2, <1>4, <2>1, OthersCopy
  <2>2. CASE e = d
    <3>1. /\ keys[d] = before[d]
          /\ \A x \in Present(before[d]) \ touched[d] :
                x \notin todo[d] => files[d][x] = before[d][x]
      BY <1>0, <1>2 DEF Copying
    <3>2. \A x \in Present(before[d]) \ touched[d] :
             x \notin todo'[d] => files'[d][x] = before[d][x]
      BY <1>3, <1>4, <3>1 DEF Present
    <3>3. meant[d] = {wallet[d]}
      BY <1>0, <1>2 DEF Copying
    <3>4. QED
      BY <1>2, <2>2, <3>1, <3>2, <3>3 DEF Copying, Present
  <2>3. QED
    BY <2>1, <2>2
<1>8. QED
  BY <1>5, <1>6, <1>7 DEF StoreInv

\* The steps that end a command.
LEMMA EndingKeeps ==
    ASSUME StoreInv, NEW d \in Devices,
           \/ PutBackup(d) \/ BackupFails(d) \/ FetchFails(d)
           \/ WriteFails(d) \/ RestoreDone(d) \/ Crash(d) \/ Lose(d)
    PROVE  StoreInv'
<1>0. /\ TypeOK /\ KeysStayWithTheirDomain
      /\ files \in [Devices -> [Domains -> Contents]]
      /\ vault \in [Wallets -> [Domains -> Contents]]
      /\ keys[d] \in [Domains -> Contents]
      /\ Nothing \in [Domains -> Contents]
      /\ \A dom \in Domains :
            /\ {files[d][dom], keys[d][dom]} \subseteq {owner[dom], Absent, CutShort}
            /\ \A w \in Wallets : vault[w][dom] \in {owner[dom], Absent, CutShort}
  BY NothingTyped DEF StoreInv, TypeOK, KeysStayWithTheirDomain, Nothing, Contents
<1>1. CASE PutBackup(d) \/ BackupFails(d)
  <2>1. /\ End(d) /\ files' = files
        /\ vault' \in {vault, [vault EXCEPT ![wallet[d]] = keys[d]]}
    BY <1>1 DEF PutBackup, BackupFails
  <2>2. /\ vault' \in [Wallets -> [Domains -> Contents]]
        /\ \A w \in Wallets : vault'[w] \in {vault[w], keys[d]}
    BY <1>0, <2>1
  <2>3. \A dom \in Domains, w \in Wallets :
           vault'[w][dom] \in {owner[dom], Absent, CutShort}
    BY <1>0, <2>2
  <2>4. QED
    BY <1>0, <2>1, <2>2, <2>3, EndKeeps
<1>2. CASE FetchFails(d) \/ RestoreDone(d) \/ Crash(d)
  <2>1. End(d) /\ files' = files /\ vault' = vault
    BY <1>2 DEF FetchFails, RestoreDone, Crash
  <2>2. QED
    BY <1>0, <2>1, EndKeeps
<1>3. CASE Lose(d)
  <2>1. End(d) /\ vault' = vault /\ files' = [files EXCEPT ![d] = Nothing]
    BY <1>3 DEF Lose
  <2>2. /\ files' \in [Devices -> [Domains -> Contents]]
        /\ files'[d] = Nothing
        /\ \A e \in Devices \ {d} : files'[e] = files[e]
    BY <1>0, <2>1
  <2>3. \A dom \in Domains : files'[d][dom] = Absent
    BY <2>2 DEF Nothing
  <2>4. QED
    BY <1>0, <2>1, <2>2, <2>3, EndKeeps
<1>4. CASE WriteFails(d)
  <2>1. End(d) /\ vault' = vault
    BY <1>4 DEF WriteFails
  <2>2. PICK dom \in todo[d] :
           \/ files' = files
           \/ keys[d][dom] \in Keys /\ files' \in Saved(d, dom, keys[d][dom])
    BY <1>4 DEF WriteFails
  <2>3. CASE files' = files
    BY <1>0, <2>1, <2>3, EndKeeps
  <2>4. CASE keys[d][dom] \in Keys /\ files' \in Saved(d, dom, keys[d][dom])
    <3>1. dom \in Domains
      BY <1>0 DEF TypeOK
    <3>2. /\ files' \in [Devices -> [Domains -> Contents]]
          /\ files'[d][dom] \in {keys[d][dom], files[d][dom], CutShort}
          /\ \A x \in Domains \ {dom} : files'[d][x] = files[d][x]
          /\ \A e \in Devices \ {d} : files'[e] = files[e]
      BY <1>0, <2>4, <3>1, SavedFile
    <3>3. \A x \in Domains : files'[d][x] \in {owner[x], Absent, CutShort}
      BY <1>0, <3>2
    <3>4. QED
      BY <1>0, <2>1, <3>2, <3>3, EndKeeps
  <2>5. QED
    BY <2>2, <2>3, <2>4
<1>5. QED
  BY <1>1, <1>2, <1>3, <1>4

LEMMA OutsideWritesKeep ==
    ASSUME StoreInv, NEW d \in Devices, Register(d) \/ Import(d)
    PROVE  StoreInv'
<1>0. TypeOK /\ KeysStayWithTheirDomain
  BY DEF StoreInv
<1>1. CASE Register(d)
  <2>1. PICK dom \in Domains, k \in Keys :
           /\ owner[dom] = Absent /\ owner' = [owner EXCEPT ![dom] = k]
           /\ files' \in Saved(d, dom, k) /\ Touch(d, dom)
    BY <1>1 DEF Register
  <2>2. /\ owner' \in [Domains -> Keys \cup {Absent}] /\ owner'[dom] = k
        /\ \A x \in Domains \ {dom} : owner'[x] = owner[x]
    BY <1>0, <2>1 DEF TypeOK
  <2>3. UNCHANGED <<vault, Command>>
    BY <1>1 DEF Register
  <2>4. QED
    BY <2>1, <2>2, <2>3, FileWritten
<1>2. CASE Import(d)
  <2>1. PICK dom \in Domains, e \in Devices :
           /\ files[e][dom] \in Keys
           /\ files' \in Saved(d, dom, files[e][dom]) /\ Touch(d, dom)
    BY <1>2 DEF Import
  <2>2. owner[dom] = files[e][dom]
    BY <1>0, <2>1, KeyStoreAssumption DEF KeysStayWithTheirDomain
  <2>3. owner' = owner /\ UNCHANGED <<vault, Command>>
    BY <1>2 DEF Import
  <2>4. owner' \in [Domains -> Keys \cup {Absent}]
    BY <1>0, <2>3 DEF TypeOK
  <2>5. QED
    BY <2>1, <2>2, <2>3, <2>4, FileWritten
<1>3. QED
  BY <1>1, <1>2

LEMMA StepKeeps == StoreInv /\ [Next]_vars => StoreInv'
<1>1. ASSUME StoreInv, NEW d \in Devices, Step(d) PROVE StoreInv'
  BY <1>1, OutsideWritesKeep, BeginKeeps, CollectKeeps, FetchKeeps, WriteKeeps,
     EndingKeeps DEF Step
<1>2. ASSUME StoreInv, UNCHANGED vars PROVE StoreInv'
  <2>1. /\ owner' = owner /\ files' = files /\ vault' = vault /\ op' = op
        /\ pc' = pc /\ todo' = todo /\ keys' = keys /\ before' = before
        /\ touched' = touched /\ wallet' = wallet /\ meant' = meant
    BY <1>2 DEF vars
  <2>2. TypeOK'
    BY <1>2, <2>1 DEF StoreInv, TypeOK
  <2>3. KeysStayWithTheirDomain'
    BY <1>2, <2>1 DEF StoreInv, KeysStayWithTheirDomain
  <2>4. \A d \in Devices : Copying(d)'
    BY <1>2, <2>1, OthersCopy DEF StoreInv
  <2>5. QED
    BY <2>2, <2>3, <2>4 DEF StoreInv
<1>3. QED
  BY <1>1, <1>2 DEF Next, Step

THEOREM StoreInvariant == Spec => []StoreInv
BY InitStore, StepKeeps, PTL DEF Spec

-----------------------------------------------------------------------------

\* Every variable keeps its type.
THEOREM TypeCorrect == Spec => []TypeOK
<1>1. StoreInv => TypeOK
  BY DEF StoreInv
<1>2. QED
  BY StoreInvariant, <1>1, PTL

\* However registrations, imports, backups and restores of any number of
\* devices overlap and fail, no key file, no backup under way and no vault
\* holds a key that is not its domain's.
THEOREM KeysKeepTheirDomain == Spec => []KeysStayWithTheirDomain
<1>1. StoreInv => KeysStayWithTheirDomain
  BY DEF StoreInv
<1>2. QED
  BY StoreInvariant, <1>1, PTL

\* The only steps that change the vault put a backup there that has been
\* collected to its end.
LEMMA VaultChanges ==
    ASSUME TypeOK, NEW d \in Devices, Step(d), vault' # vault
    PROVE  /\ pc[d] = "collect" /\ todo[d] = {} /\ Present(keys[d]) # {}
           /\ wallet[d] \in Wallets /\ pc'[d] = "idle"
           /\ vault' = [vault EXCEPT ![wallet[d]] = keys[d]]
           /\ \A e \in Devices \ {d} : pc'[e] = pc[e]
<1>1. PutBackup(d) \/ BackupFails(d)
  BY DEF Step, Register, Import, StartBackup, StartRestore, Begin, CollectFile,
         FetchBackup, FetchFails, WriteFile, WriteFails, RestoreDone, Crash, Lose
<1>2. End(d)
  BY <1>1 DEF PutBackup, BackupFails
<1>3. pc'[d] = "idle" /\ \A e \in Devices \ {d} : pc'[e] = pc[e]
  BY <1>2, EndClears
<1>4. /\ pc[d] = "collect" /\ todo[d] = {} /\ Present(keys[d]) # {}
      /\ vault' = [vault EXCEPT ![wallet[d]] = keys[d]]
  BY <1>1 DEF PutBackup, BackupFails
<1>5. wallet[d] \in Wallets
  BY <1>4 DEF TypeOK
<1>6. QED
  BY <1>3, <1>4, <1>5

\* A backup that reaches the vault holds every key file the device had when it
\* began, but for files other processes wrote meanwhile.
THEOREM BackupsAreComplete == Spec => BackupIsComplete
<1>1. ASSUME StoreInv, NEW e \in Devices, Step(e), NEW d \in Devices,
             pc[d] = "collect", pc'[d] = "idle", vault' # vault,
             NEW dom \in Domains \ touched[d]
      PROVE  vault'[wallet[d]][dom] = before[d][dom]
  <2>1. TypeOK /\ Copying(d)
    BY <1>1 DEF StoreInv
  <2>2. /\ d = e /\ todo[d] = {} /\ wallet[d] \in Wallets
        /\ vault' = [vault EXCEPT ![wallet[d]] = keys[d]]
    BY <1>1, <2>1, VaultChanges
  <2>3. vault'[wallet[d]] = keys[d]
    BY <2>1, <2>2 DEF TypeOK
  <2>4. QED
    BY <1>1, <2>1, <2>2, <2>3 DEF Copying
<1>2. StoreInv /\ [Next]_vars =>
        [\A d \in Devices :
            pc[d] = "collect" /\ pc'[d] = "idle" /\ vault' # vault =>
                \A dom \in Domains \ touched[d] :
                    vault'[wallet[d]][dom] = before[d][dom]]_vars
  BY <1>1 DEF Next, Step
<1>3. QED
  BY StoreInvariant, <1>2, PTL DEF Spec, BackupIsComplete

\* A restore that ends with success has written every key of the backup it
\* fetched, but for files other processes wrote meanwhile.
THEOREM RestoresAreComplete == Spec => RestoreIsComplete
<1>1. ASSUME StoreInv, NEW d \in Devices, pc[d] = "write", todo[d] = {},
             NEW dom \in Present(before[d]) \ touched[d]
      PROVE  files[d][dom] = before[d][dom]
  BY <1>1 DEF StoreInv, Copying
<1>2. StoreInv /\ [Next]_vars =>
        [\A d \in Devices :
            pc[d] = "write" /\ todo[d] = {} /\ pc'[d] = "idle" =>
                \A dom \in Present(before[d]) \ touched[d] :
                    files[d][dom] = before[d][dom]]_vars
  BY <1>1
<1>3. QED
  BY StoreInvariant, <1>2, PTL DEF Spec, RestoreIsComplete

\* No device can empty a vault, not even one that has lost its disk.
THEOREM VaultIsNeverEmptied == Spec => BackupNeverEmpties
<1>1. ASSUME StoreInv, NEW d \in Devices, Step(d), NEW w \in Wallets,
             vault[w] # Nothing
      PROVE  vault'[w] # Nothing
  <2>1. CASE vault' # vault
    <3>1. /\ TypeOK
          /\ Present(keys[d]) # {}
          /\ vault' = [vault EXCEPT ![wallet[d]] = keys[d]]
      BY <1>1, <2>1, VaultChanges DEF StoreInv
    <3>2. vault'[w] \in {vault[w], keys[d]}
      BY <3>1 DEF TypeOK
    <3>3. keys[d] # Nothing
      BY <3>1 DEF Present, Nothing
    <3>4. QED
      BY <1>1, <3>2, <3>3
  <2>2. CASE vault' = vault
    BY <1>1, <2>2 DEF Nothing
  <2>3. QED
    BY <2>1, <2>2
<1>2. StoreInv /\ [Next]_vars =>
        [\A w \in Wallets : vault[w] # Nothing => vault'[w] # Nothing]_vars
  BY <1>1 DEF Next, Step, vars
<1>3. QED
  BY StoreInvariant, <1>2, PTL DEF Spec, BackupNeverEmpties

\* Whatever wallets the devices have, in whatever order they list them, and
\* whatever users type, a vault changes only by a backup whose user has pointed
\* at its wallet.
THEOREM OnlyChosenVaultsChange == Spec => OnlyChosenVaultChanges
<1>1. ASSUME StoreInv, NEW d \in Devices, Step(d), NEW w \in Wallets,
             vault'[w] # vault[w]
      PROVE  pc[d] = "collect" /\ pc'[d] = "idle" /\ meant[d] = {w}
  <2>1. TypeOK /\ Copying(d)
    BY <1>1 DEF StoreInv
  <2>2. /\ pc[d] = "collect" /\ pc'[d] = "idle" /\ wallet[d] \in Wallets
        /\ vault' = [vault EXCEPT ![wallet[d]] = keys[d]]
    BY <1>1, <2>1, VaultChanges
  <2>3. w = wallet[d]
    BY <1>1, <2>1, <2>2 DEF TypeOK
  <2>4. QED
    BY <2>1, <2>2, <2>3 DEF Copying
<1>2. StoreInv /\ [Next]_vars =>
        [\A w \in Wallets : vault'[w] # vault[w] =>
            \E d \in Devices :
                pc[d] = "collect" /\ pc'[d] = "idle" /\ meant[d] = {w}]_vars
  BY <1>1 DEF Next, Step, vars
<1>3. QED
  BY StoreInvariant, <1>2, PTL DEF Spec, OnlyChosenVaultChanges
-----------------------------------------------------------------------------
(***************************************************************************)
(* When a backup keeps the last copy of a key.  It does not when a disk is *)
(* lost before it is restored, nor when a restore leaves a file cut short; *)
(* nothing else is in the way: with files that stay, every whole key in a  *)
(* vault, or on its way to one, is still in a file of some device.         *)
(***************************************************************************)

\* No disk is lost and no file is left cut short.  Reads, puts and fetches may
\* fail and processes may be killed between two files.
FilesStay == "loss" \notin Faults /\ "save" \notin Faults

InSomeFile(dom, k) == \E e \in Devices : files[e][dom] = k

OnDisk ==
    \A dom \in Domains :
        /\ \A w \in Wallets : vault[w][dom] \in Keys => InSomeFile(dom, vault[w][dom])
        /\ \A d \in Devices : keys[d][dom] \in Keys => InSomeFile(dom, keys[d][dom])

\* A whole key file is only ever written again with the key it has.
LEMMA KeyFilesStay ==
    ASSUME FilesStay, StoreInv, NEW d \in Devices, Step(d),
           NEW e \in Devices, NEW dom \in Domains, files[e][dom] \in Keys
    PROVE  files'[e][dom] = files[e][dom]
<1>1. TypeOK /\ KeysStayWithTheirDomain
  BY DEF StoreInv
<1>2. files[e][dom] = owner[dom]
  BY <1>1, KeyStoreAssumption DEF KeysStayWithTheirDomain
<1>3. ASSUME NEW x \in Domains, NEW k \in Keys, owner[x] \in {k, Absent},
             files' = [files EXCEPT ![d][x] = k]
      PROVE  files'[e][dom] = files[e][dom]
  <2>1. CASE e = d /\ dom = x
    <3>1. owner[x] = k
      BY <1>2, <1>3, <2>1, KeyStoreAssumption
    <3>2. files'[e][dom] = k
      BY <1>1, <1>3, <2>1 DEF TypeOK
    <3>3. QED
      BY <1>2, <2>1, <3>1, <3>2
  <2>2. CASE ~(e = d /\ dom = x)
    BY <1>1, <1>3, <2>2 DEF TypeOK
  <2>3. QED
    BY <2>1, <2>2
<1>4. \A f \in Devices, x \in Domains :
         /\ files[f][x] \in Keys => owner[x] = files[f][x]
         /\ keys[f][x] \in Keys => owner[x] = keys[f][x]
  BY <1>1, KeyStoreAssumption DEF KeysStayWithTheirDomain
<1>5. ASSUME NEW x \in Domains, NEW k \in Keys
      PROVE  Saved(d, x, k) = {[files EXCEPT ![d][x] = k]}
  BY DEF FilesStay, Saved
<1>6. CASE Register(d)
  <2>1. PICK x \in Domains, k \in Keys : owner[x] = Absent /\ files' \in Saved(d, x, k)
    BY <1>6 DEF Register
  <2>2. QED
    BY <1>3, <1>5, <2>1
<1>7. CASE Import(d)
  <2>1. PICK x \in Domains, f \in Devices :
           files[f][x] \in Keys /\ files' \in Saved(d, x, files[f][x])
    BY <1>7 DEF Import
  <2>2. QED
    BY <1>3, <1>4, <1>5, <2>1
<1>8. CASE WriteFile(d)
  <2>1. PICK x \in Domains : /\ x \in todo[d] /\ keys[d][x] \in Keys
                             /\ files' = [files EXCEPT ![d][x] = keys[d][x]]
    BY <1>1, <1>8 DEF WriteFile, TypeOK
  <2>2. QED
    BY <1>3, <1>4, <2>1
<1>9. CASE UNCHANGED files
  BY <1>9
<1>10. QED
  BY <1>6, <1>7, <1>8, <1>9 DEF Step, FilesStay, StartBackup, StartRestore, Begin,
     CollectFile, PutBackup, BackupFails, FetchBackup, FetchFails, WriteFails,
     RestoreDone, Crash, Lose

\* Where the entries of a vault and of a backup under way come from.
LEMMA CopiesComeFrom ==
    ASSUME StoreInv, NEW d \in Devices, Step(d), NEW dom \in Domains
    PROVE  /\ \A w \in Wallets : vault'[w][dom] \in {vault[w][dom], keys[d][dom]}
           /\ \A e \in Devices :
                 \/ keys'[e][dom] \in {keys[e][dom], files[e][dom], Absent}
                 \/ \E w \in Wallets : keys'[e][dom] = vault[w][dom]
<1>1. TypeOK
  BY DEF StoreInv
<1>2. \A w \in Wallets : vault'[w][dom] \in {vault[w][dom], keys[d][dom]}
  <2>1. CASE vault' = vault
    BY <2>1
  <2>2. CASE vault' # vault
    <3>1. wallet[d] \in Wallets /\ vault' = [vault EXCEPT ![wallet[d]] = keys[d]]
      BY <1>1, <2>2, VaultChanges
    <3>2. QED
      BY <1>1, <3>1 DEF TypeOK
  <2>3. QED
    BY <2>1, <2>2
<1>3. ASSUME NEW e \in Devices
      PROVE  \/ keys'[e][dom] \in {keys[e][dom], files[e][dom], Absent}
             \/ \E w \in Wallets : keys'[e][dom] = vault[w][dom]
  <2>1. CASE CollectFile(d)
    <3>1. PICK x \in Domains : keys' = [keys EXCEPT ![d][x] = files[d][x]]
      BY <1>1, <2>1 DEF CollectFile, Present, TypeOK
    <3>2. QED
      BY <1>1, <3>1 DEF TypeOK
  <2>2. CASE FetchBackup(d)
    <3>1. wallet[d] \in Wallets
      BY <1>1, <2>2 DEF FetchBackup, TypeOK
    <3>2. keys' = [keys EXCEPT ![d] = vault[wallet[d]]]
      BY <2>2 DEF FetchBackup
    <3>3. QED
      BY <1>1, <3>1, <3>2 DEF TypeOK
  <2>3. CASE End(d)
    <3>1. keys' = [keys EXCEPT ![d] = Nothing]
      BY <2>3 DEF End
    <3>2. QED
      BY <1>1, <3>1 DEF TypeOK, Nothing
  <2>4. CASE UNCHANGED keys
    BY <2>4
  <2>5. QED
    BY <2>1, <2>2, <2>3, <2>4 DEF Step, Register, Import, Command, StartBackup,
       StartRestore, Begin, PutBackup, BackupFails, FetchFails, WriteFile,
       WriteFails, RestoreDone, Crash, Lose
<1>4. QED
  BY <1>2, <1>3

LEMMA OnDiskKept ==
    ASSUME FilesStay, StoreInv, OnDisk, [Next]_vars
    PROVE  OnDisk'
<1>1. ASSUME NEW d \in Devices, Step(d), NEW dom \in Domains
      PROVE  /\ \A w \in Wallets :
                   vault'[w][dom] \in Keys => InSomeFile(dom, vault[w][dom])'
             /\ \A e \in Devices :
                   keys'[e][dom] \in Keys => InSomeFile(dom, keys[e][dom])'
  <2>1. ASSUME NEW k \in Keys, InSomeFile(dom, k)
        PROVE  \E e \in Devices : files'[e][dom] = k
    BY <1>1, <2>1, KeyFilesStay DEF InSomeFile
  <2>2. ASSUME NEW w \in Wallets, vault'[w][dom] \in Keys
        PROVE  InSomeFile(dom, vault'[w][dom])
    BY <1>1, <2>2, CopiesComeFrom DEF OnDisk
  <2>3. ASSUME NEW e \in Devices, keys'[e][dom] \in Keys
        PROVE  InSomeFile(dom, keys'[e][dom])
    <3>1. CASE keys'[e][dom] = files[e][dom]
      BY <3>1 DEF InSomeFile
    <3>2. CASE keys'[e][dom] = keys[e][dom]
      BY <2>3, <3>2 DEF OnDisk
    <3>3. CASE \E w \in Wallets : keys'[e][dom] = vault[w][dom]
      BY <2>3, <3>3 DEF OnDisk
    <3>4. QED
      BY <1>1, <2>3, <3>1, <3>2, <3>3, CopiesComeFrom, KeyStoreAssumption
  <2>4. QED
    BY <2>1, <2>2, <2>3 DEF InSomeFile
<1>2. CASE UNCHANGED vars
  <2>1. files' = files /\ vault' = vault /\ keys' = keys
    BY <1>2 DEF vars
  <2>2. QED
    BY <2>1 DEF OnDisk, InSomeFile
<1>3. QED
  BY <1>1, <1>2 DEF OnDisk, Next, Step

\* "Recovery: Network vault backup survives device loss": whatever else fails,
\* and however many devices share a vault, replacing a backup drops the last
\* copy of a key only where a disk has been lost or a file left cut short.
THEOREM OnlyLostFilesLoseKeys == FilesStay => (Spec => BackupKeepsLastCopy)
<1>1. Init => OnDisk
  BY KeyStoreAssumption DEF Init, OnDisk, Nothing
<1>2. ASSUME FilesStay, StoreInv, OnDisk, NEW d \in Devices, Step(d),
             NEW w \in Wallets, NEW dom \in Domains, vault[w][dom] \in Keys
      PROVE  \E e \in Devices : files'[e][dom] = vault[w][dom]
  BY <1>2, KeyFilesStay DEF OnDisk, InSomeFile
<1>3. FilesStay /\ StoreInv /\ OnDisk /\ [Next]_vars =>
        [\A w \in Wallets, dom \in Domains :
            vault[w][dom] \in Keys /\ vault'[w][dom] # vault[w][dom] =>
                \/ \E d \in Devices : files'[d][dom] = vault[w][dom]
                \/ \E v \in Wallets : vault'[v][dom] = vault[w][dom]]_vars
  BY <1>2 DEF Next, Step, vars
<1>4. FilesStay /\ StoreInv /\ OnDisk /\ [Next]_vars => OnDisk'
  BY OnDiskKept
<1>5. FilesStay /\ Spec => [](FilesStay /\ StoreInv /\ OnDisk)
  <2>1. FilesStay => FilesStay'
    BY DEF FilesStay
  <2>2. QED
    BY <1>1, <1>4, <2>1, StoreInvariant, PTL DEF Spec
<1>6. QED
  BY <1>3, <1>5, PTL DEF Spec, BackupKeepsLastCopy
=============================================================================
