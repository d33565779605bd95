--------------------------------- MODULE Wallet ---------------------------------
(***************************************************************************)
(* load_wallet_with_private_key (src/src/wallet.rs): which private key a   *)
(* command pays with and, for the keys commands, whose vault it opens.     *)
(* The program only reads wallets, so these are operators: of the machine, *)
(* of the order in which it lists its wallet files, and of what the user   *)
(* types.                                                                  *)
(***************************************************************************)
EXTENDS Naturals, FiniteSets, Functions

CONSTANTS
    Wallets,    \* private keys
    Passwords,
    Garbage,    \* a text that is no private key
    None

ASSUME WalletAssumption ==
    /\ Garbage \notin Wallets /\ None \notin Wallets /\ Garbage # None
    /\ None \notin Passwords

\* A wallet file of the ant CLI: what it says, in clear or under a password.  A
\* file with ".encrypted" in its name that nothing decrypts, being too short or
\* not hex, is Garbage under a password.
WalletFiles ==
    [text : Wallets \cup {Garbage}, password : Passwords \cup {None}]

\* A machine: its SECRET_KEY, None when it is not set, and its wallet directory.
Machines ==
    [secret_key : Wallets \cup {Garbage, None},
     files : {files \in SUBSET WalletFiles : IsFiniteSet(files)}]

\* The orders in which read_dir may list the files; indices start at 0.
Listings(files) == Bijection(0 .. Cardinality(files) - 1, files)

\* The number that the list shows next to the file at an index.
Label(i) == i + 1

\* What the user may type: a number of the list, or one beside it.
Inputs(files) == 0 .. Cardinality(files) + 1

\* Mutant of select_wallet_from_list: the number is taken for the index.
SelectIndex(listing, input) ==
    IF input \in DOMAIN listing THEN {listing[input]} ELSE {}

\* The file whose number was typed; a number out of bounds is an error.
select_wallet_from_list(listing, input) ==
    IF input < 1 \/ input > Cardinality(DOMAIN listing) THEN {}
    ELSE {listing[input - 1]}

\* A file in clear says its key; another one says it to the right password.  A
\* wrong password is an error, for the text is authenticated.
load_private_key_from_file(file, password) ==
    IF file.password \in {None, password} THEN {file.text} ELSE {}

\* The only file, or the one the user selects.
load_wallet_with_key_from_disk(listing, input, password) ==
    UNION {load_private_key_from_file(file, password) :
        file \in IF Cardinality(DOMAIN listing) = 1 THEN {listing[0]}
                 ELSE select_wallet_from_list(listing, input)}

\* SECRET_KEY wins, and one that is no key is an error: the directory is not
\* tried.  The result is the wallet, or nothing.
load_wallet_with_private_key(machine, listing, input, password) ==
    Wallets \cap
        IF machine.secret_key # None THEN {machine.secret_key}
        ELSE load_wallet_with_key_from_disk(listing, input, password)

\* What the user has pointed at: SECRET_KEY where it is set, else what is in
\* the only file, or in the file that the list showed with the number typed.
PointedAt(machine, listing, input) ==
    IF machine.secret_key # None THEN {machine.secret_key}
    ELSE {listing[i].text : i \in
            {j \in DOMAIN listing :
                Cardinality(machine.files) = 1 \/ Label(j) = input}}
=============================================================================
