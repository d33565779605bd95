------------------------------- MODULE MCKeyStore -------------------------------
(***************************************************************************)
(* Instances of KeyStore for TLC.                                          *)
(***************************************************************************)
EXTENDS KeyStore, TLC

CONSTANTS laptop, phone, work, home, right, wrong

\* Neither domains nor keys are told apart by anything.
NameSymmetry == Permutations(Domains) \cup Permutations(Keys)

\* Both devices write the vault; the phone also gets its keys by hand and
\* from the vault, with keys restore or with keys status.
TwoDevices ==
    [d \in Devices |-> IF d = laptop THEN {"register", "backup"}
                                     ELSE {"import", "backup", "restore", "status"}]

OneDevice == [d \in Devices |-> {"register", "backup", "restore", "status"}]

\* The laptop has two wallets, one of them under a password; the phone has one
\* in a file and another one, which counts, in its environment.
TwoWallets ==
    [d \in Devices |->
        IF d = laptop
        THEN [secret_key |-> None,
              files |-> {[text |-> home, password |-> None],
                         [text |-> work, password |-> right]}]
        ELSE [secret_key |-> home,
              files |-> {[text |-> work, password |-> None]}]]

\* The only wallet of every device.
SameWallet ==
    [d \in Devices |-> [secret_key |-> None,
                        files |-> {[text |-> home, password |-> right]}]]
=============================================================================
