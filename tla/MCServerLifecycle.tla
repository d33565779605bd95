--------------------------- MODULE MCServerLifecycle ---------------------------
(***************************************************************************)
(* Instance of ServerLifecycle for TLC.  5354 and 80 are the defaults.     *)
(***************************************************************************)
EXTENDS ServerLifecycle, Naturals, TLC

\* The defaults, and the two ports the other way round.
DefaultAndCrossed == {<<5354, 80>>, <<80, 5354>>}

\* Nothing tells one process from another.
ProcSymmetry == Permutations(Procs)
=============================================================================
