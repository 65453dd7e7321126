--------------------------- MODULE MCDurableTurn ---------------------------
(***************************************************************************)
(* Small instances of DurableTurn for TLC.                                 *)
(***************************************************************************)
EXTENDS DurableTurn, TLC

ExecutorSymmetry == Permutations(Executors)
=============================================================================
