------------------------- MODULE MCConsoleOverride --------------------------
(* An instance of ConsoleOverride for TLC: a deploy-all batch.              *)
EXTENDS ConsoleOverride, TLC

CONSTANTS a1, a2, a3

Batch == {a1, a2, a3}
AppSymmetry == Permutations(Apps)
=============================================================================
