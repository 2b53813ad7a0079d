-------------------------------- MODULE Sums --------------------------------
(***************************************************************************)
(* The sum of a sequence of numbers.                                       *)
(***************************************************************************)
EXTENDS Integers, Sequences, FiniteSetsExt, Folds

Total(f) == MapThenFoldSet(LAMBDA x, y : y + x, 0, LAMBDA i : f[i], Max, DOMAIN f)
=============================================================================
