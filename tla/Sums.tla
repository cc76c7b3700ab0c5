-------------------------------- MODULE Sums --------------------------------
(* The sum of a function's values over some of its domain.                   *)
EXTENDS Integers, FiniteSetsExt

SumOver(f, S) == MapThenSumSet(LAMBDA x : f[x], S)
=============================================================================
