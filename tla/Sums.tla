-------------------------------- MODULE Sums --------------------------------
(***************************************************************************)
(* A sum of a table's column over some of its rows, as a SELECT sum() or a *)
(* loop with += reckons it.                                                *)
(***************************************************************************)
EXTENDS Integers, FiniteSetsExt

\* Of the function f over the elements of S.
Sigma(f, S) == MapThenSumSet(LAMBDA x : f[x], S)
=============================================================================
