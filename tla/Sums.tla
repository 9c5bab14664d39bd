-------------------------------- MODULE Sums ---------------------------------
(***************************************************************************)
(* Sums of amounts, for the properties that balance the agents' books.     *)
(***************************************************************************)
EXTENDS FiniteSetsExt

\* The sum of f[x] over the elements x of the finite set S.
SumOf(f, S) == MapThenSumSet(LAMBDA x : f[x], S)
==============================================================================
