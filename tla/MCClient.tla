------------------------------ MODULE MCClient ------------------------------
(* Small instances of Client for TLC. *)
EXTENDS Client, TLC

CONSTANTS p1, p2, p3, c1, c2

Parameters(chain, conditioned, finish, cancel) ==
    [chain |-> chain, hasConditions |-> conditioned,
     finishAfter |-> finish, cancelAfter |-> cancel]

\* Conditioned escrows, one without a finish lock, whose two windows are both
\* open at block 2; and one whose locks Solana takes and Ethereum refuses.
EitherChain ==
    {Parameters("ethereum", TRUE, None, 2), Parameters("solana", TRUE, 1, 2),
     Parameters("solana", FALSE, 0, None)}

File(condition, satisfied, template) ==
    [condition |-> condition, satisfied |-> satisfied, template |-> template]

\* A file whose witness holds, one whose witness does not, and the first as a
\* template, which create reads and finish does not.
AllFiles == {File(c1, TRUE, FALSE), File(c2, FALSE, FALSE), File(c1, TRUE, TRUE)}

ProcSymmetry == Permutations(Procs)
=============================================================================
