-------------------------- MODULE MCEthereumEscrow --------------------------
(* Small instances of EthereumEscrow for TLC. *)
EXTENDS EthereumEscrow, TLC

CONSTANTS alice, bob, wallet, vault, c1, c2

Locks(f, c) == [finishAfter |-> f, cancelAfter |-> c]
Term(locks, amount, condition) ==
    [amount |-> amount, finishAfter |-> locks.finishAfter,
     cancelAfter |-> locks.cancelAfter, conditionId |-> condition]

\* Deposits that a callback can reach while another one settles, two that
\* differ in what a receipt must tell apart, and two that must be refused: no
\* refund deadline, and windows that open together.
SafetyOffers ==
    {Term(Locks(1, 2), 1, NoCondition), Term(Locks(1, 0), 2, NoCondition),
     Term(Locks(0, 1), 1, c1), Term(Locks(0, 1), 2, c1),
     Term(Locks(1, 0), 1, c1), Term(Locks(2, 2), 1, NoCondition)}

\* Deposits with a refund deadline, and one that must be refused.
RefundOffers ==
    {Term(Locks(1, 2), 1, NoCondition), Term(Locks(0, 2), 1, c1),
     Term(Locks(1, 0), 1, c1)}

EOASymmetry == Permutations(EOAs)
ContractSymmetry == Permutations(Contracts)
Symmetry == EOASymmetry \cup ContractSymmetry
=============================================================================
