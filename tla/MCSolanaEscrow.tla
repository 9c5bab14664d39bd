--------------------------- MODULE MCSolanaEscrow ---------------------------
(* Small instances of SolanaEscrow for TLC. *)
EXTENDS SolanaEscrow, TLC

CONSTANTS c1, w1, w2

Offer(amount, finish, cancel, condition) ==
    [amount |-> amount, finish_after |-> finish, cancel_after |-> cancel,
     condition |-> condition]

\* Deposits of two sizes, conditioned or not, that overlap in time, and some
\* that must be refused: no deadline, windows that open together, no lock.
MixedOffers ==
    {Offer(2, None, 2, c1), Offer(1, 1, None, NO_CONDITION),
     Offer(1, 1, 2, NO_CONDITION), Offer(1, 1, None, c1),
     Offer(1, 2, 2, NO_CONDITION), Offer(1, None, None, NO_CONDITION)}

\* Every combination of locks over two slots, zero and none included, and
\* conditioned escrows, one of which must be refused.
LockOffers ==
    {Offer(1, f, c, NO_CONDITION) : f \in {None} \cup 0 .. 2, c \in {None} \cup 0 .. 2}
        \cup {Offer(1, None, 2, c1), Offer(2, 1, 2, c1), Offer(1, 1, None, c1)}

\* Conditioned escrows, of which the recipient can create the same again.
ReceiptOffers == {Offer(1, None, 3, c1), Offer(2, 1, 3, c1)}

WalletSymmetry == Permutations(Wallets)
=============================================================================
