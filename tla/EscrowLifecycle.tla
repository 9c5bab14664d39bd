--------------------------- MODULE EscrowLifecycle ---------------------------
(***************************************************************************)
(* What an on-chain agent promises of its escrows, whatever the chain: the *)
(* contract of the client's Agent trait (client/src/lib.rs) with the time- *)
(* locks of EscrowParams.  No accounts, calls, receipts or rollbacks: an   *)
(* escrow is opened once with fixed terms, and leaves the vault once.      *)
(* EthereumEscrow and SolanaEscrow are shown to implement it.              *)
(***************************************************************************)
EXTENDS Naturals

CONSTANTS
    Keys,         \* identities of escrows, each used once
    Parties,      \* senders and recipients
    Conditions,   \* release-condition commitments
    NoCondition,  \* an unconditioned, time-lock-only escrow
    NoTerms       \* a key that was never opened

\* The terms fixed at creation; a lock of 0 is unset.
Terms == [sender : Parties, recipient : Parties,
          finishAfter : Nat, cancelAfter : Nat,
          condition : Conditions \cup {NoCondition}]

\* finish_after is less than cancel_after if both are set, and a conditioned
\* escrow has a refund deadline.
Agreeable(t) ==
    /\ t.finishAfter # 0 /\ t.cancelAfter # 0 => t.finishAfter < t.cancelAfter
    /\ t.condition # NoCondition => t.cancelAfter # 0

VARIABLES
    terms,   \* what each escrow was opened with
    status,  \* none, then live, then released or refunded
    held,    \* what the vault holds for it
    now,     \* block height or slot
    met      \* conditions that can be proven to hold

vars == <<terms, status, held, now, met>>

Opens(k) ==
    /\ status[k] = "none"
    /\ status'[k] = "live"
    /\ terms'[k] \in Terms
    /\ Agreeable(terms'[k])
    /\ held'[k] \in Nat \ {0}

Leaves(k, how) ==
    /\ status[k] = "live"
    /\ status'[k] = how
    /\ terms'[k] = terms[k]
    /\ held'[k] = 0

Releases(k) ==
    /\ Leaves(k, "released")
    /\ now >= terms[k].finishAfter
    /\ terms[k].condition \in met \cup {NoCondition}

Refunds(k) ==
    /\ Leaves(k, "refunded")
    /\ terms[k].cancelAfter # 0
    /\ now >= terms[k].cancelAfter

Keeps(k) ==
    terms'[k] = terms[k] /\ status'[k] = status[k] /\ held'[k] = held[k]

Settles(k) == status[k] = "live" /\ status'[k] # "live"

\* One transaction: it settles at most one escrow, and whoever is paid may
\* open others in the same transaction.
Transact ==
    /\ terms' \in [Keys -> Terms \cup {NoTerms}]
    /\ status' \in [Keys -> {"none", "live", "released", "refunded"}]
    /\ held' \in [Keys -> Nat]
    /\ \A k \in Keys : Opens(k) \/ Releases(k) \/ Refunds(k) \/ Keeps(k)
    /\ \A k, l \in Keys : Settles(k) /\ Settles(l) => k = l
    /\ UNCHANGED <<now, met>>

Elapse == now' = now + 1 /\ UNCHANGED <<terms, status, held, met>>

Learn ==
    /\ \E c \in Conditions \ met : met' = met \cup {c}
    /\ UNCHANGED <<terms, status, held, now>>

Init ==
    /\ terms = [k \in Keys |-> NoTerms]
    /\ status = [k \in Keys |-> "none"]
    /\ held = [k \in Keys |-> 0]
    /\ now = 1
    /\ met = {}

Next == Transact \/ Elapse \/ Learn

Spec == Init /\ [][Next]_vars
=============================================================================
