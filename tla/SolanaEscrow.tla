---------------------------- MODULE SolanaEscrow ----------------------------
(***************************************************************************)
(* The Anchor escrow program, agent/solana/escrow/programs/escrow/src/     *)
(* lib.rs.  An instruction is atomic: it fails without a trace or commits. *)
(* The program calls only the system program and the verifier router, and  *)
(* neither calls back.                                                     *)
(*                                                                         *)
(* An escrow lives in the account derived from (sender, recipient, id).    *)
(* The id is the caller's choice and the account is closed by settlement,  *)
(* so the same address can hold one escrow after another; each Created     *)
(* event begins another life of it.  A receipt is represented by the       *)
(* journal it attests, as in EthereumEscrow.                               *)
(*                                                                         *)
(* finish_escrow puts the caller's bytes, however many, between the        *)
(* instruction tag and the image id and digest it appends for the router,  *)
(* and does not mark where they end.  Only the whole of one encoded seal   *)
(* leaves those two where the router reads them.  SealsWhole says whether  *)
(* every caller passes just that, as the repository's client does.         *)
(***************************************************************************)
EXTENDS Integers, Sequences, FiniteSets, Sums

CONSTANTS
    Wallets,       \* accounts that sign
    EscrowIds,     \* ids callers supply
    Conditions,    \* non-zero condition commitments
    NO_CONDITION,  \* the all-zero sentinel
    NoAccount,     \* an address without an initialized account
    NoReceipt,     \* the seal of an unconditioned escrow
    OwnClaim,      \* a receipt checked against a claim the caller's bytes hold
    NoArgs,        \* the arguments of instructions that take none
    None,          \* an absent Option<u64>
    Offers,        \* argument values create_escrow is called with
    ImagePinned,   \* whether IMAGE_ID is a guest's id and not the placeholder
    SealsWhole,    \* whether each seal argument is one encoded seal and no more
    Rent,          \* the rent-exempt reserve of an escrow account
    MaxCreations,  \* bound: create_escrow instructions
    MaxDonations,  \* bound: lamports strangers send to escrow addresses
    MaxSlot,       \* bound: last slot explored
    Funds          \* initial lamports of every wallet

Option == Nat \cup {None}
unwrap_or_zero(x) == IF x = None THEN 0 ELSE x

\* CreateEscrowArgs without the id.
Args == [amount : Nat, finish_after : Option, cancel_after : Option,
         condition : Conditions \cup {NO_CONDITION}]

ASSUME OfferAssumption == Offers \subseteq Args
ASSUME SentinelAssumption == NO_CONDITION \notin Conditions /\ None \notin Nat
ASSUME BoundAssumption ==
    /\ ImagePinned \in BOOLEAN
    /\ SealsWhole \in BOOLEAN
    /\ Rent \in Nat \ {0}
    /\ MaxCreations \in Nat
    /\ MaxDonations \in Nat
    /\ MaxSlot \in Nat \ {0}
    /\ Funds \in Nat

\* find_program_address over the seeds: distinct seeds, distinct addresses.
Address == Wallets \X Wallets \X EscrowIds

EscrowAccount == [sender : Wallets, recipient : Wallets, amount : Nat,
                  id : EscrowIds, finish_after : Option, cancel_after : Option,
                  condition : Conditions \cup {NO_CONDITION}]

ASSUME AccountAssumption == NoAccount \notin EscrowAccount

\* The fields of the reconstructed journal that depend on the escrow.  The
\* others (version, chain, outcome, agent, asset) are constants in it.
Journal == [id : EscrowIds, sender : Wallets, recipient : Wallets, amount : Nat,
            condition : Conditions \cup {NO_CONDITION}]

ASSUME ReceiptAssumption == NoReceipt \notin Journal /\ OwnClaim \notin Journal

\* EscrowEvent, with the slot and the arguments of its instruction.
Event == [action : {"Created", "Finished", "Cancelled"}, address : Address,
          amount : Nat, at : Nat, args : Args \cup {NoArgs},
          receipt : Journal \cup {NoReceipt, OwnClaim}]

VARIABLES
    accounts,   \* the escrow account at each address
    vault,      \* lamports at each escrow address
    lamports,   \* lamports of each wallet
    log,        \* events emitted so far, oldest first
    slot,       \* Clock::get()?.slot
    fulfilled,  \* conditions some prover holds a satisfying witness for
    donations   \* lamports strangers sent to escrow addresses

vars == <<accounts, vault, lamports, log, slot, fulfilled, donations>>

Live(addr) == accounts[addr] # NoAccount

Emitted(action, addr, amount, args, receipt) ==
    Append(log, [action |-> action, address |-> addr, amount |-> amount,
                 at |-> slot, args |-> args, receipt |-> receipt])

(***************************************************************************)
(* create_escrow                                                           *)
(***************************************************************************)

\* Definitions named ...Bug are the faults the properties are tested against:
\* each stands beside the definition it would replace, and nothing uses it.

PathSpecified(o) == o.finish_after # None \/ o.cancel_after # None

\* ConditionRequiresCancel left out.
DeadlineSetBug(o) == TRUE

DeadlineSet(o) == o.condition # NO_CONDITION => o.cancel_after # None

\* Both windows may open together.
CancelOpensLastBug(o) ==
    o.cancel_after # None => o.cancel_after >= unwrap_or_zero(o.finish_after)

CancelOpensLast(o) ==
    o.cancel_after # None => o.cancel_after > unwrap_or_zero(o.finish_after)

\* `init_if_needed' in place of `init'.
VacantBug(addr) == TRUE

\* `init' fails for an address in use.
Vacant(addr) == ~Live(addr)

\* Whatever is there already is taken for the whole reserve.
TopUpBug(addr) == IF vault[addr] > 0 THEN 0 ELSE Rent

\* `init' creates the account rent-exempt, topping up what is there already.
TopUp(addr) == IF vault[addr] >= Rent THEN 0 ELSE Rent - vault[addr]

\* The two parties are stored the wrong way round.
StoredBug(addr, o) ==
    [sender |-> addr[2], recipient |-> addr[1], id |-> addr[3],
     amount |-> o.amount, finish_after |-> o.finish_after,
     cancel_after |-> o.cancel_after, condition |-> o.condition]

Stored(addr, o) ==
    [sender |-> addr[1], recipient |-> addr[2], id |-> addr[3],
     amount |-> o.amount, finish_after |-> o.finish_after,
     cancel_after |-> o.cancel_after, condition |-> o.condition]

create_escrow(addr, o) ==
    LET sender == addr[1]  recipient == addr[2] IN
    /\ Cardinality({i \in DOMAIN log : log[i].action = "Created"}) < MaxCreations
    /\ sender # recipient
    /\ Vacant(addr)
    /\ PathSpecified(o)
    /\ DeadlineSet(o)
    /\ CancelOpensLast(o)
    /\ o.amount > 0
    /\ lamports[sender] >= TopUp(addr) + o.amount
    /\ lamports' = [lamports EXCEPT ![sender] = @ - TopUp(addr) - o.amount]
    /\ vault' = [vault EXCEPT ![addr] = @ + TopUp(addr) + o.amount]
    /\ accounts' = [accounts EXCEPT ![addr] = Stored(addr, o)]
    /\ log' = Emitted("Created", addr, o.amount, o, NoReceipt)
    /\ UNCHANGED <<slot, fulfilled, donations>>

(***************************************************************************)
(* finish_escrow                                                           *)
(***************************************************************************)

FinishOpen(addr) ==
    accounts[addr].finish_after # None => slot >= accounts[addr].finish_after

\* The id is left out of the journal.
reconstruct_journalBug(e) ==
    [id |-> CHOOSE id \in EscrowIds : TRUE, sender |-> e.sender,
     recipient |-> e.recipient, amount |-> e.amount, condition |-> e.condition]

\* The journal is built from the stored escrow alone.
reconstruct_journal(e) ==
    [id |-> e.id, sender |-> e.sender, recipient |-> e.recipient,
     amount |-> e.amount, condition |-> e.condition]

\* The guest commits success whatever the witness.
VerifiesBug(journal) == ImagePinned

\* The router accepts a seal over this journal and the pinned image id: the
\* guest commits it, with a success outcome, only for a witness satisfying
\* its condition.  The placeholder image id is no guest's.
Verifies(journal) ==
    ImagePinned /\ journal.condition \in fulfilled \cup {NO_CONDITION}

\* What verify_release_proof can have the router accept.  The router decodes
\* (seal, image_id, journal_digest) from the front and ignores what follows.
\* After one whole seal it reads the program's id and digest; in a longer
\* argument it reads the caller's, and what they are says nothing of e.  An
\* argument too short for its seal does not decode.
AcceptedReceipts(e) ==
    IF e.condition = NO_CONDITION
      THEN {NoReceipt}
      ELSE {j \in {reconstruct_journal(e)} : Verifies(j)}
               \cup (IF SealsWhole THEN {} ELSE {OwnClaim})

\* The payee gets the rent reserve too.
ClosedBug(addr, payee, amount) ==
    [lamports EXCEPT ![payee] = @ + vault[addr]]

\* The amount to the recipient, then `close': the rest to the sender.
Closed(addr, payee, amount) ==
    LET sender == accounts[addr].sender
        rest   == vault[addr] - amount
    IN  [w \in Wallets |-> lamports[w] + (IF w = payee THEN amount ELSE 0)
                                       + (IF w = sender THEN rest ELSE 0)]

finish_escrow(signer, addr) ==
    LET e == accounts[addr] IN
    /\ Live(addr)
    /\ signer = e.recipient
    /\ FinishOpen(addr)
    /\ vault[addr] >= e.amount
    /\ \E receipt \in AcceptedReceipts(e) :
          log' = Emitted("Finished", addr, e.amount, NoArgs, receipt)
    /\ lamports' = Closed(addr, e.recipient, e.amount)
    /\ vault' = [vault EXCEPT ![addr] = 0]
    /\ accounts' = [accounts EXCEPT ![addr] = NoAccount]
    /\ UNCHANGED <<slot, fulfilled, donations>>

(***************************************************************************)
(* cancel_escrow                                                           *)
(***************************************************************************)

\* NotExpired left out.
CancelOpenBug(addr) == accounts[addr].cancel_after # None

CancelOpen(addr) ==
    /\ accounts[addr].cancel_after # None
    /\ slot >= accounts[addr].cancel_after

cancel_escrow(signer, addr) ==
    LET e == accounts[addr] IN
    /\ Live(addr)
    /\ signer = e.sender
    /\ CancelOpen(addr)
    /\ log' = Emitted("Cancelled", addr, e.amount, NoArgs, NoReceipt)
    /\ lamports' = Closed(addr, e.sender, 0)
    /\ vault' = [vault EXCEPT ![addr] = 0]
    /\ accounts' = [accounts EXCEPT ![addr] = NoAccount]
    /\ UNCHANGED <<slot, fulfilled, donations>>

(***************************************************************************)
(* The cluster, the provers and strangers                                  *)
(***************************************************************************)

\* Anybody may send lamports to any address, initialized or not.
Donate(addr) ==
    /\ donations < MaxDonations
    /\ donations' = donations + 1
    /\ vault' = [vault EXCEPT ![addr] = @ + 1]
    /\ UNCHANGED <<accounts, lamports, log, slot, fulfilled>>

NextSlot ==
    /\ slot < MaxSlot
    /\ slot' = slot + 1
    /\ UNCHANGED <<accounts, vault, lamports, log, fulfilled, donations>>

Fulfil(c) ==
    /\ c \notin fulfilled
    /\ fulfilled' = fulfilled \cup {c}
    /\ UNCHANGED <<accounts, vault, lamports, log, slot, donations>>

Init ==
    /\ accounts = [addr \in Address |-> NoAccount]
    /\ vault = [addr \in Address |-> 0]
    /\ lamports = [w \in Wallets |-> Funds]
    /\ log = <<>>
    /\ slot = 1
    /\ fulfilled = {}
    /\ donations = 0

Next ==
    \/ \E addr \in Address, o \in Offers : create_escrow(addr, o)
    \/ \E signer \in Wallets, addr \in Address : finish_escrow(signer, addr)
    \/ \E signer \in Wallets, addr \in Address : cancel_escrow(signer, addr)
    \/ \E addr \in Address : Donate(addr)
    \/ NextSlot
    \/ \E c \in Conditions : Fulfil(c)

Spec == Init /\ [][Next]_vars

\* Slots keep coming, and a sender who wants a refund gets a cancel_escrow in.
Fairness ==
    /\ WF_vars(NextSlot)
    /\ \A addr \in Address : WF_vars(\E signer \in Wallets : cancel_escrow(signer, addr))

FairSpec == Spec /\ Fairness

-----------------------------------------------------------------------------
(***************************************************************************)
(* Properties                                                              *)
(***************************************************************************)

\* Every variable has its type, and an initialized account its own address.
TypeOK ==
    /\ accounts \in [Address -> EscrowAccount \cup {NoAccount}]
    /\ \A addr \in Address : Live(addr) =>
          addr = <<accounts[addr].sender, accounts[addr].recipient, accounts[addr].id>>
    /\ vault \in [Address -> Nat]
    /\ lamports \in [Wallets -> Nat]
    /\ log \in Seq(Event)
    /\ slot \in 1 .. MaxSlot
    /\ fulfilled \subseteq Conditions
    /\ donations \in 0 .. MaxDonations

\* The account of an open escrow covers the amount and the rent reserve,
\* although strangers may have funded the address before or since.
VaultCovers ==
    \A addr \in Address :
        Live(addr) => vault[addr] >= accounts[addr].amount + Rent

Happened(i, action) == log[i].action = action

\* The settlement of the escrow created by event k: the next event at the
\* same address, if any.
Ends(i, k) ==
    /\ i > k
    /\ log[i].address = log[k].address
    /\ \A j \in k + 1 .. i - 1 : log[j].address # log[k].address

\* The events at an address alternate between a creation and one settlement,
\* and the account exists exactly between the two: one escrow is settled
\* once even when its address and id are used again.
LivesAlternate ==
    /\ \A k, i \in DOMAIN log :
          Ends(i, k) => (Happened(k, "Created") <=> ~Happened(i, "Created"))
    /\ \A addr \in Address :
          Live(addr) <=> \E k \in DOMAIN log :
              /\ Happened(k, "Created")
              /\ log[k].address = addr
              /\ \A i \in DOMAIN log : ~Ends(i, k)

\* Nobody loses lamports: a wallet has what it started with, less what its
\* open escrows hold and its finished ones paid out, plus what was finished
\* to it in full.  In particular a refund makes the sender whole, the rent
\* comes back on either settlement, and never to the recipient.
Amounts         == [i \in DOMAIN log |-> log[i].amount]
FinishedFrom(w) == {i \in DOMAIN log : Happened(i, "Finished") /\ log[i].address[1] = w}
FinishedTo(w)   == {i \in DOMAIN log : Happened(i, "Finished") /\ log[i].address[2] = w}
OpenedBy(w)     == {addr \in Address : Live(addr) /\ accounts[addr].sender = w}
Reserve  == [addr \in Address |-> IF Live(addr) THEN accounts[addr].amount + Rent ELSE 0]
Total(w) == lamports[w] + SumOf(Amounts, FinishedFrom(w)) + SumOf(Reserve, OpenedBy(w))
                        - SumOf(Amounts, FinishedTo(w))
NobodyLoses ==
    \A w \in Wallets : Funds <= Total(w) /\ Total(w) <= Funds + donations

\* Stronger, and inductive: the wallet's share of what strangers sent lies,
\* besides in the wallet, in the accounts at its addresses, open or not.
Funded    == {addr \in Address : vault[addr] # 0}
Vaults(w) == {addr \in Funded : addr[1] = w}
FundsInv ==
    /\ IsFiniteSet(Funded)
    /\ \A w \in Wallets :
          /\ Funds <= Total(w)
          /\ lamports[w] + SumOf(Amounts, FinishedFrom(w)) + SumOf(vault, Vaults(w))
                         - SumOf(Amounts, FinishedTo(w)) <= Funds + donations

\* Before the sender reclaims, the recipient has had a slot in the escrow's
\* life in which only a release was possible ("the recipient always holds an
\* exclusive release window before the sender can reclaim", create_escrow).
\* The program compares the two locks with each other and neither with the
\* clock, so it does not hold.
RecipientHoldsReleaseWindow ==
    \A k, i \in DOMAIN log :
        Happened(k, "Created") /\ Happened(i, "Cancelled") /\ Ends(i, k) =>
            \E b \in log[k].at .. log[i].at :
                /\ b >= unwrap_or_zero(log[k].args.finish_after)
                /\ b < log[k].args.cancel_after

\* A receipt authorizes one settlement only ("a valid proof binds to exactly
\* one settlement", the program's header).  A settled escrow's id can be used
\* again, and the journal of the next escrow is then the same.
ReceiptSettlesOnce ==
    \A i, j \in DOMAIN log :
        log[i].receipt # NoReceipt /\ log[i].receipt = log[j].receipt => i = j

\* What does hold: a receipt the router checked against the program's own
\* digest never serves escrows of two addresses, so it pays nobody but the
\* parties it names, and again only when the sender opens the same escrow
\* again.  Nothing of the kind holds of receipts checked against an OwnClaim.
ReceiptStaysAtAddress ==
    \A i, j \in DOMAIN log :
        log[i].receipt \in Journal /\ log[i].receipt = log[j].receipt
            => log[i].address = log[j].address

\* Nothing leaves a conditioned escrow for the recipient before its condition
\* can be proven ("released to the recipient only after its finish window
\* opens and, for a conditioned escrow, a RISC Zero receipt proves the release
\* condition was met", the program's header).  It does not hold unless every
\* seal argument is whole.
ReleaseNeedsProof ==
    \A k, i \in DOMAIN log :
        Happened(k, "Created") /\ Happened(i, "Finished") /\ Ends(i, k) =>
            log[k].args.condition \in fulfilled \cup {NO_CONDITION}

(***************************************************************************)
(* Refinement of EscrowLifecycle: an escrow is identified by the position  *)
(* of the event that created it.                                           *)
(***************************************************************************)
Positions == 1 .. 2 * MaxCreations
IsKey(k)  == k \in DOMAIN log /\ Happened(k, "Created")
Ended(k, action) == \E i \in DOMAIN log : Ends(i, k) /\ Happened(i, action)

Status(k) ==
    CASE ~IsKey(k)                        -> "none"
      [] IsKey(k) /\ Ended(k, "Finished")  -> "released"
      [] IsKey(k) /\ Ended(k, "Cancelled") -> "refunded"
      [] OTHER                            -> "live"

\* The condition the program enforces.  Without whole seals it enforces none,
\* and what is left of the promise is that of a time-locked escrow.
Enforced(condition) == IF SealsWhole THEN condition ELSE NO_CONDITION

\* A live escrow's terms are those stored, a settled one's those it had.
TermsOf(k) ==
    IF ~IsKey(k) THEN NoAccount
    ELSE LET addr == log[k].address
             t    == IF Status(k) = "live" THEN accounts[addr] ELSE log[k].args
         IN  [sender |-> addr[1], recipient |-> addr[2],
              finishAfter |-> unwrap_or_zero(t.finish_after),
              cancelAfter |-> unwrap_or_zero(t.cancel_after),
              condition |-> Enforced(t.condition)]

HeldFor(k) == IF Status(k) = "live" THEN accounts[log[k].address].amount ELSE 0

Lifecycle == INSTANCE EscrowLifecycle WITH
    Keys        <- Positions,
    Parties     <- Wallets,
    NoCondition <- NO_CONDITION,
    NoTerms     <- NoAccount,
    terms       <- [k \in Positions |-> TermsOf(k)],
    status      <- [k \in Positions |-> Status(k)],
    held        <- [k \in Positions |-> HeldFor(k)],
    now         <- slot,
    met         <- fulfilled

\* The program keeps the promise of every agent for each life of an address:
\* terms never change, one settlement, a release only inside its window and,
\* if every seal is whole, with its condition provable, a refund only from
\* its deadline on.
LifecycleSpec == Lifecycle!Spec

\* An escrow with a cancel_after, hence every conditioned one, never locks
\* its lamports forever, proof or no proof, if its sender tries to cancel
\* (create_escrow: "the funds would lock forever if the proof never arrives").
DepositNeverLocked ==
    \A k \in Positions :
        /\ Status(k) = "live"
        /\ log[k].args.cancel_after # None \/ log[k].args.condition # NO_CONDITION
        ~> Status(k) \in {"released", "refunded"}
=============================================================================
