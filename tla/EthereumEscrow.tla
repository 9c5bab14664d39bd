--------------------------- MODULE EthereumEscrow ---------------------------
(***************************************************************************)
(* The Solidity escrow agent, agent/ethereum/src/Escrow.sol.               *)
(*                                                                         *)
(* The unit of interleaving is what the EVM interleaves: a call runs its   *)
(* checks and effects without interruption, but finishEscrow and           *)
(* cancelEscrow end in an external call that hands control to the payee    *)
(* before they return.  The payee, when it has code, may call the contract *)
(* again, have other contracts call it, return, or revert; a revert makes  *)
(* the whole settlement revert (TransferFailed), undoing everything since  *)
(* it began.  `frames' is the stack of settlements waiting for their payee.*)
(*                                                                         *)
(* A receipt is represented by the journal it attests.  Which journals     *)
(* have a receipt that verifies under the pinned image id is what the      *)
(* guest commits: see Verifies.                                            *)
(***************************************************************************)
EXTENDS Integers, Sequences, FiniteSets, Sums

CONSTANTS
    EOAs,          \* accounts without code: a transfer to one succeeds
    Contracts,     \* accounts with code: they may call back, and may revert
    Escrow,        \* address(this)
    OtherAgent,    \* another deployment of the same contract
    NoAddress,     \* address(0)
    Conditions,    \* non-zero condition commitments
    NoCondition,   \* bytes32(0)
    NoReceipt,     \* the empty seal and journal
    Offers,        \* argument values createEscrow is called with
    MaxEscrows,    \* bound: ids handed out
    MaxAmount,     \* bound: largest amount a journal is proven for
    MaxBlock,      \* bound: last block explored
    Funds          \* initial balance of every account

Accounts  == EOAs \cup Contracts
Addresses == Accounts \cup {Escrow}
Ids       == 1 .. MaxEscrows

\* The explicit arguments and msg.value of a createEscrow transaction.
Offer == [amount : Nat, finishAfter : Nat, cancelAfter : Nat,
          conditionId : Conditions \cup {NoCondition}]

ASSUME AddressAssumption ==
    /\ EOAs \cap Contracts = {}
    /\ Escrow \notin Accounts
    /\ NoAddress \notin Addresses
    /\ NoCondition \notin Conditions
ASSUME OfferAssumption == Offers \subseteq Offer
ASSUME BoundAssumption ==
    /\ MaxEscrows \in Nat
    /\ MaxAmount \in Nat
    /\ MaxBlock \in Nat \ {0}
    /\ Funds \in Nat

\* One escrow as the contract stores it; sender = NoAddress in a slot of the
\* mapping that was never written.
EscrowDB == [sender : Accounts \cup {NoAddress},
             recipient : Accounts \cup {NoAddress},
             amount : Nat,
             finishAfter : Nat,
             cancelAfter : Nat,
             conditionId : Conditions \cup {NoCondition},
             settled : BOOLEAN]

ZeroEscrow == [sender |-> NoAddress, recipient |-> NoAddress, amount |-> 0,
               finishAfter |-> 0, cancelAfter |-> 0,
               conditionId |-> NoCondition, settled |-> FALSE]

\* The fields of a well-formed version 1 journal that differ between runs of
\* the guest.  Bytes that do not decode as one are rejected (MalformedJournal).
Journal == [chain : {"ethereum", "solana"}, outcome : {"success", "failure"},
            agent : {Escrow, OtherAgent}, escrowId : Ids,
            sender : Accounts, recipient : Accounts,
            asset : {"native", "token"}, amount : 1 .. MaxAmount,
            condition : Conditions \cup {NoCondition}]

ASSUME ReceiptAssumption == NoReceipt \notin Journal

\* The events the contract emits.  `at' and `receipt' are the block and the
\* calldata of the transaction that emitted them.
SettlementEvents == {"EscrowFinished", "EscrowCancelled"}
Event == [event : SettlementEvents \cup {"EscrowCreated"}, escrowId : Ids,
          account : Accounts, amount : Nat, at : Nat,
          receipt : Journal \cup {NoReceipt}]

VARIABLES
    escrows,       \* _escrows
    nextEscrowId,  \* _nextEscrowId: the last id handed out
    eth,           \* balances, in the smallest unit
    log,           \* the events emitted so far, oldest first
    guard,         \* the status word of ReentrancyGuard
    frames,        \* settlements waiting for their payee, innermost first
    block,         \* block.number
    fulfilled      \* conditions some prover holds a satisfying witness for

vars == <<escrows, nextEscrowId, eth, log, guard, frames, block, fulfilled>>

\* What a revert restores.
Ledger == [escrows |-> escrows, nextEscrowId |-> nextEscrowId, eth |-> eth,
           log |-> log, guard |-> guard]

Ledgers == [escrows : [Ids -> EscrowDB], nextEscrowId : 0 .. MaxEscrows,
            eth : [Addresses -> Nat], log : Seq(Event),
            guard : {"NOT_ENTERED", "ENTERED"}]

Frame == [payee : Accounts, saved : {l \in Ledgers : l.guard = "NOT_ENTERED"}]

(***************************************************************************)
(* Who may run                                                             *)
(***************************************************************************)

\* Between transactions anybody may send one.  While a settlement waits for
\* its payee only code the payee reaches runs: contracts, if it is one.
MayCall(a) ==
    frames # <<>> => Head(frames).payee \in Contracts /\ a \in Contracts

\* Definitions named ...Bug are the faults the properties are tested against:
\* each stands beside the definition it would replace, and nothing uses it.

\* nonReentrant left out.
NotEnteredBug == TRUE

\* nonReentrant: finishEscrow and cancelEscrow are entered one at a time.
NotEntered == guard = "NOT_ENTERED"

(***************************************************************************)
(* createEscrow                                                            *)
(***************************************************************************)

\* The two windows may open together.
TimeOrderValidBug(o) ==
    o.finishAfter # 0 /\ o.cancelAfter # 0 => o.finishAfter <= o.cancelAfter

TimeOrderValid(o) ==
    o.finishAfter # 0 /\ o.cancelAfter # 0 => o.finishAfter < o.cancelAfter

\* ConditionRequiresCancel left out.
RefundDeadlineSetBug(o) == TRUE

RefundDeadlineSet(o) == o.conditionId # NoCondition => o.cancelAfter # 0

ValidOffer(recipient, o) ==
    /\ recipient # NoAddress
    /\ o.amount # 0
    /\ o.finishAfter # 0 \/ o.cancelAfter # 0
    /\ RefundDeadlineSet(o)
    /\ TimeOrderValid(o)

Transfer(from, to, amount) ==
    [eth EXCEPT ![from] = @ - amount, ![to] = @ + amount]

Emitted(event, id, account, amount, receipt) ==
    Append(log, [event |-> event, escrowId |-> id, account |-> account,
                 amount |-> amount, at |-> block, receipt |-> receipt])

CreateEscrow(a, recipient, o) ==
    /\ MayCall(a)
    /\ nextEscrowId < MaxEscrows
    /\ o.amount <= eth[a]
    /\ ValidOffer(recipient, o)
    /\ nextEscrowId' = nextEscrowId + 1
    /\ escrows' = [escrows EXCEPT ![nextEscrowId + 1] =
                     [sender |-> a, recipient |-> recipient,
                      amount |-> o.amount,
                      finishAfter |-> o.finishAfter,
                      cancelAfter |-> o.cancelAfter,
                      conditionId |-> o.conditionId, settled |-> FALSE]]
    /\ eth' = Transfer(a, Escrow, o.amount)
    /\ log' = Emitted("EscrowCreated", nextEscrowId + 1, a, o.amount, NoReceipt)
    /\ UNCHANGED <<guard, frames, block, fulfilled>>

(***************************************************************************)
(* finishEscrow and cancelEscrow up to their external call                 *)
(***************************************************************************)

Exists(id) == escrows[id].sender # NoAddress

\* AlreadySettled left out: the zeroed amount alone protects the funds.
OpenBug(id) == Exists(id)

Open(id) == Exists(id) /\ ~escrows[id].settled

ReleaseWindowOpen(id) ==
    escrows[id].finishAfter = 0 \/ block >= escrows[id].finishAfter

\* TooEarlyToCancel left out.
RefundWindowOpenBug(id) == escrows[id].cancelAfter # 0

RefundWindowOpen(id) ==
    escrows[id].cancelAfter # 0 /\ block >= escrows[id].cancelAfter

\* Any outcome is taken for success.
WellTaggedBug(j) == j.chain = "ethereum" /\ j.asset = "native"

\* The constant tags of the journal (MalformedJournal otherwise).
WellTagged(j) ==
    j.chain = "ethereum" /\ j.outcome = "success" /\ j.asset = "native"

\* The escrow id is read and not compared.
NamesEscrowBug(j, id) == j.agent = Escrow

NamesEscrow(j, id) == j.agent = Escrow /\ j.escrowId = id

\* _checkJournalBinding: every field of the journal against this escrow.
Binds(j, id) ==
    /\ WellTagged(j)
    /\ NamesEscrow(j, id)
    /\ j.sender = escrows[id].sender
    /\ j.recipient = escrows[id].recipient
    /\ j.amount = escrows[id].amount
    /\ j.condition = escrows[id].conditionId

\* verifier.verify: a receipt with this journal exists for the pinned image.
\* The guest commits "success" only for a witness that satisfies the
\* condition the journal names; every other field is the prover's choice,
\* and anybody can have it commit a "failure".
Verifies(j) ==
    j.outcome = "success" => j.condition \in fulfilled \cup {NoCondition}

\* The receipts finishEscrow accepts; an unconditioned escrow ignores them.
AcceptedReceipts(id) ==
    IF escrows[id].conditionId = NoCondition
      THEN {NoReceipt}
      ELSE {j \in Journal : Binds(j, id) /\ Verifies(j)}

\* The amount is left in a settled record.
SettledRecordBug(e) == [e EXCEPT !.settled = TRUE]

SettledRecord(e) == [e EXCEPT !.settled = TRUE, !.amount = 0]

\* Effects, event, then the external call that passes control to the payee.
Settle(id, event, payee, receipt) ==
    /\ escrows[id].amount <= eth[Escrow]
    /\ escrows' = [escrows EXCEPT ![id] = SettledRecord(@)]
    /\ log' = Emitted(event, id, payee, escrows[id].amount, receipt)
    /\ eth' = Transfer(Escrow, payee, escrows[id].amount)
    /\ guard' = "ENTERED"
    /\ frames' = <<[payee |-> payee, saved |-> Ledger]>> \o frames
    /\ UNCHANGED <<nextEscrowId, block, fulfilled>>

FinishEscrow(a, id) ==
    /\ MayCall(a)
    /\ NotEntered
    /\ Open(id)
    /\ a = escrows[id].recipient
    /\ ReleaseWindowOpen(id)
    /\ \E receipt \in AcceptedReceipts(id) :
          Settle(id, "EscrowFinished", escrows[id].recipient, receipt)

CancelEscrow(a, id) ==
    /\ MayCall(a)
    /\ NotEntered
    /\ Open(id)
    /\ a = escrows[id].sender
    /\ RefundWindowOpen(id)
    /\ Settle(id, "EscrowCancelled", escrows[id].sender, NoReceipt)

(***************************************************************************)
(* The payee hands control back                                            *)
(***************************************************************************)

\* The guard is not released.
PayeeReturnsBug ==
    /\ frames # <<>>
    /\ frames' = Tail(frames)
    /\ UNCHANGED <<escrows, nextEscrowId, eth, log, guard, block, fulfilled>>

PayeeReturns ==
    /\ frames # <<>>
    /\ guard' = "NOT_ENTERED"
    /\ frames' = Tail(frames)
    /\ UNCHANGED <<escrows, nextEscrowId, eth, log, block, fulfilled>>

\* `ok' is not looked at: the payment is undone and the settlement stays.
RestoreBug(saved) ==
    /\ eth' = saved.eth
    /\ guard' = saved.guard
    /\ UNCHANGED <<escrows, nextEscrowId, log>>

\* `ok' is false: TransferFailed reverts the settlement and all it led to.
Restore(saved) ==
    /\ escrows' = saved.escrows
    /\ nextEscrowId' = saved.nextEscrowId
    /\ eth' = saved.eth
    /\ log' = saved.log
    /\ guard' = saved.guard

PayeeReverts ==
    /\ frames # <<>>
    /\ Head(frames).payee \in Contracts
    /\ Restore(Head(frames).saved)
    /\ frames' = Tail(frames)
    /\ UNCHANGED <<block, fulfilled>>

(***************************************************************************)
(* The chain and the provers                                               *)
(***************************************************************************)

NextBlock ==
    /\ frames = <<>>
    /\ block < MaxBlock
    /\ block' = block + 1
    /\ UNCHANGED <<escrows, nextEscrowId, eth, log, guard, frames, fulfilled>>

Fulfil(c) ==
    /\ c \notin fulfilled
    /\ fulfilled' = fulfilled \cup {c}
    /\ UNCHANGED <<escrows, nextEscrowId, eth, log, guard, frames, block>>

\* The chain may stay as it is between transactions, never inside one.
Idle == frames = <<>> /\ UNCHANGED vars

Init ==
    /\ escrows = [id \in Ids |-> ZeroEscrow]
    /\ nextEscrowId = 0
    /\ eth = [a \in Addresses |-> IF a = Escrow THEN 0 ELSE Funds]
    /\ log = <<>>
    /\ guard = "NOT_ENTERED"
    /\ frames = <<>>
    /\ block = 1
    /\ fulfilled = {}

Next ==
    \/ \E a \in Accounts, recipient \in Accounts \cup {NoAddress}, o \in Offers :
          CreateEscrow(a, recipient, o)
    \/ \E a \in Accounts, id \in Ids : FinishEscrow(a, id)
    \/ \E a \in Accounts, id \in Ids : CancelEscrow(a, id)
    \/ PayeeReturns
    \/ PayeeReverts
    \/ NextBlock
    \/ \E c \in Conditions : Fulfil(c)
    \/ Idle

Spec == Init /\ [][Next]_vars
(***************************************************************************)
(* Fairness.  Blocks keep coming; a call returns or reverts because gas    *)
(* runs out; and a sender who wants a refund gets a cancel transaction in  *)
(* eventually, although transactions of others may always be mined first   *)
(* (strong fairness: between two transactions it is possible again).       *)
(***************************************************************************)
Fairness ==
    /\ SF_vars(NextBlock)
    /\ WF_vars(PayeeReturns \/ PayeeReverts)
    /\ \A id \in Ids : SF_vars(\E a \in Accounts : CancelEscrow(a, id))

FairSpec == Spec /\ Fairness

-----------------------------------------------------------------------------
(***************************************************************************)
(* Properties                                                              *)
(***************************************************************************)

\* Every variable has its type, and the guard is up exactly while one
\* settlement, never two, waits for its payee.
TypeOK ==
    /\ Ledger \in Ledgers
    /\ frames \in Seq(Frame)
    /\ Len(frames) = IF guard = "ENTERED" THEN 1 ELSE 0
    /\ block \in 1 .. MaxBlock
    /\ fulfilled \subseteq Conditions

\* The contract holds exactly what its open escrows are owed, also in the
\* middle of a settlement and after one was rolled back: no interleaving of
\* callbacks pays one escrow out of another's deposit.
Owed(l)    == [id \in Ids |-> l.escrows[id].amount]
Solvent(l) == l.eth[Escrow] = SumOf(Owed(l), Ids)
Solvency   == Solvent(Ledger)

IsSettlement(i) == log[i].event \in SettlementEvents

\* An escrow is released or refunded at most once, and never both
\* (`settled' in finishEscrow and cancelEscrow, whoever calls in between).
SettledOnce ==
    \A i, j \in DOMAIN log :
        IsSettlement(i) /\ IsSettlement(j) /\ log[i].escrowId = log[j].escrowId
            => i = j

\* What an account has is what the events say it should have: its deposits
\* are gone and the full amount of every escrow that settled to it arrived.
\* An event that survives a failed payment, or a payment of another amount
\* than was deposited (the record is zeroed before the call), breaks this.
Created(l, i) == l.log[i].event = "EscrowCreated"
Settled(l, i) == l.log[i].event \in SettlementEvents
Deposit(l, id) ==
    l.log[CHOOSE d \in DOMAIN l.log : Created(l, d) /\ l.log[d].escrowId = id].amount
Paid(l, a)     == {i \in DOMAIN l.log : Created(l, i) /\ l.log[i].account = a}
Received(l, a) == {i \in DOMAIN l.log : Settled(l, i) /\ l.log[i].account = a}
Deposits(l, a) == SumOf([i \in DOMAIN l.log |-> l.log[i].amount], Paid(l, a))
Payouts(l, a)  ==
    SumOf([i \in DOMAIN l.log |-> Deposit(l, l.log[i].escrowId)], Received(l, a))
BalancesFollow(l) ==
    \A a \in Accounts : l.eth[a] = Funds - Deposits(l, a) + Payouts(l, a)
BalancesFollowEvents == BalancesFollow(Ledger)

\* A receipt releases at most one escrow: every other escrow, even one with
\* the same parties, amount and condition, needs a receipt of its own
\* (SECURITY.md: "a valid receipt authorizes exactly one settlement").
ReceiptSettlesOnce ==
    \A i, j \in DOMAIN log :
        log[i].receipt # NoReceipt /\ log[i].receipt = log[j].receipt => i = j

\* A conditioned escrow is released only if its condition can be satisfied,
\* however many receipts for other outcomes, escrows or conditions exist.
ReleaseNeedsFulfilment ==
    \A i \in DOMAIN log :
        /\ log[i].event = "EscrowFinished"
        /\ escrows[log[i].escrowId].conditionId # NoCondition
        => escrows[log[i].escrowId].conditionId \in fulfilled

\* When both locks are set the release window opens strictly before the
\* refund window (createEscrow's comment): a refund is mined only after a
\* block in which the locks let the recipient, and not yet the sender, act.
RefundAfterReleaseWindow ==
    \A i \in DOMAIN log :
        log[i].event = "EscrowCancelled" =>
            log[i].at > escrows[log[i].escrowId].finishAfter

\* While a settlement waits for its payee nothing else is settled: whatever
\* the payee calls, it can only add escrows (ReentrancyGuard).
NoSettlementInsideSettlement ==
    [][frames # <<>> /\ frames' # <<>> =>
         \A id \in Ids : escrows'[id].settled => escrows[id].settled]_vars

\* createEscrow promises a refund deadline for every conditioned escrow.
OwedARefund(id) ==
    /\ Open(id)
    /\ escrows[id].cancelAfter # 0 \/ escrows[id].conditionId # NoCondition

\* The deposit of a conditioned escrow, and of any other with a refund
\* deadline, is never locked forever: proof or no proof, and whatever
\* contracts do with the transactions in between, the escrow ends settled
\* once it is mined, provided its sender keeps trying to cancel.
DepositNeverLocked ==
    \A id \in Ids :
        frames = <<>> /\ OwedARefund(id) /\ escrows[id].sender \in EOAs
            ~> frames = <<>> /\ escrows[id].settled

\* The call that ends the escrow by a refund waits for its sender to take it.
RefundOffered(id) ==
    /\ frames # <<>>
    /\ ~Head(frames).saved.escrows[id].settled /\ escrows[id].settled
    /\ Head(frames).payee = escrows[id].sender

\* A sender with code may refuse its refund, and cancelEscrow then reverts
\* (TransferFailed).  Only its own refusal can keep the deposit locked, and
\* never for good: as long as the escrow is open the refund is offered again.
RefundOfferedAgain ==
    \A id \in Ids :
        frames = <<>> /\ OwedARefund(id)
            ~> RefundOffered(id) \/ (frames = <<>> /\ escrows[id].settled)

(***************************************************************************)
(* Refinement of EscrowLifecycle: what others see of the contract is the   *)
(* state outside any settlement, so a settlement, with every escrow opened *)
(* by its payee, is one abstract step when its outermost frame returns.    *)
(***************************************************************************)
Committed == IF frames = <<>> THEN Ledger ELSE frames[Len(frames)].saved

\* The contract's own bookkeeping of an escrow, with the event telling how a
\* settled one ended.
Status(l, id) ==
    CASE l.escrows[id].sender = NoAddress -> "none"
      [] l.escrows[id].sender # NoAddress /\ ~l.escrows[id].settled -> "live"
      [] OTHER ->
           IF \E i \in DOMAIN l.log : l.log[i].event = "EscrowFinished"
                                      /\ l.log[i].escrowId = id
             THEN "released" ELSE "refunded"

TermsOf(l, id) ==
    IF l.escrows[id].sender = NoAddress
      THEN ZeroEscrow
      ELSE [sender      |-> l.escrows[id].sender,
            recipient   |-> l.escrows[id].recipient,
            finishAfter |-> l.escrows[id].finishAfter,
            cancelAfter |-> l.escrows[id].cancelAfter,
            condition   |-> l.escrows[id].conditionId]

Lifecycle == INSTANCE EscrowLifecycle WITH
    Keys    <- Ids,
    Parties <- Accounts,
    NoTerms <- ZeroEscrow,
    terms   <- [id \in Ids |-> TermsOf(Committed, id)],
    status  <- [id \in Ids |-> Status(Committed, id)],
    held    <- [id \in Ids |-> Committed.escrows[id].amount],
    now     <- block,
    met     <- fulfilled

\* The contract keeps the promise of every agent: terms never change, an
\* escrow leaves the vault once, in full, by a release its locks and proof
\* allow or a refund its deadline allows, and a reverted call leaves nothing.
LifecycleSpec == Lifecycle!Spec

(***************************************************************************)
(* The inductive invariant behind the safety properties.  It is about a    *)
(* ledger rather than about the variables, because it has to hold of the   *)
(* ledger a revert would restore as much as of the current one.            *)
(***************************************************************************)
\* The escrows with a record are those whose id was handed out.
IdsInOrder(l) ==
    \A id \in Ids : l.escrows[id].sender # NoAddress => id <= l.nextEscrowId

\* A settlement event marks its escrow, one that exists, as settled.
EventsMark(l) ==
    \A i \in DOMAIN l.log : Settled(l, i) =>
        /\ l.log[i].escrowId <= l.nextEscrowId
        /\ l.escrows[l.log[i].escrowId].settled

OneEvent(l) ==
    \A i, j \in DOMAIN l.log :
        Settled(l, i) /\ Settled(l, j) /\ l.log[i].escrowId = l.log[j].escrowId
            => i = j

\* A receipt in the log came with a settlement of the escrow it names.
ReceiptsBound(l) ==
    \A i \in DOMAIN l.log : l.log[i].receipt # NoReceipt =>
        Settled(l, i) /\ l.log[i].receipt.escrowId = l.log[i].escrowId

LocksOrdered(l) == \A id \in Ids : TimeOrderValid(l.escrows[id])

RefundsLate(l) ==
    \A i \in DOMAIN l.log : l.log[i].event = "EscrowCancelled" =>
        l.log[i].at > l.escrows[l.log[i].escrowId].finishAfter

\* The ids handed out have one event that created them, with the amount the
\* record still has if it is open; the other slots are owed nothing.
DepositsRecorded(l) ==
    /\ \A d \in DOMAIN l.log : Created(l, d) => l.log[d].escrowId <= l.nextEscrowId
    /\ \A c, d \in DOMAIN l.log :
          Created(l, c) /\ Created(l, d) /\ l.log[c].escrowId = l.log[d].escrowId => c = d
    /\ \A id \in Ids : id <= l.nextEscrowId =>
          \E d \in DOMAIN l.log :
              /\ Created(l, d) /\ l.log[d].escrowId = id
              /\ l.escrows[id].settled \/ l.log[d].amount = l.escrows[id].amount
    /\ \A id \in Ids : id > l.nextEscrowId => l.escrows[id].amount = 0

LedgerInv(l) ==
    /\ IdsInOrder(l)
    /\ EventsMark(l)
    /\ OneEvent(l)
    /\ ReceiptsBound(l)
    /\ LocksOrdered(l)
    /\ RefundsLate(l)

IInv ==
    /\ TypeOK
    /\ LedgerInv(Ledger)
    /\ \A k \in DOMAIN frames : LedgerInv(frames[k].saved)

\* The money, which takes the events and the records to account for.
FundsInv(l) ==
    /\ DepositsRecorded(l)
    /\ Solvent(l)
    /\ BalancesFollow(l)

AllFundsInv ==
    FundsInv(Ledger) /\ \A k \in DOMAIN frames : FundsInv(frames[k].saved)
=============================================================================
