------------------------ MODULE EthereumEscrowProofs ------------------------
(***************************************************************************)
(* Theorems about EthereumEscrow for every set of accounts, every choice   *)
(* of arguments and every bound.                                           *)
(***************************************************************************)
EXTENDS EthereumEscrow, SumTheorems, TLAPS

-----------------------------------------------------------------------------
(***************************************************************************)
(* Type correctness                                                        *)
(***************************************************************************)

\* An event built from well-typed parts extends a well-typed log.
LEMMA EmittedType ==
    ASSUME NEW event \in SettlementEvents \cup {"EscrowCreated"},
           NEW id \in Ids, NEW account \in Accounts, NEW amount \in Nat,
           NEW receipt \in Journal \cup {NoReceipt},
           log \in Seq(Event), block \in Nat
    PROVE  Emitted(event, id, account, amount, receipt) \in Seq(Event)
BY DEF Emitted, Event

\* A payment the payer can afford keeps every balance a natural number.
LEMMA TransferType ==
    ASSUME NEW from \in Addresses, NEW to \in Addresses, NEW amount \in Nat,
           eth \in [Addresses -> Nat], from # to, amount <= eth[from]
    PROVE  Transfer(from, to, amount) \in [Addresses -> Nat]
<1>1. eth[from] - amount \in Nat
  OBVIOUS
<1>2. eth[to] + amount \in Nat
  OBVIOUS
<1> QED
  BY <1>1, <1>2 DEF Transfer

\* The types of the ledger's components, and back.
LEMMA LedgerType ==
    Ledger \in Ledgers <=>
        /\ escrows \in [Ids -> EscrowDB]
        /\ nextEscrowId \in 0 .. MaxEscrows
        /\ eth \in [Addresses -> Nat]
        /\ log \in Seq(Event)
        /\ guard \in {"NOT_ENTERED", "ENTERED"}
BY DEF Ledger, Ledgers

\* Settling an escrow that is open and whose payee may be paid keeps the types.
LEMMA SettleType ==
    ASSUME TypeOK, NotEntered,
           NEW id \in Ids, NEW event \in SettlementEvents, NEW payee \in Accounts,
           NEW receipt \in Journal \cup {NoReceipt},
           Settle(id, event, payee, receipt)
    PROVE  TypeOK'
<1> USE DEF TypeOK
<1> DEFINE top == [payee |-> payee, saved |-> Ledger]
<1>1. escrows[id] \in EscrowDB /\ escrows[id].amount \in Nat
  BY LedgerType DEF EscrowDB
<1>2. escrows' \in [Ids -> EscrowDB]
  BY <1>1, LedgerType DEF Settle, SettledRecord, EscrowDB
<1>3. log' \in Seq(Event)
  <2>1. log \in Seq(Event) /\ block \in Nat
    BY LedgerType, BoundAssumption
  <2>2. Emitted(event, id, payee, escrows[id].amount, receipt) \in Seq(Event)
    BY <1>1, <2>1, EmittedType
  <2> QED
    BY <2>2 DEF Settle
<1>4. eth' \in [Addresses -> Nat]
  BY <1>1, TransferType, LedgerType, AddressAssumption DEF Settle, Addresses
<1>5. top \in Frame
  BY DEF Frame, Ledger, NotEntered
<1>6. frames = <<>>
  BY DEF NotEntered
<1>7. frames' \in Seq(Frame) /\ Len(frames') = 1
  BY <1>5, <1>6 DEF Settle
<1> QED
  BY <1>2, <1>3, <1>4, <1>7, LedgerType DEF Settle, Ledger, Ledgers

\* Deployment puts every variable in its type.
LEMMA InitType == Init => TypeOK
<1> SUFFICES ASSUME Init PROVE TypeOK
  OBVIOUS
<1>1. ZeroEscrow \in EscrowDB
  BY DEF ZeroEscrow, EscrowDB
<1>2. Ledger \in Ledgers
  BY <1>1, BoundAssumption, LedgerType DEF Init
<1> QED
  BY <1>2, BoundAssumption DEF Init, TypeOK

\* Every variable keeps its type, and the guard is up exactly while the one
\* settlement in progress waits for its payee.
THEOREM TypeCorrect == Spec => []TypeOK
<1>1. Init => TypeOK
  BY InitType
<1>2. TypeOK /\ [Next]_vars => TypeOK'
  <2> SUFFICES ASSUME TypeOK, [Next]_vars PROVE TypeOK'
    OBVIOUS
  <2>1. ASSUME NEW a \in Accounts, NEW recipient \in Accounts \cup {NoAddress},
               NEW o \in Offers, CreateEscrow(a, recipient, o)
        PROVE  TypeOK'
    <3>1. o \in Offer /\ o.amount \in Nat
      BY OfferAssumption DEF Offer
    <3>2. nextEscrowId + 1 \in Ids
      BY <2>1, LedgerType, BoundAssumption DEF CreateEscrow, Ids, TypeOK
    <3>3. escrows' \in [Ids -> EscrowDB]
      BY <2>1, <3>1, <3>2, LedgerType DEF CreateEscrow, EscrowDB, Offer, TypeOK
    <3>4. eth' \in [Addresses -> Nat]
      BY <2>1, <3>1, TransferType, LedgerType, AddressAssumption
         DEF CreateEscrow, Addresses, TypeOK
    <3>5. log' \in Seq(Event)
      <4>1. log \in Seq(Event) /\ block \in Nat
        BY LedgerType, BoundAssumption DEF TypeOK
      <4>2. Emitted("EscrowCreated", nextEscrowId + 1, a, o.amount, NoReceipt)
              \in Seq(Event)
        BY <3>1, <3>2, <4>1, EmittedType
      <4> QED
        BY <2>1, <4>2 DEF CreateEscrow
    <3>6. nextEscrowId' \in 0 .. MaxEscrows
      BY <2>1, <3>2, BoundAssumption DEF CreateEscrow, Ids
    <3> QED
      BY <2>1, <3>3, <3>4, <3>5, <3>6, LedgerType
         DEF CreateEscrow, TypeOK, Ledger, Ledgers
  <2>2. ASSUME NEW a \in Accounts, NEW id \in Ids, FinishEscrow(a, id)
        PROVE  TypeOK'
    <3>1. PICK receipt \in AcceptedReceipts(id) :
             Settle(id, "EscrowFinished", escrows[id].recipient, receipt)
      BY <2>2 DEF FinishEscrow
    <3>2. receipt \in Journal \cup {NoReceipt}
      BY DEF AcceptedReceipts
    <3> QED
      BY <2>2, <3>1, <3>2, SettleType DEF FinishEscrow, SettlementEvents
  <2>3. ASSUME NEW a \in Accounts, NEW id \in Ids, CancelEscrow(a, id)
        PROVE  TypeOK'
    BY <2>3, SettleType DEF CancelEscrow, SettlementEvents
  <2>4. CASE PayeeReturns
    <3>1. Tail(frames) \in Seq(Frame) /\ Len(Tail(frames)) = 0
      BY <2>4 DEF PayeeReturns, TypeOK
    <3> QED
      BY <2>4, <3>1, LedgerType DEF PayeeReturns, TypeOK, Ledger, Ledgers
  <2>5. CASE PayeeReverts
    <3>1. Tail(frames) \in Seq(Frame) /\ Len(Tail(frames)) = 0
      BY <2>5 DEF PayeeReverts, TypeOK
    <3>2. Head(frames) \in Frame
      BY <2>5 DEF PayeeReverts, TypeOK
    <3> QED
      BY <2>5, <3>1, <3>2 DEF PayeeReverts, Restore, TypeOK, Frame, Ledger, Ledgers
  <2>6. CASE NextBlock
    BY <2>6, BoundAssumption DEF NextBlock, TypeOK, Ledger
  <2>7. ASSUME NEW c \in Conditions, Fulfil(c)
        PROVE  TypeOK'
    BY <2>7 DEF Fulfil, TypeOK, Ledger
  <2>8. CASE UNCHANGED vars
    BY <2>8 DEF vars, TypeOK, Ledger
  <2> QED
    BY <2>1, <2>2, <2>3, <2>4, <2>5, <2>6, <2>7, <2>8 DEF Next, Idle
<1> QED
  BY <1>1, <1>2, PTL DEF Spec

-----------------------------------------------------------------------------
(***************************************************************************)
(* The inductive invariant                                                 *)
(***************************************************************************)

\* What appending does to a sequence.
LEMMA Appended ==
    ASSUME NEW S, NEW s \in Seq(S), NEW e
    PROVE  /\ DOMAIN Append(s, e) = DOMAIN s \cup {Len(s) + 1}
           /\ Len(s) + 1 \notin DOMAIN s
           /\ \A i \in DOMAIN s : Append(s, e)[i] = s[i]
           /\ Append(s, e)[Len(s) + 1] = e
<1>1. Len(s) \in Nat /\ DOMAIN s = 1 .. Len(s)
  OBVIOUS
<1>2. DOMAIN Append(s, e) = 1 .. Len(s) + 1
  OBVIOUS
<1> QED
  BY <1>1, <1>2

\* The invariant of the current ledger, in terms of the variables.
VariablesInv ==
    /\ \A id \in Ids : escrows[id].sender # NoAddress => id <= nextEscrowId
    /\ \A i \in DOMAIN log : IsSettlement(i) =>
          log[i].escrowId <= nextEscrowId /\ escrows[log[i].escrowId].settled
    /\ SettledOnce
    /\ \A i \in DOMAIN log : log[i].receipt # NoReceipt =>
          IsSettlement(i) /\ log[i].receipt.escrowId = log[i].escrowId
    /\ \A id \in Ids : TimeOrderValid(escrows[id])
    /\ RefundAfterReleaseWindow

LEMMA LedgerInvUnfolded ==
    (LedgerInv(Ledger) <=> VariablesInv) /\ (LedgerInv(Ledger)' <=> VariablesInv')
BY DEF LedgerInv, IdsInOrder, EventsMark, OneEvent, ReceiptsBound, LocksOrdered,
       RefundsLate, Settled, Ledger, IsSettlement, SettledOnce,
       RefundAfterReleaseWindow, VariablesInv

\* createEscrow writes a record no event refers to.
LEMMA CreateInv ==
    ASSUME TypeOK, LedgerInv(Ledger),
           NEW a \in Accounts, NEW recipient \in Accounts \cup {NoAddress},
           NEW o \in Offers, CreateEscrow(a, recipient, o)
    PROVE  LedgerInv(Ledger)'
<1> DEFINE id == nextEscrowId + 1
           n  == Len(log) + 1
<1> USE DEF VariablesInv
<1>1. /\ nextEscrowId \in Nat
      /\ id \in Ids
      /\ escrows \in [Ids -> EscrowDB]
      /\ log \in Seq(Event)
  BY LedgerType, BoundAssumption DEF TypeOK, CreateEscrow, Ids
<1>2. /\ DOMAIN log' = DOMAIN log \cup {n}
      /\ n \notin DOMAIN log
      /\ \A i \in DOMAIN log : log'[i] = log[i]
      /\ log'[n].event = "EscrowCreated"
      /\ log'[n].receipt = NoReceipt
  <2> DEFINE e == [event |-> "EscrowCreated", escrowId |-> id, account |-> a,
                   amount |-> o.amount, at |-> block, receipt |-> NoReceipt]
  <2>1. log' = Append(log, e)
    BY DEF CreateEscrow, Emitted
  <2>2. e.event = "EscrowCreated" /\ e.receipt = NoReceipt
    OBVIOUS
  <2> HIDE DEF e
  <2> QED
    BY <1>1, <2>1, <2>2, Appended
<1>3. /\ \A k \in Ids \ {id} : escrows'[k] = escrows[k]
      /\ TimeOrderValid(escrows'[id])
  BY <1>1 DEF CreateEscrow, ValidOffer, TimeOrderValid
<1>4. \A i \in DOMAIN log : log[i].escrowId \in Ids
  <2>1. \A i \in DOMAIN log : log[i] \in Event
    BY <1>1
  <2> QED
    BY <2>1 DEF Event
<1>5. \A i \in DOMAIN log : IsSettlement(i) => log[i].escrowId # id
  BY <1>1, <1>4, LedgerInvUnfolded DEF Ids
<1>6. \A i \in DOMAIN log' : IsSettlement(i)' => i \in DOMAIN log /\ IsSettlement(i)
  BY <1>2 DEF IsSettlement, SettlementEvents
<1>7. \A k \in Ids : escrows'[k].sender # NoAddress => k <= nextEscrowId'
  BY <1>1, <1>3, LedgerInvUnfolded DEF CreateEscrow, Ids
<1>8. \A i \in DOMAIN log' : IsSettlement(i)' =>
        log'[i].escrowId <= nextEscrowId' /\ escrows'[log'[i].escrowId].settled
  <2> SUFFICES ASSUME NEW i \in DOMAIN log', IsSettlement(i)'
               PROVE  log'[i].escrowId <= nextEscrowId' /\ escrows'[log'[i].escrowId].settled
    OBVIOUS
  <2>1. i \in DOMAIN log /\ IsSettlement(i) /\ log'[i] = log[i]
    BY <1>2, <1>6
  <2>2. log[i].escrowId <= nextEscrowId /\ escrows[log[i].escrowId].settled
    BY <2>1, LedgerInvUnfolded
  <2>3. escrows'[log[i].escrowId] = escrows[log[i].escrowId]
    BY <1>3, <1>4, <1>5, <2>1
  <2>4. nextEscrowId' = nextEscrowId + 1 /\ log[i].escrowId \in Nat
    BY <1>4, <2>1 DEF CreateEscrow, Ids
  <2> QED
    BY <1>1, <2>1, <2>2, <2>3, <2>4
<1>9. SettledOnce'
  BY <1>2, <1>6, LedgerInvUnfolded DEF SettledOnce
<1>10. \A i \in DOMAIN log' : log'[i].receipt # NoReceipt =>
         IsSettlement(i)' /\ log'[i].receipt.escrowId = log'[i].escrowId
  BY <1>2, LedgerInvUnfolded DEF IsSettlement
<1>11. \A k \in Ids : TimeOrderValid(escrows'[k])
  BY <1>3, LedgerInvUnfolded
<1>12. RefundAfterReleaseWindow'
  <2> SUFFICES ASSUME NEW i \in DOMAIN log', log'[i].event = "EscrowCancelled"
               PROVE  log'[i].at > escrows'[log'[i].escrowId].finishAfter
    BY DEF RefundAfterReleaseWindow
  <2>1. i \in DOMAIN log /\ IsSettlement(i) /\ log'[i] = log[i]
    BY <1>2 DEF IsSettlement, SettlementEvents
  <2>2. escrows'[log[i].escrowId] = escrows[log[i].escrowId]
    BY <1>3, <1>4, <1>5, <2>1
  <2> QED
    BY <2>1, <2>2, LedgerInvUnfolded DEF RefundAfterReleaseWindow
<1> QED
  BY <1>7, <1>8, <1>9, <1>10, <1>11, <1>12, LedgerInvUnfolded

\* A settlement is the first of its escrow, and marks it.
LEMMA SettleInv ==
    ASSUME TypeOK, LedgerInv(Ledger),
           NEW id \in Ids, Open(id),
           NEW event \in SettlementEvents, NEW payee \in Accounts,
           event = "EscrowCancelled" => RefundWindowOpen(id),
           NEW receipt \in Journal \cup {NoReceipt},
           receipt # NoReceipt => receipt.escrowId = id,
           Settle(id, event, payee, receipt)
    PROVE  LedgerInv(Ledger)'
<1> USE DEF VariablesInv
<1> DEFINE n == Len(log) + 1
           e == [event |-> event, escrowId |-> id, account |-> payee,
                 amount |-> escrows[id].amount, at |-> block, receipt |-> receipt]
<1>1. /\ escrows \in [Ids -> EscrowDB]
      /\ log \in Seq(Event)
      /\ block \in Nat \ {0}
  BY LedgerType, BoundAssumption DEF TypeOK
<1>2. /\ DOMAIN log' = DOMAIN log \cup {n}
      /\ n \notin DOMAIN log
      /\ \A i \in DOMAIN log : log'[i] = log[i]
      /\ log'[n] = e
  <2> HIDE DEF e
  <2>1. log' = Append(log, e)
    BY DEF Settle, Emitted, e
  <2> QED
    BY <1>1, <2>1, Appended
<1>3. /\ nextEscrowId' = nextEscrowId
      /\ \A k \in Ids : /\ escrows'[k].sender = escrows[k].sender
                        /\ escrows'[k].finishAfter = escrows[k].finishAfter
                        /\ escrows'[k].cancelAfter = escrows[k].cancelAfter
                        /\ escrows[k].settled \/ k = id => escrows'[k].settled
  <2>1. \A k \in Ids : escrows[k] \in EscrowDB
    BY <1>1
  <2> QED
    BY <1>1, <2>1 DEF Settle, SettledRecord, EscrowDB
<1>4. \A i \in DOMAIN log : log[i].escrowId \in Ids
  <2>1. \A i \in DOMAIN log : log[i] \in Event
    BY <1>1
  <2> QED
    BY <2>1 DEF Event
<1>5. \A i \in DOMAIN log : IsSettlement(i) => log[i].escrowId # id
  BY LedgerInvUnfolded DEF Open
<1>6. id <= nextEscrowId
  BY LedgerInvUnfolded DEF Open, Exists
<1>7. \A i \in DOMAIN log' :
        \/ i = n /\ log'[i] = e
        \/ i \in DOMAIN log /\ log'[i] = log[i] /\ (IsSettlement(i)' <=> IsSettlement(i))
  BY <1>2 DEF IsSettlement
<1>8. \A k \in Ids : escrows'[k].sender # NoAddress => k <= nextEscrowId'
  BY <1>3, LedgerInvUnfolded
<1>9. \A i \in DOMAIN log' : IsSettlement(i)' =>
        log'[i].escrowId <= nextEscrowId' /\ escrows'[log'[i].escrowId].settled
  <2> SUFFICES ASSUME NEW i \in DOMAIN log', IsSettlement(i)'
               PROVE  log'[i].escrowId <= nextEscrowId' /\ escrows'[log'[i].escrowId].settled
    OBVIOUS
  <2>1. CASE i = n
    BY <1>2, <1>3, <1>6, <2>1
  <2>2. CASE i \in DOMAIN log /\ log'[i] = log[i] /\ IsSettlement(i)
    BY <1>3, <1>4, <2>2, LedgerInvUnfolded
  <2> QED
    BY <1>2, <1>7, <2>1, <2>2
<1>10. SettledOnce'
  BY <1>2, <1>5, <1>7, LedgerInvUnfolded DEF SettledOnce
<1>11. \A i \in DOMAIN log' : log'[i].receipt # NoReceipt =>
         IsSettlement(i)' /\ log'[i].receipt.escrowId = log'[i].escrowId
  BY <1>7, LedgerInvUnfolded DEF IsSettlement
<1>12. \A k \in Ids : TimeOrderValid(escrows'[k])
  BY <1>3, LedgerInvUnfolded DEF TimeOrderValid
<1>13. RefundAfterReleaseWindow'
  <2> SUFFICES ASSUME NEW i \in DOMAIN log', log'[i].event = "EscrowCancelled"
               PROVE  log'[i].at > escrows'[log'[i].escrowId].finishAfter
    BY DEF RefundAfterReleaseWindow
  <2>1. CASE i = n
    <3>1. /\ block >= escrows[id].cancelAfter
          /\ escrows[id].cancelAfter # 0
          /\ TimeOrderValid(escrows[id])
      BY <1>2, <2>1, LedgerInvUnfolded DEF RefundWindowOpen
    <3>2. escrows[id].finishAfter \in Nat /\ escrows[id].cancelAfter \in Nat
      BY <1>1 DEF EscrowDB
    <3>3. block > escrows[id].finishAfter
      BY <1>1, <3>1, <3>2 DEF TimeOrderValid
    <3> QED
      BY <1>2, <1>3, <2>1, <3>3
  <2>2. CASE i \in DOMAIN log
    BY <1>2, <1>3, <1>4, <2>2, LedgerInvUnfolded DEF RefundAfterReleaseWindow
  <2> QED
    BY <1>2, <2>1, <2>2
<1> QED
  BY <1>8, <1>9, <1>10, <1>11, <1>12, <1>13, LedgerInvUnfolded

\* The invariant says nothing of the guard, the balances or the time.
LEMMA LedgerUnchanged ==
    ASSUME LedgerInv(Ledger), UNCHANGED <<escrows, nextEscrowId, log>>
    PROVE  LedgerInv(Ledger)'
BY LedgerInvUnfolded
   DEF VariablesInv, IsSettlement, SettledOnce, RefundAfterReleaseWindow

\* The invariant holds of the current ledger and of the one a revert of the
\* settlement in progress would restore.
THEOREM Invariance == Spec => []IInv
<1>1. Init => IInv
  <2> SUFFICES ASSUME Init, TypeOK PROVE IInv
    BY InitType
  <2>1. VariablesInv
    BY DEF Init, VariablesInv, ZeroEscrow, SettledOnce, RefundAfterReleaseWindow,
           TimeOrderValid
  <2> QED
    BY <2>1, LedgerInvUnfolded DEF Init, IInv
<1>2. IInv /\ TypeOK' /\ [Next]_vars => IInv'
  <2> SUFFICES ASSUME IInv, TypeOK', [Next]_vars PROVE IInv'
    OBVIOUS
  <2>1. TypeOK /\ LedgerInv(Ledger) /\ \A k \in DOMAIN frames : LedgerInv(frames[k].saved)
    BY DEF IInv
  <2>2. ASSUME LedgerInv(Ledger)', \A k \in DOMAIN frames' : LedgerInv(frames'[k].saved)
        PROVE  IInv'
    BY <2>2 DEF IInv
  <2>3. ASSUME NEW a \in Accounts, NEW recipient \in Accounts \cup {NoAddress},
               NEW o \in Offers, CreateEscrow(a, recipient, o)
        PROVE  IInv'
    <3>1. LedgerInv(Ledger)'
      BY <2>1, <2>3, CreateInv
    <3>2. frames' = frames
      BY <2>3 DEF CreateEscrow
    <3> QED
      BY <2>1, <2>2, <3>1, <3>2
  <2>4. ASSUME NEW id \in Ids, NEW event \in SettlementEvents,
               NEW payee \in Accounts, NEW receipt \in Journal \cup {NoReceipt},
               NotEntered, Settle(id, event, payee, receipt), LedgerInv(Ledger)'
        PROVE  IInv'
    <3>1. frames = <<>>
      BY <2>1, <2>4 DEF TypeOK, NotEntered
    <3>2. frames' = <<[payee |-> payee, saved |-> Ledger]>>
      BY <2>4, <3>1 DEF Settle
    <3>3. \A k \in DOMAIN frames' : frames'[k].saved = Ledger
      BY <3>2
    <3> QED
      BY <2>1, <2>2, <2>4, <3>3
  <2>5. ASSUME NEW a \in Accounts, NEW id \in Ids, FinishEscrow(a, id)
        PROVE  IInv'
    <3>1. PICK receipt \in AcceptedReceipts(id) :
             Settle(id, "EscrowFinished", escrows[id].recipient, receipt)
      BY <2>5 DEF FinishEscrow
    <3>2. /\ receipt \in Journal \cup {NoReceipt}
          /\ receipt # NoReceipt => receipt.escrowId = id
      BY DEF AcceptedReceipts, Binds, NamesEscrow
    <3>3. LedgerInv(Ledger)'
      BY <2>1, <2>5, <3>1, <3>2, SettleInv DEF FinishEscrow, SettlementEvents
    <3> QED
      BY <2>4, <2>5, <3>1, <3>2, <3>3 DEF FinishEscrow, SettlementEvents
  <2>6. ASSUME NEW a \in Accounts, NEW id \in Ids, CancelEscrow(a, id)
        PROVE  IInv'
    <3>1. LedgerInv(Ledger)'
      BY <2>1, <2>6, SettleInv DEF CancelEscrow, SettlementEvents
    <3> QED
      BY <2>4, <2>6, <3>1 DEF CancelEscrow, SettlementEvents
  <2>7. CASE PayeeReturns
    <3>1. frames' = <<>>
      BY <2>1, <2>7 DEF PayeeReturns, TypeOK
    <3>2. LedgerInv(Ledger)'
      BY <2>1, <2>7, LedgerUnchanged DEF PayeeReturns
    <3> QED
      BY <2>2, <3>1, <3>2
  <2>8. CASE PayeeReverts
    <3>1. frames' = <<>>
      BY <2>1, <2>8 DEF PayeeReverts, TypeOK
    <3>2. 1 \in DOMAIN frames /\ frames[1] \in Frame /\ Head(frames) = frames[1]
      BY <2>1, <2>8 DEF PayeeReverts, TypeOK
    <3>3. Ledger' = frames[1].saved
      BY <2>8, <3>2 DEF PayeeReverts, Restore, Frame, Ledger, Ledgers
    <3>4. LedgerInv(frames[1].saved)
      BY <2>1, <3>2
    <3>5. LedgerInv(Ledger')
      BY <3>3, <3>4
    <3> QED
      BY <2>2, <3>1, <3>5
  <2>9. CASE NextBlock \/ (\E c \in Conditions : Fulfil(c)) \/ UNCHANGED vars
    <3>1. UNCHANGED <<escrows, nextEscrowId, log>> /\ frames' = frames
      BY <2>9 DEF NextBlock, Fulfil, vars
    <3>2. LedgerInv(Ledger)'
      BY <2>1, <3>1, LedgerUnchanged
    <3> QED
      BY <2>1, <2>2, <3>1, <3>2
  <2> QED
    BY <2>3, <2>5, <2>6, <2>7, <2>8, <2>9 DEF Next, Idle
<1> QED
  BY <1>1, <1>2, TypeCorrect, PTL DEF Spec

-----------------------------------------------------------------------------
(***************************************************************************)
(* What follows from it                                                    *)
(***************************************************************************)

\* No escrow is ever settled twice, whatever its payee does when it is paid.
THEOREM SettlementUnique == Spec => []SettledOnce
<1>1. IInv => SettledOnce
  BY LedgerInvUnfolded DEF IInv, VariablesInv
<1> QED
  BY <1>1, Invariance, PTL

\* No receipt ever releases two escrows: ids are handed out once and the
\* journal names the id.
THEOREM ReceiptUnique == Spec => []ReceiptSettlesOnce
<1>1. IInv => ReceiptSettlesOnce
  <2> SUFFICES ASSUME VariablesInv, NEW i \in DOMAIN log, NEW j \in DOMAIN log,
                      log[i].receipt # NoReceipt, log[i].receipt = log[j].receipt
               PROVE  i = j
    BY LedgerInvUnfolded DEF IInv, ReceiptSettlesOnce
  <2>1. IsSettlement(i) /\ IsSettlement(j) /\ log[i].escrowId = log[j].escrowId
    BY DEF VariablesInv
  <2> QED
    BY <2>1 DEF VariablesInv, SettledOnce
<1> QED
  BY <1>1, Invariance, PTL

\* A sender never gets a refund before the recipient's window has opened.
THEOREM RefundLate == Spec => []RefundAfterReleaseWindow
<1>1. IInv => RefundAfterReleaseWindow
  BY LedgerInvUnfolded DEF IInv, VariablesInv
<1> QED
  BY <1>1, Invariance, PTL

\* The guard keeps a payee from settling anything while it is being paid.
THEOREM SettlementsDoNotNest == Spec => NoSettlementInsideSettlement
<1> DEFINE Step == frames # <<>> /\ frames' # <<>> =>
              \A id \in Ids : escrows'[id].settled => escrows[id].settled
<1>1. TypeOK /\ [Next]_vars => [Step]_vars
  <2> SUFFICES ASSUME TypeOK, [Next]_vars, frames # <<>>, frames' # <<>>,
                      NEW id \in Ids, escrows'[id].settled
               PROVE  escrows[id].settled
    OBVIOUS
  <2>1. guard = "ENTERED" /\ Len(frames) = 1
    BY DEF TypeOK
  <2>2. ASSUME NEW a \in Accounts, NEW recipient \in Accounts \cup {NoAddress},
               NEW o \in Offers, CreateEscrow(a, recipient, o)
        PROVE  escrows[id].settled
    <3>1. escrows \in [Ids -> EscrowDB]
      BY LedgerType DEF TypeOK
    <3> QED
      BY <2>2, <3>1 DEF CreateEscrow
  <2>3. ASSUME NEW a \in Accounts, NEW k \in Ids,
               FinishEscrow(a, k) \/ CancelEscrow(a, k)
        PROVE  FALSE
    BY <2>1, <2>3 DEF FinishEscrow, CancelEscrow, NotEntered
  <2>4. CASE PayeeReturns \/ PayeeReverts
    <3>1. frames' = Tail(frames)
      BY <2>4 DEF PayeeReturns, PayeeReverts
    <3> QED
      BY <2>1, <3>1 DEF TypeOK
  <2>5. CASE NextBlock \/ (\E c \in Conditions : Fulfil(c)) \/ UNCHANGED vars
    BY <2>5 DEF NextBlock, Fulfil, vars
  <2> QED
    BY <2>2, <2>3, <2>4, <2>5 DEF Next, Idle
<1> QED
  BY <1>1, TypeCorrect, PTL DEF Spec, NoSettlementInsideSettlement

-----------------------------------------------------------------------------
(***************************************************************************)
(* Releases and their conditions                                           *)
(***************************************************************************)

\* What was released in a ledger was unconditioned or has its condition met.
ReleasesProven(l, met) ==
    \A i \in DOMAIN l.log : l.log[i].event = "EscrowFinished" =>
        l.escrows[l.log[i].escrowId].conditionId \in met \cup {NoCondition}

\* Like IInv, of the current ledger and of the one a revert would restore.
ProvenInv ==
    /\ ReleasesProven(Ledger, fulfilled)
    /\ \A k \in DOMAIN frames : ReleasesProven(frames[k].saved, fulfilled)

\* No condition is forgotten.
LEMMA FulfilledGrows ==
    ASSUME [Next]_vars
    PROVE  fulfilled \subseteq fulfilled'
BY DEF Next, CreateEscrow, FinishEscrow, CancelEscrow, Settle, PayeeReturns,
       PayeeReverts, NextBlock, Fulfil, Idle, vars

\* An accepted receipt attests the condition of the escrow it is used for.
LEMMA AcceptedProves ==
    ASSUME NEW id \in Ids, NEW receipt \in AcceptedReceipts(id)
    PROVE  escrows[id].conditionId \in fulfilled \cup {NoCondition}
BY DEF AcceptedReceipts, Binds, WellTagged, Verifies

\* One more event, with no record in use changing its condition, leaves the
\* releases proven if the event itself is no unproven release.
LEMMA RecordsKeepConditions ==
    ASSUME IInv, ReleasesProven(Ledger, fulfilled), NEW e,
           log' = Append(log, e), fulfilled' = fulfilled,
           \A id \in Ids : id <= nextEscrowId =>
               escrows'[id].conditionId = escrows[id].conditionId,
           e.event = "EscrowFinished" =>
               escrows'[e.escrowId].conditionId \in fulfilled \cup {NoCondition}
    PROVE  ReleasesProven(Ledger, fulfilled)'
<1>1. log \in Seq(Event)
  BY LedgerType DEF IInv, TypeOK
<1>2. ASSUME NEW i \in DOMAIN log, log[i].event = "EscrowFinished"
      PROVE  escrows'[log[i].escrowId].conditionId \in fulfilled \cup {NoCondition}
  <2>1. log[i].escrowId \in Ids
    <3>1. log[i] \in Event
      BY <1>1
    <3> QED
      BY <3>1 DEF Event
  <2>2. log[i].escrowId <= nextEscrowId
    BY <1>2, LedgerInvUnfolded DEF IInv, VariablesInv, IsSettlement, SettlementEvents
  <2>3. escrows[log[i].escrowId].conditionId \in fulfilled \cup {NoCondition}
    BY <1>2 DEF ReleasesProven, Ledger
  <2> QED
    BY <2>1, <2>2, <2>3
<1>3. \A i \in DOMAIN log' :
        log'[i] = e \/ (i \in DOMAIN log /\ log'[i] = log[i])
  BY <1>1, Appended
<1>4. \A i \in DOMAIN log' : log'[i].event = "EscrowFinished" =>
        escrows'[log'[i].escrowId].conditionId \in fulfilled' \cup {NoCondition}
  BY <1>2, <1>3
<1> QED
  BY <1>4 DEF ReleasesProven, Ledger

\* A conditioned escrow is released only if its condition can be satisfied,
\* whatever is rolled back: no revert leaves a release without its proof.
THEOREM ReleaseProven == Spec => []ReleaseNeedsFulfilment
<1>1. Init => ProvenInv
  BY DEF Init, ProvenInv, ReleasesProven, Ledger
<1>2. IInv /\ ProvenInv /\ [Next]_vars => ProvenInv'
  <2> SUFFICES ASSUME IInv, ProvenInv, [Next]_vars PROVE ProvenInv'
    OBVIOUS
  <2>1. /\ TypeOK
        /\ ReleasesProven(Ledger, fulfilled)
        /\ \A k \in DOMAIN frames : ReleasesProven(frames[k].saved, fulfilled)
    BY DEF IInv, ProvenInv
  <2>2. \A l : ReleasesProven(l, fulfilled) => ReleasesProven(l, fulfilled')
    BY FulfilledGrows DEF ReleasesProven
  <2>3. ASSUME ReleasesProven(Ledger, fulfilled)', frames' = frames
        PROVE  ProvenInv'
    BY <2>1, <2>2, <2>3 DEF ProvenInv
  <2>4. ASSUME NEW a \in Accounts, NEW recipient \in Accounts \cup {NoAddress},
               NEW o \in Offers, CreateEscrow(a, recipient, o)
        PROVE  ProvenInv'
    <3> DEFINE e == [event |-> "EscrowCreated", escrowId |-> nextEscrowId + 1,
                     account |-> a, amount |-> o.amount, at |-> block,
                     receipt |-> NoReceipt]
    <3>1. log' = Append(log, e) /\ e.event # "EscrowFinished"
      BY <2>4 DEF CreateEscrow, Emitted
    <3>2. \A id \in Ids : id <= nextEscrowId =>
            escrows'[id].conditionId = escrows[id].conditionId
      <4>1. escrows \in [Ids -> EscrowDB] /\ nextEscrowId \in Nat
        BY <2>1, LedgerType, BoundAssumption DEF TypeOK
      <4>2. \A id \in Ids : id <= nextEscrowId => id # nextEscrowId + 1
        BY <4>1 DEF Ids
      <4> QED
        BY <2>4, <4>1, <4>2 DEF CreateEscrow
    <3> HIDE DEF e
    <3>3. ReleasesProven(Ledger, fulfilled)'
      BY <2>1, <2>4, <3>1, <3>2, RecordsKeepConditions DEF CreateEscrow
    <3> QED
      BY <2>3, <2>4, <3>3 DEF CreateEscrow
  <2>5. ASSUME NEW id \in Ids, NEW event, NEW payee, NEW receipt,
               NotEntered, Settle(id, event, payee, receipt),
               event = "EscrowFinished" =>
                   escrows[id].conditionId \in fulfilled \cup {NoCondition}
        PROVE  ProvenInv'
    <3> DEFINE e == [event |-> event, escrowId |-> id, account |-> payee,
                     amount |-> escrows[id].amount, at |-> block,
                     receipt |-> receipt]
    <3>1. log' = Append(log, e) /\ e.event = event /\ e.escrowId = id
      BY <2>5 DEF Settle, Emitted
    <3>2. \A k \in Ids : escrows'[k].conditionId = escrows[k].conditionId
      <4>1. escrows \in [Ids -> EscrowDB] /\ \A k \in Ids : escrows[k] \in EscrowDB
        BY <2>1, LedgerType DEF TypeOK
      <4> QED
        BY <2>5, <4>1 DEF Settle, SettledRecord, EscrowDB
    <3> HIDE DEF e
    <3>3. ReleasesProven(Ledger, fulfilled)'
      BY <2>1, <2>5, <3>1, <3>2, RecordsKeepConditions DEF Settle
    <3>4. frames' = <<[payee |-> payee, saved |-> Ledger]>>
      BY <2>1, <2>5 DEF Settle, TypeOK, NotEntered
    <3>5. \A k \in DOMAIN frames' : frames'[k].saved = Ledger
      BY <3>4
    <3> QED
      BY <2>1, <2>2, <3>3, <3>5 DEF ProvenInv
  <2>6. ASSUME NEW a \in Accounts, NEW id \in Ids, FinishEscrow(a, id)
        PROVE  ProvenInv'
    <3>1. PICK receipt \in AcceptedReceipts(id) :
             Settle(id, "EscrowFinished", escrows[id].recipient, receipt)
      BY <2>6 DEF FinishEscrow
    <3> QED
      BY <2>5, <2>6, <3>1, AcceptedProves DEF FinishEscrow
  <2>7. ASSUME NEW a \in Accounts, NEW id \in Ids, CancelEscrow(a, id)
        PROVE  ProvenInv'
    BY <2>5, <2>7 DEF CancelEscrow
  <2>8. CASE PayeeReturns \/ PayeeReverts
    <3>1. frames' = <<>> /\ 1 \in DOMAIN frames /\ Head(frames) = frames[1]
      BY <2>1, <2>8 DEF PayeeReturns, PayeeReverts, TypeOK
    <3>2. CASE PayeeReturns
      BY <2>1, <3>1, <3>2 DEF PayeeReturns, ProvenInv, ReleasesProven, Ledger
    <3>3. CASE PayeeReverts
      <4>1. ReleasesProven(frames[1].saved, fulfilled')
        BY <2>1, <2>2, <3>1
      <4> QED
        BY <3>1, <3>3, <4>1 DEF PayeeReverts, Restore, ProvenInv, ReleasesProven, Ledger
    <3> QED
      BY <2>8, <3>2, <3>3
  <2>9. CASE NextBlock \/ (\E c \in Conditions : Fulfil(c)) \/ UNCHANGED vars
    <3>1. Ledger' = Ledger /\ frames' = frames
      BY <2>9 DEF NextBlock, Fulfil, vars, Ledger
    <3>2. ReleasesProven(Ledger', fulfilled')
      BY <2>1, <2>2, <3>1
    <3> QED
      BY <2>3, <3>1, <3>2
  <2> QED
    BY <2>4, <2>6, <2>7, <2>8, <2>9 DEF Next, Idle
<1>3. ProvenInv => ReleaseNeedsFulfilment
  BY DEF ProvenInv, ReleasesProven, Ledger, ReleaseNeedsFulfilment
<1> QED
  BY <1>1, <1>2, <1>3, Invariance, PTL DEF Spec

-----------------------------------------------------------------------------
(***************************************************************************)
(* The money                                                               *)
(***************************************************************************)

\* The events of a log are finitely many, and typed.
LEMMA LogFinite ==
    ASSUME NEW s \in Seq(Event), NEW S \in SUBSET DOMAIN s
    PROVE  IsFiniteSet(S)
<1>1. Len(s) \in Nat /\ DOMAIN s = 1 .. Len(s)
  OBVIOUS
<1>2. IsFiniteSet(DOMAIN s)
  BY <1>1, FS_Interval
<1> QED
  BY <1>2, FS_Subset

\* The event that created an escrow tells its deposit.
LEMMA DepositIs ==
    ASSUME NEW l, DepositsRecorded(l), NEW d \in DOMAIN l.log, Created(l, d)
    PROVE  Deposit(l, l.log[d].escrowId) = l.log[d].amount
<1> DEFINE P(c) == Created(l, c) /\ l.log[c].escrowId = l.log[d].escrowId
           c == CHOOSE c \in DOMAIN l.log : P(c)
<1>1. c \in DOMAIN l.log /\ P(c)
  OBVIOUS
<1>2. c = d
  <2> HIDE DEF c
  <2> QED
    BY <1>1 DEF DepositsRecorded
<1> QED
  BY <1>2 DEF Deposit

\* Every id handed out has its deposit in the log, a natural number.
LEMMA DepositOf ==
    ASSUME NEW l \in Ledgers, DepositsRecorded(l),
           NEW id \in Ids, id <= l.nextEscrowId
    PROVE  \E d \in DOMAIN l.log :
              /\ Created(l, d) /\ l.log[d].escrowId = id
              /\ Deposit(l, id) = l.log[d].amount
              /\ Deposit(l, id) \in Nat
              /\ ~l.escrows[id].settled => Deposit(l, id) = l.escrows[id].amount
<1>1. PICK d \in DOMAIN l.log :
        /\ Created(l, d) /\ l.log[d].escrowId = id
        /\ l.escrows[id].settled \/ l.log[d].amount = l.escrows[id].amount
  BY DEF DepositsRecorded
<1>2. Deposit(l, id) = l.log[d].amount
  BY <1>1, DepositIs
<1>3. l.log[d] \in Event
  BY DEF Ledgers
<1> QED
  BY <1>1, <1>2, <1>3 DEF Event

\* An account's payments, received or made, in a ledger whose log m extends
\* by one event: the old ones, and the new one if it is of that kind.
LEMMA OneMoreEvent ==
    ASSUME NEW l \in Ledgers, NEW m, NEW e, m.log = Append(l.log, e), NEW a
    PROVE  LET n == Len(l.log) + 1 IN
           /\ n \notin DOMAIN l.log /\ m.log[n] = e
           /\ DOMAIN m.log = DOMAIN l.log \cup {n}
           /\ \A i \in DOMAIN l.log : m.log[i] = l.log[i]
           /\ Paid(m, a) = IF e.event = "EscrowCreated" /\ e.account = a
                             THEN Paid(l, a) \cup {n} ELSE Paid(l, a)
           /\ Received(m, a) = IF e.event \in SettlementEvents /\ e.account = a
                             THEN Received(l, a) \cup {n} ELSE Received(l, a)
<1> DEFINE n == Len(l.log) + 1
<1>1. l.log \in Seq(Event)
  BY DEF Ledgers
<1>2. /\ n \notin DOMAIN l.log /\ m.log[n] = e
      /\ DOMAIN m.log = DOMAIN l.log \cup {n}
      /\ \A i \in DOMAIN l.log : m.log[i] = l.log[i]
  BY <1>1, Appended
<1>3. \A i \in DOMAIN m.log :
        /\ Created(m, i) <=> IF i = n THEN e.event = "EscrowCreated" ELSE Created(l, i)
        /\ Settled(m, i) <=> IF i = n THEN e.event \in SettlementEvents ELSE Settled(l, i)
  BY <1>2 DEF Created, Settled
<1> HIDE DEF n
<1>4. Paid(m, a) = IF e.event = "EscrowCreated" /\ e.account = a
                     THEN Paid(l, a) \cup {n} ELSE Paid(l, a)
  BY <1>2, <1>3 DEF Paid
<1>5. Received(m, a) = IF e.event \in SettlementEvents /\ e.account = a
                     THEN Received(l, a) \cup {n} ELSE Received(l, a)
  BY <1>2, <1>3 DEF Received
<1> QED
  BY <1>2, <1>4, <1>5 DEF n

\* One more creation by a adds its amount to what a deposited.
LEMMA DepositsAfter ==
    ASSUME NEW l \in Ledgers, NEW m, NEW e \in Event, m.log = Append(l.log, e), NEW a
    PROVE  /\ Deposits(l, a) \in Nat
           /\ Deposits(m, a) = Deposits(l, a) +
                (IF e.event = "EscrowCreated" /\ e.account = a THEN e.amount ELSE 0)
<1> DEFINE n == Len(l.log) + 1
           f == [i \in DOMAIN l.log |-> l.log[i].amount]
           g == [i \in DOMAIN m.log |-> m.log[i].amount]
           S == Paid(l, a)
<1>1. l.log \in Seq(Event) /\ e.amount \in Nat
  BY DEF Ledgers, Event
<1>2. S \subseteq DOMAIN l.log /\ IsFiniteSet(S)
  <2>1. S \in SUBSET DOMAIN l.log
    BY DEF Paid
  <2> QED
    BY <1>1, <2>1, LogFinite
<1>3. /\ n \notin S /\ g[n] = e.amount
      /\ \A i \in S : f[i] \in Nat /\ g[i] = f[i]
  <2>1. \A i \in DOMAIN l.log : l.log[i].amount \in Nat
    <3>1. \A i \in DOMAIN l.log : l.log[i] \in Event
      BY <1>1
    <3> QED
      BY <3>1 DEF Event
  <2>2. /\ n \notin DOMAIN l.log /\ m.log[n] = e
        /\ DOMAIN m.log = DOMAIN l.log \cup {n}
        /\ \A i \in DOMAIN l.log : m.log[i] = l.log[i]
    BY OneMoreEvent
  <2> HIDE DEF S, n
  <2> QED
    BY <1>2, <2>1, <2>2
<1>4. SumOf(f, S) \in Nat /\ SumOf(g, S) = SumOf(f, S)
  <2> HIDE DEF f, g, S, n
  <2>1. SumOf(f, S) \in Nat
    BY <1>2, <1>3, SumType
  <2>2. SumOf(g, S) = SumOf(f, S)
    <3>1. \A i \in S : f[i] = g[i]
      BY <1>3
    <3>2. IsFiniteSet(S)
      BY <1>2
    <3> QED
      BY ONLY <3>1, <3>2, SumSame
  <2> QED
    BY <2>1, <2>2
<1>5. SumOf(g, S \cup {n}) = SumOf(f, S) + e.amount
  <2> HIDE DEF f, g, S, n
  <2>1. IsFiniteSet(S) /\ n \notin S /\ g[n] \in Nat
    BY <1>1, <1>2, <1>3
  <2>2. \A i \in S : f[i] \in Nat /\ g[i] = f[i]
    BY <1>3
  <2>3. PICK T : T = S \cup {n}
    OBVIOUS
  <2>4. SumOf(g, T) = SumOf(f, S) + g[n]
    BY ONLY <2>1, <2>2, <2>3, SumAdd
  <2> QED
    BY <1>3, <2>3, <2>4
<1>6. Deposits(l, a) = SumOf(f, S) /\ Deposits(m, a) = SumOf(g, Paid(m, a))
  BY DEF Deposits
<1>7. Paid(m, a) = IF e.event = "EscrowCreated" /\ e.account = a THEN S \cup {n} ELSE S
  BY OneMoreEvent
<1> QED
  <2> HIDE DEF f, g, S, n
  <2> QED
    BY <1>1, <1>4, <1>5, <1>6, <1>7

\* One more settlement paid to a adds what was deposited for it to what a
\* received; what was deposited for the escrows of older events is no other.
LEMMA PayoutsAfter ==
    ASSUME NEW l \in Ledgers, LedgerInv(l), DepositsRecorded(l),
           NEW m, DepositsRecorded(m), NEW e \in Event, m.log = Append(l.log, e), NEW a,
           e.event \in SettlementEvents => e.escrowId <= l.nextEscrowId
    PROVE  /\ Payouts(l, a) \in Nat
           /\ Payouts(m, a) = Payouts(l, a) +
                (IF e.event \in SettlementEvents /\ e.account = a
                   THEN Deposit(l, e.escrowId) ELSE 0)
<1> DEFINE n == Len(l.log) + 1
           f == [i \in DOMAIN l.log |-> Deposit(l, l.log[i].escrowId)]
           g == [i \in DOMAIN m.log |-> Deposit(m, m.log[i].escrowId)]
           S == Received(l, a)
<1>1. l.log \in Seq(Event) /\ e.escrowId \in Ids
  BY DEF Ledgers, Event
<1>2. S \subseteq DOMAIN l.log /\ IsFiniteSet(S)
  <2>1. S \in SUBSET DOMAIN l.log
    BY DEF Received
  <2> QED
    BY <1>1, <2>1, LogFinite
<1>3. /\ n \notin DOMAIN l.log /\ m.log[n] = e
      /\ DOMAIN m.log = DOMAIN l.log \cup {n}
      /\ \A i \in DOMAIN l.log : m.log[i] = l.log[i]
  BY OneMoreEvent
<1>4. ASSUME NEW id \in Ids, id <= l.nextEscrowId
      PROVE  Deposit(l, id) \in Nat /\ Deposit(m, id) = Deposit(l, id)
  <2>1. PICK d \in DOMAIN l.log :
          /\ Created(l, d) /\ l.log[d].escrowId = id
          /\ Deposit(l, id) = l.log[d].amount
          /\ Deposit(l, id) \in Nat
    BY <1>4, DepositOf
  <2>2. d \in DOMAIN m.log /\ Created(m, d) /\ m.log[d] = l.log[d]
    BY <1>3, <2>1 DEF Created
  <2>3. Deposit(m, id) = m.log[d].amount
    BY <2>1, <2>2, DepositIs
  <2> QED
    BY <2>1, <2>2, <2>3
<1>5. /\ \A i \in S : f[i] \in Nat /\ g[i] = f[i]
      /\ e.event \in SettlementEvents =>
            g[n] = Deposit(l, e.escrowId) /\ g[n] \in Nat
  <2>1. ASSUME NEW i \in S
        PROVE  i \in DOMAIN l.log /\ l.log[i].escrowId \in Ids
                 /\ l.log[i].escrowId <= l.nextEscrowId
    <3>1. i \in DOMAIN l.log /\ Settled(l, i)
      BY DEF Received
    <3>2. l.log[i] \in Event
      BY <1>1, <3>1
    <3> QED
      BY <3>1, <3>2 DEF LedgerInv, EventsMark, Event
  <2> HIDE DEF S, n
  <2> QED
    BY <1>1, <1>3, <1>4, <2>1
<1>6. SumOf(f, S) \in Nat /\ SumOf(g, S) = SumOf(f, S)
  <2> HIDE DEF f, g, S, n
  <2>1. SumOf(f, S) \in Nat
    BY <1>2, <1>5, SumType
  <2>2. SumOf(g, S) = SumOf(f, S)
    BY <1>2, <1>5, SumSame
  <2> QED
    BY <2>1, <2>2
<1>7. ASSUME e.event \in SettlementEvents
      PROVE  SumOf(g, S \cup {n}) = SumOf(f, S) + Deposit(l, e.escrowId)
  <2>1. IsFiniteSet(S) /\ n \notin S
    BY <1>2, <1>3
  <2> HIDE DEF f, g, S, n
  <2>2. g[n] \in Nat
    BY <1>5, <1>7
  <2>3. \A i \in S : f[i] \in Nat /\ g[i] = f[i]
    BY <1>5
  <2>4. PICK T : T = S \cup {n}
    OBVIOUS
  <2>5. SumOf(g, T) = SumOf(f, S) + g[n]
    BY ONLY <2>1, <2>2, <2>3, <2>4, SumAdd
  <2> QED
    BY <1>5, <1>7, <2>4, <2>5
<1>8. Payouts(l, a) = SumOf(f, S) /\ Payouts(m, a) = SumOf(g, Received(m, a))
  BY DEF Payouts
<1>9. Received(m, a) = IF e.event \in SettlementEvents /\ e.account = a
                         THEN S \cup {n} ELSE S
  BY OneMoreEvent
<1> QED
  <2> HIDE DEF f, g, S, n
  <2> QED
    BY <1>6, <1>7, <1>8, <1>9

\* A deposit moves from its sender to the contract, into a slot of its own.
LEMMA CreateFunds ==
    ASSUME NEW l \in Ledgers, LedgerInv(l), FundsInv(l),
           NEW m \in Ledgers, NEW e \in Event, m.log = Append(l.log, e),
           e.event = "EscrowCreated", e.escrowId = l.nextEscrowId + 1,
           m.nextEscrowId = l.nextEscrowId + 1,
           \A id \in Ids \ {e.escrowId} : m.escrows[id] = l.escrows[id],
           m.escrows[e.escrowId].amount = e.amount,
           m.eth[Escrow] = l.eth[Escrow] + e.amount,
           \A a \in Accounts : m.eth[a] = IF a = e.account THEN l.eth[a] - e.amount
                                                           ELSE l.eth[a]
    PROVE  FundsInv(m)
<1> DEFINE n == Len(l.log) + 1
           k == e.escrowId
<1>1. /\ n \notin DOMAIN l.log /\ m.log[n] = e
      /\ DOMAIN m.log = DOMAIN l.log \cup {n}
      /\ \A i \in DOMAIN l.log : m.log[i] = l.log[i]
  BY OneMoreEvent
<1>2. k \in Ids /\ l.nextEscrowId \in Nat /\ e.amount \in Nat /\ Ids \subseteq Nat
  BY BoundAssumption DEF Ledgers, Event, Ids
<1>3. DepositsRecorded(m)
  <2> HIDE DEF n
  <2>0. DepositsRecorded(l)
    BY DEF FundsInv
  <2>1. \A d \in DOMAIN m.log : Created(m, d) =>
          \/ d = n
          \/ d \in DOMAIN l.log /\ Created(l, d) /\ m.log[d] = l.log[d]
               /\ l.log[d].escrowId <= l.nextEscrowId
    BY <1>1, <2>0 DEF Created, DepositsRecorded
  <2>2. \A d \in DOMAIN l.log : l.log[d].escrowId \in Nat
    <3>1. \A d \in DOMAIN l.log : l.log[d] \in Event
      BY DEF Ledgers
    <3> QED
      BY <1>2, <3>1 DEF Event
  <2>3. \A d \in DOMAIN m.log : Created(m, d) => m.log[d].escrowId <= m.nextEscrowId
    BY <1>1, <1>2, <2>1, <2>2
  <2>4. \A c, d \in DOMAIN m.log :
          Created(m, c) /\ Created(m, d) /\ m.log[c].escrowId = m.log[d].escrowId => c = d
    BY <1>1, <1>2, <2>0, <2>1, <2>2 DEF DepositsRecorded
  <2>5. ASSUME NEW id \in Ids, id <= m.nextEscrowId
        PROVE  \E d \in DOMAIN m.log :
                  /\ Created(m, d) /\ m.log[d].escrowId = id
                  /\ m.escrows[id].settled \/ m.log[d].amount = m.escrows[id].amount
    <3>1. CASE id = k
      BY <1>1, <3>1 DEF Created
    <3>2. CASE id # k
      <4>1. id <= l.nextEscrowId /\ m.escrows[id] = l.escrows[id]
        BY <1>2, <2>5, <3>2
      <4> QED
        BY <1>1, <2>0, <4>1 DEF DepositsRecorded, Created
    <3> QED
      BY <3>1, <3>2
  <2>6. \A id \in Ids : id > m.nextEscrowId => m.escrows[id].amount = 0
    BY <1>2, <2>0 DEF DepositsRecorded
  <2> QED
    BY <2>3, <2>4, <2>5, <2>6 DEF DepositsRecorded
<1>4. Solvent(m)
  <2>1. IsFiniteSet(Ids)
    BY BoundAssumption, FS_Interval DEF Ids
  <2>2. /\ \A id \in Ids : Owed(l)[id] \in Nat /\ Owed(m)[id] \in Nat
        /\ \A id \in Ids \ {k} : Owed(l)[id] = Owed(m)[id]
        /\ Owed(l)[k] = 0 /\ Owed(m)[k] = e.amount
    <3>1. \A id \in Ids : l.escrows[id] \in EscrowDB /\ m.escrows[id] \in EscrowDB
      BY DEF Ledgers
    <3>2. l.escrows[k].amount = 0
      BY <1>2 DEF FundsInv, DepositsRecorded
    <3> QED
      BY <1>2, <3>1, <3>2 DEF Owed, EscrowDB
  <2>3. SumOf(Owed(m), Ids) = SumOf(Owed(l), Ids) - Owed(l)[k] + Owed(m)[k]
    <3> HIDE DEF k
    <3>1. k \in Ids
      BY <1>2
    <3> QED
      BY ONLY <2>1, <2>2, <3>1, SumUpdate
  <2>4. SumOf(Owed(l), Ids) \in Nat
    BY <2>1, <2>2, SumType
  <2> QED
    BY <1>2, <2>2, <2>3, <2>4 DEF Solvent, FundsInv
<1>5. BalancesFollow(m)
  <2> SUFFICES ASSUME NEW a \in Accounts
               PROVE  m.eth[a] = Funds - Deposits(m, a) + Payouts(m, a)
    BY DEF BalancesFollow
  <2>1. e.event \notin SettlementEvents
    BY DEF SettlementEvents
  <2>2. /\ Deposits(l, a) \in Nat /\ Payouts(l, a) \in Nat
        /\ Deposits(m, a) = Deposits(l, a) + (IF e.account = a THEN e.amount ELSE 0)
        /\ Payouts(m, a) = Payouts(l, a)
    BY <1>3, <2>1, DepositsAfter, PayoutsAfter DEF FundsInv
  <2>3. l.eth[a] = Funds - Deposits(l, a) + Payouts(l, a)
    BY DEF FundsInv, BalancesFollow
  <2> QED
    BY <1>2, <2>2, <2>3, BoundAssumption
<1> QED
  BY <1>3, <1>4, <1>5 DEF FundsInv

\* A settlement zeroes the record and pays its amount, which is the deposit.
LEMMA SettleFunds ==
    ASSUME NEW l \in Ledgers, LedgerInv(l), FundsInv(l),
           NEW m \in Ledgers, NEW e \in Event, m.log = Append(l.log, e),
           e.event \in SettlementEvents, e.escrowId <= l.nextEscrowId,
           ~l.escrows[e.escrowId].settled, e.amount = l.escrows[e.escrowId].amount,
           m.nextEscrowId = l.nextEscrowId,
           \A id \in Ids \ {e.escrowId} : m.escrows[id] = l.escrows[id],
           m.escrows[e.escrowId].amount = 0, m.escrows[e.escrowId].settled,
           m.eth[Escrow] = l.eth[Escrow] - e.amount,
           \A a \in Accounts : m.eth[a] = IF a = e.account THEN l.eth[a] + e.amount
                                                           ELSE l.eth[a]
    PROVE  FundsInv(m)
<1> DEFINE n == Len(l.log) + 1
           k == e.escrowId
<1>1. /\ n \notin DOMAIN l.log /\ m.log[n] = e
      /\ DOMAIN m.log = DOMAIN l.log \cup {n}
      /\ \A i \in DOMAIN l.log : m.log[i] = l.log[i]
  BY OneMoreEvent
<1>2. k \in Ids /\ e.amount \in Nat /\ DepositsRecorded(l)
  BY DEF Event, FundsInv
<1>3. DepositsRecorded(m)
  <2> HIDE DEF n
  <2>1. \A d \in DOMAIN m.log : Created(m, d) =>
          d \in DOMAIN l.log /\ Created(l, d) /\ m.log[d] = l.log[d]
    BY <1>1 DEF Created, SettlementEvents
  <2>2. \A d \in DOMAIN m.log : Created(m, d) => m.log[d].escrowId <= m.nextEscrowId
    BY <1>2, <2>1 DEF DepositsRecorded
  <2>3. \A c, d \in DOMAIN m.log :
          Created(m, c) /\ Created(m, d) /\ m.log[c].escrowId = m.log[d].escrowId => c = d
    BY <1>2, <2>1 DEF DepositsRecorded
  <2>4. ASSUME NEW id \in Ids, id <= m.nextEscrowId
        PROVE  \E d \in DOMAIN m.log :
                  /\ Created(m, d) /\ m.log[d].escrowId = id
                  /\ m.escrows[id].settled \/ m.log[d].amount = m.escrows[id].amount
    <3>1. PICK d \in DOMAIN l.log :
            /\ Created(l, d) /\ l.log[d].escrowId = id
            /\ l.escrows[id].settled \/ l.log[d].amount = l.escrows[id].amount
      BY <1>2, <2>4 DEF DepositsRecorded
    <3>2. d \in DOMAIN m.log /\ Created(m, d) /\ m.log[d] = l.log[d]
      BY <1>1, <3>1 DEF Created
    <3>3. m.escrows[id].settled \/ m.log[d].amount = m.escrows[id].amount
      BY <3>1, <3>2
    <3> QED
      BY <3>1, <3>2, <3>3
  <2>5. \A id \in Ids : id > m.nextEscrowId => m.escrows[id].amount = 0
    BY <1>2 DEF DepositsRecorded
  <2> QED
    BY <2>2, <2>3, <2>4, <2>5 DEF DepositsRecorded
<1>4. Solvent(m)
  <2>1. IsFiniteSet(Ids)
    BY BoundAssumption, FS_Interval DEF Ids
  <2>2. /\ \A id \in Ids : Owed(l)[id] \in Nat /\ Owed(m)[id] \in Nat
        /\ \A id \in Ids \ {k} : Owed(l)[id] = Owed(m)[id]
    <3>1. \A id \in Ids : l.escrows[id] \in EscrowDB /\ m.escrows[id] \in EscrowDB
      BY DEF Ledgers
    <3> QED
      BY <3>1 DEF Owed, EscrowDB
  <2>3. SumOf(Owed(m), Ids) = SumOf(Owed(l), Ids) - Owed(l)[k] + Owed(m)[k]
    <3> HIDE DEF k
    <3>1. k \in Ids
      BY <1>2
    <3> QED
      BY ONLY <2>1, <2>2, <3>1, SumUpdate
  <2>4. SumOf(Owed(l), Ids) \in Nat
    BY <2>1, <2>2, SumType
  <2>5. Owed(l)[k] = e.amount /\ Owed(m)[k] = 0
    BY <1>2 DEF Owed
  <2> QED
    BY <1>2, <2>3, <2>4, <2>5 DEF Solvent, FundsInv
<1>5. BalancesFollow(m)
  <2> SUFFICES ASSUME NEW a \in Accounts
               PROVE  m.eth[a] = Funds - Deposits(m, a) + Payouts(m, a)
    BY DEF BalancesFollow
  <2>1. e.event # "EscrowCreated" /\ Deposit(l, k) = e.amount
    BY <1>2, DepositOf DEF SettlementEvents
  <2>2. /\ Deposits(l, a) \in Nat /\ Payouts(l, a) \in Nat
        /\ Deposits(m, a) = Deposits(l, a)
        /\ Payouts(m, a) = Payouts(l, a) + (IF e.account = a THEN e.amount ELSE 0)
    BY <1>2, <1>3, <2>1, DepositsAfter, PayoutsAfter
  <2>3. l.eth[a] = Funds - Deposits(l, a) + Payouts(l, a)
    BY DEF FundsInv, BalancesFollow
  <2> QED
    BY <1>2, <2>2, <2>3, BoundAssumption
<1> QED
  BY <1>3, <1>4, <1>5 DEF FundsInv

\* The guard, and which ledger it is otherwise, do not matter to the money.
LEMMA FundsUnchanged ==
    ASSUME NEW l, NEW m, FundsInv(l), m.log = l.log, m.escrows = l.escrows,
           m.nextEscrowId = l.nextEscrowId, m.eth = l.eth
    PROVE  FundsInv(m)
<1>1. \A i : (Created(m, i) <=> Created(l, i)) /\ (Settled(m, i) <=> Settled(l, i))
  BY DEF Created, Settled
<1>2. DepositsRecorded(m)
  BY <1>1 DEF FundsInv, DepositsRecorded
<1>3. Solvent(m)
  BY DEF FundsInv, Solvent, Owed
<1>4. \A id : Deposit(m, id) = Deposit(l, id)
  BY DEF Deposit, Created
<1>5. \A a : Paid(m, a) = Paid(l, a) /\ Received(m, a) = Received(l, a)
  BY DEF Paid, Received, Created, Settled
<1>6. ASSUME NEW a
      PROVE  Deposits(m, a) = Deposits(l, a) /\ Payouts(m, a) = Payouts(l, a)
  BY <1>4, <1>5 DEF Deposits, Payouts
<1>7. BalancesFollow(m)
  BY <1>6 DEF FundsInv, BalancesFollow
<1> QED
  BY <1>2, <1>3, <1>7 DEF FundsInv

\* A transaction that settles adds up.
LEMMA SettleStep ==
    ASSUME IInv, AllFundsInv, TypeOK', NotEntered,
           NEW id \in Ids, Open(id), NEW event \in SettlementEvents,
           NEW payee \in Accounts, NEW receipt \in Journal \cup {NoReceipt},
           Settle(id, event, payee, receipt)
    PROVE  AllFundsInv'
<1> DEFINE l == Ledger
           e == [event |-> event, escrowId |-> id, account |-> payee,
                 amount |-> escrows[id].amount, at |-> block, receipt |-> receipt]
<1>1. /\ l \in Ledgers /\ Ledger' \in Ledgers
      /\ LedgerInv(l) /\ FundsInv(l)
      /\ block \in Nat /\ frames = <<>>
  BY BoundAssumption DEF IInv, TypeOK, AllFundsInv, NotEntered
<1>2. /\ escrows \in [Ids -> EscrowDB] /\ escrows[id] \in EscrowDB
      /\ eth \in [Addresses -> Nat]
  BY <1>1, LedgerType
<1>3. e \in Event /\ e.escrowId = id /\ e.event = event /\ e.account = payee
      /\ e.amount = escrows[id].amount
  BY <1>1, <1>2 DEF Event, EscrowDB
<1>4. log' = Append(log, e)
  BY DEF Settle, Emitted
<1>5. id <= nextEscrowId /\ ~escrows[id].settled
  BY <1>1, LedgerInvUnfolded DEF Open, Exists, VariablesInv
<1>6. /\ nextEscrowId' = nextEscrowId
      /\ \A k \in Ids \ {id} : escrows'[k] = escrows[k]
      /\ escrows'[id].amount = 0 /\ escrows'[id].settled
  BY <1>2 DEF Settle, SettledRecord, EscrowDB
<1>7. /\ eth'[Escrow] = eth[Escrow] - escrows[id].amount
      /\ \A a \in Accounts : eth'[a] = IF a = payee THEN eth[a] + escrows[id].amount
                                                     ELSE eth[a]
  BY <1>2, AddressAssumption DEF Settle, Transfer, Addresses
<1> HIDE DEF e
<1>8. FundsInv(Ledger')
  <2> DEFINE m == Ledger'
  <2>1. /\ m.log = Append(l.log, e) /\ m.nextEscrowId = l.nextEscrowId
        /\ e.event \in SettlementEvents /\ e.escrowId <= l.nextEscrowId
        /\ ~l.escrows[e.escrowId].settled /\ e.amount = l.escrows[e.escrowId].amount
        /\ \A k \in Ids \ {e.escrowId} : m.escrows[k] = l.escrows[k]
        /\ m.escrows[e.escrowId].amount = 0 /\ m.escrows[e.escrowId].settled
        /\ m.eth[Escrow] = l.eth[Escrow] - e.amount
        /\ \A a \in Accounts : m.eth[a] = IF a = e.account THEN l.eth[a] + e.amount
                                                            ELSE l.eth[a]
    BY <1>3, <1>4, <1>5, <1>6, <1>7 DEF Ledger
  <2> HIDE DEF l, m
  <2> QED
    BY <1>1, <1>3, <2>1, SettleFunds DEF m
<1>9. frames' = <<[payee |-> payee, saved |-> Ledger]>>
  BY <1>1 DEF Settle
<1>10. \A k \in DOMAIN frames' : frames'[k].saved = Ledger
  BY <1>9
<1> QED
  BY <1>1, <1>8, <1>10 DEF AllFundsInv

\* The money is accounted for in the current ledger and in the one a revert
\* of the settlement in progress would restore.
THEOREM FundsInvariance == Spec => []AllFundsInv
<1>1. Init => AllFundsInv
  <2> SUFFICES ASSUME Init, TypeOK PROVE AllFundsInv
    BY InitType
  <2>1. DepositsRecorded(Ledger)
    BY BoundAssumption DEF Init, DepositsRecorded, Ledger, ZeroEscrow, Ids
  <2>2. Solvent(Ledger)
    <3>1. IsFiniteSet(Ids)
      BY BoundAssumption, FS_Interval DEF Ids
    <3>2. \A id \in Ids : Owed(Ledger)[id] = 0
      BY DEF Init, Owed, Ledger, ZeroEscrow
    <3>3. SumOf(Owed(Ledger), Ids) = 0
      BY <3>1, <3>2, SumZero
    <3> QED
      BY <3>3, AddressAssumption DEF Init, Solvent, Ledger, Addresses
  <2>3. BalancesFollow(Ledger)
    <3>1. \A a : Paid(Ledger, a) = {} /\ Received(Ledger, a) = {}
      BY DEF Init, Paid, Received, Ledger
    <3>2. ASSUME NEW a
          PROVE  Deposits(Ledger, a) = 0 /\ Payouts(Ledger, a) = 0
      BY <3>1, SumEmpty DEF Deposits, Payouts
    <3>3. \A a \in Accounts : Ledger.eth[a] = Funds
      BY AddressAssumption DEF Init, Ledger, Addresses
    <3> QED
      BY <3>2, <3>3, BoundAssumption DEF BalancesFollow
  <2> QED
    BY <2>1, <2>2, <2>3 DEF Init, AllFundsInv, FundsInv
<1>2. IInv /\ AllFundsInv /\ TypeOK' /\ [Next]_vars => AllFundsInv'
  <2> SUFFICES ASSUME IInv, AllFundsInv, TypeOK', [Next]_vars PROVE AllFundsInv'
    OBVIOUS
  <2>1. /\ TypeOK /\ LedgerInv(Ledger) /\ FundsInv(Ledger)
        /\ \A k \in DOMAIN frames : FundsInv(frames[k].saved)
        /\ Ledger \in Ledgers /\ Ledger' \in Ledgers
    BY DEF IInv, AllFundsInv, TypeOK
  <2>2. ASSUME NEW a \in Accounts, NEW recipient \in Accounts \cup {NoAddress},
               NEW o \in Offers, CreateEscrow(a, recipient, o)
        PROVE  AllFundsInv'
    <3> DEFINE id == nextEscrowId + 1
               e == [event |-> "EscrowCreated", escrowId |-> id, account |-> a,
                     amount |-> o.amount, at |-> block, receipt |-> NoReceipt]
               l == Ledger
               m == Ledger'
    <3>1. /\ o.amount \in Nat /\ id \in Ids /\ block \in Nat
          /\ escrows \in [Ids -> EscrowDB] /\ eth \in [Addresses -> Nat]
      BY <2>1, <2>2, LedgerType, OfferAssumption, BoundAssumption
         DEF Offer, CreateEscrow, Ids, TypeOK
    <3>2. e \in Event /\ e.escrowId = id /\ e.event = "EscrowCreated"
          /\ e.account = a /\ e.amount = o.amount
      BY <3>1 DEF Event
    <3>3. log' = Append(log, e) /\ nextEscrowId' = id /\ frames' = frames
      BY <2>2 DEF CreateEscrow, Emitted
    <3>4. /\ \A k \in Ids \ {id} : escrows'[k] = escrows[k]
          /\ escrows'[id].amount = o.amount
      BY <2>2, <3>1 DEF CreateEscrow
    <3>5. /\ eth'[Escrow] = eth[Escrow] + o.amount
          /\ \A b \in Accounts : eth'[b] = IF b = a THEN eth[b] - o.amount ELSE eth[b]
      BY <2>2, <3>1, AddressAssumption DEF CreateEscrow, Transfer, Addresses
    <3> HIDE DEF e
    <3>6. /\ m.log = Append(l.log, e) /\ m.nextEscrowId = l.nextEscrowId + 1
          /\ e.event = "EscrowCreated" /\ e.escrowId = l.nextEscrowId + 1
          /\ \A k \in Ids \ {e.escrowId} : m.escrows[k] = l.escrows[k]
          /\ m.escrows[e.escrowId].amount = e.amount
          /\ m.eth[Escrow] = l.eth[Escrow] + e.amount
          /\ \A b \in Accounts : m.eth[b] = IF b = e.account THEN l.eth[b] - e.amount
                                                              ELSE l.eth[b]
      BY <3>2, <3>3, <3>4, <3>5 DEF Ledger
    <3>7. FundsInv(m)
      <4> HIDE DEF l, m
      <4> QED
        BY <2>1, <3>2, <3>6, CreateFunds DEF l, m
    <3> QED
      BY <2>1, <3>3, <3>7 DEF AllFundsInv
  <2>3. ASSUME NEW a \in Accounts, NEW id \in Ids, FinishEscrow(a, id)
        PROVE  AllFundsInv'
    <3>1. PICK receipt \in AcceptedReceipts(id) :
             Settle(id, "EscrowFinished", escrows[id].recipient, receipt)
      BY <2>3 DEF FinishEscrow
    <3>2. receipt \in Journal \cup {NoReceipt}
      BY DEF AcceptedReceipts
    <3> QED
      BY <2>3, <3>1, <3>2, SettleStep DEF FinishEscrow, SettlementEvents
  <2>4. ASSUME NEW a \in Accounts, NEW id \in Ids, CancelEscrow(a, id)
        PROVE  AllFundsInv'
    BY <2>4, SettleStep DEF CancelEscrow, SettlementEvents
  <2>5. CASE PayeeReturns
    <3>1. frames' = <<>>
      BY <2>1, <2>5 DEF PayeeReturns, TypeOK
    <3>2. FundsInv(Ledger')
      BY <2>1, <2>5, FundsUnchanged DEF PayeeReturns, Ledger
    <3> QED
      BY <3>1, <3>2 DEF AllFundsInv
  <2>6. CASE PayeeReverts
    <3>1. frames' = <<>> /\ 1 \in DOMAIN frames /\ frames[1] \in Frame
          /\ Head(frames) = frames[1]
      BY <2>1, <2>6 DEF PayeeReverts, TypeOK
    <3>2. Ledger' = frames[1].saved
      BY <2>6, <3>1 DEF PayeeReverts, Restore, Frame, Ledger, Ledgers
    <3>3. FundsInv(Ledger')
      BY <2>1, <3>1, <3>2
    <3> QED
      BY <3>1, <3>3 DEF AllFundsInv
  <2>7. CASE NextBlock \/ (\E c \in Conditions : Fulfil(c)) \/ UNCHANGED vars
    <3>1. Ledger' = Ledger /\ frames' = frames
      BY <2>7 DEF NextBlock, Fulfil, vars, Ledger
    <3> QED
      BY <2>1, <3>1 DEF AllFundsInv
  <2> QED
    BY <2>2, <2>3, <2>4, <2>5, <2>6, <2>7 DEF Next, Idle
<1> QED
  BY <1>1, <1>2, Invariance, TypeCorrect, PTL DEF Spec

\* No interleaving of callbacks and reverts pays one escrow out of another's
\* deposit: the contract always holds exactly what its open escrows are owed.
THEOREM ContractSolvent == Spec => []Solvency
<1>1. AllFundsInv => Solvency
  BY DEF AllFundsInv, FundsInv, Solvency
<1> QED
  BY <1>1, FundsInvariance, PTL

\* Every account has what the events say it should have: what it deposited
\* is gone, and every escrow settled to it paid the whole deposit.
THEOREM BalancesAccountedFor == Spec => []BalancesFollowEvents
<1>1. AllFundsInv => BalancesFollowEvents
  BY DEF AllFundsInv, FundsInv, BalancesFollowEvents
<1> QED
  BY <1>1, FundsInvariance, PTL

\* The contract can always pay what it owes for any one escrow: the transfer
\* of a settlement never fails for want of ether.
THEOREM EscrowsPayable == Spec => [](\A id \in Ids : escrows[id].amount <= eth[Escrow])
<1>1. IInv /\ Solvency => \A id \in Ids : escrows[id].amount <= eth[Escrow]
  <2> SUFFICES ASSUME IInv, Solvency, NEW id \in Ids
               PROVE  escrows[id].amount <= eth[Escrow]
    OBVIOUS
  <2> DEFINE f == Owed(Ledger)
             S == Ids \ {id}
  <2>1. /\ eth[Escrow] = SumOf(f, Ids) /\ f[id] = escrows[id].amount
        /\ \A k \in Ids : f[k] \in Nat
    <3>1. escrows \in [Ids -> EscrowDB]
      BY DEF IInv, TypeOK, Ledgers, Ledger
    <3> QED
      BY <3>1 DEF Solvency, Solvent, Ledger, Owed, EscrowDB
  <2>2. IsFiniteSet(Ids) /\ IsFiniteSet(S) /\ \A k \in S : f[k] \in Nat
    <3>1. IsFiniteSet(Ids)
      BY FS_Interval, BoundAssumption DEF Ids
    <3> QED
      BY <2>1, <3>1, FS_RemoveElement
  <2> HIDE DEF f
  <2>3. SumOf(f, S) \in Nat
    BY <2>2, SumType
  <2>4. SumOf(f, Ids) = f[id] + SumOf(f, S)
    BY <2>1, <2>2, SumRemove
  <2> QED
    BY <2>1, <2>3, <2>4
<1> QED
  BY <1>1, Invariance, ContractSolvent, PTL

-----------------------------------------------------------------------------
(***************************************************************************)
(* EthereumEscrow implements EscrowLifecycle, for every set of accounts,   *)
(* every choice of arguments and every bound.                              *)
(*                                                                         *)
(* What others see of the contract is the ledger outside any settlement    *)
(* (Committed).  A settlement in progress is invisible until its frame     *)
(* returns, and then becomes one step with all the payee did in between;   *)
(* so the invariant says of a settlement in progress that the ledger it    *)
(* began with and the current one are one abstract transaction apart.      *)
(***************************************************************************)
-----------------------------------------------------------------------------
(***************************************************************************)
(* Transactions between two ledgers                                        *)
(***************************************************************************)

\* The terms and the deposit of an escrow, opened or not, have their type.
TermsTyped(l) ==
    \A k \in Ids : /\ TermsOf(l, k) \in Lifecycle!Terms \cup {ZeroEscrow}
                   /\ l.escrows[k].amount \in Nat

Kept(s, l, k) ==
    /\ TermsOf(l, k) = TermsOf(s, k)
    /\ Status(l, k) = Status(s, k)
    /\ l.escrows[k].amount = s.escrows[k].amount

Opened(s, l, k) ==
    /\ Status(s, k) = "none"
    /\ Status(l, k) = "live"
    /\ TermsOf(l, k) \in Lifecycle!Terms
    /\ Lifecycle!Agreeable(TermsOf(l, k))
    /\ l.escrows[k].amount \in Nat \ {0}

Left(s, l, k, how) ==
    /\ Status(s, k) = "live"
    /\ Status(l, k) = how
    /\ TermsOf(l, k) = TermsOf(s, k)
    /\ l.escrows[k].amount = 0

Released(s, l, k, t, met) ==
    /\ Left(s, l, k, "released")
    /\ t >= TermsOf(s, k).finishAfter
    /\ TermsOf(s, k).condition \in met \cup {NoCondition}

Refunded(s, l, k, t) ==
    /\ Left(s, l, k, "refunded")
    /\ TermsOf(s, k).cancelAfter # 0
    /\ t >= TermsOf(s, k).cancelAfter

\* The escrow left the vault between s and l.
Gone(s, l, k) == Status(s, k) = "live" /\ Status(l, k) # "live"

\* From s to l the ledger went through one abstract transaction, at time t
\* and with the conditions in met satisfied.
Transacted(s, l, t, met) ==
    /\ \A k \in Ids : \/ Kept(s, l, k) \/ Opened(s, l, k)
                      \/ Released(s, l, k, t, met) \/ Refunded(s, l, k, t)
    /\ \A k, j \in Ids : Gone(s, l, k) /\ Gone(s, l, j) => k = j
    /\ TermsTyped(l)

\* Both ledgers look the same from outside.
Alike(s, l) == s.escrows = l.escrows /\ s.log = l.log

\* What is seen of a ledger depends on its records and its events only.
LEMMA AlikeKeeps ==
    ASSUME NEW s, NEW l, NEW m, NEW t, NEW met, Alike(l, m)
    PROVE  /\ \A k \in Ids : Kept(l, m, k)
           /\ TermsTyped(l) => TermsTyped(m)
           /\ Transacted(s, l, t, met) => Transacted(s, m, t, met)
<1>1. \A k \in Ids : /\ TermsOf(l, k) = TermsOf(m, k)
                     /\ Status(l, k) = Status(m, k)
                     /\ l.escrows[k].amount = m.escrows[k].amount
  BY DEF Alike, TermsOf, Status
<1> QED
  BY <1>1 DEF TermsTyped, Kept, Opened, Left, Released, Refunded, Gone, Transacted

\* A transaction goes on while its payee opens escrows.
LEMMA OpensMore ==
    ASSUME NEW s, NEW l, NEW m, NEW t, NEW met, Transacted(s, l, t, met),
           NEW id \in Ids, Opened(l, m, id),
           \A k \in Ids \ {id} : Kept(l, m, k)
    PROVE  Transacted(s, m, t, met)
<1>1. Opened(s, m, id) /\ ~Gone(s, m, id)
  BY DEF Transacted, Kept, Opened, Left, Released, Refunded, Gone
<1>2. ASSUME NEW k \in Ids \ {id}
      PROVE  /\ \/ Kept(s, m, k) \/ Opened(s, m, k)
                \/ Released(s, m, k, t, met) \/ Refunded(s, m, k, t)
             /\ Gone(s, m, k) => Gone(s, l, k)
             /\ TermsOf(m, k) \in Lifecycle!Terms \cup {ZeroEscrow}
             /\ m.escrows[k].amount \in Nat
  BY DEF Transacted, TermsTyped, Kept, Opened, Left, Released, Refunded, Gone
<1>3. TermsTyped(m)
  BY <1>2 DEF TermsTyped, Opened
<1> QED
  BY <1>1, <1>2, <1>3 DEF Transacted

\* A transaction goes on while conditions are learnt.
LEMMA LearnsMore ==
    ASSUME NEW s, NEW l, NEW t, NEW met, NEW more,
           Transacted(s, l, t, met), met \subseteq more
    PROVE  Transacted(s, l, t, more)
BY DEF Transacted, Released

-----------------------------------------------------------------------------
(***************************************************************************)
(* What the contract's steps do to the ledger                              *)
(***************************************************************************)

\* The fields of a record, in the terms of an escrow that exists.
LEMMA TermsFields ==
    ASSUME NEW l, NEW k \in Ids, l.escrows[k].sender # NoAddress
    PROVE  /\ TermsOf(l, k).sender = l.escrows[k].sender
           /\ TermsOf(l, k).recipient = l.escrows[k].recipient
           /\ TermsOf(l, k).finishAfter = l.escrows[k].finishAfter
           /\ TermsOf(l, k).cancelAfter = l.escrows[k].cancelAfter
           /\ TermsOf(l, k).condition = l.escrows[k].conditionId
BY DEF TermsOf

\* An escrow that a transaction neither opens nor settles, and of which it
\* logs nothing.
LEMMA RestKept ==
    ASSUME NEW k \in Ids, TypeOK, escrows'[k] = escrows[k],
           NEW e, log' = Append(log, e),
           e.event = "EscrowFinished" => e.escrowId # k
    PROVE  Kept(Ledger, Ledger', k)
<1>1. (\E i \in DOMAIN log : log[i].event = "EscrowFinished" /\ log[i].escrowId = k)
      <=> (\E i \in DOMAIN log' : log'[i].event = "EscrowFinished" /\ log'[i].escrowId = k)
  <2>1. log \in Seq(Event)
    BY LedgerType DEF TypeOK
  <2> QED
    BY <2>1, Appended
<1>2. /\ Ledger.escrows[k] = escrows[k] /\ Ledger.log = log
      /\ Ledger'.escrows[k] = escrows[k] /\ Ledger'.log = log'
  BY DEF Ledger
<1>3. TermsOf(Ledger', k) = TermsOf(Ledger, k)
  BY <1>2 DEF TermsOf
<1>4. Status(Ledger', k) = Status(Ledger, k)
  BY <1>1, <1>2 DEF Status
<1> QED
  BY <1>2, <1>3, <1>4 DEF Kept

\* createEscrow opens one escrow and keeps the others.
LEMMA CreateOpens ==
    ASSUME IInv, NEW a \in Accounts, NEW recipient \in Accounts \cup {NoAddress},
           NEW o \in Offers, CreateEscrow(a, recipient, o)
    PROVE  /\ nextEscrowId + 1 \in Ids
           /\ Opened(Ledger, Ledger', nextEscrowId + 1)
           /\ \A k \in Ids \ {nextEscrowId + 1} : Kept(Ledger, Ledger', k)
<1> DEFINE id == nextEscrowId + 1
           e  == [event |-> "EscrowCreated", escrowId |-> id, account |-> a,
                  amount |-> o.amount, at |-> block, receipt |-> NoReceipt]
<1>1. /\ TypeOK /\ nextEscrowId \in Nat /\ id \in Ids
      /\ escrows \in [Ids -> EscrowDB]
  BY LedgerType, BoundAssumption DEF IInv, TypeOK, CreateEscrow, Ids
<1>2. /\ o.amount \in Nat \ {0} /\ o.finishAfter \in Nat /\ o.cancelAfter \in Nat
      /\ o.conditionId \in Conditions \cup {NoCondition}
      /\ recipient \in Accounts /\ TimeOrderValid(o) /\ RefundDeadlineSet(o)
  BY OfferAssumption DEF CreateEscrow, ValidOffer, Offer
<1>3. Ledger'.escrows[id] =
        [sender |-> a, recipient |-> recipient, amount |-> o.amount,
         finishAfter |-> o.finishAfter, cancelAfter |-> o.cancelAfter,
         conditionId |-> o.conditionId, settled |-> FALSE]
  BY <1>1 DEF CreateEscrow, Ledger
<1>4. a # NoAddress
  BY AddressAssumption DEF Addresses
<1>5. Opened(Ledger, Ledger', id)
  <2>1. Status(Ledger, id) = "none"
    <3>1. escrows[id].sender = NoAddress
      BY <1>1, LedgerInvUnfolded DEF IInv, VariablesInv
    <3> QED
      BY <3>1 DEF Status, Ledger
  <2>2. Status(Ledger', id) = "live"
    BY <1>3, <1>4 DEF Status
  <2>3. TermsOf(Ledger', id) =
          [sender |-> a, recipient |-> recipient, finishAfter |-> o.finishAfter,
           cancelAfter |-> o.cancelAfter, condition |-> o.conditionId]
    BY <1>3, <1>4 DEF TermsOf
  <2>4. TermsOf(Ledger', id) \in Lifecycle!Terms
    BY <1>2, <2>3 DEF Lifecycle!Terms
  <2>5. Lifecycle!Agreeable(TermsOf(Ledger', id))
    BY <1>2, <2>3 DEF Lifecycle!Agreeable, TimeOrderValid, RefundDeadlineSet
  <2> QED
    BY <1>2, <1>3, <2>1, <2>2, <2>4, <2>5 DEF Opened
<1>6. ASSUME NEW k \in Ids \ {id} PROVE Kept(Ledger, Ledger', k)
  <2>1. escrows'[k] = escrows[k]
    BY <1>1 DEF CreateEscrow
  <2>2. log' = Append(log, e) /\ e.event # "EscrowFinished"
    BY DEF CreateEscrow, Emitted
  <2> HIDE DEF e
  <2> QED
    BY <1>1, <2>1, <2>2, RestKept
<1> QED
  BY <1>1, <1>5, <1>6

\* Settling an open escrow is a transaction of its own.
LEMMA SettleTransacts ==
    ASSUME IInv, TermsTyped(Ledger), NEW id \in Ids, Open(id),
           NEW event \in SettlementEvents, NEW payee, NEW receipt,
           event = "EscrowFinished" =>
               /\ ReleaseWindowOpen(id)
               /\ escrows[id].conditionId \in fulfilled \cup {NoCondition},
           event = "EscrowCancelled" => RefundWindowOpen(id),
           Settle(id, event, payee, receipt)
    PROVE  Transacted(Ledger, Ledger', block, fulfilled)
<1> DEFINE e == [event |-> event, escrowId |-> id, account |-> payee,
                 amount |-> escrows[id].amount, at |-> block, receipt |-> receipt]
<1>1. TypeOK /\ log \in Seq(Event) /\ block \in Nat \ {0} /\ escrows \in [Ids -> EscrowDB]
  BY LedgerType, BoundAssumption DEF IInv, TypeOK
<1>2. log' = Append(log, e) /\ e.event = event /\ e.escrowId = id
  BY DEF Settle, Emitted
<1> HIDE DEF e
<1>3. ASSUME NEW k \in Ids \ {id} PROVE Kept(Ledger, Ledger', k)
  <2>1. escrows'[k] = escrows[k]
    BY <1>1 DEF Settle
  <2> QED
    BY <1>1, <1>2, <2>1, RestKept
<1>4. /\ Ledger.escrows[id] = escrows[id] /\ Ledger.log = log
      /\ Ledger'.escrows[id] = SettledRecord(escrows[id]) /\ Ledger'.log = log'
  BY <1>1 DEF Settle, Ledger
<1>5. /\ Ledger'.escrows[id].sender = escrows[id].sender
      /\ Ledger'.escrows[id].recipient = escrows[id].recipient
      /\ Ledger'.escrows[id].finishAfter = escrows[id].finishAfter
      /\ Ledger'.escrows[id].cancelAfter = escrows[id].cancelAfter
      /\ Ledger'.escrows[id].conditionId = escrows[id].conditionId
      /\ Ledger'.escrows[id].settled = TRUE
      /\ Ledger'.escrows[id].amount = 0
  <2>1. escrows[id] \in EscrowDB
    BY <1>1
  <2> QED
    BY <1>4, <2>1 DEF SettledRecord, EscrowDB
<1>6. Status(Ledger, id) = "live"
  BY <1>4 DEF Open, Exists, Status
<1>7. TermsOf(Ledger', id) = TermsOf(Ledger, id)
  BY <1>4, <1>5 DEF TermsOf
<1>8. \A i \in DOMAIN log : ~(log[i].event = "EscrowFinished" /\ log[i].escrowId = id)
  BY LedgerInvUnfolded DEF IInv, VariablesInv, IsSettlement, SettlementEvents, Open
<1>9. Status(Ledger', id) = IF event = "EscrowFinished" THEN "released" ELSE "refunded"
  <2>1. (\E i \in DOMAIN log' : log'[i].event = "EscrowFinished" /\ log'[i].escrowId = id)
        <=> event = "EscrowFinished"
    BY <1>1, <1>2, <1>8, Appended
  <2> QED
    BY <1>4, <1>5, <2>1 DEF Open, Exists, Status
<1>10. Released(Ledger, Ledger', id, block, fulfilled) \/ Refunded(Ledger, Ledger', id, block)
  <2>1. /\ TermsOf(Ledger, id).finishAfter = escrows[id].finishAfter
        /\ TermsOf(Ledger, id).cancelAfter = escrows[id].cancelAfter
        /\ TermsOf(Ledger, id).condition = escrows[id].conditionId
    BY <1>4, TermsFields DEF Open, Exists
  <2>2. CASE event = "EscrowFinished"
    <3>1. block >= escrows[id].finishAfter
      BY <1>1, <2>2 DEF ReleaseWindowOpen
    <3> QED
      BY <1>5, <1>6, <1>7, <1>9, <2>1, <2>2, <3>1 DEF Released, Left
  <2>3. CASE event = "EscrowCancelled"
    BY <1>5, <1>6, <1>7, <1>9, <2>1, <2>3 DEF Refunded, Left, RefundWindowOpen
  <2> QED
    BY <2>2, <2>3 DEF SettlementEvents
<1>11. TermsTyped(Ledger')
  BY <1>3, <1>5, <1>7 DEF TermsTyped, Kept
<1> QED
  BY <1>3, <1>10, <1>11 DEF Transacted, Kept, Gone

-----------------------------------------------------------------------------
(***************************************************************************)
(* The invariant of the refinement                                         *)
(***************************************************************************)

\* The committed ledger and the current one are one transaction apart.
RInv ==
    /\ IInv
    /\ TermsTyped(Committed)
    /\ Transacted(Committed, Ledger, block, fulfilled)

\* The committed ledger, outside a settlement and inside one.
LEMMA CommittedLedger ==
    ASSUME TypeOK
    PROVE  /\ frames = <<>> => Committed = Ledger
           /\ frames # <<>> => /\ Len(frames) = 1
                               /\ Head(frames) = frames[1]
                               /\ Committed = frames[1].saved
BY DEF TypeOK, Committed

\* No time has passed between a ledger and itself.
LEMMA NothingTransacted ==
    ASSUME NEW l, NEW t, NEW met, TermsTyped(l)
    PROVE  Transacted(l, l, t, met)
BY DEF Transacted, Kept, Gone

\* A transaction between committed ledgers is one of the abstract
\* specification.
LEMMA TransactMaps ==
    ASSUME Transacted(Committed, Committed', block, fulfilled),
           UNCHANGED <<block, fulfilled>>
    PROVE  Lifecycle!Transact
<1> DEFINE terms  == [id \in Ids |-> TermsOf(Committed, id)]
           status == [id \in Ids |-> Status(Committed, id)]
           held   == [id \in Ids |-> Committed.escrows[id].amount]
<1>1. PICK s, l : s = Committed /\ l = Committed'
  OBVIOUS
<1>2. /\ \A k \in Ids : /\ terms[k] = TermsOf(s, k) /\ terms'[k] = TermsOf(l, k)
                        /\ status[k] = Status(s, k) /\ status'[k] = Status(l, k)
                        /\ held[k] = s.escrows[k].amount
                        /\ held'[k] = l.escrows[k].amount
      /\ DOMAIN terms' = Ids /\ DOMAIN status' = Ids /\ DOMAIN held' = Ids
  BY <1>1
<1>3. Transacted(s, l, block, fulfilled)
  BY <1>1
<1>4. /\ terms' \in [Ids -> Lifecycle!Terms \cup {ZeroEscrow}]
      /\ held' \in [Ids -> Nat]
  BY <1>1, <1>3 DEF Transacted, TermsTyped
<1>5. status' \in [Ids -> {"none", "live", "released", "refunded"}]
  BY DEF Status
<1>6. ASSUME NEW k \in Ids
      PROVE  \/ Lifecycle!Opens(k) \/ Lifecycle!Releases(k)
             \/ Lifecycle!Refunds(k) \/ Lifecycle!Keeps(k)
  <2>1. CASE Kept(s, l, k)
    BY <1>2, <2>1 DEF Kept, Lifecycle!Keeps
  <2>2. CASE Opened(s, l, k)
    BY <1>2, <2>2 DEF Opened, Lifecycle!Opens
  <2>3. CASE Released(s, l, k, block, fulfilled)
    BY <1>2, <2>3 DEF Released, Left, Lifecycle!Releases, Lifecycle!Leaves
  <2>4. CASE Refunded(s, l, k, block)
    BY <1>2, <2>4 DEF Refunded, Left, Lifecycle!Refunds, Lifecycle!Leaves
  <2> QED
    BY <1>3, <2>1, <2>2, <2>3, <2>4 DEF Transacted
<1>7. \A k, j \in Ids : Lifecycle!Settles(k) /\ Lifecycle!Settles(j) => k = j
  BY <1>2, <1>3 DEF Transacted, Gone, Lifecycle!Settles
<1> QED
  BY <1>4, <1>5, <1>6, <1>7 DEF Lifecycle!Transact

\* A committed ledger that looks the same is no abstract step.
LEMMA StutterMaps ==
    ASSUME \A k \in Ids : Kept(Committed, Committed', k), UNCHANGED <<block, fulfilled>>
    PROVE  UNCHANGED Lifecycle!vars
BY DEF Kept, Lifecycle!vars

\* Deployment is an initial state of the abstract specification.
LEMMA InitMaps == Init => RInv /\ Lifecycle!Init
<1> SUFFICES ASSUME Init PROVE RInv /\ Lifecycle!Init
  OBVIOUS
<1>1. IInv
  <2>1. VariablesInv
    BY DEF Init, VariablesInv, ZeroEscrow, SettledOnce, RefundAfterReleaseWindow,
           TimeOrderValid
  <2> QED
    BY <2>1, InitType, LedgerInvUnfolded DEF Init, IInv
<1>2. Committed = Ledger
  BY DEF Init, Committed
<1>3. \A k \in Ids : /\ TermsOf(Ledger, k) = ZeroEscrow
                     /\ Status(Ledger, k) = "none"
                     /\ Ledger.escrows[k].amount = 0
  BY DEF Init, Ledger, ZeroEscrow, TermsOf, Status
<1>4. TermsTyped(Ledger)
  BY <1>3 DEF TermsTyped
<1>5. RInv
  BY <1>1, <1>2, <1>4, NothingTransacted DEF RInv
<1>6. Lifecycle!Init
  BY <1>2, <1>3 DEF Lifecycle!Init, Init
<1> QED
  BY <1>5, <1>6

\* Every step keeps the invariant and is a step of the abstract
\* specification or none: a settlement is none when it begins, a
\* transaction when it returns, and never was when it reverts.
LEMMA StepMaps ==
    ASSUME RInv, IInv', [Next]_vars
    PROVE  RInv' /\ [Lifecycle!Next]_Lifecycle!vars
<1>1. /\ IInv /\ TypeOK /\ TypeOK'
      /\ TermsTyped(Committed)
      /\ Transacted(Committed, Ledger, block, fulfilled)
      /\ TermsTyped(Ledger)
  BY DEF RInv, IInv, Transacted
<1>2. ASSUME Transacted(Committed', Ledger', block', fulfilled'), TermsTyped(Committed')
      PROVE  RInv'
  BY <1>2 DEF RInv
<1>3. ASSUME Committed' = Ledger', TermsTyped(Ledger')
      PROVE  RInv'
  BY <1>2, <1>3, NothingTransacted
<1>4. ASSUME Committed' = Committed, UNCHANGED <<block, fulfilled>>,
             Transacted(Committed, Ledger', block, fulfilled)
      PROVE  RInv' /\ UNCHANGED Lifecycle!vars
  BY <1>1, <1>2, <1>4 DEF Lifecycle!vars
<1>5. ASSUME NEW a \in Accounts, NEW recipient \in Accounts \cup {NoAddress},
             NEW o \in Offers, CreateEscrow(a, recipient, o)
      PROVE  RInv' /\ [Lifecycle!Next]_Lifecycle!vars
  <2>1. Transacted(Committed, Ledger', block, fulfilled)
    BY <1>1, <1>5, CreateOpens, OpensMore
  <2>2. frames' = frames /\ UNCHANGED <<block, fulfilled>>
    BY <1>5 DEF CreateEscrow
  <2>3. CASE frames = <<>>
    <3>1. Committed' = Ledger'
      BY <2>2, <2>3 DEF Committed
    <3>2. Lifecycle!Transact
      BY <2>1, <2>2, <3>1, TransactMaps
    <3> QED
      BY <1>3, <2>1, <3>1, <3>2 DEF Transacted, Lifecycle!Next
  <2>4. CASE frames # <<>>
    <3>1. Committed' = Committed
      BY <2>2, <2>4 DEF Committed
    <3> QED
      BY <1>4, <2>1, <2>2, <3>1
  <2> QED
    BY <2>3, <2>4
<1>6. ASSUME NEW id \in Ids, NEW event \in SettlementEvents, NEW payee, NEW receipt,
             NotEntered, Settle(id, event, payee, receipt),
             Transacted(Ledger, Ledger', block, fulfilled)
      PROVE  RInv' /\ [Lifecycle!Next]_Lifecycle!vars
  <2>1. frames = <<>> /\ Committed = Ledger
    BY <1>1, <1>6 DEF TypeOK, NotEntered, Committed
  <2>2. frames' = <<[payee |-> payee, saved |-> Ledger]>>
    BY <1>6, <2>1 DEF Settle
  <2>3. Committed' = Ledger
    BY <2>2 DEF Committed
  <2> QED
    BY <1>4, <1>6, <2>1, <2>3 DEF Settle
<1>7. ASSUME NEW a \in Accounts, NEW id \in Ids, FinishEscrow(a, id)
      PROVE  RInv' /\ [Lifecycle!Next]_Lifecycle!vars
  <2>1. PICK receipt \in AcceptedReceipts(id) :
           Settle(id, "EscrowFinished", escrows[id].recipient, receipt)
    BY <1>7 DEF FinishEscrow
  <2>2. Transacted(Ledger, Ledger', block, fulfilled)
    BY <1>1, <1>7, <2>1, AcceptedProves, SettleTransacts
       DEF FinishEscrow, SettlementEvents
  <2> QED
    BY <1>6, <1>7, <2>1, <2>2 DEF FinishEscrow, SettlementEvents
<1>8. ASSUME NEW a \in Accounts, NEW id \in Ids, CancelEscrow(a, id)
      PROVE  RInv' /\ [Lifecycle!Next]_Lifecycle!vars
  <2>1. Transacted(Ledger, Ledger', block, fulfilled)
    BY <1>1, <1>8, SettleTransacts DEF CancelEscrow, SettlementEvents
  <2> QED
    BY <1>6, <1>8, <2>1 DEF CancelEscrow, SettlementEvents
<1>9. CASE PayeeReturns
  <2>1. /\ frames # <<>> /\ Alike(Ledger, Ledger')
        /\ UNCHANGED <<block, fulfilled>>
    BY <1>9 DEF PayeeReturns, Alike, Ledger
  <2>2. frames' = <<>> /\ Committed' = Ledger'
    BY <1>1, <1>9 DEF PayeeReturns, TypeOK, Committed
  <2>3. Transacted(Committed, Ledger', block, fulfilled) /\ TermsTyped(Ledger')
    BY <1>1, <2>1, AlikeKeeps
  <2>4. Lifecycle!Transact
    BY <2>1, <2>2, <2>3, TransactMaps
  <2> QED
    BY <1>3, <2>2, <2>3, <2>4 DEF Lifecycle!Next
<1>10. CASE PayeeReverts
  <2>1. frames # <<>> /\ Committed = Head(frames).saved /\ UNCHANGED <<block, fulfilled>>
    BY <1>1, <1>10, CommittedLedger DEF PayeeReverts
  <2>2. frames' = <<>> /\ Committed' = Ledger'
    BY <1>1, <1>10 DEF PayeeReverts, TypeOK, Committed
  <2>3. Alike(Committed, Committed')
    BY <1>10, <2>1, <2>2 DEF PayeeReverts, Restore, Alike, Ledger
  <2>4. (\A k \in Ids : Kept(Committed, Committed', k)) /\ TermsTyped(Committed')
    BY <1>1, <2>3, AlikeKeeps
  <2> QED
    BY <1>3, <2>1, <2>2, <2>4, StutterMaps
<1>11. CASE NextBlock
  <2>1. frames = <<>> /\ Committed = Ledger /\ Committed' = Ledger' /\ Ledger' = Ledger
    BY <1>11 DEF NextBlock, Committed, Ledger
  <2>2. Lifecycle!Elapse
    BY <1>11, <2>1 DEF NextBlock, Lifecycle!Elapse
  <2> QED
    BY <1>1, <1>3, <2>1, <2>2 DEF Lifecycle!Next
<1>12. ASSUME NEW c \in Conditions, Fulfil(c)
       PROVE  RInv' /\ [Lifecycle!Next]_Lifecycle!vars
  <2>1. Committed' = Committed /\ Ledger' = Ledger /\ block' = block
        /\ fulfilled \subseteq fulfilled'
    BY <1>12 DEF Fulfil, Committed, Ledger
  <2>2. Transacted(Committed', Ledger', block', fulfilled')
    BY <1>1, <2>1, LearnsMore
  <2>3. Lifecycle!Learn
    BY <1>12, <2>1 DEF Fulfil, Lifecycle!Learn
  <2> QED
    BY <1>1, <1>2, <2>1, <2>2, <2>3 DEF Lifecycle!Next
<1>13. CASE UNCHANGED vars
  <2>1. Committed' = Committed /\ Ledger' = Ledger /\ UNCHANGED <<block, fulfilled>>
    BY <1>13 DEF vars, Committed, Ledger
  <2> QED
    BY <1>1, <1>4, <2>1
<1> QED
  BY <1>5, <1>7, <1>8, <1>9, <1>10, <1>11, <1>12, <1>13 DEF Next, Idle

\* The contract keeps the promise of every agent, rollbacks and callbacks
\* included: EthereumEscrow implements EscrowLifecycle.
THEOREM ImplementsLifecycle == Spec => LifecycleSpec
<1>1. Init => RInv /\ Lifecycle!Init
  BY InitMaps
<1>2. RInv /\ IInv' /\ [Next]_vars => RInv' /\ [Lifecycle!Next]_Lifecycle!vars
  BY StepMaps
<1> QED
  BY <1>1, <1>2, Invariance, PTL DEF Spec, LifecycleSpec, Lifecycle!Spec
=============================================================================
