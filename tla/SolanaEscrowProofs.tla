------------------------ MODULE SolanaEscrowProofs -------------------------
(***************************************************************************)
(* Theorems about SolanaEscrow for every set of wallets and ids, every     *)
(* choice of arguments, every rent reserve and every bound.                *)
(***************************************************************************)
EXTENDS SolanaEscrow, SumTheorems, TLAPS

-----------------------------------------------------------------------------
(***************************************************************************)
(* Type correctness                                                        *)
(***************************************************************************)

\* An event built from well-typed parts extends a well-typed log.
LEMMA EmittedType ==
    ASSUME NEW action \in {"Created", "Finished", "Cancelled"},
           NEW addr \in Address, NEW amount \in Nat,
           NEW args \in Args \cup {NoArgs}, NEW receipt \in Journal \cup {NoReceipt, OwnClaim},
           log \in Seq(Event), slot \in Nat
    PROVE  Emitted(action, addr, amount, args, receipt) \in Seq(Event)
BY DEF Emitted, Event

\* What an address stores has the account's type and names the address.
LEMMA StoredType ==
    ASSUME NEW addr \in Address, NEW o \in Offers
    PROVE  /\ Stored(addr, o) \in EscrowAccount
           /\ addr = <<Stored(addr, o).sender, Stored(addr, o).recipient, Stored(addr, o).id>>
<1>1. o \in Args
  BY OfferAssumption
<1>2. /\ addr[1] \in Wallets /\ addr[2] \in Wallets /\ addr[3] \in EscrowIds
      /\ addr = <<addr[1], addr[2], addr[3]>>
  BY DEF Address
<1> QED
  BY <1>1, <1>2 DEF Stored, EscrowAccount, Args

\* Closing an account pays its whole balance out.
LEMMA ClosedType ==
    ASSUME TypeOK, NEW addr \in Address, Live(addr),
           NEW payee \in Wallets, NEW amount \in Nat, amount <= vault[addr]
    PROVE  Closed(addr, payee, amount) \in [Wallets -> Nat]
<1>1. vault[addr] - amount \in Nat
  BY DEF TypeOK
<1>2. lamports \in [Wallets -> Nat]
  BY DEF TypeOK
<1> QED
  BY <1>1, <1>2 DEF Closed

\* The types of the fields of an account in use.
LEMMA AccountType ==
    ASSUME TypeOK, NEW addr \in Address, Live(addr)
    PROVE  /\ accounts[addr] \in EscrowAccount
           /\ accounts[addr].amount \in Nat
           /\ accounts[addr].sender \in Wallets
           /\ accounts[addr].recipient \in Wallets
           /\ addr = <<accounts[addr].sender, accounts[addr].recipient, accounts[addr].id>>
BY DEF TypeOK, Live, EscrowAccount

\* The journal of an account is one of the journals, and the only one a
\* receipt the program described to the router can attest.
LEMMA ReceiptType ==
    ASSUME NEW e \in EscrowAccount, NEW receipt \in AcceptedReceipts(e)
    PROVE  /\ receipt \in Journal \cup {NoReceipt, OwnClaim}
           /\ receipt \in Journal => receipt = reconstruct_journal(e)
<1>1. reconstruct_journal(e) \in Journal
  BY DEF reconstruct_journal, Journal, EscrowAccount
<1> QED
  BY <1>1, ReceiptAssumption DEF AcceptedReceipts

\* Settlement, on either side: one event at the address, which is closed.
Settles(addr) ==
    /\ Live(addr)
    /\ \E action \in {"Finished", "Cancelled"}, receipt \in Journal \cup {NoReceipt, OwnClaim} :
          /\ log' = Emitted(action, addr, accounts[addr].amount, NoArgs, receipt)
          /\ receipt \in Journal => receipt = reconstruct_journal(accounts[addr])
    /\ vault' = [vault EXCEPT ![addr] = 0]
    /\ accounts' = [accounts EXCEPT ![addr] = NoAccount]
    /\ UNCHANGED <<slot, fulfilled, donations>>

\* Both instructions settle, and both pay out natural numbers of lamports.
LEMMA Settlements ==
    ASSUME TypeOK, NEW signer \in Wallets, NEW addr \in Address,
           finish_escrow(signer, addr) \/ cancel_escrow(signer, addr)
    PROVE  Settles(addr) /\ lamports' \in [Wallets -> Nat]
<1>1. CASE finish_escrow(signer, addr)
  <2>1. Live(addr) /\ accounts[addr].amount <= vault[addr]
    BY <1>1, AccountType DEF finish_escrow, TypeOK
  <2>2. PICK receipt \in AcceptedReceipts(accounts[addr]) :
           log' = Emitted("Finished", addr, accounts[addr].amount, NoArgs, receipt)
    BY <1>1 DEF finish_escrow
  <2>3. /\ receipt \in Journal \cup {NoReceipt, OwnClaim}
        /\ receipt \in Journal => receipt = reconstruct_journal(accounts[addr])
    BY <2>1, AccountType, ReceiptType
  <2>4. Closed(addr, accounts[addr].recipient, accounts[addr].amount) \in [Wallets -> Nat]
    BY <2>1, AccountType, ClosedType
  <2> QED
    BY <1>1, <2>1, <2>2, <2>3, <2>4 DEF finish_escrow, Settles
<1>2. CASE cancel_escrow(signer, addr)
  <2>1. Live(addr) /\ 0 <= vault[addr]
    BY <1>2 DEF cancel_escrow, TypeOK
  <2>2. Closed(addr, accounts[addr].sender, 0) \in [Wallets -> Nat]
    BY <2>1, AccountType, ClosedType
  <2> QED
    BY <1>2, <2>1, <2>2, ReceiptAssumption DEF cancel_escrow, Settles
<1> QED
  BY <1>1, <1>2

\* Deployment puts every variable in its type.
LEMMA InitType == Init => TypeOK
BY BoundAssumption DEF Init, TypeOK, Live

\* Every step keeps the types.
LEMMA StepType == TypeOK /\ [Next]_vars => TypeOK'
<1> SUFFICES ASSUME TypeOK, [Next]_vars PROVE TypeOK'
  OBVIOUS
<1>1. ASSUME NEW addr \in Address, NEW o \in Offers, create_escrow(addr, o)
      PROVE  TypeOK'
  <2>1. o \in Args /\ o.amount \in Nat
    BY OfferAssumption DEF Args
  <2>2. TopUp(addr) \in Nat
    BY BoundAssumption DEF TopUp, TypeOK
  <2>3. addr[1] \in Wallets
    BY DEF Address
  <2>4. lamports' \in [Wallets -> Nat]
    <3>1. /\ lamports' = [lamports EXCEPT ![addr[1]] = @ - TopUp(addr) - o.amount]
          /\ lamports[addr[1]] >= TopUp(addr) + o.amount
      BY <1>1 DEF create_escrow
    <3>2. lamports \in [Wallets -> Nat]
      BY DEF TypeOK
    <3>3. lamports[addr[1]] - TopUp(addr) - o.amount \in Nat
      BY <2>1, <2>2, <2>3, <3>1, <3>2
    <3> QED
      BY <3>1, <3>2, <3>3
  <2>5. vault' \in [Address -> Nat]
    <3>1. vault' = [vault EXCEPT ![addr] = @ + TopUp(addr) + o.amount]
      BY <1>1 DEF create_escrow
    <3>2. vault \in [Address -> Nat]
      BY DEF TypeOK
    <3> QED
      BY <2>1, <2>2, <3>1, <3>2
  <2>6. log' \in Seq(Event)
    <3>1. slot \in Nat /\ log \in Seq(Event)
      BY BoundAssumption DEF TypeOK
    <3>2. Emitted("Created", addr, o.amount, o, NoReceipt) \in Seq(Event)
      BY <2>1, <3>1, EmittedType
    <3> QED
      BY <1>1, <3>2 DEF create_escrow
  <2>7. accounts' = [accounts EXCEPT ![addr] = Stored(addr, o)]
    BY <1>1 DEF create_escrow
  <2>8. /\ accounts' \in [Address -> EscrowAccount \cup {NoAccount}]
        /\ \A a \in Address : Live(a)' =>
              a = <<accounts'[a].sender, accounts'[a].recipient, accounts'[a].id>>
    BY <2>7, StoredType DEF TypeOK, Live
  <2> QED
    BY <1>1, <2>4, <2>5, <2>6, <2>8 DEF create_escrow, TypeOK
<1>2. ASSUME NEW addr \in Address, Settles(addr), lamports' \in [Wallets -> Nat]
      PROVE  TypeOK'
  <2>1. log' \in Seq(Event)
    <3>1. slot \in Nat /\ log \in Seq(Event)
      BY BoundAssumption DEF TypeOK
    <3>2. accounts[addr].amount \in Nat
      BY <1>2, AccountType DEF Settles
    <3>3. PICK action \in {"Finished", "Cancelled"}, receipt \in Journal \cup {NoReceipt, OwnClaim} :
             log' = Emitted(action, addr, accounts[addr].amount, NoArgs, receipt)
      BY <1>2 DEF Settles
    <3> QED
      BY <3>1, <3>2, <3>3, EmittedType
  <2>2. /\ accounts' \in [Address -> EscrowAccount \cup {NoAccount}]
        /\ \A a \in Address : Live(a)' =>
              a = <<accounts'[a].sender, accounts'[a].recipient, accounts'[a].id>>
    BY <1>2 DEF Settles, TypeOK, Live
  <2>3. vault' \in [Address -> Nat]
    BY <1>2 DEF Settles, TypeOK
  <2> QED
    BY <1>2, <2>1, <2>2, <2>3 DEF Settles, TypeOK
<1>3. ASSUME NEW signer \in Wallets, NEW addr \in Address,
             finish_escrow(signer, addr) \/ cancel_escrow(signer, addr)
      PROVE  TypeOK'
  BY <1>2, <1>3, Settlements
<1>4. ASSUME NEW addr \in Address, Donate(addr)
      PROVE  TypeOK'
  BY <1>4, BoundAssumption DEF Donate, TypeOK, Live
<1>5. CASE NextSlot
  BY <1>5, BoundAssumption DEF NextSlot, TypeOK, Live
<1>6. ASSUME NEW c \in Conditions, Fulfil(c)
      PROVE  TypeOK'
  BY <1>6 DEF Fulfil, TypeOK, Live
<1>7. CASE UNCHANGED vars
  BY <1>7 DEF vars, TypeOK, Live
<1> QED
  BY <1>1, <1>3, <1>4, <1>5, <1>6, <1>7 DEF Next

\* Every variable keeps its type, and an account in use is at the address
\* derived from its own fields.
THEOREM TypeCorrect == Spec => []TypeOK
BY InitType, StepType, PTL DEF Spec

-----------------------------------------------------------------------------
(***************************************************************************)
(* The inductive invariant                                                 *)
(***************************************************************************)

\* Event k is the last at its address.
Last(k) == \A j \in DOMAIN log : j > k => log[j].address # log[k].address

\* LivesAlternate alone is not inductive: a settlement ends the life that is
\* open, and one must know that no other is.
LivesInv ==
    /\ \A k, i \in DOMAIN log :
          Ends(i, k) => (Happened(k, "Created") <=> ~Happened(i, "Created"))
    /\ \A addr \in Address : Live(addr) =>
          \E k \in DOMAIN log : /\ Happened(k, "Created") /\ Last(k)
                                /\ log[k].address = addr
    /\ \A k \in DOMAIN log : Happened(k, "Created") =>
          \/ \E i \in DOMAIN log : Ends(i, k)
          \/ Live(log[k].address) /\ Last(k)

\* A receipt the program described to the router names the address it was
\* used at.
ReceiptsBound ==
    \A i \in DOMAIN log : log[i].receipt \in Journal =>
        log[i].address = <<log[i].receipt.sender, log[i].receipt.recipient, log[i].receipt.id>>

IInv == TypeOK /\ VaultCovers /\ LivesInv /\ ReceiptsBound

\* A log one event longer, e at its end, at position n.
Extended(n, e) ==
    /\ n \in Nat \ {0}
    /\ DOMAIN log = 1 .. n - 1
    /\ DOMAIN log' = 1 .. n
    /\ \A i \in DOMAIN log : log'[i] = log[i]
    /\ log'[n] = e

LEMMA Appended ==
    ASSUME log \in Seq(Event), NEW e, log' = Append(log, e)
    PROVE  \E n : Extended(n, e)
<1>1. Len(log) + 1 \in Nat \ {0} /\ DOMAIN log = 1 .. (Len(log) + 1) - 1
  OBVIOUS
<1>2. /\ DOMAIN log' = 1 .. Len(log) + 1 /\ log'[Len(log) + 1] = e
      /\ \A i \in DOMAIN log : log'[i] = log[i]
  OBVIOUS
<1> QED
  BY <1>1, <1>2 DEF Extended

\* Which event ends which does not depend on what comes later, and the new
\* event ends those that were last at its address.
LEMMA EndsExtended ==
    ASSUME NEW n, NEW e, Extended(n, e)
    PROVE  /\ \A i, k \in DOMAIN log : Ends(i, k)' <=> Ends(i, k)
           /\ \A k \in DOMAIN log :
                 Ends(n, k)' <=> log[k].address = e.address /\ Last(k)
           /\ \A k \in DOMAIN log : Last(k)' <=> Last(k) /\ log[k].address # e.address
           /\ Last(n)'
           /\ \A k, i \in DOMAIN log' : Ends(i, k)' => k \in DOMAIN log
<1> USE DEF Extended
<1>1. ASSUME NEW i \in DOMAIN log, NEW k \in DOMAIN log
      PROVE  Ends(i, k)' <=> Ends(i, k)
  <2>1. \A j \in k + 1 .. i - 1 : j \in DOMAIN log
    OBVIOUS
  <2> QED
    BY <2>1 DEF Ends
<1>2. ASSUME NEW k \in DOMAIN log
      PROVE  Ends(n, k)' <=> log[k].address = e.address /\ Last(k)
  <2>1. /\ n > k /\ log'[k] = log[k] /\ log'[n] = e
        /\ \A j \in DOMAIN log : log'[j] = log[j]
    OBVIOUS
  <2>2. \A j : j \in k + 1 .. n - 1 <=> j \in DOMAIN log /\ j > k
    OBVIOUS
  <2>3. Ends(n, k)' <=> /\ e.address = log[k].address
                        /\ \A j \in DOMAIN log : j > k => log'[j].address # log[k].address
    BY <2>1, <2>2 DEF Ends
  <2> QED
    BY <2>1, <2>3 DEF Last
<1>3. ASSUME NEW k \in DOMAIN log
      PROVE  Last(k)' <=> Last(k) /\ log[k].address # e.address
  BY DEF Last
<1>4. Last(n)'
  BY DEF Last
<1>5. ASSUME NEW k \in DOMAIN log', NEW i \in DOMAIN log', Ends(i, k)'
      PROVE  k \in DOMAIN log
  BY <1>5 DEF Ends
<1> QED
  BY <1>1, <1>2, <1>3, <1>4, <1>5

\* A creation begins a life at an address where none is open.
LEMMA CreateLives ==
    ASSUME IInv, NEW addr \in Address, NEW o \in Offers, create_escrow(addr, o)
    PROVE  LivesInv'
<1> DEFINE f == [action |-> "Created", address |-> addr, amount |-> o.amount,
                 at |-> slot, args |-> o, receipt |-> NoReceipt]
<1>1. PICK n, e : Extended(n, e) /\ e.action = "Created" /\ e.address = addr
  <2>1. log \in Seq(Event) /\ log' = Append(log, f)
    BY DEF IInv, TypeOK, create_escrow, Emitted
  <2>2. f.action = "Created" /\ f.address = addr
    OBVIOUS
  <2> HIDE DEF f
  <2> QED
    BY <2>1, <2>2, Appended
<1>2. e.action = "Created" /\ e.address = addr
  BY <1>1
<1>3. /\ n \in DOMAIN log' /\ n \notin DOMAIN log
      /\ \A i \in DOMAIN log' : i \in DOMAIN log \/ i = n
      /\ \A i \in DOMAIN log : i \in DOMAIN log' /\ log'[i] = log[i]
      /\ log'[n] = e
  BY <1>1 DEF Extended
<1>4. /\ ~Live(addr) /\ Live(addr)'
      /\ \A a \in Address \ {addr} : Live(a)' <=> Live(a)
  BY StoredType, AccountAssumption DEF IInv, TypeOK, create_escrow, Vacant, Live
<1>5. \A k \in DOMAIN log : log[k].address \in Address
  <2>1. \A k \in DOMAIN log : log[k] \in Event
    BY DEF IInv, TypeOK
  <2> QED
    BY <2>1 DEF Event
<1>6. ASSUME NEW k \in DOMAIN log', NEW i \in DOMAIN log', Ends(i, k)'
      PROVE  Happened(k, "Created")' <=> ~Happened(i, "Created")'
  <2>1. k \in DOMAIN log
    BY <1>1, <1>6, EndsExtended
  <2>2. CASE i \in DOMAIN log
    BY <1>1, <1>3, <1>6, <2>1, <2>2, EndsExtended DEF IInv, LivesInv, Happened
  <2>3. CASE i = n
    <3>1. log[k].address = addr /\ Last(k)
      BY <1>1, <1>2, <1>6, <2>1, <2>3, EndsExtended
    <3>2. \A j \in DOMAIN log : ~Ends(j, k)
      BY <3>1 DEF Ends, Last
    <3>3. ~Happened(k, "Created")
      BY <1>4, <2>1, <3>1, <3>2 DEF IInv, LivesInv
    <3> QED
      BY <1>2, <1>3, <2>1, <2>3, <3>3 DEF Happened
  <2> QED
    BY <1>3, <2>2, <2>3
<1>7. ASSUME NEW a \in Address, Live(a)'
      PROVE  \E k \in DOMAIN log' : /\ Happened(k, "Created")' /\ Last(k)'
                                    /\ log'[k].address = a
  <2>1. CASE a = addr
    BY <1>1, <1>2, <1>3, <2>1, EndsExtended DEF Happened
  <2>2. CASE a # addr
    <3>1. PICK k \in DOMAIN log : /\ Happened(k, "Created") /\ Last(k)
                                  /\ log[k].address = a
      BY <1>4, <1>7, <2>2 DEF IInv, LivesInv
    <3> QED
      BY <1>1, <1>2, <1>3, <2>2, <3>1, EndsExtended DEF Happened
  <2> QED
    BY <2>1, <2>2
<1>8. ASSUME NEW k \in DOMAIN log', Happened(k, "Created")'
      PROVE  \/ \E i \in DOMAIN log' : Ends(i, k)'
             \/ Live(log[k].address)' /\ Last(k)'
  <2>1. CASE k = n
    BY <1>1, <1>2, <1>3, <1>4, <2>1, EndsExtended DEF Live
  <2>2. CASE k \in DOMAIN log
    <3>1. Happened(k, "Created") /\ log'[k] = log[k] /\ log[k].address \in Address
      BY <1>3, <1>5, <1>8, <2>2 DEF Happened
    <3>2. CASE \E i \in DOMAIN log : Ends(i, k)
      BY <1>1, <1>3, <2>2, <3>2, EndsExtended
    <3>3. CASE Live(log[k].address) /\ Last(k)
      BY <1>1, <1>2, <1>4, <2>2, <3>1, <3>3, EndsExtended DEF Live
    <3> QED
      BY <2>2, <3>1, <3>2, <3>3 DEF IInv, LivesInv
  <2> QED
    BY <1>3, <2>1, <2>2
<1> QED
  BY <1>6, <1>7, <1>8 DEF LivesInv, Live

\* A settlement ends the one life that is open at its address.
LEMMA SettleLives ==
    ASSUME IInv, NEW addr \in Address, Settles(addr)
    PROVE  LivesInv' /\ ReceiptsBound'
<1>1. PICK n, e :
         /\ Extended(n, e)
         /\ e.action # "Created" /\ e.address = addr
         /\ e.receipt \in Journal => e.receipt = reconstruct_journal(accounts[addr])
  <2>1. PICK action \in {"Finished", "Cancelled"}, receipt \in Journal \cup {NoReceipt, OwnClaim} :
           /\ log' = Emitted(action, addr, accounts[addr].amount, NoArgs, receipt)
           /\ receipt \in Journal => receipt = reconstruct_journal(accounts[addr])
    BY DEF Settles
  <2> DEFINE f == [action |-> action, address |-> addr, amount |-> accounts[addr].amount,
                   at |-> slot, args |-> NoArgs, receipt |-> receipt]
  <2>2. log \in Seq(Event) /\ log' = Append(log, f)
    BY <2>1 DEF IInv, TypeOK, Emitted
  <2>3. /\ f.action # "Created" /\ f.address = addr
        /\ f.receipt \in Journal => f.receipt = reconstruct_journal(accounts[addr])
    BY <2>1
  <2> HIDE DEF f
  <2> QED
    BY <2>2, <2>3, Appended
<1>2. /\ n \in DOMAIN log' /\ n \notin DOMAIN log
      /\ \A i \in DOMAIN log' : i \in DOMAIN log \/ i = n
      /\ \A i \in DOMAIN log : i \in DOMAIN log' /\ log'[i] = log[i]
      /\ log'[n] = e
  BY <1>1 DEF Extended
<1>3. /\ Live(addr)
      /\ \A a \in Address : Live(a)' <=> Live(a) /\ a # addr
  BY DEF IInv, TypeOK, Settles, Live
<1>4. \A k \in DOMAIN log : log[k].address \in Address
  <2>1. \A k \in DOMAIN log : log[k] \in Event
    BY DEF IInv, TypeOK
  <2> QED
    BY <2>1 DEF Event
<1>5. PICK open \in DOMAIN log : /\ Happened(open, "Created") /\ Last(open)
                                 /\ log[open].address = addr
  BY <1>3 DEF IInv, LivesInv
<1>6. ASSUME NEW k \in DOMAIN log, Last(k), log[k].address = addr
      PROVE  k = open
  <2>1. open \in Int /\ k \in Int
    BY <1>1 DEF Extended
  <2> QED
    BY <1>5, <1>6, <2>1 DEF Last
<1>7. ASSUME NEW k \in DOMAIN log', NEW i \in DOMAIN log', Ends(i, k)'
      PROVE  Happened(k, "Created")' <=> ~Happened(i, "Created")'
  <2>1. k \in DOMAIN log
    BY <1>1, <1>7, EndsExtended
  <2>2. CASE i \in DOMAIN log
    BY <1>1, <1>2, <1>7, <2>1, <2>2, EndsExtended DEF IInv, LivesInv, Happened
  <2>3. CASE i = n
    <3>1. k = open
      BY <1>1, <1>6, <1>7, <2>1, <2>3, EndsExtended
    <3> QED
      BY <1>1, <1>2, <1>5, <2>1, <2>3, <3>1 DEF Happened
  <2> QED
    BY <1>2, <2>2, <2>3
<1>8. ASSUME NEW a \in Address, Live(a)'
      PROVE  \E k \in DOMAIN log' : /\ Happened(k, "Created")' /\ Last(k)'
                                    /\ log'[k].address = a
  <2>1. PICK k \in DOMAIN log : /\ Happened(k, "Created") /\ Last(k)
                                /\ log[k].address = a
    BY <1>3, <1>8 DEF IInv, LivesInv
  <2> QED
    BY <1>1, <1>2, <1>3, <1>8, <2>1, EndsExtended DEF Happened
<1>9. ASSUME NEW k \in DOMAIN log', Happened(k, "Created")'
      PROVE  \/ \E i \in DOMAIN log' : Ends(i, k)'
             \/ Live(log[k].address)' /\ Last(k)'
  <2>1. k \in DOMAIN log /\ Happened(k, "Created") /\ log'[k] = log[k]
    BY <1>1, <1>2, <1>9 DEF Happened
  <2>2. CASE \E i \in DOMAIN log : Ends(i, k)
    BY <1>1, <1>2, <2>1, <2>2, EndsExtended
  <2>3. CASE Live(log[k].address) /\ Last(k)
    <3>1. CASE log[k].address = addr
      BY <1>1, <1>2, <2>1, <2>3, <3>1, EndsExtended
    <3>2. CASE log[k].address # addr
      <4>1. Last(k)'
        BY <1>1, <2>1, <2>3, <3>2, EndsExtended
      <4>2. Live(log[k].address)'
        BY <1>3, <1>4, <2>1, <2>3, <3>2
      <4> QED
        BY <2>1, <4>1, <4>2 DEF Live
    <3> QED
      BY <3>1, <3>2
  <2> QED
    BY <2>1, <2>2, <2>3 DEF IInv, LivesInv
<1>10. ReceiptsBound'
  <2>1. addr = <<accounts[addr].sender, accounts[addr].recipient, accounts[addr].id>>
    BY <1>3, AccountType DEF IInv
  <2>2. e.receipt \in Journal =>
          addr = <<e.receipt.sender, e.receipt.recipient, e.receipt.id>>
    BY <1>1, <2>1 DEF reconstruct_journal
  <2> QED
    BY <1>1, <1>2, <2>2 DEF IInv, ReceiptsBound
<1> QED
  BY <1>7, <1>8, <1>9, <1>10 DEF LivesInv, Live

\* No instruction takes from a vault that stays open, and a creation pays in
\* the amount and whatever the reserve lacks.
LEMMA StepCovers == TypeOK /\ VaultCovers /\ [Next]_vars => VaultCovers'
<1> SUFFICES ASSUME TypeOK, VaultCovers, [Next]_vars PROVE VaultCovers'
  OBVIOUS
<1>1. ASSUME NEW addr \in Address, NEW o \in Offers, create_escrow(addr, o)
      PROVE  VaultCovers'
  <2>1. o.amount \in Nat
    BY OfferAssumption DEF Args
  <2>2. vault[addr] + TopUp(addr) >= Rent /\ TopUp(addr) \in Nat
    BY BoundAssumption DEF TopUp, TypeOK
  <2>3. vault'[addr] >= o.amount + Rent
    BY <1>1, <2>1, <2>2, BoundAssumption DEF create_escrow, TypeOK
  <2>4. accounts'[addr].amount = o.amount
    BY <1>1 DEF create_escrow, Stored, TypeOK
  <2>5. \A a \in Address \ {addr} : accounts'[a] = accounts[a] /\ vault'[a] = vault[a]
    BY <1>1 DEF create_escrow, TypeOK
  <2> QED
    BY <2>3, <2>4, <2>5 DEF VaultCovers, Live
<1>2. ASSUME NEW signer \in Wallets, NEW addr \in Address,
             finish_escrow(signer, addr) \/ cancel_escrow(signer, addr)
      PROVE  VaultCovers'
  <2>1. Settles(addr)
    BY <1>2, Settlements
  <2>2. /\ ~Live(addr)'
        /\ \A a \in Address \ {addr} : accounts'[a] = accounts[a] /\ vault'[a] = vault[a]
    BY <2>1 DEF Settles, Live, TypeOK
  <2> QED
    BY <2>2 DEF VaultCovers, Live
<1>3. ASSUME NEW addr \in Address, Donate(addr)
      PROVE  VaultCovers'
  <2> SUFFICES ASSUME NEW a \in Address, Live(a)'
               PROVE  vault'[a] >= accounts'[a].amount + Rent
    BY DEF VaultCovers
  <2>1. Live(a) /\ accounts' = accounts
    BY <1>3 DEF Donate, Live
  <2>2. vault[a] >= accounts[a].amount + Rent /\ accounts[a].amount \in Nat
    BY <2>1, AccountType DEF VaultCovers
  <2>3. vault'[a] \in Nat /\ vault[a] \in Nat /\ vault'[a] >= vault[a]
    BY <1>3 DEF Donate, TypeOK
  <2> QED
    BY <2>1, <2>2, <2>3, BoundAssumption
<1>4. ASSUME UNCHANGED <<accounts, vault>>
      PROVE  VaultCovers'
  BY <1>4 DEF VaultCovers, Live
<1> QED
  BY <1>1, <1>2, <1>3, <1>4 DEF Next, NextSlot, Fulfil, vars

\* A log that stays as it is keeps what is said of it.
LEMMA UnchangedLives ==
    ASSUME LivesInv, ReceiptsBound, UNCHANGED <<accounts, log>>
    PROVE  LivesInv' /\ ReceiptsBound'
BY DEF LivesInv, ReceiptsBound, Live, Last, Ends, Happened

\* The invariant is inductive.
THEOREM Invariance == Spec => []IInv
<1>1. Init => IInv
  <2> SUFFICES ASSUME Init PROVE IInv
    OBVIOUS
  <2>1. TypeOK
    BY InitType
  <2>2. DOMAIN log = {} /\ \A a \in Address : ~Live(a)
    BY DEF Init, Live
  <2> QED
    BY <2>1, <2>2 DEF IInv, VaultCovers, LivesInv, ReceiptsBound
<1>2. IInv /\ [Next]_vars => IInv'
  <2> SUFFICES ASSUME IInv, [Next]_vars PROVE IInv'
    OBVIOUS
  <2>1. TypeOK' /\ VaultCovers'
    BY StepType, StepCovers DEF IInv
  <2>2. ASSUME NEW addr \in Address, NEW o \in Offers, create_escrow(addr, o)
        PROVE  LivesInv' /\ ReceiptsBound'
    <3>1. ReceiptsBound'
      <4> DEFINE e == [action |-> "Created", address |-> addr, amount |-> o.amount,
                       at |-> slot, args |-> o, receipt |-> NoReceipt]
      <4>1. log \in Seq(Event) /\ log' = Append(log, e) /\ e.receipt \notin Journal
        BY <2>2, ReceiptAssumption DEF IInv, TypeOK, create_escrow, Emitted
      <4> HIDE DEF e
      <4>2. PICK n : Extended(n, e)
        BY <4>1, Appended
      <4> QED
        BY <4>1, <4>2 DEF Extended, IInv, ReceiptsBound
    <3> QED
      BY <2>2, <3>1, CreateLives
  <2>3. ASSUME NEW signer \in Wallets, NEW addr \in Address,
               finish_escrow(signer, addr) \/ cancel_escrow(signer, addr)
        PROVE  LivesInv' /\ ReceiptsBound'
    BY <2>3, Settlements, SettleLives DEF IInv
  <2>4. ASSUME UNCHANGED <<accounts, log>>
        PROVE  LivesInv' /\ ReceiptsBound'
    BY <2>4, UnchangedLives DEF IInv
  <2>5. LivesInv' /\ ReceiptsBound'
    BY <2>2, <2>3, <2>4 DEF Next, Donate, NextSlot, Fulfil, vars
  <2> QED
    BY <2>1, <2>5 DEF IInv
<1> QED
  BY <1>1, <1>2, PTL DEF Spec

-----------------------------------------------------------------------------
(***************************************************************************)
(* The program's guarantees                                                *)
(***************************************************************************)

\* The account of an open escrow always covers its amount and the rent
\* reserve, however it was funded (finish_escrow's checked_sub never fails).
THEOREM AccountsCover == Spec => []VaultCovers
<1>1. IInv => VaultCovers
  BY DEF IInv
<1> QED
  BY <1>1, Invariance, PTL

\* One escrow is settled once even when its address and id are used again.
THEOREM LivesDoNotOverlap == Spec => []LivesAlternate
<1>1. IInv => LivesAlternate
  <2> SUFFICES ASSUME IInv PROVE LivesAlternate
    OBVIOUS
  <2>1. \A addr \in Address :
          Live(addr) => \E k \in DOMAIN log : /\ Happened(k, "Created")
                                              /\ log[k].address = addr
                                              /\ \A i \in DOMAIN log : ~Ends(i, k)
    BY DEF IInv, LivesInv, Last, Ends
  <2>2. \A addr \in Address :
          (\E k \in DOMAIN log : /\ Happened(k, "Created")
                                 /\ log[k].address = addr
                                 /\ \A i \in DOMAIN log : ~Ends(i, k)) => Live(addr)
    BY DEF IInv, LivesInv
  <2> QED
    BY <2>1, <2>2 DEF IInv, LivesInv, LivesAlternate
<1> QED
  BY <1>1, Invariance, PTL

\* A receipt checked against the program's own digest never serves escrows of
\* two addresses, whatever the seal arguments of other settlements held.
THEOREM ReceiptsStay == Spec => []ReceiptStaysAtAddress
<1>1. IInv => ReceiptStaysAtAddress
  BY DEF IInv, ReceiptsBound, ReceiptStaysAtAddress
<1> QED
  BY <1>1, Invariance, PTL

-----------------------------------------------------------------------------
(***************************************************************************)
(* The lamports                                                            *)
(***************************************************************************)

PaidOut(w)     == SumOf(Amounts, FinishedFrom(w))
PaidIn(w)     == SumOf(Amounts, FinishedTo(w))
InVaults(w) == SumOf(vault, Vaults(w))
InOpen(w)   == SumOf(Reserve, OpenedBy(w))

\* An event adds its amount to the sums it is part of and changes no other.
LEMMA AmountsAfter ==
    ASSUME log \in Seq(Event), NEW e \in Event, log' = Append(log, e),
           NEW S \in SUBSET DOMAIN log
    PROVE  /\ SumOf(Amounts, S) \in Nat
           /\ SumOf(Amounts', S) = SumOf(Amounts, S)
           /\ SumOf(Amounts', S \cup {Len(log) + 1}) = SumOf(Amounts, S) + e.amount
<1> DEFINE n == Len(log) + 1
<1>1. /\ Len(log) \in Nat /\ DOMAIN log = 1 .. Len(log) /\ n \notin DOMAIN log
      /\ DOMAIN log' = DOMAIN log \cup {n} /\ log'[n] = e
      /\ \A i \in DOMAIN log : log'[i] = log[i]
  OBVIOUS
<1>2. IsFiniteSet(S)
  <2>1. IsFiniteSet(DOMAIN log)
    BY <1>1, FS_Interval
  <2> QED
    BY <2>1, FS_Subset
<1>3. \A i \in DOMAIN log : log[i].amount \in Nat
  <2>1. \A i \in DOMAIN log : log[i] \in Event
    OBVIOUS
  <2> QED
    BY <2>1 DEF Event
<1> DEFINE f == Amounts
           g == Amounts'
<1>4. \A i \in S : f[i] \in Nat /\ g[i] = f[i]
  BY <1>1, <1>3 DEF Amounts
<1>5. g[n] = e.amount
  BY <1>1 DEF Amounts
<1>6. g[n] \in Nat
  BY <1>5 DEF Event
<1> HIDE DEF f, g, n
<1>7. SumOf(f, S) \in Nat
  BY <1>2, <1>4, SumType
<1>8. SumOf(g, S) = SumOf(f, S)
  BY <1>2, <1>4, SumSame
<1>9. PICK T : T = S \cup {n}
  OBVIOUS
<1>10. SumOf(g, T) = SumOf(f, S) + g[n]
  <2>1. n \notin S
    BY <1>1
  <2> QED
    BY ONLY <1>2, <1>4, <1>6, <1>9, <2>1, SumAdd
<1> QED
  BY <1>5, <1>7, <1>8, <1>9, <1>10 DEF f, g, n

\* What a wallet paid and received are natural numbers of lamports.
LEMMA PaymentsNat ==
    ASSUME log \in Seq(Event), NEW w
    PROVE  PaidOut(w) \in Nat /\ PaidIn(w) \in Nat
<1>1. IsFiniteSet(DOMAIN log) /\ \A i \in DOMAIN log : log[i] \in Event
  <2>1. DOMAIN log = 1 .. Len(log) /\ Len(log) \in Nat
    OBVIOUS
  <2> QED
    BY <2>1, FS_Interval
<1>2. /\ IsFiniteSet(FinishedFrom(w)) /\ FinishedFrom(w) \subseteq DOMAIN log
      /\ IsFiniteSet(FinishedTo(w)) /\ FinishedTo(w) \subseteq DOMAIN log
  <2>1. FinishedFrom(w) \in SUBSET DOMAIN log /\ FinishedTo(w) \in SUBSET DOMAIN log
    BY DEF FinishedFrom, FinishedTo
  <2> QED
    BY <1>1, <2>1, FS_Subset
<1>3. \A i \in DOMAIN log : Amounts[i] \in Nat
  BY <1>1 DEF Amounts, Event
<1> QED
  BY <1>2, <1>3, SumType DEF PaidOut, PaidIn

\* A release adds to what its sender paid and its recipient received.
LEMMA PaymentsAfter ==
    ASSUME log \in Seq(Event), NEW e \in Event, log' = Append(log, e), NEW w
    PROVE  /\ PaidOut(w) \in Nat /\ PaidIn(w) \in Nat
           /\ PaidOut(w)' = PaidOut(w) +
                (IF e.action = "Finished" /\ e.address[1] = w THEN e.amount ELSE 0)
           /\ PaidIn(w)' = PaidIn(w) +
                (IF e.action = "Finished" /\ e.address[2] = w THEN e.amount ELSE 0)
<1> DEFINE n == Len(log) + 1
<1>1. /\ n \notin DOMAIN log
      /\ DOMAIN log' = DOMAIN log \cup {n} /\ log'[n] = e
      /\ \A i \in DOMAIN log : log'[i] = log[i]
  OBVIOUS
<1>2. FinishedFrom(w)' = IF e.action = "Finished" /\ e.address[1] = w
                           THEN FinishedFrom(w) \cup {n} ELSE FinishedFrom(w)
  <2> HIDE DEF n
  <2> QED
    BY <1>1 DEF FinishedFrom, Happened
<1>3. FinishedTo(w)' = IF e.action = "Finished" /\ e.address[2] = w
                         THEN FinishedTo(w) \cup {n} ELSE FinishedTo(w)
  <2> HIDE DEF n
  <2> QED
    BY <1>1 DEF FinishedTo, Happened
<1>4. FinishedFrom(w) \in SUBSET DOMAIN log /\ FinishedTo(w) \in SUBSET DOMAIN log
  BY DEF FinishedFrom, FinishedTo
<1>5. /\ PaidOut(w) \in Nat /\ SumOf(Amounts', FinishedFrom(w)) = PaidOut(w)
      /\ SumOf(Amounts', FinishedFrom(w) \cup {n}) = PaidOut(w) + e.amount
  BY <1>4, AmountsAfter DEF PaidOut
<1>6. /\ PaidIn(w) \in Nat /\ SumOf(Amounts', FinishedTo(w)) = PaidIn(w)
      /\ SumOf(Amounts', FinishedTo(w) \cup {n}) = PaidIn(w) + e.amount
  BY <1>4, AmountsAfter DEF PaidIn
<1>7. PaidOut(w)' = SumOf(Amounts', FinishedFrom(w)') /\ PaidIn(w)' = SumOf(Amounts', FinishedTo(w)')
  BY DEF PaidOut, PaidIn
<1> HIDE DEF n
<1> QED
  BY <1>2, <1>3, <1>5, <1>6, <1>7

\* An instruction that touches one address changes the sums over addresses of
\* its sender by as much as it changes that address, and no other sum.
LEMMA VaultsAfter ==
    ASSUME IInv, IInv', IsFiniteSet(Funded), NEW addr \in Address, NEW w,
           \A a \in Address \ {addr} : vault'[a] = vault[a] /\ accounts'[a] = accounts[a]
    PROVE  /\ IsFiniteSet(Funded)'
           /\ InVaults(w) \in Nat /\ InOpen(w) \in Nat
           /\ InVaults(w)' = InVaults(w) +
                (IF addr[1] = w THEN vault'[addr] - vault[addr] ELSE 0)
           /\ InOpen(w)' = InOpen(w) +
                (IF addr[1] = w THEN Reserve'[addr] - Reserve[addr] ELSE 0)
<1>1. /\ vault \in [Address -> Nat] /\ vault' \in [Address -> Nat]
      /\ \A a \in Address : Reserve[a] \in Nat /\ Reserve'[a] \in Nat
  <2>1. \A a \in Address : Live(a) => accounts[a].amount \in Nat
    BY DEF IInv, TypeOK, Live, EscrowAccount
  <2>2. \A a \in Address : Live(a)' => accounts'[a].amount \in Nat
    BY DEF IInv, TypeOK, Live, EscrowAccount
  <2>3. \A a \in Address : Reserve[a] \in Nat
    BY <2>1, BoundAssumption DEF Reserve
  <2>4. \A a \in Address : Reserve'[a] \in Nat
    BY <2>2, BoundAssumption DEF Reserve
  <2> QED
    BY <2>3, <2>4 DEF IInv, TypeOK
<1>2. IsFiniteSet(Funded)'
  <2>1. IsFiniteSet(Funded \cup {addr})
    BY FS_AddElement
  <2>2. Funded' \in SUBSET (Funded \cup {addr})
    BY DEF Funded
  <2> QED
    BY <2>1, <2>2, FS_Subset
<1>3. /\ \A a \in OpenedBy(w) : a[1] = w
      /\ OpenedBy(w) \subseteq Funded /\ OpenedBy(w)' \subseteq Funded'
  <2>1. \A a \in Address : Live(a) => vault[a] # 0 /\ accounts[a].sender = a[1]
    <3> SUFFICES ASSUME NEW a \in Address, Live(a)
                 PROVE  vault[a] # 0 /\ accounts[a].sender = a[1]
      OBVIOUS
    <3>1. accounts[a].amount \in Nat /\ accounts[a].sender = a[1]
      BY AccountType DEF IInv
    <3>2. vault[a] >= accounts[a].amount + Rent
      BY DEF IInv, VaultCovers
    <3> QED
      BY <1>1, <3>1, <3>2, BoundAssumption
  <2>2. \A a \in Address : Live(a)' => vault'[a] # 0
    <3> SUFFICES ASSUME NEW a \in Address, Live(a)'
                 PROVE  vault'[a] # 0
      OBVIOUS
    <3>1. accounts'[a] \in EscrowAccount
      BY DEF IInv, TypeOK, Live
    <3>2. vault'[a] >= accounts'[a].amount + Rent
      BY DEF IInv, VaultCovers
    <3> QED
      BY <1>1, <3>1, <3>2, BoundAssumption DEF EscrowAccount
  <2> QED
    BY <2>1, <2>2 DEF OpenedBy, Funded
<1>4. /\ \A a \in Address : Live(a) => accounts[a].sender = a[1]
      /\ \A a \in Address : Live(a)' => accounts'[a].sender = a[1]
  BY DEF IInv, TypeOK
<1>5. /\ IsFiniteSet(Vaults(w)) /\ IsFiniteSet(Vaults(w)')
      /\ IsFiniteSet(OpenedBy(w)) /\ IsFiniteSet(OpenedBy(w)')
      /\ Vaults(w) \subseteq Address /\ OpenedBy(w) \subseteq Address
  <2>1. \A T \in SUBSET Funded : IsFiniteSet(T)
    BY FS_Subset
  <2>2. \A T \in SUBSET Funded' : IsFiniteSet(T)
    BY <1>2, FS_Subset
  <2>3. Vaults(w) \subseteq Funded /\ Vaults(w)' \subseteq Funded' /\ Funded \subseteq Address
    BY DEF Vaults, Funded
  <2> QED
    BY <1>3, <2>1, <2>2, <2>3
<1>6. /\ Vaults(w) \ {addr} = Vaults(w)' \ {addr}
      /\ OpenedBy(w) \ {addr} = OpenedBy(w)' \ {addr}
      /\ addr[1] # w => addr \notin Vaults(w) /\ addr \notin Vaults(w)'
                          /\ addr \notin OpenedBy(w) /\ addr \notin OpenedBy(w)'
      /\ addr[1] = w => /\ addr \in Vaults(w) \/ vault[addr] = 0
                        /\ addr \in Vaults(w)' \/ vault'[addr] = 0
                        /\ addr \in OpenedBy(w) \/ Reserve[addr] = 0
                        /\ addr \in OpenedBy(w)' \/ Reserve'[addr] = 0
  <2>1. \A a \in Address : (a \in Vaults(w) <=> vault[a] # 0 /\ a[1] = w)
                          /\ (a \in Vaults(w)' <=> vault'[a] # 0 /\ a[1] = w)
    BY DEF Vaults, Funded
  <2>2. \A a \in Address : Live(a) <=> accounts[a] # NoAccount
    BY DEF Live
  <2>3. \A a \in Address : Live(a)' <=> accounts'[a] # NoAccount
    BY DEF Live
  <2>4. \A a \in Address : a \in OpenedBy(w) <=> Live(a) /\ a[1] = w
    BY <1>4 DEF OpenedBy
  <2>5. \A a \in Address : a \in OpenedBy(w)' <=> Live(a)' /\ a[1] = w
    BY <1>4 DEF OpenedBy
  <2>6. /\ Vaults(w) \subseteq Address /\ Vaults(w)' \subseteq Address
        /\ OpenedBy(w) \subseteq Address /\ OpenedBy(w)' \subseteq Address
    BY DEF Vaults, Funded, OpenedBy
  <2>7. Vaults(w) \ {addr} = Vaults(w)' \ {addr}
    BY <2>1, <2>6
  <2>8. OpenedBy(w) \ {addr} = OpenedBy(w)' \ {addr}
    BY <2>2, <2>3, <2>4, <2>5, <2>6
  <2>9. (~Live(addr) => Reserve[addr] = 0) /\ (~Live(addr)' => Reserve'[addr] = 0)
    BY DEF Reserve
  <2> QED
    BY <2>1, <2>4, <2>5, <2>7, <2>8, <2>9
<1>7. \A a \in Address \ {addr} : Reserve'[a] = Reserve[a]
  BY DEF Reserve, Live
<1>8. InVaults(w) \in Nat /\ InOpen(w) \in Nat
  BY <1>1, <1>5, SumType DEF InVaults, InOpen
<1>9. CASE addr[1] = w
  <2> DEFINE S == Vaults(w)  T == Vaults(w)'
             U == OpenedBy(w)  V == OpenedBy(w)'
             r == Reserve    s == Reserve'
  <2>1. SumOf(vault', T) = SumOf(vault, S) - vault[addr] + vault'[addr]
    <3>1. /\ IsFiniteSet(S) /\ IsFiniteSet(T) /\ S \ {addr} = T \ {addr}
          /\ addr \in S \/ vault[addr] = 0
          /\ addr \in T \/ vault'[addr] = 0
      BY <1>5, <1>6, <1>9
    <3>2. vault[addr] \in Nat /\ vault'[addr] \in Nat
      BY <1>1
    <3>3. \A a \in S \ {addr} : vault[a] \in Nat /\ vault'[a] = vault[a]
      BY <1>1, <1>5
    <3> HIDE DEF S, T
    <3> QED
      BY ONLY <3>1, <3>2, <3>3, SumChange
  <2>2. SumOf(s, V) = SumOf(r, U) - r[addr] + s[addr]
    <3>1. /\ IsFiniteSet(U) /\ IsFiniteSet(V) /\ U \ {addr} = V \ {addr}
          /\ addr \in U \/ r[addr] = 0
          /\ addr \in V \/ s[addr] = 0
      BY <1>5, <1>6, <1>9
    <3>2. r[addr] \in Nat /\ s[addr] \in Nat
      BY <1>1
    <3>3. \A a \in U \ {addr} : r[a] \in Nat /\ s[a] = r[a]
      BY <1>1, <1>5, <1>7
    <3> HIDE DEF U, V, r, s
    <3> QED
      BY ONLY <3>1, <3>2, <3>3, SumChange
  <2>3. InVaults(w)' = SumOf(vault', T) /\ InOpen(w)' = SumOf(s, V)
        /\ InVaults(w) = SumOf(vault, S) /\ InOpen(w) = SumOf(r, U)
    BY DEF InVaults, InOpen
  <2> HIDE DEF S, T, U, V, r, s
  <2>4. /\ InVaults(w)' = InVaults(w) - vault[addr] + vault'[addr]
        /\ InOpen(w)' = InOpen(w) - r[addr] + s[addr]
    BY <2>1, <2>2, <2>3
  <2> QED
    BY <1>1, <1>2, <1>8, <1>9, <2>4 DEF r, s
<1>10. CASE addr[1] # w
  <2>1. Vaults(w)' = Vaults(w) /\ OpenedBy(w)' = OpenedBy(w)
    BY <1>6, <1>10
  <2>2. /\ \A a \in Vaults(w) : vault'[a] = vault[a]
        /\ \A a \in OpenedBy(w) : Reserve'[a] = Reserve[a]
    BY <1>5, <1>6, <1>7, <1>10
  <2>3. SumOf(vault', Vaults(w)) = SumOf(vault, Vaults(w))
    BY <1>5, <2>2, SumSame
  <2>4. SumOf(Reserve', OpenedBy(w)) = SumOf(Reserve, OpenedBy(w))
    BY <1>5, <2>2, SumSame
  <2>5. InVaults(w)' = InVaults(w) /\ InOpen(w)' = InOpen(w)
    BY <2>1, <2>3, <2>4 DEF InVaults, InOpen
  <2> QED
    BY <1>2, <1>8, <1>10, <2>5
<1> QED
  BY <1>9, <1>10

\* A creation turns lamports of the sender into lamports at the address, with
\* at most the rent added to what the escrow will hold.
LEMMA CreateFunds ==
    ASSUME IInv, IInv', FundsInv, NEW addr \in Address, NEW o \in Offers,
           create_escrow(addr, o)
    PROVE  FundsInv'
<1>1. /\ addr[1] \in Wallets /\ o.amount \in Nat /\ o \in Args
      /\ vault[addr] \in Nat /\ Rent \in Nat /\ slot \in Nat
  BY OfferAssumption, BoundAssumption DEF Address, Args, IInv, TypeOK
<1>2. TopUp(addr) \in Nat /\ TopUp(addr) <= Rent
  BY <1>1 DEF TopUp
<1>3. ~Live(addr) /\ Reserve[addr] = 0
  BY DEF create_escrow, Vacant, Reserve
<1>4. /\ vault'[addr] = vault[addr] + TopUp(addr) + o.amount
      /\ \A a \in Address \ {addr} : vault'[a] = vault[a] /\ accounts'[a] = accounts[a]
      /\ accounts'[addr] = Stored(addr, o)
  BY DEF create_escrow, IInv, TypeOK
<1>5. Reserve'[addr] = o.amount + Rent
  <2>1. Stored(addr, o) \in EscrowAccount /\ Stored(addr, o).amount = o.amount
    BY StoredType DEF Stored
  <2>2. Live(addr)'
    BY <1>4, <2>1, AccountAssumption DEF Live
  <2> QED
    BY <1>4, <2>1, <2>2 DEF Reserve
<1>6. /\ lamports \in [Wallets -> Nat]
      /\ lamports' = [lamports EXCEPT ![addr[1]] = @ - TopUp(addr) - o.amount]
      /\ donations' = donations /\ donations \in Nat
  BY DEF create_escrow, IInv, TypeOK
<1>7. PICK e \in Event : log' = Append(log, e) /\ e.action = "Created"
  BY <1>1 DEF create_escrow, Emitted, Event
<1>8. log \in Seq(Event) /\ IsFiniteSet(Funded)
  BY DEF IInv, TypeOK, FundsInv
<1>9. ASSUME NEW w \in Wallets
      PROVE  /\ Funds <= Total(w)'
             /\ (lamports[w] + PaidOut(w) + InVaults(w) - PaidIn(w))' <= Funds + donations'
  <2>1. /\ PaidOut(w) \in Nat /\ PaidIn(w) \in Nat
        /\ PaidOut(w)' = PaidOut(w) /\ PaidIn(w)' = PaidIn(w)
    BY <1>7, <1>8, PaymentsAfter
  <2>2. /\ InVaults(w) \in Nat /\ InOpen(w) \in Nat
        /\ InVaults(w)' = InVaults(w) + (IF addr[1] = w THEN TopUp(addr) + o.amount ELSE 0)
        /\ InOpen(w)' = InOpen(w) + (IF addr[1] = w THEN o.amount + Rent ELSE 0)
    BY <1>1, <1>2, <1>3, <1>4, <1>5, <1>8, VaultsAfter
  <2>3. lamports'[w] = lamports[w] - (IF addr[1] = w THEN TopUp(addr) + o.amount ELSE 0)
    BY <1>1, <1>2, <1>6
  <2>4. /\ Funds <= lamports[w] + PaidOut(w) + InOpen(w) - PaidIn(w)
        /\ lamports[w] + PaidOut(w) + InVaults(w) - PaidIn(w) <= Funds + donations
    BY DEF FundsInv, Total, PaidOut, PaidIn, InOpen, InVaults
  <2>5. lamports[w] \in Nat /\ Funds \in Nat
    BY <1>6, BoundAssumption
  <2>6. Total(w)' = lamports'[w] + PaidOut(w)' + InOpen(w)' - PaidIn(w)'
    BY DEF Total, PaidOut, PaidIn, InOpen
  <2> QED
    BY <1>1, <1>2, <1>6, <2>1, <2>2, <2>3, <2>4, <2>5, <2>6
<1> QED
  BY <1>9, <1>1, <1>2, VaultsAfter, <1>4, <1>8 DEF FundsInv, PaidOut, PaidIn, InVaults

\* A settlement moves the lamports at the address to the two parties: the
\* amount, when it is a release, to the recipient, the rest to the sender.
LEMMA SettleFunds ==
    ASSUME IInv, IInv', FundsInv, NEW addr \in Address, NEW signer \in Wallets,
           finish_escrow(signer, addr) \/ cancel_escrow(signer, addr)
    PROVE  FundsInv'
<1> DEFINE a == accounts[addr].amount
           v == vault[addr]
<1>1. /\ Live(addr) /\ a \in Nat /\ v \in Nat /\ Rent \in Nat /\ v >= a + Rent
      /\ accounts[addr].sender = addr[1] /\ accounts[addr].recipient = addr[2]
      /\ addr[1] \in Wallets /\ addr[2] \in Wallets
  <2>1. Live(addr)
    BY DEF finish_escrow, cancel_escrow
  <2>2. addr[1] = accounts[addr].sender /\ addr[2] = accounts[addr].recipient
    BY <2>1, AccountType DEF IInv
  <2>3. v \in Nat /\ v >= a + Rent
    BY <2>1 DEF IInv, TypeOK, VaultCovers
  <2> QED
    BY <2>1, <2>2, <2>3, AccountType, BoundAssumption DEF IInv
<1>2. PICK e \in Event :
         /\ log' = Append(log, e) /\ e.address = addr /\ e.amount = a
         /\ \/ e.action = "Finished" /\ lamports' = Closed(addr, addr[2], a)
            \/ e.action = "Cancelled" /\ lamports' = Closed(addr, addr[1], 0)
  <2>1. slot \in Nat
    BY DEF IInv, TypeOK
  <2>2. CASE finish_escrow(signer, addr)
    <3>1. PICK receipt \in AcceptedReceipts(accounts[addr]) :
             log' = Emitted("Finished", addr, a, NoArgs, receipt)
      BY <2>2 DEF finish_escrow
    <3>2. receipt \in Journal \cup {NoReceipt, OwnClaim}
      BY <1>1, AccountType, ReceiptType DEF IInv
    <3>3. lamports' = Closed(addr, addr[2], a)
      BY <1>1, <2>2 DEF finish_escrow
    <3> HIDE DEF a
    <3> QED
      BY <1>1, <2>1, <3>1, <3>2, <3>3 DEF Emitted, Event
  <2>3. CASE cancel_escrow(signer, addr)
    <3>1. log' = Emitted("Cancelled", addr, a, NoArgs, NoReceipt)
      BY <2>3 DEF cancel_escrow
    <3>2. lamports' = Closed(addr, addr[1], 0)
      BY <1>1, <2>3 DEF cancel_escrow
    <3> HIDE DEF a
    <3> QED
      BY <1>1, <2>1, <3>1, <3>2 DEF Emitted, Event
  <2> QED
    BY <2>2, <2>3
<1>3. /\ vault'[addr] = 0 /\ accounts'[addr] = NoAccount
      /\ \A b \in Address \ {addr} : vault'[b] = vault[b] /\ accounts'[b] = accounts[b]
      /\ donations' = donations /\ donations \in Nat
  <2>1. Settles(addr)
    BY Settlements DEF IInv
  <2> QED
    BY <2>1 DEF Settles, IInv, TypeOK
<1>4. Reserve[addr] = a + Rent /\ Reserve'[addr] = 0
  BY <1>1, <1>3 DEF Reserve, Live
<1>5. log \in Seq(Event) /\ IsFiniteSet(Funded) /\ lamports \in [Wallets -> Nat]
  BY DEF IInv, TypeOK, FundsInv
<1> HIDE DEF a
<1>6. ASSUME NEW w \in Wallets
      PROVE  /\ Funds <= Total(w)'
             /\ (lamports[w] + PaidOut(w) + InVaults(w) - PaidIn(w))' <= Funds + donations'
  <2> DEFINE from == IF addr[1] = w THEN 1 ELSE 0
             to   == IF addr[2] = w THEN 1 ELSE 0
  <2>1. /\ PaidOut(w) \in Nat /\ PaidIn(w) \in Nat
        /\ PaidOut(w)' = PaidOut(w) + (IF e.action = "Finished" /\ addr[1] = w THEN a ELSE 0)
        /\ PaidIn(w)' = PaidIn(w) + (IF e.action = "Finished" /\ addr[2] = w THEN a ELSE 0)
    BY <1>2, <1>5, PaymentsAfter
  <2>2. /\ InVaults(w) \in Nat /\ InOpen(w) \in Nat
        /\ InVaults(w)' = InVaults(w) - (IF addr[1] = w THEN v ELSE 0)
        /\ InOpen(w)' = InOpen(w) - (IF addr[1] = w THEN a + Rent ELSE 0)
    <3>1. /\ InVaults(w)' = InVaults(w) + (IF addr[1] = w THEN vault'[addr] - v ELSE 0)
          /\ InOpen(w)' = InOpen(w) + (IF addr[1] = w THEN Reserve'[addr] - Reserve[addr] ELSE 0)
          /\ InVaults(w) \in Nat /\ InOpen(w) \in Nat
      BY <1>3, <1>5, VaultsAfter
    <3> QED
      BY <1>1, <1>3, <1>4, <3>1
  <2>3. lamports'[w] = lamports[w] +
           (IF e.action = "Finished"
              THEN (IF w = addr[2] THEN a ELSE 0) + (IF w = addr[1] THEN v - a ELSE 0)
              ELSE IF w = addr[1] THEN v ELSE 0)
    BY <1>1, <1>2, <1>5 DEF Closed
  <2>4. /\ Funds <= lamports[w] + PaidOut(w) + InOpen(w) - PaidIn(w)
        /\ lamports[w] + PaidOut(w) + InVaults(w) - PaidIn(w) <= Funds + donations
    BY DEF FundsInv, Total, PaidOut, PaidIn, InOpen, InVaults
  <2>5. lamports[w] \in Nat /\ Funds \in Nat
    BY <1>5, BoundAssumption
  <2>6. Total(w)' = lamports'[w] + PaidOut(w)' + InOpen(w)' - PaidIn(w)'
    BY DEF Total, PaidOut, PaidIn, InOpen
  <2> HIDE DEF v
  <2> QED
    BY <1>1, <1>3, <2>1, <2>2, <2>3, <2>4, <2>5, <2>6
<1>7. IsFiniteSet(Funded)'
  BY <1>1, <1>3, <1>5, VaultsAfter
<1> QED
  BY <1>6, <1>7 DEF FundsInv, PaidOut, PaidIn, InVaults

\* A donation is one more lamport at some address, open or not.
LEMMA DonateFunds ==
    ASSUME IInv, IInv', FundsInv, NEW addr \in Address, Donate(addr)
    PROVE  FundsInv'
<1>1. /\ vault[addr] \in Nat /\ vault'[addr] = vault[addr] + 1
      /\ \A a \in Address \ {addr} : vault'[a] = vault[a] /\ accounts'[a] = accounts[a]
      /\ accounts' = accounts /\ donations' = donations + 1 /\ donations \in Nat
      /\ lamports' = lamports /\ log' = log /\ lamports \in [Wallets -> Nat]
  BY DEF Donate, IInv, TypeOK
<1>2. Reserve' = Reserve /\ Reserve[addr] \in Nat
  BY <1>1, AccountType, BoundAssumption DEF Reserve, Live, IInv
<1>3. IsFiniteSet(Funded)
  BY DEF FundsInv
<1>4. addr[1] \in Wallets
  BY DEF Address
<1>5. ASSUME NEW w \in Wallets
      PROVE  /\ Funds <= Total(w)'
             /\ (lamports[w] + PaidOut(w) + InVaults(w) - PaidIn(w))' <= Funds + donations'
  <2>1. /\ InVaults(w) \in Nat /\ InOpen(w) \in Nat
        /\ InVaults(w)' <= InVaults(w) + 1 /\ InVaults(w)' \in Nat
        /\ InOpen(w)' = InOpen(w)
    <3>1. /\ InVaults(w)' = InVaults(w) + (IF addr[1] = w THEN vault'[addr] - vault[addr] ELSE 0)
          /\ InOpen(w)' = InOpen(w) + (IF addr[1] = w THEN Reserve'[addr] - Reserve[addr] ELSE 0)
          /\ InVaults(w) \in Nat /\ InOpen(w) \in Nat
      BY <1>1, <1>3, VaultsAfter
    <3> QED
      BY <1>1, <1>2, <3>1
  <2>2. PaidOut(w)' = PaidOut(w) /\ PaidIn(w)' = PaidIn(w)
    BY <1>1 DEF PaidOut, PaidIn, Amounts, FinishedFrom, FinishedTo, Happened
  <2>3. PaidOut(w) \in Nat /\ PaidIn(w) \in Nat
    BY PaymentsNat DEF IInv, TypeOK
  <2>4. /\ Funds <= lamports[w] + PaidOut(w) + InOpen(w) - PaidIn(w)
        /\ lamports[w] + PaidOut(w) + InVaults(w) - PaidIn(w) <= Funds + donations
    BY DEF FundsInv, Total, PaidOut, PaidIn, InOpen, InVaults
  <2>5. lamports[w] \in Nat /\ Funds \in Nat
    BY <1>1, BoundAssumption
  <2>6. Total(w)' = lamports'[w] + PaidOut(w)' + InOpen(w)' - PaidIn(w)'
    BY DEF Total, PaidOut, PaidIn, InOpen
  <2> QED
    BY <1>1, <2>1, <2>2, <2>3, <2>4, <2>5, <2>6
<1>6. IsFiniteSet(Funded)'
  BY <1>1, <1>3, VaultsAfter
<1> QED
  BY <1>5, <1>6 DEF FundsInv, PaidOut, PaidIn, InVaults

\* The books of every wallet stay balanced.
THEOREM FundsInvariance == Spec => []FundsInv
<1>1. Init => FundsInv
  <2> SUFFICES ASSUME Init PROVE FundsInv
    OBVIOUS
  <2>1. Funded = {} /\ IsFiniteSet({})
    BY FS_EmptySet DEF Init, Funded
  <2>2. ASSUME NEW w \in Wallets
        PROVE  /\ FinishedFrom(w) = {} /\ FinishedTo(w) = {}
               /\ Vaults(w) = {} /\ OpenedBy(w) = {} /\ lamports[w] = Funds
    BY <2>1 DEF Init, FinishedFrom, FinishedTo, Vaults, OpenedBy, Live
  <2>3. SumOf(Amounts, {}) = 0 /\ SumOf(vault, {}) = 0 /\ SumOf(Reserve, {}) = 0
    BY SumEmpty
  <2>4. Funds \in Nat /\ donations = 0
    BY BoundAssumption DEF Init
  <2>5. ASSUME NEW w \in Wallets
        PROVE  /\ Funds <= Total(w)
               /\ lamports[w] + SumOf(Amounts, FinishedFrom(w)) + SumOf(vault, Vaults(w))
                    - SumOf(Amounts, FinishedTo(w)) <= Funds + donations
    BY <2>2, <2>3, <2>4 DEF Total
  <2> QED
    BY <2>1, <2>5 DEF FundsInv
<1>2. IInv /\ IInv' /\ FundsInv /\ [Next]_vars => FundsInv'
  <2> SUFFICES ASSUME IInv, IInv', FundsInv, [Next]_vars PROVE FundsInv'
    OBVIOUS
  <2>1. ASSUME UNCHANGED <<accounts, vault, lamports, log, donations>>
        PROVE  FundsInv'
    BY <2>1 DEF FundsInv, Funded, Vaults, Total, Amounts, FinishedFrom, FinishedTo,
                Happened, OpenedBy, Reserve, Live
  <2> QED
    BY <2>1, CreateFunds, SettleFunds, DonateFunds DEF Next, NextSlot, Fulfil, vars
<1> QED
  BY <1>1, <1>2, Invariance, PTL DEF Spec

\* What a wallet has, has open and has paid is what it started with, within
\* what strangers sent: no instruction makes it lose lamports.
THEOREM NobodyLosesLamports == Spec => []NobodyLoses
<1>1. IInv /\ FundsInv => NobodyLoses
  <2> SUFFICES ASSUME IInv, FundsInv, NEW w \in Wallets
               PROVE  Funds <= Total(w) /\ Total(w) <= Funds + donations
    BY DEF NobodyLoses
  <2>1. /\ vault \in [Address -> Nat]
        /\ \A a \in Address : Reserve[a] \in Nat /\ Reserve[a] <= vault[a]
    <3>1. \A a \in Address : Live(a) => /\ accounts[a].amount \in Nat
                                        /\ accounts[a].amount + Rent <= vault[a]
      BY AccountType, BoundAssumption DEF IInv, TypeOK, VaultCovers
    <3> QED
      BY <3>1, BoundAssumption DEF IInv, TypeOK, Reserve
  <2>2. OpenedBy(w) \in SUBSET Vaults(w)
    <3> SUFFICES ASSUME NEW a \in OpenedBy(w) PROVE a \in Vaults(w)
      OBVIOUS
    <3>1. a \in Address /\ Live(a) /\ accounts[a].sender = w
      BY DEF OpenedBy
    <3>2. a[1] = w /\ accounts[a].amount \in Nat
      BY <3>1, AccountType DEF IInv
    <3>3. vault[a] # 0
      BY <2>1, <3>1, <3>2, BoundAssumption DEF Reserve
    <3> QED
      BY <3>1, <3>2, <3>3 DEF Vaults, Funded
  <2>3. Vaults(w) \in SUBSET Funded /\ Vaults(w) \subseteq Address
    BY DEF Vaults, Funded
  <2>4. IsFiniteSet(Vaults(w))
    BY <2>3, FS_Subset DEF FundsInv
  <2>5. InOpen(w) <= InVaults(w)
    <3> DEFINE f == Reserve
    <3>1. /\ \A a \in Vaults(w) : f[a] \in Nat /\ vault[a] \in Nat
          /\ \A a \in OpenedBy(w) : f[a] <= vault[a]
      BY <2>1, <2>2, <2>3
    <3> HIDE DEF f
    <3>2. SumOf(f, OpenedBy(w)) <= SumOf(vault, Vaults(w))
      BY ONLY <2>2, <2>4, <3>1, SumMonotone
    <3> QED
      BY <3>2 DEF f, InOpen, InVaults
  <2>6. /\ PaidOut(w) \in Nat /\ PaidIn(w) \in Nat
        /\ InVaults(w) \in Nat /\ InOpen(w) \in Nat
    <3>1. InVaults(w) \in Nat
      BY <2>1, <2>3, <2>4, SumType DEF InVaults
    <3>2. IsFiniteSet(OpenedBy(w)) /\ OpenedBy(w) \subseteq Address
      BY <2>2, <2>4, FS_Subset DEF OpenedBy
    <3>3. InOpen(w) \in Nat
      BY <2>1, <3>2, SumType DEF InOpen
    <3> QED
      BY <3>1, <3>3, PaymentsNat DEF IInv, TypeOK
  <2>7. /\ Funds <= Total(w)
        /\ Total(w) = lamports[w] + PaidOut(w) + InOpen(w) - PaidIn(w)
        /\ lamports[w] + PaidOut(w) + InVaults(w) - PaidIn(w) <= Funds + donations
    BY DEF FundsInv, Total, PaidOut, PaidIn, InOpen, InVaults
  <2>8. lamports[w] \in Nat /\ Funds \in Nat /\ donations \in Nat
    BY BoundAssumption DEF IInv, TypeOK
  <2> QED
    BY <2>5, <2>6, <2>7, <2>8
<1> QED
  BY <1>1, FundsInvariance, Invariance, PTL

-----------------------------------------------------------------------------
(***************************************************************************)
(* SolanaEscrow implements EscrowLifecycle, for every set of wallets and   *)
(* ids, every choice of arguments and every bound.  Each life of an        *)
(* address is an escrow of its own, so that an id used again never brings  *)
(* a settled escrow back.                                                  *)
(***************************************************************************)
-----------------------------------------------------------------------------
(***************************************************************************)
(* What one instruction does to the escrow created by event k              *)
(***************************************************************************)
Kept(k) ==
    TermsOf(k)' = TermsOf(k) /\ Status(k)' = Status(k) /\ HeldFor(k)' = HeldFor(k)

Opened(k) ==
    /\ Status(k) = "none"
    /\ Status(k)' = "live"
    /\ TermsOf(k)' \in Lifecycle!Terms
    /\ Lifecycle!Agreeable(TermsOf(k)')
    /\ HeldFor(k)' \in Nat \ {0}

Left(k, how) ==
    /\ Status(k) = "live"
    /\ Status(k)' = how
    /\ TermsOf(k)' = TermsOf(k)
    /\ HeldFor(k)' = 0

Released(k) ==
    /\ Left(k, "released")
    /\ slot >= TermsOf(k).finishAfter
    /\ TermsOf(k).condition \in fulfilled \cup {NO_CONDITION}

Refunded(k) ==
    /\ Left(k, "refunded")
    /\ TermsOf(k).cancelAfter # 0
    /\ slot >= TermsOf(k).cancelAfter

-----------------------------------------------------------------------------
(***************************************************************************)
(* The invariant of the refinement                                         *)
(***************************************************************************)

\* The escrow created by event k has not been settled.
IsOpen(k) == Happened(k, "Created") /\ Last(k)

\* An account in use stores what the escrow it holds was created with.
StoredInv ==
    \A k \in DOMAIN log : Happened(k, "Created") =>
        /\ log[k].args \in Args
        /\ CancelOpensLast(log[k].args)
        /\ Last(k) => accounts[log[k].address] = Stored(log[k].address, log[k].args)

RInv == IInv /\ StoredInv

\* What was agreed on when the escrow of event e was created.
AgreedTerms(e) ==
    [sender |-> e.address[1], recipient |-> e.address[2],
     finishAfter |-> unwrap_or_zero(e.args.finish_after),
     cancelAfter |-> unwrap_or_zero(e.args.cancel_after),
     condition |-> Enforced(e.args.condition)]

\* The abstract state is a function of the log alone, and has its type.
Shape ==
    \A k \in Positions :
        /\ ~IsKey(k) => Status(k) = "none" /\ TermsOf(k) = NoAccount /\ HeldFor(k) = 0
        /\ IsKey(k) =>
              /\ Status(k) = IF Last(k) THEN "live"
                             ELSE IF Ended(k, "Finished") THEN "released"
                             ELSE "refunded"
              /\ TermsOf(k) = AgreedTerms(log[k])
              /\ HeldFor(k) = IF Last(k) THEN log[k].args.amount ELSE 0
        /\ TermsOf(k) \in Lifecycle!Terms \cup {NoAccount}
        /\ HeldFor(k) \in Nat

\* An event is a creation or one of the settlements.
LEMMA EventType ==
    ASSUME TypeOK, NEW k \in DOMAIN log
    PROVE  /\ log[k].action \in {"Created", "Finished", "Cancelled"}
           /\ log[k].address \in Address
<1>1. log[k] \in Event
  BY DEF TypeOK
<1> QED
  BY <1>1 DEF Event

\* An escrow is open until an event ends it, and its account is in use.
LEMMA OpenIsLive ==
    ASSUME IInv, NEW k \in DOMAIN log, Happened(k, "Created")
    PROVE  /\ Last(k) => Live(log[k].address) /\ \A i \in DOMAIN log : ~Ends(i, k)
           /\ ~Last(k) => \E i \in DOMAIN log : Ends(i, k)
           /\ \A i \in DOMAIN log : Ends(i, k) =>
                 Happened(i, "Finished") \/ Happened(i, "Cancelled")
<1>1. Last(k) => \A i \in DOMAIN log : ~Ends(i, k)
  BY DEF Last, Ends
<1>2. (\E i \in DOMAIN log : Ends(i, k)) \/ (Live(log[k].address) /\ Last(k))
  BY DEF IInv, LivesInv, Live
<1>3. ASSUME NEW i \in DOMAIN log, Ends(i, k)
      PROVE  Happened(i, "Finished") \/ Happened(i, "Cancelled")
  BY <1>3, EventType DEF IInv, LivesInv, Happened
<1> QED
  BY <1>1, <1>2, <1>3

\* The terms and the deposit of an escrow stay what they were agreed on,
\* and its status is what the events tell.
LEMMA ShapeOfState == RInv => Shape
<1> SUFFICES ASSUME RInv, NEW k \in Positions
             PROVE  /\ ~IsKey(k) => Status(k) = "none" /\ TermsOf(k) = NoAccount /\ HeldFor(k) = 0
                    /\ IsKey(k) =>
                          /\ Status(k) = IF Last(k) THEN "live"
                                         ELSE IF Ended(k, "Finished") THEN "released"
                                         ELSE "refunded"
                          /\ TermsOf(k) = AgreedTerms(log[k])
                          /\ HeldFor(k) = IF Last(k) THEN log[k].args.amount ELSE 0
                    /\ TermsOf(k) \in Lifecycle!Terms \cup {NoAccount}
                    /\ HeldFor(k) \in Nat
  BY DEF Shape
<1>1. CASE ~IsKey(k)
  <2>1. Status(k) = "none" /\ TermsOf(k) = NoAccount
    BY <1>1 DEF Status, TermsOf
  <2>2. HeldFor(k) = 0
    BY <2>1 DEF HeldFor
  <2> QED
    BY <1>1, <2>1, <2>2
<1>2. CASE IsKey(k)
  <2>1. k \in DOMAIN log /\ Happened(k, "Created") /\ IInv
    BY <1>2 DEF IsKey, RInv
  <2>2. Status(k) = IF Last(k) THEN "live"
                    ELSE IF Ended(k, "Finished") THEN "released" ELSE "refunded"
    <3>1. CASE Last(k)
      <4>1. ~Ended(k, "Finished") /\ ~Ended(k, "Cancelled")
        BY <2>1, <3>1, OpenIsLive DEF Ended
      <4> QED
        BY <1>2, <3>1, <4>1 DEF Status
    <3>2. CASE ~Last(k)
      <4>1. Ended(k, "Finished") \/ Ended(k, "Cancelled")
        BY <2>1, <3>2, OpenIsLive DEF Ended
      <4>2. Ended(k, "Finished") => ~Ended(k, "Cancelled")
        <5> SUFFICES ASSUME NEW i \in DOMAIN log, NEW j \in DOMAIN log,
                            Ends(i, k), Ends(j, k)
                     PROVE  i = j
          BY DEF Ended, Happened
        <5>1. log \in Seq(Event) /\ DOMAIN log = 1 .. Len(log)
          BY <2>1 DEF IInv, TypeOK
        <5> QED
          BY <2>1, <5>1 DEF Ends
      <4> QED
        BY <1>2, <3>2, <4>1, <4>2 DEF Status
    <3> QED
      BY <3>1, <3>2
  <2>3. /\ log[k].args \in Args
        /\ log[k].address \in Address
        /\ Last(k) => accounts[log[k].address] = Stored(log[k].address, log[k].args)
    BY <2>1, EventType DEF RInv, StoredInv, IInv
  <2>4. Status(k) = "live" <=> Last(k)
    BY <2>2
  <2>5. TermsOf(k) = AgreedTerms(log[k])
    <3>1. CASE Last(k)
      BY <1>2, <2>3, <2>4, <3>1 DEF TermsOf, Stored, AgreedTerms
    <3>2. CASE ~Last(k)
      BY <1>2, <2>4, <3>2 DEF TermsOf, AgreedTerms
    <3> QED
      BY <3>1, <3>2
  <2>6. HeldFor(k) = IF Last(k) THEN log[k].args.amount ELSE 0
    BY <2>3, <2>4 DEF HeldFor, Stored
  <2>7. /\ log[k].address[1] \in Wallets /\ log[k].address[2] \in Wallets
        /\ log[k].args.finish_after \in Option /\ log[k].args.cancel_after \in Option
        /\ log[k].args.condition \in Conditions \cup {NO_CONDITION}
        /\ log[k].args.amount \in Nat
    BY <2>3 DEF Address, Args
  <2>8. \A x \in Option : unwrap_or_zero(x) \in Nat
    BY DEF Option, unwrap_or_zero
  <2>9. TermsOf(k) \in Lifecycle!Terms
    BY <2>5, <2>7, <2>8 DEF AgreedTerms, Enforced, Lifecycle!Terms
  <2> QED
    BY <1>2, <2>2, <2>5, <2>6, <2>7, <2>9
<1> QED
  BY <1>1, <1>2

\* The same of the state after a step.
LEMMA ShapeOfNext == RInv' => Shape'
BY ShapeOfState, PTL

-----------------------------------------------------------------------------
(***************************************************************************)
(* The instructions                                                        *)
(***************************************************************************)

\* An escrow the new event neither creates nor ends.
LEMMA RestKept ==
    ASSUME Shape, Shape', NEW n, NEW e, Extended(n, e), NEW k \in Positions,
           k # n \/ e.action # "Created",
           k \in DOMAIN log => ~(IsOpen(k) /\ log[k].address = e.address)
    PROVE  Kept(k)
<1>1. CASE k \notin DOMAIN log
  <2>1. ~IsKey(k)
    BY <1>1 DEF IsKey
  <2>2. ~IsKey(k)'
    BY <1>1 DEF IsKey, Extended, Happened
  <2> QED
    BY <2>1, <2>2 DEF Shape, Kept
<1>2. CASE k \in DOMAIN log
  <2>1. log'[k] = log[k] /\ (IsKey(k)' <=> IsKey(k))
    BY <1>2 DEF Extended, IsKey, Happened
  <2>2. CASE ~IsKey(k)
    BY <2>1, <2>2 DEF Shape, Kept
  <2>3. CASE IsKey(k)
    <3>1. ~(Last(k) /\ log[k].address = e.address)
      BY <1>2, <2>3 DEF IsOpen, IsKey
    <3>2. Last(k)' <=> Last(k)
      BY <1>2, <3>1, EndsExtended
    <3>3. Ended(k, "Finished")' <=> Ended(k, "Finished")
      <4>1. ~Ends(n, k)'
        BY <1>2, <3>1, EndsExtended
      <4>2. \A i \in DOMAIN log : Ends(i, k)' <=> Ends(i, k)
        BY <1>2, EndsExtended
      <4>3. /\ \A i \in DOMAIN log' : i \in DOMAIN log \/ i = n
            /\ \A i \in DOMAIN log : i \in DOMAIN log' /\ log'[i] = log[i]
        BY DEF Extended
      <4> QED
        BY <4>1, <4>2, <4>3 DEF Ended, Happened
    <3> QED
      BY <2>1, <2>3, <3>2, <3>3 DEF Shape, Kept
  <2> QED
    BY <2>2, <2>3
<1> QED
  BY <1>1, <1>2

\* create_escrow opens an escrow nobody has seen before.
LEMMA CreateOpens ==
    ASSUME Shape, Shape', NEW n, NEW e, Extended(n, e), n \in Positions,
           e.action = "Created", e.address \in Address, e.args \in Args,
           e.args.amount # 0, DeadlineSet(e.args), CancelOpensLast(e.args)
    PROVE  Opened(n)
<1>1. ~IsKey(n)
  BY DEF IsKey, Extended
<1>2. /\ IsKey(n)' /\ Last(n)' /\ log'[n] = e
  <2>1. n \in DOMAIN log' /\ log'[n] = e
    BY DEF Extended
  <2> QED
    BY <2>1, EndsExtended DEF IsKey, Happened
<1>3. /\ Status(n)' = "live"
      /\ TermsOf(n)' = AgreedTerms(e)
      /\ HeldFor(n)' = e.args.amount
  BY <1>2 DEF Shape
<1>4. /\ e.address[1] \in Wallets /\ e.address[2] \in Wallets
      /\ e.args.finish_after \in Option /\ e.args.cancel_after \in Option
      /\ e.args.condition \in Conditions \cup {NO_CONDITION}
      /\ e.args.amount \in Nat
  BY DEF Address, Args
<1>5. \A x \in Option : unwrap_or_zero(x) \in Nat
  BY DEF Option, unwrap_or_zero
<1>6. AgreedTerms(e) \in Lifecycle!Terms
  BY <1>4, <1>5 DEF AgreedTerms, Enforced, Lifecycle!Terms
<1>7. Lifecycle!Agreeable(AgreedTerms(e))
  BY <1>4, <1>5 DEF Lifecycle!Agreeable, AgreedTerms, DeadlineSet, CancelOpensLast,
                    Enforced, Option, unwrap_or_zero
<1> QED
  BY <1>1, <1>3, <1>4, <1>6, <1>7 DEF Opened, Shape

\* A settlement ends the escrow that is open at its address, within its
\* window, and no other.
LEMMA SettlementLeaves ==
    ASSUME RInv, Shape, Shape', NEW n, NEW e, Extended(n, e),
           NEW addr \in Address, e.address = addr,
           \/ /\ e.action = "Finished" /\ FinishOpen(addr)
              /\ Enforced(accounts[addr].condition) \in fulfilled \cup {NO_CONDITION}
           \/ e.action = "Cancelled" /\ CancelOpen(addr),
           NEW k \in Positions
    PROVE  \/ Kept(k)
           \/ /\ Released(k) \/ Refunded(k)
              /\ k \in DOMAIN log /\ IsOpen(k) /\ log[k].address = addr
<1>1. CASE ~(k \in DOMAIN log /\ IsOpen(k) /\ log[k].address = addr)
  BY <1>1, RestKept
<1>2. CASE k \in DOMAIN log /\ IsOpen(k) /\ log[k].address = addr
  <2>1. /\ IsKey(k) /\ Last(k) /\ IsKey(k)' /\ log'[k] = log[k]
    BY <1>2 DEF IsOpen, IsKey, Extended, Happened
  <2>2. Ends(n, k)' /\ ~Last(k)'
    BY <1>2, <2>1, EndsExtended
  <2>3. /\ Status(k) = "live"
        /\ TermsOf(k) = AgreedTerms(log[k]) /\ TermsOf(k)' = TermsOf(k)
        /\ HeldFor(k)' = 0
    BY <2>1, <2>2 DEF Shape
  <2>4. Ended(k, "Finished")' <=> e.action = "Finished"
    <3>1. /\ n \in DOMAIN log' /\ log'[n] = e
          /\ \A i \in DOMAIN log' : i \in DOMAIN log \/ i = n
      BY DEF Extended
    <3>2. \A i \in DOMAIN log : ~Ends(i, k)'
      <4>1. \A i \in DOMAIN log : ~Ends(i, k)
        BY <2>1 DEF Last, Ends
      <4> QED
        BY <1>2, <4>1, EndsExtended
    <3> QED
      BY <2>2, <3>1, <3>2 DEF Ended, Happened
  <2>5. Status(k)' = IF e.action = "Finished" THEN "released" ELSE "refunded"
    BY <2>1, <2>2, <2>4 DEF Shape
  <2>6. accounts[addr] = Stored(addr, log[k].args) /\ CancelOpensLast(log[k].args)
        /\ log[k].args \in Args
    BY <1>2 DEF RInv, StoredInv, IsOpen
  <2>7. /\ TermsOf(k).finishAfter = unwrap_or_zero(accounts[addr].finish_after)
        /\ TermsOf(k).cancelAfter = unwrap_or_zero(accounts[addr].cancel_after)
        /\ TermsOf(k).condition = Enforced(accounts[addr].condition)
    BY <2>3, <2>6 DEF AgreedTerms, Stored
  <2>8. slot \in Nat
    BY BoundAssumption DEF RInv, IInv, TypeOK
  <2>9. CASE /\ e.action = "Finished" /\ FinishOpen(addr)
             /\ Enforced(accounts[addr].condition) \in fulfilled \cup {NO_CONDITION}
    BY <1>2, <2>3, <2>5, <2>7, <2>8, <2>9 DEF Released, Left, FinishOpen, unwrap_or_zero
  <2>10. CASE e.action = "Cancelled" /\ CancelOpen(addr)
    <3>1. /\ accounts[addr].cancel_after = log[k].args.cancel_after
          /\ log[k].args.finish_after \in Option /\ log[k].args.cancel_after \in Option
      BY <2>6 DEF Stored, Args
    <3>2. /\ unwrap_or_zero(accounts[addr].cancel_after) # 0
          /\ slot >= unwrap_or_zero(accounts[addr].cancel_after)
      BY <2>6, <2>8, <2>10, <3>1 DEF CancelOpen, CancelOpensLast, unwrap_or_zero, Option
    <3> QED
      BY <1>2, <2>3, <2>5, <2>7, <2>10, <3>2 DEF Refunded, Left
  <2> QED
    BY <2>9, <2>10
<1> QED
  BY <1>1, <1>2

\* Only the address of the new event changes what it stores.
LEMMA StoredStep ==
    ASSUME TypeOK, StoredInv, NEW n, NEW e, Extended(n, e),
           \A a \in Address \ {e.address} : accounts'[a] = accounts[a],
           e.action = "Created" =>
               /\ e.args \in Args /\ CancelOpensLast(e.args)
               /\ accounts'[e.address] = Stored(e.address, e.args)
    PROVE  StoredInv'
<1> SUFFICES ASSUME NEW k \in DOMAIN log', Happened(k, "Created")'
             PROVE  /\ log'[k].args \in Args
                    /\ CancelOpensLast(log'[k].args)
                    /\ Last(k)' => accounts'[log'[k].address]
                                     = Stored(log'[k].address, log'[k].args)
  BY DEF StoredInv
<1>1. CASE k = n
  BY <1>1 DEF Extended, Happened
<1>2. CASE k \in DOMAIN log
  <2>1. log'[k] = log[k] /\ Happened(k, "Created") /\ log[k].address \in Address
    BY <1>2, EventType DEF Extended, Happened
  <2>2. Last(k)' => Last(k) /\ log[k].address # e.address
    BY <1>2, EndsExtended
  <2> QED
    BY <1>2, <2>1, <2>2 DEF StoredInv
<1> QED
  BY <1>1, <1>2 DEF Extended

-----------------------------------------------------------------------------
(***************************************************************************)
(* The refinement                                                          *)
(***************************************************************************)

\* The escrow of event k leaves the vault.
Gone(k) == Status(k) = "live" /\ Status(k)' # "live"

\* Changes of the abstract state that make up one abstract transaction.
LEMMA TransactMaps ==
    ASSUME Shape', UNCHANGED <<slot, fulfilled>>,
           \A k \in Positions : Kept(k) \/ Opened(k) \/ Released(k) \/ Refunded(k),
           \A k, j \in Positions : Gone(k) /\ Gone(j) => k = j
    PROVE  Lifecycle!Transact
<1> DEFINE terms  == [k \in Positions |-> TermsOf(k)]
           status == [k \in Positions |-> Status(k)]
           held   == [k \in Positions |-> HeldFor(k)]
<1>1. \A k \in Positions : /\ terms[k] = TermsOf(k) /\ terms'[k] = TermsOf(k)'
                           /\ status[k] = Status(k) /\ status'[k] = Status(k)'
                           /\ held[k] = HeldFor(k) /\ held'[k] = HeldFor(k)'
  OBVIOUS
<1>2. \A k \in Positions : /\ TermsOf(k)' \in Lifecycle!Terms \cup {NoAccount}
                           /\ HeldFor(k)' \in Nat
  BY DEF Shape
<1>3. \A k \in Positions : Status(k)' \in {"none", "live", "released", "refunded"}
  BY DEF Status
<1>4. /\ terms' \in [Positions -> Lifecycle!Terms \cup {NoAccount}]
      /\ status' \in [Positions -> {"none", "live", "released", "refunded"}]
      /\ held' \in [Positions -> Nat]
  BY <1>2, <1>3
<1>5. ASSUME NEW k \in Positions
      PROVE  \/ Lifecycle!Opens(k) \/ Lifecycle!Releases(k)
             \/ Lifecycle!Refunds(k) \/ Lifecycle!Keeps(k)
  <2>1. CASE Kept(k)
    BY <1>1, <2>1 DEF Kept, Lifecycle!Keeps
  <2>2. CASE Opened(k)
    BY <1>1, <2>2 DEF Opened, Lifecycle!Opens
  <2>3. CASE Released(k)
    BY <1>1, <2>3 DEF Released, Left, Lifecycle!Releases, Lifecycle!Leaves
  <2>4. CASE Refunded(k)
    BY <1>1, <2>4 DEF Refunded, Left, Lifecycle!Refunds, Lifecycle!Leaves
  <2> QED
    BY <2>1, <2>2, <2>3, <2>4
<1>6. \A k, j \in Positions : Lifecycle!Settles(k) /\ Lifecycle!Settles(j) => k = j
  BY <1>1 DEF Gone, Lifecycle!Settles
<1> QED
  BY <1>4, <1>5, <1>6 DEF Lifecycle!Transact

\* No event: nothing is seen to change.
LEMMA SilentMaps ==
    ASSUME UNCHANGED <<accounts, log>>
    PROVE  \A k \in Positions : Kept(k)
BY DEF Kept, TermsOf, Status, HeldFor, IsKey, Ended, Ends, Happened

\* At most one escrow is open at an address.
LEMMA OneOpen ==
    ASSUME IInv, NEW k \in DOMAIN log, NEW j \in DOMAIN log, IsOpen(k), IsOpen(j),
           log[k].address = log[j].address
    PROVE  k = j
<1>1. log \in Seq(Event) /\ k \in Int /\ j \in Int
  BY DEF IInv, TypeOK
<1> QED
  BY <1>1 DEF IsOpen, Last

\* A successful settlement is one abstract transaction.
LEMMA SettleMaps ==
    ASSUME RInv, RInv', NEW n, NEW e, Extended(n, e), UNCHANGED <<slot, fulfilled>>,
           NEW addr \in Address, e.address = addr,
           \/ /\ e.action = "Finished" /\ FinishOpen(addr)
              /\ Enforced(accounts[addr].condition) \in fulfilled \cup {NO_CONDITION}
           \/ e.action = "Cancelled" /\ CancelOpen(addr)
    PROVE  Lifecycle!Transact
<1>1. Shape /\ Shape'
  BY ShapeOfState, ShapeOfNext
<1>2. \A k \in Positions :
        \/ Kept(k)
        \/ /\ Released(k) \/ Refunded(k)
           /\ k \in DOMAIN log /\ IsOpen(k) /\ log[k].address = addr
  BY <1>1, SettlementLeaves
<1>3. ASSUME NEW k \in Positions, NEW j \in Positions, Gone(k), Gone(j)
      PROVE  k = j
  <2>1. /\ k \in DOMAIN log /\ IsOpen(k) /\ log[k].address = addr
        /\ j \in DOMAIN log /\ IsOpen(j) /\ log[j].address = addr
    BY <1>2, <1>3 DEF Gone, Kept
  <2> QED
    BY <2>1, OneOpen DEF RInv
<1> QED
  BY <1>1, <1>2, <1>3, TransactMaps

\* What an instruction that emits an event appends to the log.
LEMMA EmittedExtends ==
    ASSUME TypeOK, NEW action, NEW addr, NEW amount, NEW args, NEW receipt,
           log' = Emitted(action, addr, amount, args, receipt)
    PROVE  \E n, e : /\ Extended(n, e)
                     /\ e.action = action /\ e.address = addr /\ e.args = args
<1> DEFINE f == [action |-> action, address |-> addr, amount |-> amount,
                 at |-> slot, args |-> args, receipt |-> receipt]
<1>1. log \in Seq(Event) /\ log' = Append(log, f)
  BY DEF TypeOK, Emitted
<1>2. f.action = action /\ f.address = addr /\ f.args = args
  OBVIOUS
<1> HIDE DEF f
<1> QED
  BY <1>1, <1>2, Appended

\* Deployment is an initial state of the abstract specification.
LEMMA InitMaps == Init => StoredInv /\ Lifecycle!Init
<1> SUFFICES ASSUME Init PROVE StoredInv /\ Lifecycle!Init
  OBVIOUS
<1>1. DOMAIN log = {}
  BY DEF Init
<1>2. \A k \in Positions : TermsOf(k) = NoAccount /\ Status(k) = "none" /\ HeldFor(k) = 0
  BY <1>1 DEF TermsOf, Status, HeldFor, IsKey
<1> QED
  BY <1>1, <1>2 DEF StoredInv, Lifecycle!Init, Init

\* Every instruction keeps the stored terms.
LEMMA StepStores == RInv /\ [Next]_vars => StoredInv'
<1> SUFFICES ASSUME RInv, [Next]_vars PROVE StoredInv'
  OBVIOUS
<1>1. TypeOK /\ StoredInv /\ accounts \in [Address -> EscrowAccount \cup {NoAccount}]
  BY DEF RInv, IInv, TypeOK
<1>2. ASSUME NEW addr \in Address, NEW o \in Offers, create_escrow(addr, o)
      PROVE  StoredInv'
  <2>1. PICK n, e : /\ Extended(n, e)
                    /\ e.action = "Created" /\ e.address = addr /\ e.args = o
    BY <1>1, <1>2, EmittedExtends DEF create_escrow
  <2>2. o \in Args /\ CancelOpensLast(o)
    BY <1>2, OfferAssumption DEF create_escrow
  <2>3. /\ accounts'[addr] = Stored(addr, o)
        /\ \A a \in Address \ {addr} : accounts'[a] = accounts[a]
    BY <1>1, <1>2 DEF create_escrow
  <2> QED
    BY <1>1, <2>1, <2>2, <2>3, StoredStep
<1>3. ASSUME NEW signer \in Wallets, NEW addr \in Address,
             finish_escrow(signer, addr) \/ cancel_escrow(signer, addr)
      PROVE  StoredInv'
  <2>1. Settles(addr)
    BY <1>1, <1>3, Settlements
  <2>2. PICK n, e : Extended(n, e) /\ e.action # "Created" /\ e.address = addr
    <3>1. PICK action \in {"Finished", "Cancelled"}, receipt \in Journal \cup {NoReceipt, OwnClaim} :
             log' = Emitted(action, addr, accounts[addr].amount, NoArgs, receipt)
      BY <2>1 DEF Settles
    <3> QED
      BY <1>1, <3>1, EmittedExtends
  <2>3. \A a \in Address \ {addr} : accounts'[a] = accounts[a]
    BY <1>1, <2>1 DEF Settles
  <2> QED
    BY <1>1, <2>2, <2>3, StoredStep
<1>4. ASSUME UNCHANGED <<accounts, log>>
      PROVE  StoredInv'
  BY <1>1, <1>4 DEF StoredInv, Happened, Last
<1> QED
  BY <1>2, <1>3, <1>4 DEF Next, Donate, NextSlot, Fulfil, vars

\* Every step is a step of the abstract specification or none.
LEMMA StepMaps == RInv /\ RInv' /\ [Next]_vars => [Lifecycle!Next]_Lifecycle!vars
<1> SUFFICES ASSUME RInv, RInv', [Next]_vars
             PROVE  [Lifecycle!Next]_Lifecycle!vars
  OBVIOUS
<1>1. /\ TypeOK /\ Shape /\ Shape'
  BY ShapeOfState, ShapeOfNext DEF RInv, IInv
<1>2. ASSUME NEW addr \in Address, NEW o \in Offers, create_escrow(addr, o)
      PROVE  Lifecycle!Transact
  <2>1. PICK n, e : /\ Extended(n, e)
                    /\ e.action = "Created" /\ e.address = addr /\ e.args = o
    BY <1>1, <1>2, EmittedExtends DEF create_escrow
  <2>2. /\ o \in Args /\ CancelOpensLast(o) /\ DeadlineSet(o)
        /\ o.amount # 0 /\ UNCHANGED <<slot, fulfilled>> /\ ~Live(addr)
    BY <1>2, OfferAssumption DEF create_escrow, Vacant
  <2>3. ASSUME NEW k \in Positions, k # n
        PROVE  Kept(k)
    <3>1. k \in DOMAIN log => ~(IsOpen(k) /\ log[k].address = addr)
      BY <2>2, OpenIsLive DEF IsOpen, RInv
    <3> QED
      BY <1>1, <2>1, <2>3, <3>1, RestKept
  <2>4. n \in Positions => Opened(n)
    BY <1>1, <2>1, <2>2, CreateOpens
  <2> QED
    BY <1>1, <2>2, <2>3, <2>4, TransactMaps DEF Gone, Kept, Opened
<1>3. ASSUME NEW signer \in Wallets, NEW addr \in Address, finish_escrow(signer, addr)
      PROVE  Lifecycle!Transact
  <2>1. PICK receipt \in AcceptedReceipts(accounts[addr]) :
           log' = Emitted("Finished", addr, accounts[addr].amount, NoArgs, receipt)
    BY <1>3 DEF finish_escrow
  <2>2. Enforced(accounts[addr].condition) \in fulfilled \cup {NO_CONDITION}
    BY ReceiptAssumption DEF AcceptedReceipts, reconstruct_journal, Verifies, Enforced
  <2>3. PICK n, e : Extended(n, e) /\ e.action = "Finished" /\ e.address = addr
    BY <1>1, <2>1, EmittedExtends
  <2> QED
    BY <1>3, <2>2, <2>3, SettleMaps DEF finish_escrow
<1>4. ASSUME NEW signer \in Wallets, NEW addr \in Address, cancel_escrow(signer, addr)
      PROVE  Lifecycle!Transact
  <2>1. PICK n, e : Extended(n, e) /\ e.action = "Cancelled" /\ e.address = addr
    BY <1>1, <1>4, EmittedExtends DEF cancel_escrow
  <2> QED
    BY <1>4, <2>1, SettleMaps DEF cancel_escrow
<1>5. ASSUME UNCHANGED <<accounts, log>>
      PROVE  \A k \in Positions : Kept(k)
  BY <1>5, SilentMaps
<1>6. ASSUME UNCHANGED <<accounts, log, slot, fulfilled>>
      PROVE  UNCHANGED Lifecycle!vars
  BY <1>5, <1>6 DEF Kept, Lifecycle!vars
<1>7. CASE NextSlot
  <2>1. /\ \A k \in Positions : Kept(k)
        /\ slot' = slot + 1 /\ fulfilled' = fulfilled
    BY <1>5, <1>7 DEF NextSlot
  <2>2. Lifecycle!Elapse
    BY <2>1 DEF Kept, Lifecycle!Elapse
  <2> QED
    BY <2>2 DEF Lifecycle!Next
<1>8. ASSUME NEW c \in Conditions, Fulfil(c)
      PROVE  Lifecycle!Learn
  <2>1. \A k \in Positions : Kept(k)
    BY <1>5, <1>8 DEF Fulfil
  <2> QED
    BY <1>8, <2>1 DEF Fulfil, Kept, Lifecycle!Learn
<1>9. ASSUME NEW addr \in Address, Donate(addr)
      PROVE  UNCHANGED Lifecycle!vars
  BY <1>6, <1>9 DEF Donate
<1>10. CASE UNCHANGED vars
  BY <1>6, <1>10 DEF vars
<1> QED
  BY <1>2, <1>3, <1>4, <1>7, <1>8, <1>9, <1>10 DEF Next, Lifecycle!Next

\* The program keeps the promise of every agent for each life of an address:
\* SolanaEscrow implements EscrowLifecycle, with the conditions of its escrows
\* if every seal is whole, and as a time-locked vault if any may be longer.
THEOREM ImplementsLifecycle == Spec => LifecycleSpec
<1>1. Init => StoredInv /\ Lifecycle!Init
  BY InitMaps
<1>2. IInv /\ StoredInv /\ [Next]_vars => StoredInv'
  BY StepStores DEF RInv
<1>3. IInv /\ StoredInv /\ IInv' /\ StoredInv' /\ [Next]_vars
        => [Lifecycle!Next]_Lifecycle!vars
  BY StepMaps DEF RInv
<1> QED
  BY <1>1, <1>2, <1>3, Invariance, PTL DEF Spec, LifecycleSpec, Lifecycle!Spec

-----------------------------------------------------------------------------
(***************************************************************************)
(* Releases and proofs, for whole seals                                    *)
(***************************************************************************)

\* A step adds no release before its proof: what was provable stays so, and
\* the one release a step can add was checked against the stored condition,
\* which is the one the escrow was created with.
LEMMA ReleaseStep ==
    SealsWhole /\ RInv /\ ReleaseNeedsProof /\ [Next]_vars => ReleaseNeedsProof'
<1> SUFFICES ASSUME SealsWhole, RInv, ReleaseNeedsProof, [Next]_vars
             PROVE  ReleaseNeedsProof'
  OBVIOUS
<1>1. TypeOK /\ IInv /\ StoredInv
  BY DEF RInv, IInv
<1>2. ASSUME NEW n, NEW e, Extended(n, e), UNCHANGED fulfilled,
             e.action = "Finished" =>
                 /\ e.address \in Address
                 /\ accounts[e.address].condition \in fulfilled \cup {NO_CONDITION}
      PROVE  ReleaseNeedsProof'
  <2> SUFFICES ASSUME NEW k \in DOMAIN log', NEW i \in DOMAIN log',
                      Happened(k, "Created")', Happened(i, "Finished")', Ends(i, k)'
               PROVE  log'[k].args.condition \in fulfilled \cup {NO_CONDITION}
    BY <1>2 DEF ReleaseNeedsProof
  <2>1. k \in DOMAIN log /\ log'[k] = log[k] /\ Happened(k, "Created")
    BY <1>2, EndsExtended DEF Extended, Happened
  <2>2. CASE i \in DOMAIN log
    BY <1>2, <2>1, <2>2, EndsExtended DEF Extended, Happened, ReleaseNeedsProof
  <2>3. CASE i = n
    <3>1. e.action = "Finished" /\ log[k].address = e.address /\ Last(k)
      BY <1>2, <2>1, <2>3, EndsExtended DEF Extended, Happened
    <3>2. accounts[e.address] = Stored(e.address, log[k].args)
      BY <1>1, <2>1, <3>1 DEF StoredInv
    <3> QED
      BY <1>2, <2>1, <3>1, <3>2 DEF Stored
  <2> QED
    BY <1>2, <2>2, <2>3 DEF Extended
<1>3. ASSUME NEW addr \in Address, NEW o \in Offers, create_escrow(addr, o)
      PROVE  ReleaseNeedsProof'
  <2>1. \E n, e : Extended(n, e) /\ e.action = "Created"
    BY <1>1, <1>3, EmittedExtends DEF create_escrow
  <2> QED
    BY <1>2, <1>3, <2>1 DEF create_escrow
<1>4. ASSUME NEW signer \in Wallets, NEW addr \in Address, finish_escrow(signer, addr)
      PROVE  ReleaseNeedsProof'
  <2>1. PICK receipt \in AcceptedReceipts(accounts[addr]) :
           log' = Emitted("Finished", addr, accounts[addr].amount, NoArgs, receipt)
    BY <1>4 DEF finish_escrow
  <2>2. accounts[addr].condition \in fulfilled \cup {NO_CONDITION}
    BY DEF AcceptedReceipts, reconstruct_journal, Verifies
  <2>3. \E n, e : Extended(n, e) /\ e.address = addr
    BY <1>1, <2>1, EmittedExtends
  <2> QED
    BY <1>2, <1>4, <2>2, <2>3 DEF finish_escrow
<1>5. ASSUME NEW signer \in Wallets, NEW addr \in Address, cancel_escrow(signer, addr)
      PROVE  ReleaseNeedsProof'
  <2>1. \E n, e : Extended(n, e) /\ e.action = "Cancelled"
    BY <1>1, <1>5, EmittedExtends DEF cancel_escrow
  <2> QED
    BY <1>2, <1>5, <2>1 DEF cancel_escrow
<1>6. ASSUME UNCHANGED log, fulfilled \subseteq fulfilled'
      PROVE  ReleaseNeedsProof'
  BY <1>6 DEF ReleaseNeedsProof, Happened, Ends
<1> QED
  BY <1>3, <1>4, <1>5, <1>6 DEF Next, Donate, NextSlot, Fulfil, vars

\* If every seal argument is one whole seal, no conditioned escrow is paid to
\* its recipient before its condition can be proven, whichever escrows its
\* address has held before.
THEOREM WholeSealsNeedProof == SealsWhole => (Spec => []ReleaseNeedsProof)
<1> SUFFICES ASSUME SealsWhole PROVE Spec => []ReleaseNeedsProof
  OBVIOUS
<1>1. Init => StoredInv /\ ReleaseNeedsProof
  <2>1. Init => DOMAIN log = {}
    BY DEF Init
  <2> QED
    BY <2>1, InitMaps DEF ReleaseNeedsProof
<1>2. IInv /\ StoredInv /\ ReleaseNeedsProof /\ [Next]_vars => StoredInv' /\ ReleaseNeedsProof'
  BY StepStores, ReleaseStep DEF RInv
<1> QED
  BY <1>1, <1>2, Invariance, PTL DEF Spec
=============================================================================
