---------------------------- MODULE ClientProofs ----------------------------
(***************************************************************************)
(* Theorems about Client for every set of invocations, every content of    *)
(* the files and every bound.                                              *)
(***************************************************************************)
EXTENDS Client, FiniteSetTheorems, TLAPS

-----------------------------------------------------------------------------
(***************************************************************************)
(* The inductive invariant                                                 *)
(***************************************************************************)

\* The chain's state is well typed, and keys are handed out in order.
ChainInv ==
    /\ terms \in [Keys -> Lifecycle!Terms \cup {NoTerms}]
    /\ status \in [Keys -> {"none", "live", "released", "refunded"}]
    /\ held \in [Keys -> Nat]
    /\ now \in Nat
    /\ \E n \in 0 .. MaxEscrows : \A k \in Keys : status[k] # "none" <=> k <= n
    /\ \A k \in Keys : status[k] # "none" => terms[k] \in Lifecycle!Terms

\* A witness that satisfies its condition was generated for it.
WitnessInv ==
    conditionsFile # NoFile /\ conditionsFile.satisfied => conditionsFile.condition \in met

\* The condition a creation asks for is there if its parameters say so.
AsksRight(r) == (r.condition # NoCondition) <=> r.params.hasConditions

HasSettled(k) == status[k] \in {"released", "refunded"}

\* An invocation of create that knows its escrow.
Created(r) ==
    r.pc \in {"confirmed", "saving", "halfway", "done"} \/ (r.pc = "mined" /\ r.ok)

\* An invocation of create: it learns its escrow's key from its receipt.
CreateInv(r) ==
    /\ r.pc \in {"idle", "loaded", "ready", "waiting"} => r.key = 0
    /\ r.pc \in {"idle", "loaded"} => r.condition = NoCondition
    /\ r.pc \in {"ready", "waiting"} => AsksRight(r)
    /\ Created(r) => Names(r.key, r.params)

\* An invocation of finish or cancel, whose key may be any that could be read:
\* it was sent when it would have succeeded, so once it is mined only a
\* settlement can have failed it.
SettlementInv(r, cmd, how) ==
    r.cmd = cmd =>
        /\ r.key \in Keys
        /\ r.pc \notin {"idle", "confirmed", "saving", "halfway"}
        /\ r.pc \in {"mined", "done"} => HasSettled(r.key)
        /\ r.pc = "mined" /\ r.ok => status[r.key] = how
        /\ r.pc = "done" /\ r.params.chain = "solana" => status[r.key] = how

ProcInv(p) ==
    /\ procs[p].cmd = "create" => CreateInv(procs[p])
    /\ SettlementInv(procs[p], "finish", "released")
    /\ SettlementInv(procs[p], "cancel", "refunded")
    /\ procs[p].journal # NoJournal => procs[p].journal.condition \in met

\* A transaction that was sent would have succeeded then, and would now but
\* for the escrow having been settled since.
TxInv(tx) ==
    /\ tx.proc \in Procs
    /\ tx.cmd = "create" => AsksRight(tx)
    /\ tx.cmd # "create" => status[tx.key] # "none"
    /\ tx.cmd = "finish" => now >= terms[tx.key].finishAfter /\ Proven(tx)
    /\ tx.cmd = "cancel" => /\ terms[tx.key].cancelAfter # 0
                            /\ now >= terms[tx.key].cancelAfter

\* What a save that no other came near has left of the file so far.
AloneFile(p) ==
    /\ metadataFile.params \in {Blank, procs[p].params}
    /\ metadataFile.key \in {Blank, procs[p].key}
    /\ procs[p].pc = "saving" => metadataFile.params = Blank
    /\ procs[p].pc \in {"saving", "halfway"} => metadataFile.key = Blank
    /\ procs[p].pc \in {"halfway", "done"} => metadataFile.params = procs[p].params
    /\ procs[p].pc = "done" => metadataFile.key = procs[p].key

\* Only a creation that knows its escrow saves, and a save that no other came
\* near is the only one that can be under way.
SavedInv(p) ==
    /\ procs[p].cmd = "create" /\ procs[p].pc \in {"saving", "halfway", "done"} =>
          saves[p] # "none"
    /\ saves[p] # "none" => /\ procs[p].cmd = "create"
                            /\ procs[p].pc \in {"saving", "halfway", "done", "failed"}
                            /\ Names(procs[p].key, procs[p].params)
    /\ saves[p] = "alone" => /\ AloneFile(p)
                             /\ \A q \in Procs : SaveUnderWay(q) => q = p

\* The creation that opened an escrow knows its key, or has failed; and no
\* other takes the key for its own.
OpenerInv ==
    /\ \A k \in Keys : status[k] # "none" =>
          /\ opener[k] \in Procs /\ procs[opener[k]].cmd = "create"
          /\ procs[opener[k]].key = k \/ procs[opener[k]].pc = "failed"
    /\ \A p \in Procs : procs[p].cmd = "create" /\ Created(procs[p]) =>
          opener[procs[p].key] = p

IInv ==
    /\ TypeOK
    /\ ChainInv
    /\ WitnessInv
    /\ \A p \in Procs : ProcInv(p)
    /\ \A tx \in mempool : TxInv(tx)
    /\ \A p \in Procs : SavedInv(p)
    /\ OpenerInv

-----------------------------------------------------------------------------
(***************************************************************************)
(* The chain                                                               *)
(***************************************************************************)

\* The number of escrows opened is the last key handed out.
LEMMA OpenedIsLast ==
    ASSUME ChainInv
    PROVE  /\ Opened \in 0 .. MaxEscrows
           /\ \A k \in Keys : status[k] # "none" <=> k <= Opened
<1>1. PICK n \in 0 .. MaxEscrows : \A k \in Keys : status[k] # "none" <=> k <= n
  BY DEF ChainInv
<1>2. {k \in Keys : status[k] # "none"} = 1 .. n
  BY <1>1, ClientAssumption DEF Keys
<1>3. Cardinality(1 .. n) = n
  BY FS_Interval
<1> QED
  BY <1>1, <1>2, <1>3 DEF Opened

\* What is decided on the chain stays decided.
Grows ==
    /\ \A k \in Keys : status[k] # "none" =>
          terms'[k] = terms[k] /\ status'[k] # "none"
    /\ \A k \in Keys : HasSettled(k) => status'[k] = status[k]
    /\ now' >= now
    /\ met \subseteq met'

LEMMA UnchangedGrows ==
    ASSUME ChainInv, UNCHANGED <<terms, status, held, now>>, met \subseteq met'
    PROVE  ChainInv' /\ Grows
BY DEF ChainInv, Grows

\* The terms a creation asks for have their type.
LEMMA TermsOfType ==
    ASSUME NEW tx, tx.params \in Params, tx.condition \in Conditions \cup {NoCondition}
    PROVE  TermsOf(tx) \in Lifecycle!Terms
BY DEF TermsOf, Params, unwrap_or_zero, Lifecycle!Terms

\* A transaction has the types of what its process held when it sent it.
LEMMA TxFacts ==
    ASSUME IInv, NEW tx \in mempool
    PROVE  /\ tx.proc \in Procs /\ Tx(tx.proc) = tx
           /\ procs[tx.proc] \in Proc
           /\ procs[tx.proc].pc \in {"waiting", "failed"}
           /\ tx.cmd = procs[tx.proc].cmd /\ tx.key = procs[tx.proc].key
           /\ tx.params = procs[tx.proc].params
           /\ tx.cmd \in {"create", "finish", "cancel"}
           /\ tx.params \in Params
           /\ tx.condition \in Conditions \cup {NoCondition}
           /\ tx.cmd # "create" => tx.key \in Keys /\ status[tx.key] # "none"
<1>1. tx.proc \in Procs /\ Tx(tx.proc) = tx /\ procs[tx.proc].pc \in {"waiting", "failed"}
  BY DEF IInv, TypeOK, TxInv
<1>2. procs[tx.proc] \in Proc
  BY <1>1 DEF IInv, TypeOK
<1>3. /\ tx.cmd = procs[tx.proc].cmd /\ tx.key = procs[tx.proc].key
      /\ tx.params = procs[tx.proc].params
      /\ tx.condition = procs[tx.proc].condition
  BY <1>1 DEF Tx
<1>4. /\ tx.cmd \in {"create", "finish", "cancel"}
      /\ tx.params \in Params
      /\ tx.condition \in Conditions \cup {NoCondition}
  BY <1>2, <1>3, ClientAssumption DEF Proc
<1>5. tx.cmd # "create" => tx.key \in Keys /\ status[tx.key] # "none"
  BY <1>1, <1>3, <1>4 DEF IInv, ProcInv, SettlementInv, TxInv
<1> QED
  BY <1>1, <1>2, <1>3, <1>4, <1>5

\* A successful creation opens the next key, with what it asked for.
LEMMA CreationMined ==
    ASSUME IInv, NEW tx \in mempool, tx.cmd = "create", Succeeds(tx), Takes(tx)
    PROVE  /\ ChainInv' /\ Grows
           /\ Opened + 1 \in Keys /\ status[Opened + 1] = "none"
           /\ status'[Opened + 1] = "live" /\ terms'[Opened + 1] = TermsOf(tx)
           /\ held'[Opened + 1] = 1
           /\ \A k \in Keys \ {Opened + 1} : /\ terms'[k] = terms[k]
                                             /\ status'[k] = status[k]
                                             /\ held'[k] = held[k]
<1>1. PICK n : n = Opened
  OBVIOUS
<1>2. n \in Nat /\ n < MaxEscrows /\ MaxEscrows \in Nat
  BY <1>1, OpenedIsLast, ClientAssumption DEF IInv, Succeeds, CreateSucceeds
<1>3. n + 1 \in Keys /\ (\A k \in Keys : status[k] # "none" <=> k <= n)
  BY <1>1, <1>2, OpenedIsLast DEF Keys, IInv
<1>4. TermsOf(tx) \in Lifecycle!Terms
  BY TxFacts, TermsOfType
<1>5. /\ terms' = [terms EXCEPT ![n + 1] = TermsOf(tx)]
      /\ status' = [status EXCEPT ![n + 1] = "live"]
      /\ held' = [held EXCEPT ![n + 1] = 1]
      /\ now' = now /\ met' = met
  BY <1>1 DEF Takes, ledger
<1>6. /\ terms \in [Keys -> Lifecycle!Terms \cup {NoTerms}]
      /\ status \in [Keys -> {"none", "live", "released", "refunded"}]
      /\ held \in [Keys -> Nat] /\ now \in Nat
      /\ \A k \in Keys : status[k] # "none" => terms[k] \in Lifecycle!Terms
  BY DEF IInv, ChainInv
<1>7. status[n + 1] = "none"
  BY <1>2, <1>3, <1>6
<1>8. n + 1 \in 0 .. MaxEscrows /\ \A k \in Keys : status'[k] # "none" <=> k <= n + 1
  BY <1>2, <1>3, <1>5, <1>6 DEF Keys
<1>9. ChainInv'
  BY <1>3, <1>4, <1>5, <1>6, <1>8 DEF ChainInv
<1>10. Grows
  BY <1>3, <1>5, <1>6, <1>7 DEF Grows, HasSettled
<1> QED
  BY <1>1, <1>3, <1>5, <1>6, <1>7, <1>9, <1>10

\* A successful settlement ends the escrow it names, which was live.
LEMMA SettlementMined ==
    ASSUME IInv, NEW tx \in mempool, tx.cmd # "create", Succeeds(tx), Takes(tx)
    PROVE  /\ ChainInv' /\ Grows
           /\ tx.key \in Keys /\ status[tx.key] = "live"
           /\ status'[tx.key] = (IF tx.cmd = "finish" THEN "released" ELSE "refunded")
           /\ held'[tx.key] = 0 /\ terms' = terms
           /\ \A k \in Keys \ {tx.key} : status'[k] = status[k] /\ held'[k] = held[k]
<1>1. PICK k : k = tx.key
  OBVIOUS
<1>2. PICK how : how = IF tx.cmd = "finish" THEN "released" ELSE "refunded"
  OBVIOUS
<1>3. k \in Keys /\ status[k] = "live" /\ how \in {"released", "refunded"}
  BY <1>1, <1>2, TxFacts DEF Succeeds, FinishSucceeds, CancelSucceeds
<1>4. /\ terms' = terms
      /\ status' = [status EXCEPT ![k] = how]
      /\ held' = [held EXCEPT ![k] = 0]
      /\ now' = now /\ met' = met
  <2>1. tx.cmd \in {"finish", "cancel"}
    BY TxFacts
  <2> QED
    BY <1>1, <1>2, <2>1 DEF Takes
<1>5. /\ terms \in [Keys -> Lifecycle!Terms \cup {NoTerms}]
      /\ status \in [Keys -> {"none", "live", "released", "refunded"}]
      /\ held \in [Keys -> Nat] /\ now \in Nat
      /\ \A j \in Keys : status[j] # "none" => terms[j] \in Lifecycle!Terms
      /\ \E n \in 0 .. MaxEscrows : \A j \in Keys : status[j] # "none" <=> j <= n
  BY DEF IInv, ChainInv
<1>6. ChainInv'
  BY <1>3, <1>4, <1>5 DEF ChainInv
<1>7. Grows
  BY <1>3, <1>4, <1>5 DEF Grows, HasSettled
<1> QED
  BY <1>1, <1>2, <1>3, <1>4, <1>5, <1>6, <1>7

\* A settlement sent in time fails only if the escrow has been settled since.
LEMMA SettlementFails ==
    ASSUME IInv, NEW tx \in mempool, tx.cmd # "create", ~Succeeds(tx)
    PROVE  HasSettled(tx.key)
<1>1. /\ TxInv(tx) /\ tx.key \in Keys /\ status[tx.key] # "none"
      /\ tx.cmd \in {"finish", "cancel"}
  BY TxFacts DEF IInv
<1>2. status[tx.key] # "live"
  BY <1>1 DEF Succeeds, FinishSucceeds, CancelSucceeds, TxInv
<1>3. status[tx.key] \in {"none", "live", "released", "refunded"}
  BY <1>1 DEF IInv, ChainInv
<1> QED
  BY <1>1, <1>2, <1>3 DEF HasSettled

-----------------------------------------------------------------------------
(***************************************************************************)
(* What growth of the chain leaves true                                    *)
(***************************************************************************)

LEMMA NamesGrows ==
    ASSUME ChainInv, Grows, NEW k, NEW params, Names(k, params)
    PROVE  Names(k, params)'
BY DEF Names, Grows

\* An invocation that does nothing keeps its invariant.
LEMMA IdleProc ==
    ASSUME ChainInv, Grows, NEW p, ProcInv(p), procs'[p] = procs[p]
    PROVE  ProcInv(p)'
<1>1. PICK r : r = procs[p]
  OBVIOUS
<1>2. ASSUME CreateInv(r) PROVE CreateInv(r)'
  BY <1>2, NamesGrows DEF CreateInv, Created, AsksRight
<1>3. ASSUME NEW cmd, NEW how \in {"released", "refunded"}, SettlementInv(r, cmd, how)
      PROVE  SettlementInv(r, cmd, how)'
  BY <1>3 DEF SettlementInv, HasSettled, Grows
<1>4. /\ r.cmd = "create" => CreateInv(r)'
      /\ SettlementInv(r, "finish", "released")'
      /\ SettlementInv(r, "cancel", "refunded")'
      /\ r.journal # NoJournal => r.journal.condition \in met'
  BY <1>1, <1>2, <1>3 DEF ProcInv, Grows
<1> QED
  BY <1>1, <1>4 DEF ProcInv, CreateInv, Created, SettlementInv, HasSettled, Names,
                    AsksRight

-----------------------------------------------------------------------------
(***************************************************************************)
(* Type correctness                                                        *)
(***************************************************************************)

\* The steps of an invocation that touch nothing but itself and the files.
Local(p) ==
    \/ StartCreate(p) \/ StartFinish(p) \/ StartCancel(p)
    \/ release_condition(p) \/ release_proof(p)
    \/ Confirm(p) \/ SaveOpens(p) \/ SaveParams(p) \/ SaveKey(p)

\* What a local step leaves of the state.
LEMMA LocalFrame ==
    ASSUME TypeOK, NEW p \in Procs, Local(p)
    PROVE  /\ procs[p].pc \in {"idle", "loaded", "mined", "confirmed", "saving", "halfway"}
           /\ \A q \in Procs \ {p} : procs'[q] = procs[q]
           /\ conditionsFile' = conditionsFile
           /\ UNCHANGED <<mempool, terms, status, held, now, met, opener>>
BY DEF TypeOK, Local, StartCreate, StartFinish, StartCancel, StartSettlement,
       release_condition, release_proof, Confirm, HasReceipt, SaveOpens, SaveParams,
       SaveKey, Goes, files, ledger, history

\* An invocation between two steps of its own is still of its type.
LEMMA LocalProc ==
    ASSUME IInv, NEW p \in Procs, Local(p)
    PROVE  procs' \in [Procs -> Proc]
<1>1. /\ procs \in [Procs -> Proc]
      /\ metadataFile \in Metadata
      /\ conditionsFile \in ConditionFiles \cup {NoFile}
  BY DEF IInv, TypeOK
<1>2. CASE StartCreate(p)
  <2>1. PICK params \in ParamFiles :
           procs' = [procs EXCEPT ![p] = [@ EXCEPT !.pc = "loaded", !.cmd = "create",
                                                   !.params = params]]
    BY <1>2 DEF StartCreate
  <2>2. [procs[p] EXCEPT !.pc = "loaded", !.cmd = "create", !.params = params] \in Proc
    BY <1>1, ClientAssumption DEF Proc
  <2> QED
    BY <1>1, <2>1, <2>2
<1>3. CASE StartFinish(p) \/ StartCancel(p)
  BY <1>1, <1>3 DEF StartFinish, StartCancel, StartSettlement, Readable, Proc
<1>4. CASE release_condition(p)
  BY <1>1, <1>4, ClientAssumption DEF release_condition, Goes, Proc, ConditionFile
<1>5. CASE release_proof(p)
  BY <1>1, <1>5, ClientAssumption DEF release_proof, Goes, Proc, ConditionFile, Journal
<1>6. CASE Confirm(p)
  <2>1. PICK pc \in {"failed", "confirmed", "done"}, key \in Keys \cup {0} :
           procs' = [procs EXCEPT ![p] = [@ EXCEPT !.pc = pc, !.key = key]]
    BY <1>1, <1>6 DEF Confirm, Continues, CreatedKey, Proc
  <2>2. [procs[p] EXCEPT !.pc = pc, !.key = key] \in Proc
    BY <1>1 DEF Proc
  <2> QED
    BY <1>1, <2>1, <2>2
<1>7. CASE SaveOpens(p) \/ SaveParams(p) \/ SaveKey(p)
  BY <1>1, <1>7 DEF SaveOpens, SaveParams, SaveKey, Goes, Proc
<1> QED
  BY <1>2, <1>3, <1>4, <1>5, <1>6, <1>7 DEF Local

\* What a process sent is what it holds, as long as its step changes no more
\* than how far it is.
LEMMA TxKept ==
    ASSUME IInv, NEW tx \in mempool,
           \/ procs'[tx.proc] = procs[tx.proc]
           \/ \E pc : procs'[tx.proc] = [procs[tx.proc] EXCEPT !.pc = pc]
    PROVE  Tx(tx.proc)' = tx
<1>1. Tx(tx.proc) = tx /\ procs[tx.proc] \in Proc
  BY TxFacts
<1>2. /\ procs'[tx.proc].cmd = procs[tx.proc].cmd
      /\ procs'[tx.proc].key = procs[tx.proc].key
      /\ procs'[tx.proc].params = procs[tx.proc].params
      /\ procs'[tx.proc].condition = procs[tx.proc].condition
      /\ procs'[tx.proc].journal = procs[tx.proc].journal
  BY <1>1 DEF Proc
<1> QED
  BY <1>1, <1>2 DEF Tx

\* A local step is taken by a process without a transaction on its way.
LEMMA LocalSent ==
    ASSUME IInv, NEW p \in Procs, procs[p].pc \notin {"waiting", "failed"},
           NEW tx \in mempool
    PROVE  tx.proc # p
BY TxFacts

\* A process about to save has an escrow to save.
LEMMA SavesKey ==
    ASSUME IInv, NEW p \in Procs, procs[p].pc \in {"confirmed", "saving", "halfway"}
    PROVE  procs[p].cmd = "create" /\ Names(procs[p].key, procs[p].params)
<1>1. procs[p] \in Proc /\ ProcInv(p)
  BY DEF IInv, TypeOK
<1> QED
  BY <1>1 DEF Proc, ProcInv, SettlementInv, CreateInv, Created

\* The parts of the file are parts of some metadata, whatever was there.
LEMMA PartsType ==
    ASSUME IInv, NEW p \in Procs, SaveOpens(p) \/ SaveParams(p) \/ SaveKey(p)
    PROVE  metadataFile' \in Metadata
<1>1. procs[p] \in Proc /\ metadataFile \in Metadata
  BY DEF IInv, TypeOK
<1>2. Mixtures \subseteq Params
  BY ClientAssumption DEF Mixtures, Params
<1>3. CASE SaveOpens(p)
  BY <1>3 DEF SaveOpens, Metadata
<1>4. CASE SaveParams(p)
  <2>1. PICK params \in Overwritten(metadataFile.params, procs[p].params, Mixtures) :
           metadataFile' = [metadataFile EXCEPT !.params = params]
    BY <1>4 DEF SaveParams
  <2>2. params \in Params \cup {Blank, Torn}
    BY <1>1, <1>2 DEF Overwritten, Proc
  <2> QED
    BY <1>1, <2>1, <2>2 DEF Metadata
<1>5. CASE SaveKey(p)
  <2>1. PICK key \in Overwritten(metadataFile.key, procs[p].key, Keys) :
           metadataFile' = [metadataFile EXCEPT !.key = key]
    BY <1>5 DEF SaveKey
  <2>2. procs[p].key \in Keys
    BY <1>5, SavesKey DEF SaveKey, Names
  <2>3. key \in Keys \cup {Blank, Torn}
    BY <2>2 DEF Overwritten
  <2> QED
    BY <1>1, <2>1, <2>3 DEF Metadata
<1> QED
  BY <1>3, <1>4, <1>5

\* The history variables keep their types.
LEMMA HistoryTypes ==
    ASSUME IInv, [Next]_vars
    PROVE  /\ opener' \in [Keys -> Procs \cup {NoProc}]
           /\ saves' \in [Procs -> {"none", "alone", "disturbed"}]
<1>1. /\ opener \in [Keys -> Procs \cup {NoProc}]
      /\ saves \in [Procs -> {"none", "alone", "disturbed"}]
  BY DEF IInv, TypeOK
<1>2. ASSUME NEW p \in Procs, SaveOpens(p)
      PROVE  opener' = opener /\ saves' \in [Procs -> {"none", "alone", "disturbed"}]
  BY <1>1, <1>2 DEF SaveOpens
<1>3. ASSUME NEW tx \in mempool, Mine(tx)
      PROVE  opener' \in [Keys -> Procs \cup {NoProc}] /\ saves' = saves
  BY <1>1, <1>3, TxFacts DEF Mine
<1>4. ASSUME NEW p \in Procs, Local(p) \/ Send(p) \/ Abort(p), ~SaveOpens(p)
      PROVE  UNCHANGED history
  BY <1>4 DEF Local, StartCreate, StartFinish, StartCancel, StartSettlement,
              release_condition, release_proof, Send, Confirm, SaveParams, SaveKey,
              Abort, history
<1>5. NextBlock \/ (\E f \in ConditionFiles : Generate(f)) \/ UNCHANGED vars
        => UNCHANGED history
  BY DEF NextBlock, Generate, vars, history
<1> QED
  BY <1>1, <1>2, <1>3, <1>4, <1>5 DEF Next, Local, history

\* Every step keeps the types.
LEMMA TypeStep == IInv /\ [Next]_vars => TypeOK'
<1> SUFFICES ASSUME IInv, [Next]_vars PROVE TypeOK'
  OBVIOUS
<1>1. /\ procs \in [Procs -> Proc]
      /\ metadataFile \in Metadata
      /\ conditionsFile \in ConditionFiles \cup {NoFile}
  BY DEF IInv, TypeOK
<1>2. ASSUME NEW p \in Procs, Local(p)
      PROVE  TypeOK'
  <2>1. procs' \in [Procs -> Proc]
    BY <1>2, LocalProc
  <2>2. /\ mempool' = mempool /\ conditionsFile' = conditionsFile
        /\ procs[p].pc \notin {"waiting", "failed"}
        /\ \A q \in Procs \ {p} : procs'[q] = procs[q]
    BY <1>2, LocalFrame DEF IInv
  <2>3. \A tx \in mempool : /\ Tx(tx.proc)' = tx
                            /\ procs'[tx.proc].pc \in {"waiting", "failed"}
    BY <1>2, <2>2, TxFacts, TxKept, LocalSent
  <2>4. metadataFile' \in Metadata
    <3>1. CASE SaveOpens(p) \/ SaveParams(p) \/ SaveKey(p)
      BY <3>1, PartsType
    <3>2. CASE ~(SaveOpens(p) \/ SaveParams(p) \/ SaveKey(p))
      BY <1>1, <1>2, <3>2
         DEF Local, StartCreate, StartFinish, StartCancel, StartSettlement,
             release_condition, release_proof, Confirm, files
    <3> QED
      BY <3>1, <3>2
  <2> QED
    BY <1>1, <2>1, <2>2, <2>3, <2>4, HistoryTypes DEF TypeOK
<1>3. ASSUME NEW p \in Procs, Send(p)
      PROVE  TypeOK'
  <2>1. /\ procs' = [procs EXCEPT ![p].pc = "waiting"]
        /\ mempool' = mempool \cup {Tx(p)}
        /\ UNCHANGED files
        /\ procs[p].pc \notin {"waiting", "failed"}
    BY <1>3 DEF Send, Goes
  <2>2. procs' \in [Procs -> Proc]
    BY <1>1, <2>1 DEF Proc
  <2>3. \A tx \in mempool : /\ Tx(tx.proc)' = tx
                            /\ procs'[tx.proc].pc \in {"waiting", "failed"}
    <3>1. \A q \in Procs \ {p} : procs'[q] = procs[q]
      BY <1>1, <2>1
    <3> QED
      BY <1>3, <2>1, <3>1, TxFacts, TxKept, LocalSent
  <2>4. Tx(p).proc = p /\ Tx(p)' = Tx(p) /\ procs'[p].pc = "waiting"
    BY <1>1, <2>1 DEF Tx, Proc
  <2> QED
    BY <1>1, <2>1, <2>2, <2>3, <2>4, HistoryTypes DEF TypeOK, files
<1>4. ASSUME NEW tx \in mempool, Mine(tx)
      PROVE  TypeOK'
  <2>1. procs' \in [Procs -> Proc]
    <3>1. tx.cmd = "create" /\ Succeeds(tx) => Opened + 1 \in Keys
      BY OpenedIsLast, ClientAssumption DEF Succeeds, CreateSucceeds, Keys, IInv
    <3>2. Succeeds(tx) \in BOOLEAN
      BY DEF Succeeds
    <3>3. CASE procs[tx.proc].pc = "waiting"
      <4> DEFINE newKey == IF tx.cmd = "create" /\ Succeeds(tx) THEN Opened + 1
                           ELSE procs[tx.proc].key
      <4>1. PICK ok, key : ok = Succeeds(tx) /\ key = newKey
        OBVIOUS
      <4>2. ok \in BOOLEAN /\ key \in Keys \cup {0}
        BY <3>1, <3>2, <4>1, TxFacts DEF Proc
      <4>3. procs' = [procs EXCEPT ![tx.proc] =
                        [@ EXCEPT !.pc = "mined", !.ok = ok, !.key = key]]
        BY <1>4, <3>3, <4>1 DEF Mine
      <4>4. [procs[tx.proc] EXCEPT !.pc = "mined", !.ok = ok, !.key = key] \in Proc
        BY <4>2, TxFacts DEF Proc
      <4> QED
        BY <1>1, <4>3, <4>4
    <3> QED
      BY <1>1, <1>4, <3>3 DEF Mine
  <2>2. mempool' = mempool \ {tx} /\ UNCHANGED files
    BY <1>4 DEF Mine
  <2>3. \A t \in mempool \ {tx} : t.proc # tx.proc
    BY TxFacts
  <2>4. \A t \in mempool \ {tx} : procs'[t.proc] = procs[t.proc]
    BY <1>1, <1>4, <2>3, TxFacts DEF Mine
  <2>5. \A t \in mempool' : Tx(t.proc)' = t /\ procs'[t.proc].pc \in {"waiting", "failed"}
    BY <2>2, <2>4, TxFacts, TxKept
  <2> QED
    BY <1>1, <2>1, <2>2, <2>5, HistoryTypes DEF TypeOK, files
<1>5. ASSUME NEW p \in Procs, Abort(p)
      PROVE  TypeOK'
  <2>1. procs' = [procs EXCEPT ![p].pc = "failed"] /\ UNCHANGED <<files, mempool>>
    BY <1>5 DEF Abort, Goes
  <2>2. procs' \in [Procs -> Proc]
    BY <1>1, <2>1 DEF Proc
  <2>3. \A q \in Procs : \/ procs'[q] = procs[q]
                         \/ procs'[q] = [procs[q] EXCEPT !.pc = "failed"]
    BY <1>1, <2>1
  <2>4. \A q \in Procs : procs'[q].pc \in {procs[q].pc, "failed"}
    BY <1>1, <2>1 DEF Proc
  <2>5. \A tx \in mempool : Tx(tx.proc)' = tx
    BY <2>3, TxFacts, TxKept
  <2>6. \A tx \in mempool : procs'[tx.proc].pc \in {"waiting", "failed"}
    BY <2>4, TxFacts
  <2> QED
    BY <1>1, <2>1, <2>2, <2>5, <2>6, HistoryTypes DEF TypeOK, files
<1>6. ASSUME procs' = procs, mempool' = mempool, metadataFile' = metadataFile,
             conditionsFile' \in ConditionFiles \cup {NoFile}
      PROVE  TypeOK'
  <2>1. \A tx \in mempool : Tx(tx.proc)' = tx
    BY <1>6, TxKept
  <2> QED
    BY <1>1, <1>6, <2>1, TxFacts, HistoryTypes DEF TypeOK
<1>7. CASE NextBlock \/ (\E f \in ConditionFiles : Generate(f)) \/ UNCHANGED vars
  BY <1>1, <1>6, <1>7 DEF NextBlock, Generate, files, vars
<1> QED
  BY <1>2, <1>3, <1>4, <1>5, <1>7 DEF Next, Local

-----------------------------------------------------------------------------
(***************************************************************************)
(* The invariant is inductive                                              *)
(***************************************************************************)

\* Every step keeps the chain's invariant, and nothing decided is undone.
LEMMA ChainStep == IInv /\ [Next]_vars => ChainInv' /\ Grows
<1> SUFFICES ASSUME IInv, [Next]_vars PROVE ChainInv' /\ Grows
  OBVIOUS
<1>1. ChainInv /\ TypeOK
  BY DEF IInv
<1>2. ASSUME NEW tx \in mempool, Mine(tx)
      PROVE  ChainInv' /\ Grows
  <2>1. CASE Succeeds(tx)
    BY <1>2, <2>1, CreationMined, SettlementMined DEF Mine
  <2>2. CASE ~Succeeds(tx)
    BY <1>1, <1>2, <2>2, UnchangedGrows DEF Mine, ledger
  <2> QED
    BY <2>1, <2>2
<1>3. ASSUME NEW p \in Procs, Local(p) \/ Send(p) \/ Abort(p)
      PROVE  ChainInv' /\ Grows
  BY <1>1, <1>3, LocalFrame, UnchangedGrows DEF Send, Abort, ledger
<1>4. ASSUME NEW f \in ConditionFiles, Generate(f)
      PROVE  ChainInv' /\ Grows
  BY <1>1, <1>4, UnchangedGrows DEF Generate
<1>5. CASE NextBlock
  BY <1>1, <1>5 DEF NextBlock, ChainInv, Grows
<1>6. CASE UNCHANGED vars
  BY <1>1, <1>6, UnchangedGrows DEF vars
<1> QED
  BY <1>2, <1>3, <1>4, <1>5, <1>6 DEF Next, Local

\* The conditions file and what has been generated agree.
LEMMA WitnessStep == IInv /\ [Next]_vars => WitnessInv'
<1> SUFFICES ASSUME IInv, [Next]_vars PROVE WitnessInv'
  OBVIOUS
<1>1. WitnessInv /\ Grows
  BY ChainStep DEF IInv
<1>2. CASE conditionsFile' = conditionsFile
  BY <1>1, <1>2 DEF WitnessInv, Grows
<1>3. ASSUME NEW f \in ConditionFiles, Generate(f)
      PROVE  WitnessInv'
  BY <1>3 DEF Generate, WitnessInv
<1>4. (\E f \in ConditionFiles : Generate(f)) \/ conditionsFile' = conditionsFile
  BY DEF Next, StartCreate, StartFinish, StartCancel, StartSettlement,
         release_condition, release_proof, Send, Confirm, Abort, Mine, SaveOpens,
         SaveParams, SaveKey, NextBlock, files, vars
<1> QED
  BY <1>2, <1>3, <1>4

\* A local step leads an invocation from one state of its command to the next.
LEMMA LocalStep ==
    ASSUME IInv, NEW p \in Procs, Local(p)
    PROVE  ProcInv(p)'
<1>1. /\ procs \in [Procs -> Proc] /\ procs[p] \in Proc /\ ProcInv(p) /\ WitnessInv
      /\ UNCHANGED <<terms, status, held, now, met>>
  BY LocalFrame DEF IInv, TypeOK
<1>2. procs[p].cmd \in {"create", "finish", "cancel"}
  BY <1>1 DEF Proc
<1> USE DEF ProcInv, CreateInv, Created, SettlementInv, Names, AsksRight, HasSettled, Proc
<1>3. CASE StartCreate(p)
  <2>1. /\ procs[p].cmd = "create" /\ procs[p].pc = "idle"
        /\ procs[p].key = 0 /\ procs[p].condition = NoCondition
    BY <1>1, <1>2, <1>3 DEF StartCreate
  <2>2. /\ procs'[p].cmd = "create" /\ procs'[p].pc = "loaded"
        /\ procs'[p].key = 0 /\ procs'[p].condition = NoCondition
        /\ procs'[p].journal = procs[p].journal
    BY <1>1, <1>3, <2>1 DEF StartCreate
  <2> QED
    BY <1>1, <2>2
<1>4. CASE StartFinish(p) \/ StartCancel(p)
  BY <1>1, <1>4 DEF StartFinish, StartCancel, StartSettlement, Readable
<1>5. CASE release_condition(p)
  <2>1. /\ procs'[p].cmd = "create" /\ procs'[p].pc = "ready"
        /\ procs'[p].key = 0 /\ procs'[p].journal = procs[p].journal
        /\ AsksRight(procs'[p])
    <3>1. conditionsFile # NoFile => conditionsFile.condition \in Conditions
      BY ClientAssumption DEF IInv, TypeOK, ConditionFile
    <3> QED
      BY <1>1, <1>5, <3>1, ClientAssumption DEF release_condition, Goes
  <2> QED
    BY <1>1, <2>1
<1>6. CASE release_proof(p)
  BY <1>1, <1>6 DEF release_proof, Goes, WitnessInv
<1>7. CASE Confirm(p)
  BY <1>1, <1>2, <1>7 DEF Confirm, HasReceipt, FailureReported, Continues, CreatedKey
<1>8. CASE SaveOpens(p) \/ SaveParams(p) \/ SaveKey(p)
  BY <1>1, <1>2, <1>8 DEF SaveOpens, SaveParams, SaveKey, Goes
<1> QED
  BY <1>3, <1>4, <1>5, <1>6, <1>7, <1>8 DEF Local

\* What mining its transaction tells the invocation that waits for it.
LEMMA MinedStep ==
    ASSUME IInv, NEW tx \in mempool, Mine(tx), procs[tx.proc].pc = "waiting"
    PROVE  ProcInv(tx.proc)'
<1>1. PICK p : p = tx.proc
  OBVIOUS
<1>2. /\ p \in Procs /\ procs[p] \in Proc /\ ProcInv(p) /\ procs[p].pc = "waiting"
      /\ procs[p].cmd = tx.cmd /\ procs[p].key = tx.key /\ procs[p].params = tx.params
      /\ tx.cmd \in {"create", "finish", "cancel"}
  BY <1>1, TxFacts DEF IInv
<1>3. TxInv(tx) /\ ChainInv /\ ChainInv' /\ Grows
  <2>1. [Next]_vars
    BY DEF Next
  <2> QED
    BY <2>1, ChainStep DEF IInv
<1>4. Succeeds(tx) \in BOOLEAN /\ procs \in [Procs -> Proc]
  BY DEF Succeeds, IInv, TypeOK
<1>5. PICK ok \in BOOLEAN : ok = Succeeds(tx)
  BY <1>4
<1>6. /\ procs'[p].cmd = procs[p].cmd /\ procs'[p].pc = "mined"
      /\ procs'[p].params = procs[p].params /\ procs'[p].ok = ok
      /\ procs'[p].journal = procs[p].journal
      /\ procs'[p].key = IF procs[p].cmd = "create" /\ ok THEN Opened + 1 ELSE procs[p].key
  BY <1>1, <1>2, <1>4, <1>5 DEF Mine, Proc
<1>7. procs[p].journal # NoJournal => procs[p].journal.condition \in met'
  BY <1>2, <1>3 DEF ProcInv, Grows
<1>8. CASE tx.cmd = "create"
  <2>1. ASSUME ok PROVE Names(procs[p].key, procs[p].params)'
    <3>1. PICK k, params : k = Opened + 1 /\ params = tx.params
      OBVIOUS
    <3>2. /\ k \in Keys /\ status'[k] # "none" /\ terms'[k] = TermsOf(tx)
      BY <1>5, <1>8, <2>1, <3>1, CreationMined DEF Mine
    <3>3. Names(k, params)'
      BY <1>3, <1>8, <3>1, <3>2 DEF Names, TermsOf, TxInv, AsksRight
    <3>4. procs'[p].key = k /\ procs'[p].params = params
      BY <1>2, <1>6, <1>8, <2>1, <3>1
    <3> QED
      BY <3>3, <3>4 DEF Names
  <2> QED
    BY <1>1, <1>2, <1>6, <1>7, <1>8, <2>1
       DEF ProcInv, CreateInv, Created, SettlementInv, Names
<1>9. CASE tx.cmd # "create"
  <2>1. PICK k : k = procs[p].key
    OBVIOUS
  <2>2. k \in Keys
    BY <1>2, <1>9, <2>1, TxFacts
  <2>3. ok => status'[k] = IF tx.cmd = "finish" THEN "released" ELSE "refunded"
    BY <1>2, <1>5, <1>9, <2>1, SettlementMined DEF Mine
  <2>4. ~ok => status'[k] \in {"released", "refunded"}
    BY <1>2, <1>3, <1>5, <1>9, <2>1, <2>2, SettlementFails DEF Grows, HasSettled
  <2>5. procs'[p].key = k
    BY <1>2, <1>6, <1>9, <2>1
  <2> QED
    BY <1>1, <1>2, <1>6, <1>7, <1>9, <2>2, <2>3, <2>4, <2>5
       DEF ProcInv, CreateInv, SettlementInv, HasSettled
<1> QED
  BY <1>8, <1>9

\* Every step keeps what is known of every invocation.
LEMMA ProcStep == IInv /\ [Next]_vars => \A p \in Procs : ProcInv(p)'
<1> SUFFICES ASSUME IInv, [Next]_vars, NEW q \in Procs PROVE ProcInv(q)'
  OBVIOUS
<1>1. /\ ChainInv /\ Grows /\ ProcInv(q)
      /\ procs \in [Procs -> Proc] /\ procs[q] \in Proc
  BY ChainStep DEF IInv, TypeOK
<1>2. ASSUME procs'[q] = procs[q] PROVE ProcInv(q)'
  BY <1>1, <1>2, IdleProc
<1>3. ASSUME NEW p \in Procs, Local(p) PROVE ProcInv(q)'
  BY <1>2, <1>3, LocalStep, LocalFrame DEF IInv
<1>4. ASSUME NEW p \in Procs, Send(p) PROVE ProcInv(q)'
  <2>1. CASE q = p
    <3>1. /\ procs[q].pc = "ready" /\ procs'[q] = [procs[q] EXCEPT !.pc = "waiting"]
          /\ UNCHANGED <<terms, status, held, now, met>>
      BY <1>1, <1>4, <2>1 DEF Send, Goes, ledger
    <3> QED
      BY <1>1, <3>1 DEF ProcInv, CreateInv, Created, SettlementInv, Names, AsksRight,
                        HasSettled, Proc
  <2> QED
    BY <1>1, <1>2, <1>4, <2>1 DEF Send, Goes
<1>5. ASSUME NEW p \in Procs, Abort(p) PROVE ProcInv(q)'
  <2>1. CASE q = p
    <3>1. /\ procs[q].pc # "idle" /\ procs'[q] = [procs[q] EXCEPT !.pc = "failed"]
          /\ UNCHANGED <<terms, status, held, now, met>>
      BY <1>1, <1>5, <2>1 DEF Abort, Ended, Goes, ledger
    <3> QED
      BY <1>1, <3>1 DEF ProcInv, CreateInv, Created, SettlementInv, Names, AsksRight,
                        HasSettled, Proc
  <2> QED
    BY <1>1, <1>2, <1>5, <2>1 DEF Abort, Goes
<1>6. ASSUME NEW tx \in mempool, Mine(tx) PROVE ProcInv(q)'
  <2>1. CASE q = tx.proc /\ procs[q].pc = "waiting"
    BY <1>6, <2>1, MinedStep
  <2>2. CASE ~(q = tx.proc /\ procs[q].pc = "waiting")
    BY <1>1, <1>2, <1>6, <2>2 DEF Mine
  <2> QED
    BY <2>1, <2>2
<1>7. CASE NextBlock \/ (\E f \in ConditionFiles : Generate(f)) \/ UNCHANGED vars
  BY <1>2, <1>7 DEF NextBlock, Generate, vars
<1> QED
  BY <1>3, <1>4, <1>5, <1>6, <1>7 DEF Next, Local

\* A transaction that was sent keeps its chance.
LEMMA TxStep == IInv /\ [Next]_vars => \A tx \in mempool' : TxInv(tx)'
<1> SUFFICES ASSUME IInv, [Next]_vars, NEW tx \in mempool' PROVE TxInv(tx)'
  OBVIOUS
<1>1. ChainInv /\ ChainInv' /\ Grows
  BY ChainStep DEF IInv
<1>2. CASE tx \in mempool
  <2>1. TxInv(tx) /\ (tx.cmd # "create" => tx.key \in Keys /\ status[tx.key] # "none")
    BY <1>2, TxFacts DEF IInv
  <2>2. tx.cmd # "create" =>
          /\ terms'[tx.key] = terms[tx.key] /\ status'[tx.key] # "none"
          /\ terms[tx.key] \in Lifecycle!Terms
    BY <1>1, <2>1 DEF Grows, ChainInv
  <2>3. now \in Nat /\ now' \in Nat /\ now' >= now
    BY <1>1 DEF ChainInv, Grows
  <2>4. tx.cmd = "finish" => now' >= terms'[tx.key].finishAfter /\ Proven(tx)'
    BY <2>1, <2>2, <2>3 DEF TxInv, Proven, Lifecycle!Terms
  <2>5. tx.cmd = "cancel" => /\ terms'[tx.key].cancelAfter # 0
                             /\ now' >= terms'[tx.key].cancelAfter
    BY <2>1, <2>2, <2>3 DEF TxInv, Lifecycle!Terms
  <2> QED
    BY <2>1, <2>2, <2>4, <2>5 DEF TxInv, AsksRight
<1>3. ASSUME NEW p \in Procs, Send(p), tx = Tx(p)
      PROVE  TxInv(tx)'
  <2>1. /\ procs[p] \in Proc /\ ProcInv(p) /\ procs[p].pc = "ready"
        /\ UNCHANGED <<terms, status, held, now, met>>
        /\ Succeeds(tx)
        /\ procs[p].cmd \in {"create", "finish", "cancel"}
    BY <1>3 DEF Send, IInv, TypeOK, Proc, ledger
  <2>2. /\ tx.proc = p /\ tx.cmd = procs[p].cmd /\ tx.params = procs[p].params
        /\ tx.condition = procs[p].condition
    BY <1>3 DEF Tx
  <2>3. tx.cmd = "create" => AsksRight(tx)
    BY <2>1, <2>2 DEF ProcInv, CreateInv, AsksRight
  <2>4. TxInv(tx)
    BY <1>3, <2>1, <2>2, <2>3 DEF TxInv, Succeeds, FinishSucceeds, CancelSucceeds
  <2> QED
    BY <2>1, <2>4 DEF TxInv, AsksRight, Proven
<1>4. tx \in mempool \/ \E p \in Procs : Send(p) /\ tx = Tx(p)
  BY DEF Next, StartCreate, StartFinish, StartCancel, StartSettlement,
         release_condition, release_proof, Send, Confirm, Abort, Mine, SaveOpens,
         SaveParams, SaveKey, Generate, NextBlock, vars
<1> QED
  BY <1>2, <1>3, <1>4

\* A process that moves saves, fails, or has not come to that yet.
LEMMA ProcMoves ==
    ASSUME IInv, [Next]_vars, NEW p \in Procs
    PROVE  \/ procs'[p] = procs[p]
           \/ SaveOpens(p) \/ SaveParams(p) \/ SaveKey(p)
           \/ ~Ended(p) /\ procs'[p] = [procs[p] EXCEPT !.pc = "failed"]
           \/ /\ procs[p].pc \in {"idle", "loaded", "ready", "waiting", "mined"}
              /\ procs'[p].pc \notin {"idle", "saving", "halfway"}
              /\ procs'[p].pc = "done" => procs'[p].cmd # "create"
<1>1. /\ procs \in [Procs -> Proc] /\ procs[p] \in Proc
      /\ procs[p].cmd \in {"create", "finish", "cancel"}
  BY DEF IInv, TypeOK, Proc
<1>2. CASE StartCreate(p) \/ StartFinish(p) \/ StartCancel(p) \/ release_condition(p)
           \/ release_proof(p) \/ Send(p)
  BY <1>1, <1>2 DEF StartCreate, StartFinish, StartCancel, StartSettlement,
                    release_condition, release_proof, Send, Goes, Proc
<1>3. CASE Confirm(p)
  BY <1>1, <1>3 DEF Confirm, HasReceipt, Continues, Proc
<1>4. CASE Abort(p)
  BY <1>1, <1>4 DEF Abort, Goes, Proc
<1>5. ASSUME NEW tx \in mempool, Mine(tx), tx.proc = p, procs[p].pc = "waiting"
      PROVE  procs'[p].pc = "mined"
  BY <1>1, <1>5 DEF Mine, Proc
<1>6. ASSUME NEW tx \in mempool, Mine(tx), ~(tx.proc = p /\ procs[p].pc = "waiting")
      PROVE  procs'[p] = procs[p]
  BY <1>1, <1>6 DEF Mine
<1>7. ASSUME NEW q \in Procs \ {p}, Local(q) \/ Send(q) \/ Abort(q)
      PROVE  procs'[p] = procs[p]
  BY <1>1, <1>7, LocalFrame DEF IInv, Send, Abort, Goes
<1>8. NextBlock \/ (\E f \in ConditionFiles : Generate(f)) \/ UNCHANGED vars
        => procs' = procs
  BY DEF NextBlock, Generate, vars
<1> QED
  BY <1>2, <1>3, <1>4, <1>5, <1>6, <1>7, <1>8 DEF Next, Local

\* Only a creation's save touches escrow_metadata.json.
LEMMA FileWriters ==
    ASSUME [Next]_vars
    PROVE  \/ \E p \in Procs : SaveOpens(p) \/ SaveParams(p) \/ SaveKey(p)
           \/ UNCHANGED <<metadataFile, saves>>
BY DEF Next, StartCreate, StartFinish, StartCancel, StartSettlement,
       release_condition, release_proof, Send, Confirm, Abort, Mine, Generate,
       NextBlock, files, history, vars

\* Every step keeps what is known of every save.
LEMMA SavesStep == IInv /\ [Next]_vars => \A p \in Procs : SavedInv(p)'
<1> SUFFICES ASSUME IInv, [Next]_vars, NEW p \in Procs PROVE SavedInv(p)'
  OBVIOUS
<1>1. /\ procs \in [Procs -> Proc] /\ procs[p] \in Proc
      /\ metadataFile \in Metadata
      /\ saves \in [Procs -> {"none", "alone", "disturbed"}]
      /\ SavedInv(p) /\ ChainInv /\ Grows
  BY ChainStep DEF IInv, TypeOK
<1>2. ASSUME Names(procs[p].key, procs[p].params),
             procs'[p].key = procs[p].key, procs'[p].params = procs[p].params
      PROVE  Names(procs[p].key, procs[p].params)'
  <2>1. PICK k, params : k = procs[p].key /\ params = procs[p].params
    OBVIOUS
  <2>2. Names(k, params)'
    BY <1>1, <1>2, <2>1, NamesGrows
  <2> QED
    BY <1>2, <2>1, <2>2 DEF Names
<1>3. ASSUME NEW q \in Procs, SaveOpens(q) PROVE SavedInv(p)'
  <2>1. /\ procs[q].cmd = "create" /\ Names(procs[q].key, procs[q].params)
        /\ procs[q].pc = "confirmed" /\ procs[q] \in Proc
        /\ procs' = [procs EXCEPT ![q].pc = "saving"]
        /\ metadataFile' = [params |-> Blank, key |-> Blank]
    BY <1>1, <1>3, SavesKey DEF SaveOpens, Goes
  <2>2. CASE q = p
    <3>1. /\ saves'[p] \in {"alone", "disturbed"}
          /\ saves'[p] = "alone" => \A r \in Procs : ~SaveUnderWay(r)
      BY <1>3, <2>2 DEF SaveOpens
    <3>2. /\ procs'[p].cmd = "create" /\ procs'[p].pc = "saving"
          /\ procs'[p].key = procs[p].key /\ procs'[p].params = procs[p].params
      BY <1>1, <2>1, <2>2 DEF Proc
    <3>3. \A r \in Procs \ {p} : procs'[r] = procs[r]
      BY <1>1, <2>1, <2>2
    <3>4. AloneFile(p)'
      BY <2>1, <3>2 DEF AloneFile
    <3>5. Names(procs[p].key, procs[p].params)'
      BY <1>2, <2>1, <2>2, <3>2
    <3> QED
      BY <3>1, <3>2, <3>3, <3>4, <3>5 DEF SavedInv, SaveUnderWay
  <2>3. CASE q # p
    <3>1. /\ saves'[p] = IF saves[p] = "alone" THEN "disturbed" ELSE saves[p]
          /\ procs'[p] = procs[p]
      BY <1>1, <1>3, <2>1, <2>3 DEF SaveOpens
    <3> QED
      BY <1>1, <1>2, <3>1 DEF SavedInv
  <2> QED
    BY <2>2, <2>3
<1>4. ASSUME NEW q \in Procs, SaveParams(q) \/ SaveKey(q) PROVE SavedInv(p)'
  <2>1. /\ procs[q].cmd = "create" /\ Names(procs[q].key, procs[q].params)
        /\ SaveUnderWay(q) /\ procs[q] \in Proc /\ saves' = saves /\ SavedInv(q)
    BY <1>1, <1>4, SavesKey DEF SaveParams, SaveKey, SaveUnderWay, history, IInv
  <2>2. /\ procs' = [procs EXCEPT ![q].pc = IF SaveParams(q) THEN "halfway" ELSE "done"]
        /\ procs[q].pc = IF SaveParams(q) THEN "saving" ELSE "halfway"
    BY <1>4 DEF SaveParams, SaveKey, Goes
  <2>3. \A r \in Procs : SaveUnderWay(r)' => SaveUnderWay(r)
    BY <1>1, <2>1, <2>2 DEF SaveUnderWay, Proc
  <2>4. CASE q = p
    <3>1. /\ procs'[p].cmd = "create"
          /\ procs'[p].pc = IF SaveParams(p) THEN "halfway" ELSE "done"
          /\ procs'[p].key = procs[p].key /\ procs'[p].params = procs[p].params
      BY <1>1, <2>1, <2>2, <2>4 DEF Proc
    <3>2. ASSUME saves[p] = "alone" PROVE AloneFile(p)'
      <4>1. AloneFile(p)
        BY <1>1, <3>2 DEF SavedInv
      <4>2. CASE SaveParams(p)
        BY <1>1, <2>2, <2>4, <3>1, <4>1, <4>2
           DEF AloneFile, SaveParams, Overwritten, Metadata
      <4>3. CASE SaveKey(p) /\ ~SaveParams(p)
        BY <1>1, <2>2, <2>4, <3>1, <4>1, <4>3
           DEF AloneFile, SaveKey, Overwritten, Metadata
      <4> QED
        BY <1>4, <2>4, <4>2, <4>3
    <3>3. Names(procs[p].key, procs[p].params)'
      BY <1>2, <2>1, <2>4, <3>1
    <3>4. saves[p] # "none"
      BY <1>1, <2>1, <2>4 DEF SavedInv, SaveUnderWay
    <3> QED
      BY <1>1, <2>1, <2>3, <3>1, <3>2, <3>3, <3>4 DEF SavedInv
  <2>5. CASE q # p
    <3>1. procs'[p] = procs[p] /\ saves[p] # "alone"
      BY <1>1, <2>1, <2>2, <2>5 DEF SavedInv
    <3> QED
      BY <1>1, <1>2, <2>1, <3>1 DEF SavedInv
  <2> QED
    BY <2>4, <2>5
<1>5. CASE \A q \in Procs : ~(SaveOpens(q) \/ SaveParams(q) \/ SaveKey(q))
  <2>1. metadataFile' = metadataFile /\ saves' = saves
    BY <1>5, FileWriters
  <2>2. \A q \in Procs : SaveUnderWay(q)' => SaveUnderWay(q)
    <3> TAKE q \in Procs
    <3>1. procs[q] \in Proc
      BY <1>1
    <3> QED
      BY <1>5, <3>1, ProcMoves DEF SaveUnderWay, Proc
  <2>3. CASE procs'[p] = procs[p]
    BY <1>1, <1>2, <2>1, <2>2, <2>3 DEF SavedInv, AloneFile
  <2>4. CASE procs'[p] = [procs[p] EXCEPT !.pc = "failed"]
    <3>1. /\ procs'[p].cmd = procs[p].cmd /\ procs'[p].pc = "failed"
          /\ procs'[p].key = procs[p].key /\ procs'[p].params = procs[p].params
      BY <1>1, <2>4 DEF Proc
    <3> QED
      BY <1>1, <1>2, <2>1, <2>2, <3>1 DEF SavedInv, AloneFile
  <2>5. CASE /\ procs[p].pc \in {"idle", "loaded", "ready", "waiting", "mined"}
             /\ procs'[p].pc \notin {"idle", "saving", "halfway"}
             /\ procs'[p].pc = "done" => procs'[p].cmd # "create"
    BY <1>1, <2>1, <2>5 DEF SavedInv
  <2> QED
    BY <1>5, <2>3, <2>4, <2>5, ProcMoves
<1> QED
  BY <1>3, <1>4, <1>5

\* Only a transaction that is mined and succeeds moves an escrow.
LEMMA ChainMovers ==
    ASSUME IInv, [Next]_vars, status' # status
    PROVE  \E tx \in mempool : Mine(tx) /\ Succeeds(tx) /\ Takes(tx)
<1>1. ASSUME NEW p \in Procs, Local(p) \/ Send(p) \/ Abort(p)
      PROVE  status' = status
  BY <1>1, LocalFrame DEF IInv, Send, Abort, ledger
<1>2. ASSUME NextBlock \/ (\E f \in ConditionFiles : Generate(f)) \/ UNCHANGED vars
      PROVE  status' = status
  BY <1>2 DEF NextBlock, Generate, vars
<1>3. ASSUME NEW tx \in mempool, Mine(tx)
      PROVE  Succeeds(tx) /\ Takes(tx)
  <2>1. Succeeds(tx) => Takes(tx)
    BY <1>3 DEF Mine
  <2>2. ~Succeeds(tx) => status' = status
    BY <1>3 DEF Mine, ledger
  <2> QED
    BY <2>1, <2>2
<1> QED
  BY <1>1, <1>2, <1>3 DEF Next, Local

\* An invocation of create that has begun keeps what it knows.
LEMMA CreatorStays ==
    ASSUME IInv, [Next]_vars, NEW q \in Procs,
           procs[q].cmd = "create", procs[q].pc # "idle"
    PROVE  /\ procs'[q].cmd = "create"
           /\ procs[q].key # 0 => procs'[q].key = procs[q].key
           /\ procs[q].pc = "failed" => procs'[q].pc = "failed"
<1>1. /\ procs \in [Procs -> Proc] /\ procs[q] \in Proc /\ CreateInv(procs[q])
  BY DEF IInv, TypeOK, ProcInv
<1>2. CASE procs'[q] = procs[q]
  BY <1>2
<1>3. CASE StartCreate(q) \/ StartFinish(q) \/ StartCancel(q) \/ release_proof(q)
  BY <1>3 DEF StartCreate, StartFinish, StartCancel, StartSettlement, release_proof
<1>4. CASE release_condition(q) \/ Send(q) \/ Confirm(q) \/ SaveOpens(q) \/ SaveParams(q)
           \/ SaveKey(q) \/ Abort(q)
  BY <1>1, <1>4 DEF release_condition, Send, Confirm, HasReceipt, Continues, CreatedKey,
                    SaveOpens, SaveParams, SaveKey, Abort, Ended, Goes, Proc
<1>5. ASSUME NEW tx \in mempool, Mine(tx), tx.proc = q, procs[q].pc = "waiting"
      PROVE  procs'[q].cmd = "create" /\ procs'[q].pc = "mined" /\ procs[q].key = 0
  BY <1>1, <1>5 DEF Mine, CreateInv, Proc
<1>6. ASSUME NEW tx \in mempool, Mine(tx), ~(tx.proc = q /\ procs[q].pc = "waiting")
      PROVE  procs'[q] = procs[q]
  BY <1>1, <1>6 DEF Mine
<1>7. ASSUME NEW p \in Procs \ {q}, Local(p) \/ Send(p) \/ Abort(p)
      PROVE  procs'[q] = procs[q]
  BY <1>1, <1>7, LocalFrame DEF IInv, Send, Abort, Goes
<1>8. CASE NextBlock \/ (\E f \in ConditionFiles : Generate(f)) \/ UNCHANGED vars
  BY <1>2, <1>8 DEF NextBlock, Generate, vars
<1> QED
  BY <1>2, <1>3, <1>4, <1>5, <1>6, <1>7, <1>8 DEF Next, Local

\* An invocation of create learns its key when it is mined, and only then.
LEMMA CreatedBefore ==
    ASSUME IInv, [Next]_vars, NEW q \in Procs,
           procs'[q].cmd = "create", Created(procs[q])',
           \A tx \in mempool : ~(Mine(tx) /\ tx.proc = q /\ procs[q].pc = "waiting")
    PROVE  /\ procs[q].cmd = "create" /\ Created(procs[q])
           /\ procs'[q].key = procs[q].key
<1>1. /\ procs \in [Procs -> Proc] /\ procs[q] \in Proc /\ ProcInv(q)
      /\ procs[q].cmd \in {"create", "finish", "cancel"}
  BY DEF IInv, TypeOK, Proc
<1>2. CASE procs'[q] = procs[q]
  BY <1>2 DEF Created
<1>3. CASE StartCreate(q) \/ StartFinish(q) \/ StartCancel(q) \/ release_condition(q)
           \/ release_proof(q) \/ Send(q) \/ Abort(q)
  <2>1. procs'[q].pc \in {"loaded", "ready", "waiting", "unparsed", "failed"}
           \/ procs'[q].cmd = "cancel"
    BY <1>1, <1>3 DEF StartCreate, StartFinish, StartCancel, StartSettlement,
                      release_condition, release_proof, Send, Abort, Goes, Proc
  <2> QED
    BY <2>1 DEF Created
<1>4. CASE Confirm(q)
  BY <1>1, <1>4 DEF Confirm, HasReceipt, FailureReported, Continues, CreatedKey,
                    Created, Proc
<1>5. CASE SaveOpens(q) \/ SaveParams(q) \/ SaveKey(q)
  BY <1>1, <1>5 DEF SaveOpens, SaveParams, SaveKey, Goes, Created, Proc
<1>6. ASSUME NEW tx \in mempool, Mine(tx)
      PROVE  procs'[q] = procs[q]
  BY <1>1, <1>6 DEF Mine
<1>7. ASSUME NEW p \in Procs \ {q}, Local(p) \/ Send(p) \/ Abort(p)
      PROVE  procs'[q] = procs[q]
  BY <1>1, <1>7, LocalFrame DEF IInv, Send, Abort, Goes
<1>8. CASE NextBlock \/ (\E f \in ConditionFiles : Generate(f)) \/ UNCHANGED vars
  BY <1>2, <1>8 DEF NextBlock, Generate, vars
<1> QED
  BY <1>2, <1>3, <1>4, <1>5, <1>6, <1>7, <1>8 DEF Next, Local

\* Only a creation that is mined and succeeds has an opener to record.
LEMMA OpenerMoves ==
    ASSUME IInv, [Next]_vars, NEW k \in Keys, status[k] # "none"
    PROVE  opener'[k] = opener[k]
<1>1. opener \in [Keys -> Procs \cup {NoProc}]
  BY DEF IInv, TypeOK
<1>2. ASSUME NEW p \in Procs, Local(p) \/ Send(p) \/ Abort(p)
      PROVE  opener' = opener
  BY <1>2, LocalFrame DEF IInv, Send, Abort, history
<1>3. NextBlock \/ (\E f \in ConditionFiles : Generate(f)) \/ UNCHANGED vars
        => opener' = opener
  BY DEF NextBlock, Generate, vars, history
<1>4. ASSUME NEW tx \in mempool, Mine(tx)
      PROVE  opener'[k] = opener[k]
  <2>1. CASE tx.cmd = "create" /\ Succeeds(tx)
    <3>1. Opened + 1 # k
      BY <1>4, <2>1, CreationMined DEF Mine
    <3> QED
      BY <1>1, <1>4, <2>1, <3>1 DEF Mine
  <2> QED
    BY <1>4, <2>1 DEF Mine
<1> QED
  BY <1>2, <1>3, <1>4 DEF Next, Local

\* Every step keeps what is known of who opened what.
LEMMA OpenerStep == IInv /\ [Next]_vars => OpenerInv'
<1> SUFFICES ASSUME IInv, [Next]_vars PROVE OpenerInv'
  OBVIOUS
<1>1. /\ procs \in [Procs -> Proc] /\ OpenerInv
      /\ opener \in [Keys -> Procs \cup {NoProc}]
  BY DEF IInv, TypeOK
<1>2. ASSUME NEW k \in Keys, status'[k] # "none"
      PROVE  /\ opener'[k] \in Procs /\ procs'[opener'[k]].cmd = "create"
             /\ procs'[opener'[k]].key = k \/ procs'[opener'[k]].pc = "failed"
  <2>1. CASE status[k] # "none"
    <3>1. PICK p \in Procs : /\ p = opener[k] /\ procs[p].cmd = "create"
                             /\ procs[p].key = k \/ procs[p].pc = "failed"
      BY <1>1, <2>1 DEF OpenerInv
    <3>2. procs[p].pc # "idle" /\ k # 0
      BY <3>1, ClientAssumption DEF IInv, ProcInv, CreateInv, Keys
    <3>3. opener'[k] = p
      BY <2>1, <3>1, OpenerMoves
    <3> QED
      BY <3>1, <3>2, <3>3, CreatorStays
  <2>2. CASE status[k] = "none"
    <3>1. PICK tx \in mempool : Mine(tx) /\ Succeeds(tx) /\ Takes(tx)
      BY <1>2, <2>2, ChainMovers
    <3>2. tx.cmd = "create" /\ k = Opened + 1
      BY <1>2, <2>2, <3>1, CreationMined, SettlementMined
    <3>3. /\ tx.proc \in Procs /\ procs[tx.proc].cmd = "create"
          /\ procs[tx.proc].pc \in {"waiting", "failed"} /\ procs[tx.proc] \in Proc
      BY <3>2, TxFacts
    <3>4. opener'[k] = tx.proc
      BY <1>1, <3>1, <3>2 DEF Mine
    <3>5. CASE procs[tx.proc].pc = "waiting"
      BY <1>1, <3>1, <3>2, <3>3, <3>4, <3>5 DEF Mine, Proc
    <3>6. CASE procs[tx.proc].pc = "failed"
      BY <3>3, <3>4, <3>6, CreatorStays
    <3> QED
      BY <3>3, <3>5, <3>6
  <2> QED
    BY <2>1, <2>2
<1>3. ASSUME NEW p \in Procs, procs'[p].cmd = "create", Created(procs[p])'
      PROVE  opener'[procs'[p].key] = p
  <2>1. ASSUME NEW tx \in mempool, Mine(tx), tx.proc = p, procs[p].pc = "waiting"
        PROVE  opener'[procs'[p].key] = p
    <3>1. /\ procs'[p].pc = "mined" /\ procs'[p].cmd = procs[p].cmd
          /\ procs'[p].ok = Succeeds(tx) /\ tx.cmd = procs[p].cmd
      BY <1>1, <2>1, TxFacts DEF Mine, Proc
    <3>2. tx.cmd = "create" /\ Succeeds(tx)
      BY <1>3, <3>1 DEF Created
    <3>3. procs'[p].key = Opened + 1 /\ Opened + 1 \in Keys
      BY <1>1, <2>1, <3>2, CreationMined DEF Mine, Proc
    <3> QED
      BY <1>1, <2>1, <3>2, <3>3 DEF Mine
  <2>2. CASE \A tx \in mempool : ~(Mine(tx) /\ tx.proc = p /\ procs[p].pc = "waiting")
    <3>1. /\ procs[p].cmd = "create" /\ Created(procs[p])
          /\ procs'[p].key = procs[p].key
      BY <1>3, <2>2, CreatedBefore
    <3>2. procs[p].key \in Keys /\ status[procs[p].key] # "none"
      BY <3>1 DEF IInv, ProcInv, CreateInv, Names
    <3> QED
      BY <1>1, <3>1, <3>2, OpenerMoves DEF OpenerInv
  <2> QED
    BY <2>1, <2>2
<1> QED
  BY <1>2, <1>3 DEF OpenerInv

\* A fresh machine and a fresh chain.
LEMMA InitInv == Init => IInv
<1> SUFFICES ASSUME Init PROVE IInv
  OBVIOUS
<1>1. procs \in [Procs -> Proc]
  BY ClientAssumption DEF Init, Proc
<1>2. \A p \in Procs : /\ procs[p].cmd = "create" /\ procs[p].pc = "idle"
                       /\ procs[p].key = 0 /\ procs[p].condition = NoCondition
                       /\ procs[p].journal = NoJournal
  BY DEF Init
<1>3. /\ conditionsFile = NoFile /\ metadataFile \in Metadata /\ mempool = {}
      /\ Lifecycle!Init
      /\ opener \in [Keys -> Procs \cup {NoProc}]
      /\ saves \in [Procs -> {"none", "alone", "disturbed"}]
      /\ \A p \in Procs : saves[p] = "none"
  BY DEF Init, Metadata
<1>4. ChainInv
  BY <1>3, ClientAssumption DEF ChainInv, Lifecycle!Init, Keys
<1>5. \A p \in Procs : ProcInv(p) /\ SavedInv(p)
  BY <1>2, <1>3 DEF ProcInv, CreateInv, Created, SettlementInv, SavedInv
<1>6. OpenerInv
  BY <1>2, <1>3 DEF OpenerInv, Created, Lifecycle!Init
<1> QED
  BY <1>1, <1>3, <1>4, <1>5, <1>6 DEF IInv, TypeOK, WitnessInv

\* The invariant of Client.
THEOREM Invariance == Spec => []IInv
<1>1. IInv /\ [Next]_vars => IInv'
  <2> SUFFICES ASSUME IInv, [Next]_vars PROVE IInv'
    OBVIOUS
  <2>1. \A p \in Procs : ProcInv(p)'
    BY ProcStep
  <2>2. \A tx \in mempool' : TxInv(tx)'
    BY TxStep
  <2> QED
    BY TypeStep, ChainStep, WitnessStep, SavesStep, OpenerStep, <2>1, <2>2 DEF IInv
<1> QED
  BY <1>1, InitInv, PTL DEF Spec

\* TypeOK: a transaction that is under way is the one its process sent.
THEOREM TypeCorrect == Spec => []TypeOK
<1>1. IInv => TypeOK
  BY DEF IInv
<1> QED
  BY <1>1, Invariance, PTL

\* MetadataNamesEscrow: what a save that no other came near has left of
\* escrow_metadata.json, whatever happened since, cannot be read or names an
\* escrow on the chain and says what it is.
THEOREM MetadataNames == Spec => []MetadataNamesEscrow
<1>1. ASSUME IInv, NEW p \in Procs, saves[p] = "alone", Readable(metadataFile)
      PROVE  Names(metadataFile.key, metadataFile.params)
  <2>1. AloneFile(p) /\ Names(procs[p].key, procs[p].params)
    BY <1>1 DEF IInv, SavedInv
  <2>2. metadataFile.key = procs[p].key /\ metadataFile.params = procs[p].params
    BY <1>1, <2>1, SentinelAssumption, ClientAssumption DEF AloneFile, Readable, Keys
  <2> QED
    BY <2>1, <2>2
<1>2. IInv => MetadataNamesEscrow
  BY <1>1 DEF MetadataNamesEscrow
<1> QED
  BY <1>2, Invariance, PTL

\* CreatedIsSavedOrFailed: a creation reported as done was saved, and is still
\* in the file unless another save came near; and of every escrow, the creation
\* that opened it knows its id or has failed.
THEOREM NothingLostInSilence == Spec => []CreatedIsSavedOrFailed
<1>1. ASSUME IInv, NEW p \in Procs, Reported(p, "create")
      PROVE  /\ procs[p].key \in Keys /\ opener[procs[p].key] = p
             /\ saves[p] # "none"
             /\ saves[p] = "alone" =>
                   metadataFile = [params |-> procs[p].params, key |-> procs[p].key]
  <2>1. ProcInv(p) /\ SavedInv(p) /\ metadataFile \in Metadata /\ OpenerInv
    BY <1>1 DEF IInv, TypeOK
  <2>2. procs[p].key \in Keys /\ opener[procs[p].key] = p
    BY <1>1, <2>1 DEF ProcInv, CreateInv, Created, Names, Reported, OpenerInv
  <2>3. saves[p] = "alone" =>
          metadataFile = [params |-> procs[p].params, key |-> procs[p].key]
    BY <1>1, <2>1 DEF SavedInv, AloneFile, Reported, Metadata
  <2> QED
    BY <1>1, <2>1, <2>2, <2>3 DEF SavedInv, Reported
<1>2. IInv => CreatedIsSavedOrFailed
  BY <1>1 DEF CreatedIsSavedOrFailed, IInv, OpenerInv
<1> QED
  BY <1>2, Invariance, PTL

\* ReportedIsSettled: a finish or cancel is reported as done only for an
\* escrow that is settled, on Solana for one that is settled as reported.
THEOREM ReportsTrue == Spec => []ReportedIsSettled
<1>1. IInv => ReportedIsSettled
  BY DEF IInv, ProcInv, SettlementInv, HasSettled, Reported, SettledAs, ReportedIsSettled
<1> QED
  BY <1>1, Invariance, PTL

-----------------------------------------------------------------------------
(***************************************************************************)
(* The client asks nothing of the chain that agents do not promise         *)
(***************************************************************************)

\* The chain's variables after a mined transaction are of their types.
LEMMA ChainTypes ==
    ASSUME ChainInv'
    PROVE  /\ terms' \in [Keys -> Lifecycle!Terms \cup {NoTerms}]
           /\ status' \in [Keys -> {"none", "live", "released", "refunded"}]
           /\ held' \in [Keys -> Nat]
BY DEF ChainInv

\* A creation that succeeds opens one escrow on agreeable terms.
LEMMA CreationMaps ==
    ASSUME IInv, NEW tx \in mempool, tx.cmd = "create", Succeeds(tx), Takes(tx)
    PROVE  Lifecycle!Transact
<1>1. PICK n : n = Opened + 1
  OBVIOUS
<1>2. /\ ChainInv' /\ n \in Keys /\ status[n] = "none"
      /\ status'[n] = "live" /\ terms'[n] = TermsOf(tx) /\ held'[n] = 1
      /\ \A k \in Keys \ {n} : Lifecycle!Keeps(k)
  BY <1>1, CreationMined DEF Lifecycle!Keeps
<1>3. TermsOf(tx) \in Lifecycle!Terms /\ Lifecycle!Agreeable(TermsOf(tx))
  <2>1. TermsOf(tx) \in Lifecycle!Terms /\ tx.params \in Params
    BY TxFacts, TermsOfType
  <2>2. EthereumLocks(TermsOf(tx)) \/ SolanaLocks(tx.params, tx.condition)
    BY DEF Succeeds, CreateSucceeds
  <2>3. EthereumLocks(TermsOf(tx)) => Lifecycle!Agreeable(TermsOf(tx))
    BY DEF EthereumLocks, Lifecycle!Agreeable
  <2>4. SolanaLocks(tx.params, tx.condition) => Lifecycle!Agreeable(TermsOf(tx))
    BY <2>1, SentinelAssumption
       DEF SolanaLocks, TermsOf, unwrap_or_zero, Params, Lifecycle!Agreeable
  <2> QED
    BY <2>1, <2>2, <2>3, <2>4
<1>4. Lifecycle!Opens(n)
  BY <1>2, <1>3 DEF Lifecycle!Opens
<1>5. \A k \in Keys : ~Lifecycle!Settles(k)
  BY <1>2 DEF Lifecycle!Keeps, Lifecycle!Settles
<1>6. UNCHANGED <<now, met>>
  BY DEF Takes
<1> QED
  BY <1>2, <1>4, <1>5, <1>6, ChainTypes DEF Lifecycle!Transact

\* The proof a release was sent with was made of a witness that exists.
LEMMA ProofIsFounded ==
    ASSUME IInv, NEW tx \in mempool, tx.cmd # "create", Proven(tx)
    PROVE  terms[tx.key].condition \in met \cup {NoCondition}
<1> SUFFICES ASSUME terms[tx.key].condition # NoCondition
             PROVE  terms[tx.key].condition \in met
  OBVIOUS
<1>1. tx.journal = [key |-> tx.key, condition |-> terms[tx.key].condition]
  BY DEF Proven
<1>2. /\ tx.journal = procs[tx.proc].journal
      /\ procs[tx.proc].journal \in Journal \cup {NoJournal}
      /\ procs[tx.proc].journal # NoJournal => procs[tx.proc].journal.condition \in met
  BY TxFacts DEF Tx, Proc, IInv, ProcInv
<1>3. tx.journal # NoJournal
  <2>1. tx.key \in Keys
    BY TxFacts
  <2>2. terms[tx.key] \in Lifecycle!Terms
    BY <2>1, TxFacts DEF IInv, ChainInv
  <2>3. terms[tx.key].condition \in Conditions
    BY <2>2 DEF Lifecycle!Terms
  <2> QED
    BY <1>1, <2>1, <2>3, SentinelAssumption DEF Journal
<1> QED
  BY <1>1, <1>2, <1>3

\* A settlement that succeeds is a release in its window or a refund after the
\* deadline.
LEMMA SettlementMaps ==
    ASSUME IInv, NEW tx \in mempool, tx.cmd # "create", Succeeds(tx), Takes(tx)
    PROVE  Lifecycle!Transact
<1>1. PICK n : n = tx.key
  OBVIOUS
<1>2. /\ ChainInv' /\ n \in Keys /\ status[n] = "live" /\ terms' = terms
      /\ status'[n] = IF tx.cmd = "finish" THEN "released" ELSE "refunded"
      /\ held'[n] = 0
      /\ \A k \in Keys \ {n} : Lifecycle!Keeps(k)
  BY <1>1, SettlementMined DEF Lifecycle!Keeps
<1>3. tx.cmd \in {"finish", "cancel"}
  BY TxFacts
<1>4. Lifecycle!Releases(n) \/ Lifecycle!Refunds(n)
  <2>1. CASE tx.cmd = "finish"
    BY <1>1, <1>2, <2>1, ProofIsFounded
       DEF Succeeds, FinishSucceeds, Lifecycle!Releases, Lifecycle!Leaves
  <2>2. CASE tx.cmd = "cancel"
    BY <1>1, <1>2, <2>2
       DEF Succeeds, CancelSucceeds, Lifecycle!Refunds, Lifecycle!Leaves
  <2> QED
    BY <1>3, <2>1, <2>2
<1>5. \A k \in Keys : Lifecycle!Settles(k) => k = n
  BY <1>2 DEF Lifecycle!Keeps, Lifecycle!Settles
<1>6. UNCHANGED <<now, met>>
  BY DEF Takes
<1> QED
  BY <1>2, <1>4, <1>5, <1>6, ChainTypes DEF Lifecycle!Transact

\* Every step is a step of the abstract specification or none.
LEMMA StepMaps == IInv /\ [Next]_vars => [Lifecycle!Next]_Lifecycle!vars
<1> SUFFICES ASSUME IInv, [Next]_vars PROVE [Lifecycle!Next]_Lifecycle!vars
  OBVIOUS
<1>1. ASSUME NEW tx \in mempool, Mine(tx)
      PROVE  [Lifecycle!Next]_Lifecycle!vars
  <2>1. CASE Succeeds(tx)
    BY <1>1, <2>1, CreationMaps, SettlementMaps DEF Mine, Lifecycle!Next
  <2>2. CASE ~Succeeds(tx)
    BY <1>1, <2>2 DEF Mine, ledger, Lifecycle!vars
  <2> QED
    BY <2>1, <2>2
<1>2. ASSUME NEW p \in Procs, Local(p) \/ Send(p) \/ Abort(p)
      PROVE  UNCHANGED Lifecycle!vars
  BY <1>2, LocalFrame DEF IInv, Send, Abort, ledger, Lifecycle!vars
<1>3. ASSUME NEW f \in ConditionFiles, Generate(f)
      PROVE  [Lifecycle!Learn]_Lifecycle!vars
  <2>1. met' = met \/ (f.condition \notin met /\ met' = met \cup {f.condition})
    BY <1>3 DEF Generate
  <2>2. f.condition \in Conditions
    BY ClientAssumption DEF ConditionFile
  <2> QED
    BY <1>3, <2>1, <2>2 DEF Generate, Lifecycle!Learn, Lifecycle!vars
<1>4. CASE NextBlock
  BY <1>4 DEF NextBlock, Lifecycle!Elapse, Lifecycle!Next
<1>5. CASE UNCHANGED vars
  BY <1>5 DEF vars, Lifecycle!vars
<1> QED
  BY <1>1, <1>2, <1>3, <1>4, <1>5 DEF Next, Local, Lifecycle!Next

\* However commands interleave, fail and meet changed files, the chain they
\* run on is the one agents promise: Client implements EscrowLifecycle.
THEOREM ImplementsLifecycle == Spec => LifecycleSpec
<1>1. Init => Lifecycle!Init
  BY DEF Init
<1> QED
  BY <1>1, StepMaps, Invariance, PTL DEF Spec, LifecycleSpec, Lifecycle!Spec
=============================================================================
