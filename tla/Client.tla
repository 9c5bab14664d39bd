------------------------------- MODULE Client -------------------------------
(***************************************************************************)
(* The command-line client (client/src) with the files it shares between   *)
(* commands, the transactions it submits and the chain they run on.        *)
(*                                                                         *)
(* A process runs one command to its end.  Commands of several processes   *)
(* interleave at every file access and await; a transaction is checked     *)
(* once when it is sent (gas estimation, preflight) and again when it is   *)
(* mined, by when the chain may have moved on; a process may end early at  *)
(* any point, and its transaction is mined all the same.                   *)
(*                                                                         *)
(* The escrows are those of EscrowLifecycle, which the two agents          *)
(* implement; what the client adds is when its calls take effect and what  *)
(* it makes of them.  The two chains differ in the locks they take and in  *)
(* how a failure is reported.                                              *)
(*                                                                         *)
(* A save truncates the file and writes it piece by piece, each process at *)
(* an offset of its own, so the bytes of two saves can end up in one file. *)
(* The pieces are taken as two: the parameters, then the escrow's id.      *)
(***************************************************************************)
EXTENDS Integers, FiniteSets

CONSTANTS
    Procs,           \* invocations of the client
    Sender, Recipient,
    Conditions,      \* condition commitments
    NoCondition,
    NoTerms,         \* a key never opened
    NoFile,          \* a conditions file missing or not readable as JSON
    Blank,           \* a part of the metadata file not written since it was cut
    Torn,            \* a part whose bytes are those of several saves, and no JSON
    None,            \* an absent Option<u64>
    NoProc,          \* who opened a key nobody opened
    NoJournal,       \* an unconditioned escrow's empty proof
    ParamFiles,      \* contents of escrow_params.json
    ConditionFiles,  \* contents of escrow_conditions.json
    MaxEscrows,      \* bound: escrows opened
    MaxTime          \* bound: last block or slot explored

Keys == 1 .. MaxEscrows

Chains == {"ethereum", "solana"}

\* EscrowParams: the chain it is for, its locks, whether it is conditioned.
Params == [chain : Chains, hasConditions : BOOLEAN,
           finishAfter : Nat \cup {None}, cancelAfter : Nat \cup {None}]

\* A conditions file: its commitment, whether its witness satisfies it, and
\* whether it is written with ${VAR} references.
ConditionFile == [condition : Conditions, satisfied : BOOLEAN, template : BOOLEAN]

\* escrow_metadata.json: an EscrowMetadata, once both its parts are there.
Metadata == [params : Params \cup {Blank, Torn}, key : Keys \cup {Blank, Torn}]

ASSUME ClientAssumption ==
    /\ NoCondition \notin Conditions
    /\ ParamFiles \subseteq Params /\ ParamFiles # {}
    /\ ConditionFiles \subseteq ConditionFile
    /\ MaxEscrows \in Nat /\ MaxTime \in Nat \ {0}

VARIABLES
    conditionsFile,  \* escrow_conditions.json
    metadataFile,    \* escrow_metadata.json
    procs,           \* the state of every invocation
    mempool,         \* transactions sent and not mined
    terms, status, held, now, met,  \* the chains: see EscrowLifecycle
    opener, saves    \* history, read by no step: who opened each escrow, and
                     \* whether another save touched the file since a process's
                     \* own began or was under way when it did

ledger  == <<terms, status, held, now, met>>
files   == <<conditionsFile, metadataFile>>
history == <<opener, saves>>
vars    == <<conditionsFile, metadataFile, procs, mempool, terms, status, held, now, met,
             opener, saves>>

Journal == [key : Keys, condition : Conditions]

\* What an invocation holds in memory.  `key' is the escrow it is about, 0
\* until it knows; `ok' is the status of its mined transaction.
Proc == [cmd : {"create", "finish", "cancel"},
         pc : {"idle", "loaded", "ready", "waiting", "mined", "confirmed",
               "saving", "halfway", "done", "failed", "unparsed"},
         params : Params, key : Keys \cup {0},
         condition : Conditions \cup {NoCondition},
         journal : Journal \cup {NoJournal}, ok : BOOLEAN]

Goes(p, pc) == procs' = [procs EXCEPT ![p].pc = pc]

(***************************************************************************)
(* The chain: which calls succeed, and their effect                        *)
(***************************************************************************)

Opened  == Cardinality({k \in Keys : status[k] # "none"})
Tx(p)   == [proc |-> p, cmd |-> procs[p].cmd, key |-> procs[p].key,
            params |-> procs[p].params, condition |-> procs[p].condition,
            journal |-> procs[p].journal]

unwrap_or_zero(x) == IF x = None THEN 0 ELSE x

TermsOf(tx) == [sender |-> Sender, recipient |-> Recipient,
                finishAfter |-> unwrap_or_zero(tx.params.finishAfter),
                cancelAfter |-> unwrap_or_zero(tx.params.cancelAfter),
                condition |-> tx.condition]

Lifecycle == INSTANCE EscrowLifecycle WITH Parties <- {Sender, Recipient}

\* Nothing that is there is confused with nothing.
ASSUME SentinelAssumption ==
    /\ NoTerms \notin Lifecycle!Terms
    /\ {Blank, Torn} \cap (Params \cup Nat) = {}
    /\ None \notin Nat
    /\ NoProc \notin Procs
    /\ NoJournal \notin Journal

\* The condition in the journal is not compared with the escrow's.
ProvenBug(tx) ==
    terms[tx.key].condition # NoCondition =>
        tx.journal # NoJournal /\ tx.journal.key = tx.key

\* A conditioned escrow is released for a journal that binds to it: the seal
\* the client passes is one whole seal.
Proven(tx) ==
    terms[tx.key].condition # NoCondition =>
        tx.journal = [key |-> tx.key, condition |-> terms[tx.key].condition]

\* createEscrow: no lock and a lock of zero are one.
EthereumLocks(t) ==
    /\ t.finishAfter # 0 \/ t.cancelAfter # 0
    /\ t.condition # NoCondition => t.cancelAfter # 0
    /\ t.finishAfter # 0 /\ t.cancelAfter # 0 => t.finishAfter < t.cancelAfter

\* create_escrow: a lock of zero is one.
SolanaLocks(params, condition) ==
    /\ params.finishAfter # None \/ params.cancelAfter # None
    /\ condition # NoCondition => params.cancelAfter # None
    /\ params.cancelAfter # None => params.cancelAfter > unwrap_or_zero(params.finishAfter)

CreateSucceeds(tx) ==
    /\ Opened < MaxEscrows
    /\ IF tx.params.chain = "ethereum" THEN EthereumLocks(TermsOf(tx))
       ELSE SolanaLocks(tx.params, tx.condition)

FinishSucceeds(tx) ==
    /\ status[tx.key] = "live"
    /\ now >= terms[tx.key].finishAfter
    /\ Proven(tx)

CancelSucceeds(tx) ==
    /\ status[tx.key] = "live"
    /\ terms[tx.key].cancelAfter # 0
    /\ now >= terms[tx.key].cancelAfter

Succeeds(tx) ==
    \/ tx.cmd = "create" /\ CreateSucceeds(tx)
    \/ tx.cmd = "finish" /\ FinishSucceeds(tx)
    \/ tx.cmd = "cancel" /\ CancelSucceeds(tx)

Takes(tx) ==
    LET k == IF tx.cmd = "create" THEN Opened + 1 ELSE tx.key IN
    /\ terms' = IF tx.cmd = "create" THEN [terms EXCEPT ![k] = TermsOf(tx)] ELSE terms
    /\ status' = [status EXCEPT ![k] = CASE tx.cmd = "create" -> "live"
                                         [] tx.cmd = "finish" -> "released"
                                         [] tx.cmd = "cancel" -> "refunded"]
    /\ held' = [held EXCEPT ![k] = IF tx.cmd = "create" THEN 1 ELSE 0]
    /\ UNCHANGED <<now, met>>

(***************************************************************************)
(* Commands up to their transaction                                        *)
(***************************************************************************)

StartCreate(p) ==
    /\ procs[p].pc = "idle"
    /\ \E params \in ParamFiles :
          procs' = [procs EXCEPT ![p].pc = "loaded", ![p].cmd = "create",
                                 ![p].params = params]
    /\ UNCHANGED <<files, mempool, ledger, history>>

\* Both parts are there and are JSON.
Readable(file) == file.params \in Params /\ file.key \in Keys

\* finish and cancel load the metadata of the last escrow created.
StartSettlement(p, cmd, pc) ==
    /\ procs[p].pc = "idle"
    /\ Readable(metadataFile)
    /\ procs' = [procs EXCEPT ![p].pc = pc, ![p].cmd = cmd,
                              ![p].params = metadataFile.params,
                              ![p].key = metadataFile.key]
    /\ UNCHANGED <<files, mempool, ledger, history>>

StartFinish(p) == StartSettlement(p, "finish", "loaded")
StartCancel(p) == StartSettlement(p, "cancel", "ready")

\* release_condition: load_escrow_data expands the template first.
release_condition(p) ==
    /\ procs[p].pc = "loaded" /\ procs[p].cmd = "create"
    /\ IF procs[p].params.hasConditions
         THEN /\ conditionsFile # NoFile
              /\ procs' = [procs EXCEPT ![p].pc = "ready",
                                        ![p].condition = conditionsFile.condition]
         ELSE Goes(p, "ready")
    /\ UNCHANGED <<files, mempool, ledger, history>>

\* release_proof: from_metadata reads the file as it is by now, and as it is
\* written; prove returns a receipt only for a satisfied condition.
release_proof(p) ==
    /\ procs[p].pc = "loaded" /\ procs[p].cmd = "finish"
    /\ IF ~procs[p].params.hasConditions THEN Goes(p, "ready")
       ELSE /\ conditionsFile # NoFile
            /\ IF conditionsFile.template THEN Goes(p, "unparsed")
               ELSE /\ conditionsFile.satisfied
                    /\ procs' = [procs EXCEPT ![p].pc = "ready",
                         ![p].journal = [key |-> procs[p].key,
                                         condition |-> conditionsFile.condition]]
    /\ UNCHANGED <<files, mempool, ledger, history>>

Send(p) ==
    /\ procs[p].pc = "ready"
    /\ Succeeds(Tx(p))
    /\ mempool' = mempool \cup {Tx(p)}
    /\ Goes(p, "waiting")
    /\ UNCHANGED <<files, ledger, history>>

(***************************************************************************)
(* Mining, and what the client makes of it                                 *)
(***************************************************************************)

Mine(tx) ==
    /\ mempool' = mempool \ {tx}
    /\ IF Succeeds(tx) THEN Takes(tx) ELSE UNCHANGED ledger
    /\ opener' = IF tx.cmd = "create" /\ Succeeds(tx)
                   THEN [opener EXCEPT ![Opened + 1] = tx.proc] ELSE opener
    /\ IF procs[tx.proc].pc = "waiting"
         THEN procs' = [procs EXCEPT
                ![tx.proc].pc = "mined", ![tx.proc].ok = Succeeds(tx),
                ![tx.proc].key = IF tx.cmd = "create" /\ Succeeds(tx)
                                   THEN Opened + 1 ELSE @]
         ELSE UNCHANGED procs
    /\ UNCHANGED <<files, saves>>

\* The receipt is not waited for.
HasReceiptBug(p) == procs[p].pc \in {"waiting", "mined"}

HasReceipt(p) == procs[p].pc = "mined"

\* No failure is reported for a call that was mined.
FailureReportedBug(p) == FALSE

\* send_and_confirm_transaction fails for a failed transaction; get_receipt
\* returns the receipt of a reverted one like any other, and only a creation
\* notices, by the missing event.
FailureReported(p) ==
    ~procs[p].ok /\ (procs[p].params.chain = "solana" \/ procs[p].cmd = "create")

\* The id is asked for (escrowCount) rather than taken from the event.
CreatedKeyBug(p) == Opened

CreatedKey(p) == procs[p].key

\* A creation is reported before its metadata is saved.
ContinuesBug(p) == "done"

\* A creation has its metadata to save; the others are at their end.
Continues(p) == IF procs[p].cmd = "create" THEN "confirmed" ELSE "done"

Confirm(p) ==
    /\ HasReceipt(p)
    /\ procs' = [procs EXCEPT
         ![p].pc = IF FailureReported(p) THEN "failed" ELSE Continues(p),
         ![p].key = IF procs[p].cmd = "create" /\ procs[p].ok THEN CreatedKey(p) ELSE @]
    /\ UNCHANGED <<files, mempool, ledger, history>>

\* save_escrow_data truncates the file, then writes it.
SaveUnderWay(p) == procs[p].pc \in {"saving", "halfway"}

SaveOpens(p) ==
    /\ procs[p].pc = "confirmed"
    /\ metadataFile' = [params |-> Blank, key |-> Blank]
    /\ Goes(p, "saving")
    /\ saves' = [q \in Procs |->
          IF q = p THEN (IF \E r \in Procs : SaveUnderWay(r) THEN "disturbed" ELSE "alone")
          ELSE IF saves[q] = "alone" THEN "disturbed" ELSE saves[q]]
    /\ UNCHANGED <<conditionsFile, mempool, ledger, opener>>

\* What becomes of a part of the file that a save writes.  Over another save's
\* bytes, of whatever length, it may be right, a mixture, or no JSON.
Overwritten(old, new, mixtures) ==
    IF old \in {Blank, new} THEN {new} ELSE {new, Torn} \cup mixtures

\* Parameters with each field out of some parameter file.
Mixtures ==
    [chain : Chains, hasConditions : BOOLEAN,
     finishAfter : {f.finishAfter : f \in ParamFiles},
     cancelAfter : {f.cancelAfter : f \in ParamFiles}]

SaveParams(p) ==
    /\ procs[p].pc = "saving"
    /\ \E params \in Overwritten(metadataFile.params, procs[p].params, Mixtures) :
          metadataFile' = [metadataFile EXCEPT !.params = params]
    /\ Goes(p, "halfway")
    /\ UNCHANGED <<conditionsFile, mempool, ledger, history>>

\* The id is written last.
SaveKey(p) ==
    /\ procs[p].pc = "halfway"
    /\ \E key \in Overwritten(metadataFile.key, procs[p].key, Keys) :
          metadataFile' = [metadataFile EXCEPT !.key = key]
    /\ Goes(p, "done")
    /\ UNCHANGED <<conditionsFile, mempool, ledger, history>>

\* An error at any step, a connection lost at an await, or the process killed.
Ended(p) == procs[p].pc \in {"idle", "done", "failed", "unparsed"}
Abort(p) ==
    /\ ~Ended(p)
    /\ Goes(p, "failed")
    /\ UNCHANGED <<files, mempool, ledger, history>>

(***************************************************************************)
(* The user and the chain                                                  *)
(***************************************************************************)

\* `generate', or an editor: the file changes between other commands' steps.
Generate(f) ==
    /\ conditionsFile' = f
    /\ met' = IF f.satisfied THEN met \cup {f.condition} ELSE met
    /\ UNCHANGED <<metadataFile, procs, mempool, terms, status, held, now, history>>

NextBlock ==
    /\ now < MaxTime
    /\ now' = now + 1
    /\ UNCHANGED <<files, procs, mempool, terms, status, held, met, history>>

Init ==
    /\ conditionsFile = NoFile
    /\ metadataFile = [params |-> Blank, key |-> Blank]
    /\ procs = [p \in Procs |->
          [cmd |-> "create", pc |-> "idle", params |-> CHOOSE f \in ParamFiles : TRUE,
           key |-> 0, condition |-> NoCondition, journal |-> NoJournal, ok |-> FALSE]]
    /\ mempool = {}
    /\ Lifecycle!Init
    /\ opener = [k \in Keys |-> NoProc]
    /\ saves = [p \in Procs |-> "none"]

Next ==
    \/ \E p \in Procs :
          \/ StartCreate(p) \/ StartFinish(p) \/ StartCancel(p)
          \/ release_condition(p) \/ release_proof(p)
          \/ Send(p) \/ Confirm(p)
          \/ SaveOpens(p) \/ SaveParams(p) \/ SaveKey(p)
          \/ Abort(p)
    \/ \E tx \in mempool : Mine(tx)
    \/ \E f \in ConditionFiles : Generate(f)
    \/ NextBlock

Spec == Init /\ [][Next]_vars

-----------------------------------------------------------------------------
(***************************************************************************)
(* Properties                                                              *)
(***************************************************************************)

\* Every variable has its type; a transaction is unmined only while its
\* process waits for it or has ended early.
TypeOK ==
    /\ conditionsFile \in ConditionFiles \cup {NoFile}
    /\ metadataFile \in Metadata
    /\ procs \in [Procs -> Proc]
    /\ \A tx \in mempool :
          /\ Tx(tx.proc) = tx
          /\ procs[tx.proc].pc \in {"waiting", "failed"}
    /\ opener \in [Keys -> Procs \cup {NoProc}]
    /\ saves \in [Procs -> {"none", "alone", "disturbed"}]

\* However commands interleave, fail and meet changed files, the chain only
\* sees what the agents promise: in particular a proof for a condition that
\* was regenerated after the escrow was created releases nothing.
LifecycleSpec == Lifecycle!Spec

\* k is the key of an escrow that was opened with these parameters.
Names(k, params) ==
    /\ k \in Keys
    /\ status[k] # "none"
    /\ terms[k].finishAfter = unwrap_or_zero(params.finishAfter)
    /\ terms[k].cancelAfter = unwrap_or_zero(params.cancelAfter)
    /\ (terms[k].condition # NoCondition) <=> params.hasConditions

\* The metadata left by a save no other save came near, half written, by a
\* process since killed, or whole: if it can be read at all it names an
\* escrow that exists, with the locks and the kind of condition it has.  Nothing
\* is promised of a file that two saves wrote at once.
MetadataNamesEscrow ==
    \A p \in Procs : saves[p] = "alone" /\ Readable(metadataFile) =>
        Names(metadataFile.key, metadataFile.params)

Reported(p, cmd) == procs[p].pc = "done" /\ procs[p].cmd = cmd

\* A create that reports success has opened the escrow whose id it knows, and
\* has saved that id with its parameters, which are still there unless another
\* save came near.  And of every escrow: the create that opened it knows its
\* id or has failed; nothing is lost in silence.
CreatedIsSavedOrFailed ==
    /\ \A p \in Procs : Reported(p, "create") =>
          /\ procs[p].key \in Keys /\ opener[procs[p].key] = p
          /\ saves[p] # "none"
          /\ saves[p] = "alone" =>
                metadataFile = [params |-> procs[p].params, key |-> procs[p].key]
    /\ \A k \in Keys : status[k] # "none" =>
          /\ opener[k] \in Procs
          /\ procs[opener[k]].key = k \/ procs[opener[k]].pc = "failed"

\* A finish or cancel that reports success is about an escrow that is settled
\* one way or the other, even where the receipt's status is not looked at: a
\* call that passed when it was sent can only fail for a settlement in between.
\* On Solana, where failures are reported, it is settled the way reported.
SettledAs(p, hows) == status[procs[p].key] \in hows
ReportedIsSettled ==
    \A p \in Procs :
        /\ Reported(p, "finish") \/ Reported(p, "cancel") =>
               SettledAs(p, {"released", "refunded"})
        /\ Reported(p, "finish") /\ procs[p].params.chain = "solana" =>
               SettledAs(p, {"released"})
        /\ Reported(p, "cancel") /\ procs[p].params.chain = "solana" =>
               SettledAs(p, {"refunded"})

\* "Escrow completed and released successfully" is printed for an escrow that
\* was released, and "cancelled and refunded" for one that was refunded.
SuccessIsTrue ==
    \A p \in Procs :
        /\ Reported(p, "finish") => SettledAs(p, {"released"})
        /\ Reported(p, "cancel") => SettledAs(p, {"refunded"})
=============================================================================
