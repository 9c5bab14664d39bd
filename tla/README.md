# Zescrow in TLA+

Models, model-checking configurations and machine-checked proofs for Zescrow:
escrows on Ethereum and Solana that are released by a zero-knowledge proof that
a condition holds, or refunded after a deadline. Paths below are relative to the
repository root (`src/` in `PROJECT.json`).

Model-check: `tlc -config <run>.cfg <module>.tla` (the table of runs below names
the module). Prove: `tlapm <module>.tla` for the six modules named `...Proofs`,
`SumTheorems` and `Recursion`.

## 1. The system

| Component | State it keeps | Operations | Talks to |
|---|---|---|---|
| Ethereum agent, `agent/ethereum/src/Escrow.sol` | `_escrows`, `_nextEscrowId`, its ether, the reentrancy guard, events | `createEscrow`, `finishEscrow`, `cancelEscrow` | payees (an external call), the RISC Zero verifier |
| Solana agent, `agent/solana/escrow/programs/escrow/src/lib.rs` | one account per (sender, recipient, id), its lamports | `create_escrow`, `finish_escrow`, `cancel_escrow` | system program, verifier router |
| Client, `client/src` | none in memory between commands; `escrow_params.json`, `escrow_conditions.json`, `escrow_metadata.json` on disk | `create`, `finish`, `cancel`, `generate` | the agents by transactions, the prover, the files |
| Prover and guest, `prover/` | none | `prove`; the guest runs `Escrow::execute` and commits a journal | client (receipt), agents (journal) |
| Core, `core/src` | values only | conditions, identities, assets, the journal codec, file loading with `${VAR}` expansion | all of the above |

How they interact. `create` reads the parameters and the conditions file, sends
a creation whose condition commitment is computed from that file, and saves the
escrow's id and parameters to the metadata file. `finish` reads the metadata and
the conditions file again, has the guest execute the escrow, and sends the
receipt; the agent compares the receipt's journal with what it stored. `cancel`
reads the metadata and sends a refund. Nothing but the files and the chain
connects two commands.

What is hard here, and what makes each part correct:

* **Ethereum agent.** A settlement ends in a call that hands control to the
  payee, who may call the contract again, have other contracts call it, or
  revert, which undoes the settlement and everything nested in it. Correct: the
  contract holds exactly what it owes, settles each escrow once and in full,
  releases only for a receipt of this very escrow inside its window, refunds
  only from the deadline, never locks a deposit that has one.
* **Solana agent.** Instructions are atomic, but addresses come back: the id is
  the caller's choice and settlement closes the account. Anybody can fund an
  address before or during the life of its escrow. Correct: lives of an address
  do not overlap, each obeys the same promise as an Ethereum escrow, the account
  covers amount and rent, nobody loses lamports.
* **Client.** Commands interleave at every file access and await; what was
  checked when a transaction was sent may be stale when it is mined; a process
  may end between the chain's effect and the save; a file may change between the
  two times it is read. Correct: the metadata names a real escrow, the chain is
  never asked for more than agents promise, and a success message is true.
* **Prover, guest, core.** Pure computations: what matters is that the journal
  the guest commits and the one each agent expects agree, that "success" means
  a satisfied condition, and that the commitment on chain, which leaves the
  witness out, stands for that condition and no other.
* **Identities and files.** The parties are read from the same file on two
  routes: `create` parses their printed text as an address, the guest decodes
  them by their label. A text may decode under several schemes, carry a prefix,
  or refer to an environment variable that is not set. Correct: a file that is
  read the documented way yields an escrow its recipient can finish; one that is
  not can hold up the client and never the deposit.

`PROJECT.json` lists every component, with those left out, and 39 hazards, each
at its line with the properties that cover it; four have none, and say why.

## 2. Modules

```
                     EscrowLifecycle          what every agent promises
              /             |            \
   EthereumEscrow      SolanaEscrow       Client     implement it
        |                   |                |       (LifecycleSpec in each)
EthereumEscrowProofs  SolanaEscrowProofs  ClientProofs        theorems
         \                 /
          Sums, SumTheorems

Condition   Identity      Journal          Template
        \   /          bytes of a        ${VAR} expansion
       Release         release proof      of the files
 files to chain to        |                    |
  guest to agent          |                    |
          |               |                    |
    ReleaseProofs   JournalProofs       TemplateProofs
               \          |            /
                      Recursion
```

Each state machine has an `MC...` module with instances for TLC.

### EscrowLifecycle
The abstract specification: the contract of the client's `Agent` trait with the
time-locks of `EscrowParams`. An escrow has fixed terms, a status (none, live,
released, refunded) and an amount held. One `Transact` step opens any number of
escrows and settles at most one; a release needs its window and a provable
condition, a refund its deadline. Accounts, calls, receipts and reverts are
absent.

### EthereumEscrow
* State: `escrows`, `nextEscrowId`, `guard` as in the contract; `eth` the
  balances; `log` the emitted events; `frames` the settlements that wait for
  their payee, each with the ledger a revert would restore; `block`;
  `fulfilled`, the conditions somebody can prove.
* `CreateEscrow` is `createEscrow`. `FinishEscrow` and `CancelEscrow` are the
  two settlements up to and including the external call: checks, effects, event,
  transfer, and a frame is pushed. `PayeeReturns` pops it; `PayeeReverts`
  restores the saved ledger (`TransferFailed`). While a frame is open only code
  the payee reaches can act (`MayCall`). A call that fails its checks changes
  nothing, so it is no step.
* A receipt is the record of its journal's fields. `Verifies` says which
  journals have a verifying receipt: the guest commits `success` only for a
  satisfied witness, everything else in a journal is the prover's choice, and
  `failure` journals verify too. `Binds` is `_checkJournalBinding`.
* `LifecycleSpec`: refinement of `EscrowLifecycle`. The abstract state is
  `Committed`, the ledger under the outermost frame, so a settlement with all
  the escrows its payee opened is one abstract step when it returns and no step
  when it reverts.

### SolanaEscrow
* State: `accounts` and `vault` (data and lamports of each address), wallets'
  `lamports`, `log`, `slot`, `fulfilled`.
* One action per instruction with the account constraints of its context:
  address derivation, `init` (top-up to the rent reserve), `close` (the rest of
  the balance to the sender). `Donate` funds any address. `Option` locks are
  kept apart from zero.
* `LifecycleSpec`: an abstract escrow is one *life* of an address, named by the
  position of its creation in the log.

* What `finish_escrow` can have the router verify is `AcceptedReceipts`. The
  program strings together the caller's seal, its image id and its digest. If the
  seal argument is one whole seal (`SealsWhole`), the router reads the program's
  digest and accepts the receipt of the rebuilt journal alone. The code does not
  check that it is, so in general the router may also read an image id and a
  digest of the caller's: the receipt is then an `OwnClaim`, which says nothing
  of the escrow. The accounts, the lamports and the receipts are checked with
  whole seals, windows and refunds with any; the proofs about all of them hold
  for either value.
* With `SealsWhole = FALSE` the abstract escrow carries no condition
  (`Enforced`): `LifecycleSpec` then says that the time-locks, the amounts and
  the single settlement do not rest on the proof.

### Client
* State: the two files that change while commands run, the processes with
  what each holds in memory, the mempool, and the chain as `EscrowLifecycle`'s
  variables.
* One action per file access or await of `execute`: `StartCreate`,
  `StartFinish`, `StartCancel` load the parameters or metadata;
  `release_condition` and `release_proof` read the conditions file; `Send`
  submits a transaction that passes gas estimation or preflight; `Mine` executes
  it, successfully or not; `Confirm` is what the client makes of its receipt;
  `SaveOpens`, `SaveParams` and `SaveKey` are `save_escrow_data`, which truncates
  and then writes token by token, unbuffered, at the process's own offset.
  `Abort` ends a process in any state; its transaction stays in the mempool.
  `Generate` replaces the conditions file.
* A save is taken in two pieces, the parameters and then the id, as they stand in
  the file. A piece written where nothing is yields itself; over another save's
  bytes it yields itself, any mixture of fields or ids, or text that is no JSON
  (`Overwritten`). A finer division would only add files with both parts present
  that mix the two saves, which `Mixtures` has already, and files that do not
  parse, which `Blank` and `Torn` stand for. Who reads (`Readable`) sees both
  parts or fails.
* `opener` and `saves` are history that no step reads: who opened each escrow,
  and whether a process's save was `"alone"` in the file from its truncation on.
* The two chains differ in the locks they take (`EthereumLocks`, where no lock and
  a lock of zero are one; `SolanaLocks`, where they are not) and in
  `FailureReported`: `send_and_confirm_transaction`
  reports a failed transaction, `get_receipt` does not.
* Not in it: one side of the settlement is signed by the party it is due to, so
  parties are one sender and one recipient; amounts, assets and identities
  (`Release` has them); key handling.

### Condition, Identity and Release
* `Condition` is `verify` and `commitment` of hashlocks, signatures and threshold
  trees, as recursive functions over a set closed under subconditions. A digest
  is the term that names what was hashed, so equal digests mean equal inputs;
  concatenation keeps no boundaries, as in the code. `saturating_u32` is there.
  `Meets` is the reference definition: subsets of satisfied subconditions
  instead of counting.
* `Identity` is `ID` with its decoders, `Display`, `for_chain` and `from_str`,
  and the two address parsers of the client. A text is known by the bytes and
  the scheme it was written in, its prefix, blanks and size; `Misread` says what
  it yields in another scheme.
* `Release` composes them: `create_escrow` with what it puts on chain, the guest
  (`execute`, `PublicCommitment`, its panics), `prove`, the agents' comparison
  (`Accepts`), and three ways to finish: the client's, from the files
  (`finish_escrow`), a prover run on any other input (`FinishWith`), and on Solana
  a receipt that is not bound to the escrow (`FinishUnbound`, see `OwnClaim`
  above), which gets a status of its own. The
  conditions file may be regenerated at any time. One escrow, before its refund
  deadline; locks and refunds are in the modules above.
* `ReleaseIsBacked` is about releases on a proof bound to the escrow, and says that
  every other is Solana's. It is about conditions whose keys parse: `commitment`
  concatenates key and message without a length, and a key that is none has no
  fixed length, so `key || message` can be split in two ways. Neither split can
  be satisfied unless its key parses.
* `Clean` files read Solana identities with `for_chain`: `from_str` tries hex
  first and can take a Base58 address for it, as its own comment warns.

### Template
* `load_escrow_data`: one action per turn of `expand_with`'s loop, the recorded
  names of `expand_env_checked`, and a user who sets the variables an error
  names and loads again. A text is a sequence of symbols with `${` and `}` as
  one each; a value may look like a reference itself.
* `Expansion` is the reference definition, recursive over texts: what the first
  symbol, or the reference that it opens, contributes to the expansion of what
  follows. It has no accumulator and no notion of what was scanned already.

### Sums and Recursion
* `Sums` is the sum over a finite set that the two agents' invariants are stated
  with, and `SumTheorems` what is proved of it.
* `Recursion` models no code. It is a module of theorems, instantiated by
  `ReleaseProofs`, `TemplateProofs` and `JournalProofs` for each recursive
  definition: `D` is what it recurses over, `Height` what falls, `Step` the right
  side of its equation.

### Journal
* The codec of `commitment.rs` (`to_journal_bytes`, `from_journal_bytes`) beside
  the two pieces of code that must agree with it and share nothing with it: the
  parser of `Escrow.sol` (`BindsOnEthereum` is `_checkJournalBinding`) and the
  encoder of the Solana program (`reconstruct_journal`).
* Field widths and the number of values of a byte are constants; every length
  prefix, bound, tag and order of fields is the code's. A number is written by
  shifting it (`Shifted`) and read by taking in a byte at a time (`Spelled`), as
  in `_readBE`. An Ethereum escrow's id is a `uint256` and the journal's a `u64`:
  an id that outgrows the journal's is among the escrows.
* State: a commitment, an escrow and the submitted bytes, which start as the
  commitment's journal and may have bytes inserted, deleted or changed. That no
  receipt verifies for edited bytes is the business of the agents' modules; here
  the edits exercise bounds and alignment of the three readers.
* The agents' modules take a journal as the record of its fields. `Canonical`
  and the two `...TakesReleaseOnly` justify that: comparing bytes is comparing
  records.

## 3. Runs

All passing runs check deadlock except where every command or instruction of a
bounded instance, or every edit of a journal, ends; those configurations say so.

| Run | Module | Shows |
|---|---|---|
| `EthereumSafety` | MCEthereumEscrow | Type invariant; `Solvency`; `SettledOnce`; `BalancesFollowEvents`; `ReceiptSettlesOnce`; `ReleaseNeedsFulfilment`; `RefundAfterReleaseWindow`; `NoSettlementInsideSettlement`; `LifecycleSpec`. Two contracts that may call back or revert and a plain account, two escrows, two blocks, two conditions, every journal over both chains, outcomes, agents, ids, parties, assets and amounts. |
| `EthereumLiveness` | MCEthereumEscrow | `DepositNeverLocked` under fairness, a plain sender against a contract that may reject forever; `RefundOfferedAgain`: only a sender's own refusal keeps its deposit in the contract, and the refund is offered again. |
| `SolanaAccounts` | MCSolanaEscrow | With whole seals: type invariant; `VaultCovers`; `NobodyLoses`; `LivesAlternate`; `ReceiptStaysAtAddress`; `LifecycleSpec`, conditions included. Two ids, one donation, a reserve of 2 so that a donation can be part of it. |
| `SolanaTimeLocks` | MCSolanaEscrow | With the all-zero image id, where no escrow's own proof verifies, and seal arguments of any length: `LifecycleSpec` of time-locked escrows and `DepositNeverLocked`, every combination of locks in {None, 0, 1, 2}, with reuse of the address. |
| `SolanaSealExtent` | MCSolanaEscrow | **Violated**: `ReleaseNeedsProof` (finding 4). |
| `SolanaReleaseWindow` | MCSolanaEscrow | **Violated**: `RecipientHoldsReleaseWindow` (finding 1). |
| `SolanaReceiptReuse` | MCSolanaEscrow | **Violated**: `ReceiptSettlesOnce` (finding 2). |
| `ClientCommands` | MCClient | Type invariant; `LifecycleSpec`; `MetadataNamesEscrow`; `ReportedIsSettled`; `CreatedIsSavedOrFailed`: who reports a creation opened the escrow it names and saved it, and the command that opened an escrow knows its id or has failed. Three processes, two escrows, either chain, three conditions files, one of them a template. |
| `ClientReceiptStatus` | MCClient | **Violated**: `SuccessIsTrue` (finding 3). |
| `JournalBytes` | MCJournal | Type invariant; `RoundTrip`; `Canonical`; `EthereumTakesReleaseOnly`; `SolanaTakesReleaseOnly`. The releases of four escrows, the id cut to a byte where an escrow's own is wider than a journal's, and every commitment that differs from one in a field, with every edit of one byte. |
| `TemplateLoading` | MCTemplate | Type invariant; `ExpandsOnce`: loop and reference definition agree at every turn; `NothingSilentlyEmpty`; `OneErrorSuffices`: the error names all a user has to set; `LoadEnds`. Every text of up to six symbols, four environments, two values a user may set. |
| `ReleasePipeline` | MCRelease | Type invariant; `ThresholdLogic`; `ReleaseIsBacked`: whoever released an escrow knew witnesses that meet the condition it was created for; `CleanEscrowFinishes`; `FileNeverStrandsDeposit`; `ClientReleasesWhatWasFiled`. Every one of 36 conditions in place of every other on Ethereum; files wrong or oddly spelled in one place on both chains. |

Every property of a passing run has a mutant: a definition with a plausible
fault (`...Bug`, beside the definition it would replace) under which TLC finds
the property violated.

**Bounds, and why they are enough.** `MaxEscrows = 2`: the properties relate at most
two escrows (a callback's victim and its settlement; two users of one receipt; two
lives of an address). Two contracts, because a payee may act through another one;
nesting deeper than the guard allows cannot occur, which is proved. Parameter files
for the client are one for each chain with a condition and, on Solana, one with a
lock of zero and none for the refund, whose terms differ, so that an id beside
another's parameters shows. Two blocks beyond the start let a window be closed, then
open for one party, then for both. Offers contain each kind of deposit and one that
must be refused for each check a property depends on. Three processes: creation,
release and refund of one escrow, or two creations and a settlement. `Funds` is
large enough for every deposit of a run. Journals have bytes of two bits, one-byte
lengths and ids, two-byte amounts: small enough to try every edit, large enough for
fields of zero to three bytes, a field too long for its prefix, an amount too large,
unknown values of every tag, and keys that differ in length on the two chains. One
edit, since one misplaced byte already shifts every later field.

Conditions are leaves that hold and that do not, a key and message whose bytes
run together, thresholds from zero to one above the number of subconditions, over
the same lock twice, over nothing, and nested with an inner threshold that is
zero, met or too high: each case of `Threshold::verify` and of the bytes a
commitment strings together, and every pair of them. Parameter files change in one
place, since the two routes read each field separately. Texts of six symbols
hold two references, or one with an unclosed one on either side.

**Symmetry** is used in safety runs only, over accounts, wallets and processes,
none of which a definition names.

**Fairness.** `EthereumLiveness`: blocks keep coming; a call returns or reverts,
since gas runs out; whoever wants a refund eventually gets a cancel mined, for
each escrow. The last is strong fairness, because others' transactions may come
first infinitely often and during each of them cancelling is impossible for a
moment; for the same reason it is strong for blocks. Nothing is assumed of the
recipient, of provers, or of a contract that is paid: it may revert every time.
`SolanaTimeLocks`: slots keep coming, and the sender's `cancel_escrow` lands
(weak fairness suffices: no instruction disables it except settlement). Fairness
of `NextBlock` and `NextSlot` is about the bounded clock: it reaches every
deadline of a run. `TemplateLoading`: a command, which runs alone, goes on to its
end, and a user who gets an error acts on it.

### Findings

1. *Solana, release window.* `create_escrow` compares the locks with each other
   and not with the clock; an escrow can be born with its refund window open,
   contrary to the exclusive window its doc promises.
2. *Solana, receipt reuse.* Settlement frees the address, the same escrow can be
   opened again by its sender, and the old receipt releases it.
   `ReceiptStaysAtAddress` is what holds instead: only the same two parties, id,
   amount and condition are concerned.
3. *Ethereum client, receipt status.* `finish` and `cancel` await the receipt
   and do not look at its status: when the other settlement is mined first, the
   client reports a release that was a refund. `ReportedIsSettled` is what holds
   instead.
4. *Solana, extent of the seal.* `verify_release_proof` puts the caller's bytes
   before the image id and the digest and does not check that they are one whole
   seal. The router (external) decodes its arguments from the front and ignores
   what follows, so it can be led to check a claim that is not this escrow's, and a
   conditioned escrow is released without its condition. With whole seals
   `ReleaseNeedsProof` holds (`WholeSealsNeedProof`; in `SolanaAccounts` as part of
   `LifecycleSpec`), so the missing check is all that is needed; `SolanaTimeLocks`
   shows that windows and deadlines do not depend on it. Ethereum passes the seal, the
   image id and the digest as separate arguments and is not concerned.

Two more things the modules model and no run is about:

- *Two saves.* `save_escrow_data` truncates and writes in pieces without a lock or
  a rename; two commands that save at once can leave a file that reads as metadata
  and has one escrow's id with another's parameters (`SaveParams`, `SaveKey`).
  `MetadataNamesEscrow` is what holds, of a save that no other came near.
- *Templates.* `create` expands `${VAR}` in the conditions file and `finish` does
  not, so a template that created an escrow cannot release it (`release_proof`).

## 4. Proofs

For all values of the constants that satisfy the named assumptions beside them:
any number of accounts, wallets, commands and escrows, conditions nested to any
depth, files of any length, journals with fields of any width, and any bounds.

| Module | Theorem | States |
|---|---|---|
| `EthereumEscrowProofs` | `TypeCorrect` | `[]TypeOK`: types, and one frame exactly while the guard is up |
| | `Invariance` | `[]IInv` |
| | `SettlementUnique` | `[]SettledOnce` |
| | `ReceiptUnique` | `[]ReceiptSettlesOnce` |
| | `ReleaseProven` | `[]ReleaseNeedsFulfilment` |
| | `RefundLate` | `[]RefundAfterReleaseWindow` |
| | `SettlementsDoNotNest` | `NoSettlementInsideSettlement` |
| | `FundsInvariance` | `[]AllFundsInv` |
| | `ContractSolvent` | `[]Solvency` |
| | `BalancesAccountedFor` | `[]BalancesFollowEvents` |
| | `EscrowsPayable` | the contract's balance covers every single escrow |
| | `ImplementsLifecycle` | `LifecycleSpec`: the contract implements `EscrowLifecycle` |
| `SolanaEscrowProofs` | `TypeCorrect` | `[]TypeOK`: an account in use is at the address of its own fields |
| | `Invariance` | `[]IInv` |
| | `AccountsCover` | `[]VaultCovers` |
| | `LivesDoNotOverlap` | `[]LivesAlternate` |
| | `ReceiptsStay` | `[]ReceiptStaysAtAddress`, of receipts checked against the program's digest |
| | `WholeSealsNeedProof` | `SealsWhole => (Spec => []ReleaseNeedsProof)` |
| | `FundsInvariance` | `[]FundsInv` |
| | `NobodyLosesLamports` | `[]NobodyLoses` |
| | `ImplementsLifecycle` | `LifecycleSpec`: each life of an address is an abstract escrow, with its condition if seals are whole |
| `ClientProofs` | `TypeCorrect` | `[]TypeOK`: a pending transaction is the one its process sent |
| | `Invariance` | `[]IInv` |
| | `MetadataNames` | `[]MetadataNamesEscrow` |
| | `ReportsTrue` | `[]ReportedIsSettled` |
| | `NothingLostInSilence` | `[]CreatedIsSavedOrFailed` |
| | `ImplementsLifecycle` | `LifecycleSpec` |
| `ReleaseProofs` | `VerifyMeetsConditions` | `verify` is `Meets`, for every condition |
| | `CommitmentBinds` | conditions with one commitment: if one is proved, the other is met |
| | `Invariance` | `[]Inv` |
| | `TypeCorrect` | `[]TypeOK` |
| | `ThresholdsAreSets` | `[]ThresholdLogic` |
| | `ReleaseBacked` | `[]ReleaseIsBacked` |
| | `ClientReleasesFiled` | `[]ClientReleasesWhatWasFiled` |
| | `FileNeverStrands` | `[]FileNeverStrandsDeposit` |
| | `CleanFinishes` | `[]CleanEscrowFinishes` |
| `TemplateProofs` | `Invariance` | `[]Inv` |
| | `TypeCorrect` | `[]TypeOK`: what is left to scan is an end of the file |
| | `ScanExpandsOnce` | `[]ExpandsOnce` |
| | `NeverSilentlyEmpty` | `[]NothingSilentlyEmpty` |
| | `OneErrorIsEnough` | `[]OneErrorSuffices` |
| `JournalProofs` | `BigEndianInverse` | bytes spell a number exactly when they are its big-endian form |
| | `CodecsAgree` | bytes encode a commitment exactly when they decode to it |
| | `JournalsDiffer` | commitments with one journal are one commitment |
| | `EthereumParserAgrees` | `_checkJournalBinding` takes exactly the bytes that decode to the escrow's release |
| | `SolanaEncoderAgrees` | `reconstruct_journal` is the guest's journal of the release |
| | `Invariance` | `[]Inv` |
| | `TypeCorrect` | `[]TypeOK` |
| | `RoundTrips` | `[]RoundTrip` |
| | `CanonicalBytes` | `[]Canonical` |
| | `EthereumTakes` | `[]EthereumTakesReleaseOnly` |
| | `SolanaTakes` | `[]SolanaTakesReleaseOnly` |

Two more modules hold lemmas of plain mathematics that these rest on, and say
nothing of the code by themselves: `SumTheorems` (what a sum does when summands
change or come) and `Recursion` (recursive definitions define, and have lowest
counterexamples).

In the state machines' rows the left side is `Spec =>`. The assumptions are that
offers, parameters and files have their types, that bounds are natural numbers,
that accounts are not the contract or `address(0)`, and that the values which
stand for "nothing" (`NoReceipt`, `NoAccount`, `NoFile` and so on) are nothing
else. `Release` adds that the signer of a creation has an address of its chain,
that conditions are finite trees (`Height` falls from a threshold to what it is
over) with fewer subconditions than a `u32` counts, and that a text which Base58
decodes is read under every scheme the way the Base58 form of those bytes is,
since it is that form. `Journal` adds that a byte has more than two values, that
widths are positive and an amount of lamports is no wider than the journal's, that
the length of an address and of a public key fits its prefix, that a guest's
commitments and the agents' escrows have the types of their sources, and that a
failed conversion is neither bytes nor a commitment. TLC evaluates the assumptions
on every instance.

**Ethereum, the invariant.** `SettledOnce` is not inductive: it says nothing of
an escrow whose settlement event exists and whose record is not marked, or of
ids not yet handed out, and after a revert it is about an older log. `IInv` is
therefore a predicate on a *ledger* (`LedgerInv`), asserted of the current one
and of the one saved in every frame: ids are handed out in order, a settlement
event marks its escrow, an escrow has one such event, a receipt in the log names
the escrow it settled, stored locks are ordered, refunds came late. `CreateInv`
and `SettleInv` show that a creation and a settlement preserve `LedgerInv`;
pushing a frame copies a ledger that satisfies it and a revert brings one back.
`SettlementsDoNotNest` follows from the type invariant: a settlement needs the
guard down, and then no frame is open. `ReceiptsBound` gives `ReceiptUnique`: two
uses of a receipt would settle the same escrow twice. `ReleaseProven` adds to each
ledger that its releases were proven; conditions stay fulfilled and a stored
condition never changes.

**Ethereum, the refinement.** A settlement with all its payee does is one
abstract step, taken when the outermost frame returns. `RInv` therefore says that
the committed ledger and the current one are one abstract transaction apart
(`Transacted`): it holds trivially with no frame open, a settlement begins it,
each creation from inside it extends it, and time cannot pass meanwhile because
every block is mined outside. A revert makes the two ledgers equal again.

**Sums.** The library defines a sum by recursion over subsets, and a recursive
definition says nothing until its equation is known to have a solution.
`AccumulationExists` shows that it has one, from a subset that is minimal among
those without; after that a sum is a summand and a smaller sum, and each theorem
is proved from a minimal counterexample. No induction rule is needed.

**Ethereum, the money.** `FundsInv` is again about a ledger: creations in the log
are those of the recorded ids with their amounts, the contract holds the sum of
the open records, and each balance is the initial one less its deposits plus its
payouts. `AllFundsInv` asserts it of the current ledger and of each saved one, so
a revert restores a solvent ledger. A creation adds one summand, a settlement
takes one away (`CreateFunds`, `SettleFunds`); `EscrowsPayable` follows, as one
summand is no more than the sum.

**Solana, the money.** `NobodyLoses` is not inductive: its upper bound forgets the
lamports strangers sent to an address before or during a life, which come back
to the sender in the end. `FundsInv` counts, for each wallet, all that lies at its
addresses, in use or not.

**Solana.** `LivesAlternate` is not inductive: a settlement ends the life that is
open, and one must know that no other is. `LivesInv` adds that a creation without
an end is the last event at its address, which is in use, and conversely. Every
instruction that emits appends one event (`Extended`), so each conjunct is
checked against the last event at the same address and no other. For the refinement,
`Shape` shows that the abstract state is a function of the log, given that an
open account stores what its creation was called with (`StoredInv`); so each
instruction changes the abstract escrow whose life it begins or ends, and keeps
the rest, earlier lives of the same address included.

**Solana, seals.** Only `WholeSealsNeedProof` and `ImplementsLifecycle` depend on
`SealsWhole`. The first adds to the invariant of stored terms that conditions stay
met once they are, so a release's condition, checked in the step (`ReleaseStep`),
stays checked. In the second it decides what an abstract escrow's condition is.

**Client.** What makes reports true although nobody looks at the receipt's status
is that a transaction is checked when it is sent: `TxInv` says that a pending
settlement would succeed if its escrow were still live (deadlines stay passed,
terms and proofs do not change), so it can fail only for a settlement in
between. This holds whatever id and parameters the metadata gave, mixed ones
included: until it is sent, nothing is assumed of a settlement but that its id
can be read. `ProcInv` carries that from `mined` to `done`, and that a creation knows
its escrow's key from its own receipt; `Grows` says what no step undoes, and
everything another process knows survives by it. The refinement is the identity
on the chain's variables; its one subtle case is a release, whose journal was
made of a file that has since changed: `ProcInv` keeps that its condition was met.

**Client, saves.** `MetadataNamesEscrow` says nothing of how far a save is. `SavedInv`
does: of a save that was alone from its truncation on, each part of the file is
still empty or is its own, by how far it came (`AloneFile`), a process that ended
early included; and no other save is under way, which is what keeps it so until one
opens the file and both are `"disturbed"`. `OpenerInv` ties each escrow to the one
creation that opened it: `CreatorStays` shows that it never forgets its key or that
it failed, `CreatedBefore` that it learns the key only when it is mined, and
`OpenerMoves` that nobody else becomes its opener.

**Recursion.** The provers cannot instantiate an induction rule over data, and
must not be trusted with a recursive function before it is known to exist.
`Recursion` has both by instantiation: `Step` is an operator constant, so the
module is instantiated for each definition with the right side of its equation.
`RecursionSolved` gives the definition's solution if the right side looks at lower
values only; `Lowest` gives a lowest counterexample, from which each lemma about
the definition is proved by cases.

**Release.** `VerifyMeetsConditions` compares counting with choosing a subset: a
set of the threshold's size can be chosen exactly when the count reaches it,
saturation included (`EnoughMeans`). `CommitmentBinds` takes a lowest pair of
conditions with one commitment and one of them proved: equal digests are equal
bytes, equal bytes of a threshold give as many subconditions with equal
digests pairwise, and bytes of a leaf give its key first, since a key that parses
has its kind's length (`Cancelled`). `Inv` keeps what `create_escrow` made of the
file (`FollowsFile`) and that a release was proved for the commitment on chain, or is
Solana's and on a proof not bound to the escrow (`Backed`); `ReleaseBacked` then is
`CommitmentBinds`. `FileNeverStrands` names the
input a holder of the witness runs the prover on: the agent's own record, each
identity as the raw bytes of its address. `CleanFinishes` shows that the two
routes by which a party is read, as a printed text and as a labelled identity,
meet in the same bytes; this is where Base58 has to be coherent.

**Template.** `ExpandsOnce` relates a loop that searches for `${` and `}` to a
definition that looks at one symbol at a time. `Copied` shows that the definition
copies a beginning in which nothing opens a reference that is closed later, and
`FirstReference` and `OneReference` that a turn of the loop is such a beginning and
one reference. `OneErrorSuffices` needs `UnsetShrinks`, which compares the expansion
of one text in two environments: to set more variables leaves no other name
unset. `Inv` adds that a load which ended scanned everything (`Ended`), so what the
error named is all that was unset, and `Corrected`, that after the first error
only the empty name is.

**Journal.** `Layout(b, c)` says which bytes of `b` stand at which place (`At`) when
`b` is the journal of `c`, the places being sums of the lengths before them. The
encoder makes the bytes with this layout and no others (`Encodes`), the decoder
yields `c` from them and from no others (`Decodes`), and `CodecsAgree` is the two
together. The Ethereum parser has fixed offsets: `BindsLayout` shows that its
checks of lengths make them the places of an escrow's release. The Solana encoder
pads eight bytes where the codec writes thirty-two, which is the same number
(`WidenedNumber`). Numbers rest on `BigEndianInverse`: a lowest counterexample over
the bytes read so far, with `Recursion` for the two recursive functions; no power
and no product of two variables but that with `ByteValues` is needed. An id that does
not fit its width is spelled by no bytes, so such an escrow's agent takes none and its
release is no value of the decoder: the equivalence holds there too. The inductive
invariant is the type invariant and `Unedited`, that bytes nobody has edited are
the commitment's journal. `Canonical` and both `...TakesReleaseOnly` need only that
`bytes` are bytes: the readers agree on any, however they came about.

**What the proofs changed.** `ClientReleasesWhatWasFiled` had said that a released
escrow's parameters have no token identity; a proof attempt found the parameters
whose asset names one of no bytes, so it says that they name no token. The signer's
address, the type of what is on chain and the coherence of Base58 became
assumptions or part of `TypeOK`, and `MCRelease`'s misread texts were made coherent.
`Expansion` was rewritten from a recursion over places to one over texts. In
`Journal`, `PublicCommitment` has escrow ids of the journal's width, which is what
`u64` means there and what `RoundTrip` needs; numbers are written by shifts instead
of powers, and what a failed conversion returns became an assumption.

`SavesStep` needed that a process about to save is a creation, which the pieces of a
save made explicit; a settlement's key is no longer known to be an escrow's before
it is sent, since the file it was read from may be mixed.

**Only model-checked.** Liveness (`DepositNeverLocked`, `RefundOfferedAgain`,
`LoadEnds`): the prover has no ENABLED. Every invariant and every other action
property of a passing run is a theorem.

## 5. Not modelled

* Cryptography: hashes and signatures are terms, a receipt is its journal, the
  STARK and the prover's services (remote proving, dev mode) are not there.
* Gas, fees and forks: a mined transaction stays.
* JSON and bincode forms, `format_amount`, error types. Derivation of program
  addresses, instruction and ABI layouts, key files, construction of providers.
  The contract's getters and its constructor's checks.
* The verifier router on Solana beyond the order in which it reads its arguments.
  Its account list: the client passes none, and whether the deployed router
  accepts that cannot be told from this repository. The bytes of a seal: whether
  one is whole is a constant.
* Reads of a file while it is written: a command reads a file in one step, so it
  sees a save's truncation or its parts, and not a file that changes under it. The
  conditions file is replaced in one step; a half-written one fails to parse, which
  `Abort` covers.
* Which EVM network a contract is on: a journal does not say, and each model of the
  Ethereum agent has one contract's address on one chain.
* Token deposits: `core/src/asset.rs:22` describes token assets, both agents
  settle the native coin, and `Release` shows what the client makes of a
  parameter file that names a token (it can create and never finish).
* Letter case of hex and checksums of addresses. `core/src/identity.rs:208` says
  `Display` prints lowercase hex without prefix; it prints the text as it stands,
  and so does `to_string` in `Identity`.
* Tests, mock verifiers, scripts and deployment, which were read for what they
  say of the program.

## 6. Plan

Done, in this order: `EscrowLifecycle` and `EthereumEscrow` with runs and proofs;
`SolanaEscrow`; `Client`; `Journal`; `Condition`, `Identity`, `Release`;
`Template`; proofs of the Solana program's invariants, of both refinements, and of
the client's invariants and refinement; sums and both agents' money; recursive
definitions, and with them `Release` and `Template`; `Journal`'s numbers, its codec
and its readers.

What could follow: that in `EscrowLifecycle` an escrow leaves the vault once; two
escrows in `Release`; bytes instead of records for the journals of the agents'
modules, which `CodecsAgree` would carry over.
