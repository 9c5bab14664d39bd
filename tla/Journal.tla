------------------------------ MODULE Journal ------------------------------
(***************************************************************************)
(* The journal of a release proof: the bytes the guest commits             *)
(* (core/src/commitment.rs), as the prover decodes them again, as the      *)
(* Ethereum agent parses them and as the Solana agent rebuilds them.       *)
(*                                                                         *)
(* Four pieces of code agree on one layout, or funds cannot be released,   *)
(* or are released for something else.  The widths of the fields are       *)
(* parameters, as is the number of values of a byte, so that TLC can try   *)
(* every misalignment of a short journal.                                  *)
(*                                                                         *)
(* The state is a commitment, an escrow, and the bytes somebody submits    *)
(* for it: the journal of the commitment, with a few bytes edited.  That   *)
(* a verifier refuses an edited journal is in the agents' modules; here    *)
(* the edits are what the readers' bounds and alignment are tried on.      *)
(***************************************************************************)
EXTENDS Integers, Sequences, SequencesExt

CONSTANTS
    ByteValues,   \* 256: how many values a byte has
    LenWidth,     \* 2: u16 length prefixes
    IdWidth,      \* 8: u64 escrow ids
    AmountWidth,  \* 32: AMOUNT_WIDTH, uint256
    LamportWidth, \* 8: u64 amounts on Solana
    AddressLen,   \* 20: an Ethereum address
    PubkeyLen,    \* 32: a Solana public key
    Error,        \* what a failing conversion returns
    Commitments,  \* commitments the guest is made to commit
    Escrows,      \* escrows of either agent
    MaxEdits      \* bound: bytes edited before submission

Byte == 0 .. ByteValues - 1
Bytes == Seq(Byte)

\* n shifted right by k bytes.
Shifted(n) ==
    LET Left[k \in Nat] == IF k = 0 THEN n ELSE Left[k - 1] \div ByteValues
    IN  Left

\* n is a number of at most w bytes.
Fits(n, w) == Shifted(n)[w] = 0
Numbers(w) == {n \in Nat : Fits(n, w)}

\* The 32-byte condition is one value, zero for none.
States == {"Initialized", "Funded", "ConditionsMet"}
Commitment(ids) ==
    [chain : {"Ethereum", "Solana"}, outcome : States \cup {"Failure"},
     agent_id : Bytes, escrow_id : ids,
     sender : Bytes, recipient : Bytes,
     asset_kind : {"Native", "Token"}, asset_token : Bytes,
     amount : Nat, condition : Byte]
PublicCommitment == Commitment(Numbers(IdWidth))

\* An escrow of an agent whose addresses have `len' bytes.
Held(chain, len, ids, amounts) ==
    [chain : {chain}, agent : [1 .. len -> Byte], id : ids,
     sender : [1 .. len -> Byte], recipient : [1 .. len -> Byte],
     amount : amounts, condition : Byte]

ASSUME WidthAssumption ==
    /\ ByteValues \in Nat /\ ByteValues > 2
    /\ {LenWidth, IdWidth, AmountWidth, LamportWidth, AddressLen, PubkeyLen} \subseteq Nat \ {0}
    /\ LamportWidth <= AmountWidth
    /\ Fits(AddressLen, LenWidth) /\ Fits(PubkeyLen, LenWidth)
    /\ MaxEdits \in Nat

ASSUME DataAssumption ==
    /\ \A c \in Commitments : c \in PublicCommitment
    /\ \A e \in Escrows :
          \/ e \in Held("Ethereum", AddressLen, Numbers(AmountWidth), Numbers(AmountWidth))
          \/ e \in Held("Solana", PubkeyLen, Numbers(IdWidth), Numbers(LamportWidth))

\* A conversion that fails is told from one that succeeds.
ASSUME ErrorAssumption == Error \notin Bytes /\ Error \notin Commitment(Nat)

VARIABLES
    committed, \* the PublicCommitment of the guest
    escrow,    \* the escrow the agent holds
    bytes,     \* what is submitted, Error if the guest could not encode
    edits      \* how many bytes were edited
vars == <<committed, escrow, bytes, edits>>

(***************************************************************************)
(* to_journal_bytes                                                        *)
(***************************************************************************)

\* The truncation of each digit to a byte is forgotten.
BigEndianBug(n, w) == [i \in 1 .. w |-> Shifted(n)[w - i]]

\* n as w bytes, the most significant first.
BigEndian(n, w) == [i \in 1 .. w |-> Shifted(n)[w - i] % ByteValues]

chain_tag(chain) == IF chain = "Ethereum" THEN 0 ELSE 1
asset_kind_tag(kind) == IF kind = "Native" THEN 0 ELSE 1
state_tag(state) ==
    CASE state = "Initialized" -> 0 [] state = "Funded" -> 1 [] state = "ConditionsMet" -> 2

\* `as u16' in place of try_from: the length wraps.
FitsPrefixBug(field) == TRUE

FitsPrefix(field) == Fits(Len(field), LenWidth)

push_bytes(field) == BigEndian(Len(field), LenWidth) \o field

\* A failure has no state byte: what follows it starts one byte earlier.
OutcomeBytes(outcome) ==
    IF outcome = "Failure" THEN <<0>> ELSE <<1, state_tag(outcome)>>

to_journal_bytes(c) ==
    IF /\ \A field \in {c.agent_id, c.sender, c.recipient, c.asset_token} : FitsPrefix(field)
       /\ Fits(c.amount, AmountWidth)
    THEN <<1, chain_tag(c.chain)>> \o OutcomeBytes(c.outcome)
           \o push_bytes(c.agent_id) \o BigEndian(c.escrow_id, IdWidth)
           \o push_bytes(c.sender) \o push_bytes(c.recipient)
           \o <<asset_kind_tag(c.asset_kind)>> \o push_bytes(c.asset_token)
           \o BigEndian(c.amount, AmountWidth) \o <<c.condition>>
    ELSE Error

(***************************************************************************)
(* from_journal_bytes: a cursor over the bytes that fails at their end     *)
(***************************************************************************)

\* The number that the first k bytes of b spell.
Spelled(b) ==
    LET Value[k \in Nat] == IF k = 0 THEN 0 ELSE Value[k - 1] * ByteValues + b[k]
    IN  Value

FromBigEndian(b) == Spelled(b)[Len(b)]

\* The w bytes after offset, or Error when there are not as many.
Take(b, offset, w) ==
    IF offset + w <= Len(b) THEN SubSeq(b, offset + 1, offset + w) ELSE Error

\* A field behind its length prefix, or Error.
length_prefixed(b, offset) ==
    LET len == Take(b, offset, LenWidth) IN
    IF len = Error THEN Error ELSE Take(b, offset + LenWidth, FromBigEndian(len))

\* Trailing bytes are ignored.
finishBug(b, offset) == TRUE

finish(b, offset) == offset = Len(b)

TagIn(b, offset, tags) == Take(b, offset, 1) \in {<<t>> : t \in tags}

\* The variable-length part, from the agent's id on.
DecodedFrom(b, offset, chain, outcome) ==
    LET agent     == length_prefixed(b, offset)
        id_at     == offset + LenWidth + Len(agent)
        id        == Take(b, id_at, IdWidth)
        sender_at == id_at + IdWidth
        sender    == length_prefixed(b, sender_at)
        recip_at  == sender_at + LenWidth + Len(sender)
        recip     == length_prefixed(b, recip_at)
        kind_at   == recip_at + LenWidth + Len(recip)
        token     == length_prefixed(b, kind_at + 1)
        amount_at == kind_at + 1 + LenWidth + Len(token)
        amount    == Take(b, amount_at, AmountWidth)
        cond_at   == amount_at + AmountWidth
    IN  IF agent # Error /\ id # Error /\ sender # Error /\ recip # Error
             /\ TagIn(b, kind_at, {0, 1}) /\ token # Error /\ amount # Error
             /\ Take(b, cond_at, 1) # Error /\ finish(b, cond_at + 1)
        THEN [chain |-> chain, outcome |-> outcome, agent_id |-> agent,
              escrow_id |-> FromBigEndian(id), sender |-> sender, recipient |-> recip,
              asset_kind |-> IF b[kind_at + 1] = 0 THEN "Native" ELSE "Token",
              asset_token |-> token, amount |-> FromBigEndian(amount),
              condition |-> b[cond_at + 1]]
        ELSE Error

from_journal_bytes(b) ==
    IF TagIn(b, 0, {1}) /\ TagIn(b, 1, {0, 1}) /\ TagIn(b, 2, {0, 1})
    THEN LET chain == IF b[2] = 0 THEN "Ethereum" ELSE "Solana" IN
         IF b[3] = 0 THEN DecodedFrom(b, 3, chain, "Failure")
         ELSE IF TagIn(b, 3, {0, 1, 2})
              THEN DecodedFrom(b, 4, chain, CHOOSE s \in States : state_tag(s) = b[4])
              ELSE Error
    ELSE Error

(***************************************************************************)
(* The two agents                                                          *)
(***************************************************************************)

\* _readBE and a comparison: the next w bytes are there and spell `value'.
ReadsBE(b, offset, w, value) ==
    offset + w <= Len(b) /\ FromBigEndian(SubSeq(b, offset + 1, offset + w)) = value

\* The length prefix is skipped unread.
ReadsAddressBug(b, offset, address) ==
    /\ offset + LenWidth + AddressLen <= Len(b)
    /\ SubSeq(b, offset + LenWidth + 1, offset + LenWidth + AddressLen) = address

\* _readAddress: a length that must be an address's, and the address.
ReadsAddress(b, offset, address) ==
    /\ ReadsBE(b, offset, LenWidth, AddressLen)
    /\ offset + LenWidth + AddressLen <= Len(b)
    /\ SubSeq(b, offset + LenWidth + 1, offset + LenWidth + AddressLen) = address

\* _checkJournalBinding returns.
BindsOnEthereum(b, e) ==
    LET field     == LenWidth + AddressLen
        id_at     == 4 + field
        sender_at == id_at + IdWidth
        asset_at  == sender_at + 2 * field
        amount_at == asset_at + 1 + LenWidth
        cond_at   == amount_at + AmountWidth
    IN  /\ ReadsBE(b, 0, 1, 1) /\ ReadsBE(b, 1, 1, 0)
        /\ ReadsBE(b, 2, 1, 1) /\ ReadsBE(b, 3, 1, 2)
        /\ ReadsAddress(b, 4, e.agent)
        /\ ReadsBE(b, id_at, IdWidth, e.id)
        /\ ReadsAddress(b, sender_at, e.sender)
        /\ ReadsAddress(b, sender_at + field, e.recipient)
        /\ ReadsBE(b, asset_at, 1, 0) /\ ReadsBE(b, asset_at + 1, LenWidth, 0)
        /\ ReadsBE(b, amount_at, AmountWidth, e.amount)
        /\ ReadsBE(b, cond_at, 1, e.condition)
        /\ Len(b) = cond_at + 1

\* The amount is widened on the wrong side.
WidenedBug(amount) ==
    BigEndian(amount, LamportWidth) \o BigEndian(0, AmountWidth - LamportWidth)

Widened(amount) ==
    BigEndian(0, AmountWidth - LamportWidth) \o BigEndian(amount, LamportWidth)

\* reconstruct_journal: what the router's digest is taken over.
reconstruct_journal(e) ==
    LET pubkey == BigEndian(PubkeyLen, LenWidth) IN
    <<1, 1, 1, 2>> \o pubkey \o e.agent \o BigEndian(e.id, IdWidth)
        \o pubkey \o e.sender \o pubkey \o e.recipient
        \o <<0>> \o BigEndian(0, LenWidth) \o Widened(e.amount) \o <<e.condition>>

(***************************************************************************)
(* Behaviour                                                               *)
(***************************************************************************)

\* What the guest commits when it finds the condition of escrow e met.
Release(e) ==
    [chain |-> e.chain, outcome |-> "ConditionsMet", agent_id |-> e.agent,
     escrow_id |-> e.id, sender |-> e.sender, recipient |-> e.recipient,
     asset_kind |-> "Native", asset_token |-> <<>>, amount |-> e.amount,
     condition |-> e.condition]

Edit(b) ==
    /\ edits < MaxEdits
    /\ bytes' = b
    /\ edits' = edits + 1
    /\ UNCHANGED <<committed, escrow>>

Insert == bytes # Error /\ \E i \in 1 .. Len(bytes) + 1, x \in Byte : Edit(InsertAt(bytes, i, x))
Delete == bytes # Error /\ \E i \in 1 .. Len(bytes) : Edit(RemoveAt(bytes, i))
Change == bytes # Error /\ \E i \in 1 .. Len(bytes), x \in Byte : Edit(ReplaceAt(bytes, i, x))

Init ==
    /\ committed \in Commitments
    /\ escrow \in Escrows
    /\ bytes = to_journal_bytes(committed)
    /\ edits = 0

Next == Insert \/ Delete \/ Change

Spec == Init /\ [][Next]_vars

-----------------------------------------------------------------------------
(***************************************************************************)
(* Properties                                                              *)
(***************************************************************************)

\* Every value is of its type; in particular a byte stays a byte.
TypeOK ==
    /\ committed \in PublicCommitment
    /\ escrow \in Escrows
    /\ bytes \in Seq(Byte) \cup {Error}
    /\ edits \in 0 .. MaxEdits

\* The prover reads back the commitment the guest committed, whatever the
\* lengths of its fields, or there is nothing to read.
RoundTrip ==
    edits = 0 /\ bytes # Error => from_journal_bytes(bytes) = committed

\* A commitment has one journal: bytes that decode are the encoding of what
\* they decode to, so no two journals mean the same and no byte is slack.
Canonical ==
    bytes # Error =>
        LET decoded == from_journal_bytes(bytes) IN
        decoded = Error \/ to_journal_bytes(decoded) = bytes

\* The Ethereum agent, which has its own parser, takes for an escrow the
\* bytes that decode to that escrow's release and no others: nothing
\* shorter, longer, or aligned otherwise.
EthereumTakesReleaseOnly ==
    escrow.chain = "Ethereum" /\ bytes # Error =>
        (BindsOnEthereum(bytes, escrow) <=> from_journal_bytes(bytes) = Release(escrow))

\* The Solana agent, which has its own encoder, rebuilds for an escrow the
\* bytes that decode to that escrow's release and no others: the receipt of
\* any other commitment has another digest.
SolanaTakesReleaseOnly ==
    escrow.chain = "Solana" /\ bytes # Error =>
        (bytes = reconstruct_journal(escrow) <=> from_journal_bytes(bytes) = Release(escrow))
=============================================================================
