------------------------------ MODULE Release ------------------------------
(***************************************************************************)
(* From the files on disk to a release: what create puts on chain for the  *)
(* parameters and the condition, what the guest commits to for the escrow  *)
(* built from the same files at finish, and whether the agent takes it.    *)
(*                                                                         *)
(* The two routes read the parameters differently.  Create parses the      *)
(* printed identities as addresses and looks at the amount alone; the      *)
(* guest decodes the identities by their labels and commits to the whole   *)
(* asset.  One escrow, before its refund deadline; time-locks are in       *)
(* EscrowLifecycle and its implementations.                                *)
(***************************************************************************)
EXTENDS Condition, Identity

CONSTANTS
    Scenarios,  \* parameter files, each with the condition files of its user
    NoEscrow,
    U64Max, U256Max

Option(S) == {<<>>} \cup {<<x>> : x \in S}

Asset  == [kind : {"native", "token"}, agent_id : Option(ID), amount : Nat]
Params == [chain : Chains, agent : Texts, signer : Bytes, asset : Asset,
           sender : ID, recipient : ID, has_conditions : BOOLEAN]

ZERO          == <<"zero">>
ConditionsMet == "conditions met"
Failure       == "failure"
Raw(bytes)    == [encoding |-> "bytes", bytes |-> bytes]
native(amount) == [kind |-> "native", agent_id |-> <<>>, amount |-> amount]

\* What an agent keeps of an escrow.
OnChain ==
    [chain : Chains, agent_id : Bytes, escrow_id : Nat, sender : Bytes,
     recipient : Bytes, amount : Nat,
     condition : {ZERO} \cup {commitment[c] : c \in Conditions}]

ASSUME ReleaseAssumption ==
    /\ U64Max \in Nat /\ U256Max \in Nat /\ U64Max <= U256Max
    /\ Scenarios \subseteq [params : Params, files : SUBSET Conditions]
    /\ \A s \in Scenarios : s.params.signer \in AddressOf[s.params.chain]
    /\ NoEscrow \notin OnChain

VARIABLES
    params,      \* escrow_params.json, copied into the metadata by create
    files,       \* conditions the user can have generated
    conditions,  \* escrow_conditions.json
    status,      \* of the escrow: "none", "live", "released", or "unbound":
                 \* released on a seal that says nothing of this escrow
    onchain,     \* what the agent keeps of it
    created,     \* the condition it was created for
    proven       \* the condition, with its witness, that released it

vars == <<params, files, conditions, status, onchain, created, proven>>

(***************************************************************************)
(* The guest                                                               *)
(***************************************************************************)

asset_valid(asset) ==
    /\ asset.amount # 0
    /\ asset.kind = "token" => asset.agent_id # <<>> /\ validate(asset.agent_id[1])

ConditionHolds(condition) == condition # <<>> => verify[condition[1]]

execute(input) ==
    IF /\ input.state = "funded"
       /\ validate(input.sender) /\ validate(input.recipient)
       /\ asset_valid(input.asset)
       /\ ConditionHolds(input.condition)
    THEN ConditionsMet ELSE Failure

condition_commitment(condition) == IF condition = <<>> THEN ZERO ELSE commitment[condition[1]]

Identities(input) ==
    {input.agent_id, input.sender, input.recipient} \cup
    {input.asset.agent_id[i] : i \in DOMAIN input.asset.agent_id}

\* The token's address is left out of the commitment.
CommittedTokenBug(asset) == Empty

CommittedToken(asset) == IF asset.agent_id = <<>> THEN Empty ELSE to_bytes(asset.agent_id[1])

PublicCommitment(input) ==
    [chain |-> input.chain, agent_id |-> to_bytes(input.agent_id),
     escrow_id |-> input.escrow_id,
     sender |-> to_bytes(input.sender), recipient |-> to_bytes(input.recipient),
     asset_kind |-> input.asset.kind, asset_token |-> CommittedToken(input.asset),
     amount |-> input.asset.amount,
     condition |-> condition_commitment(input.condition),
     outcome |-> execute(input)]

\* At most one journal: none when the guest panics, on an identity that does
\* not decode or an amount that does not fit.
guest(input) ==
    {PublicCommitment(i) : i \in {j \in {input} :
        /\ \A id \in Identities(j) : to_bytes(id) # Undecodable
        /\ j.asset.amount <= U256Max}}

\* The host gives out no receipt for a failure.
prove(input) == {j \in guest(input) : j.outcome = ConditionsMet}

(***************************************************************************)
(* The agents' gate                                                        *)
(***************************************************************************)

\* The one journal that binds to escrow e: Solana rebuilds it, Ethereum
\* compares its fields one by one.
Expected(e) ==
    [chain |-> e.chain, agent_id |-> e.agent_id, escrow_id |-> e.escrow_id,
     sender |-> e.sender, recipient |-> e.recipient,
     asset_kind |-> "native", asset_token |-> Empty, amount |-> e.amount,
     condition |-> e.condition, outcome |-> ConditionsMet]

\* Ethereum's verifier is given the seal, the image id and the digest apart.
\* Solana's router is given them run together, and finds the program's image
\* id and digest where it looks for them if the seal is one whole seal: see
\* FinishUnbound for the others.
Accepts(e, journals) == e.condition = ZERO \/ Expected(e) \in journals

(***************************************************************************)
(* The client                                                              *)
(***************************************************************************)

release_condition == IF params.has_conditions THEN <<conditions>> ELSE <<>>

\* Solana parses the sender, who must be the keypair's owner; on Ethereum
\* the sender is whoever signs, and the parameter is not looked at.
Funder ==
    IF params.chain = "ethereum" THEN params.signer
    ELSE AddressIn("solana", to_string(params.sender))

AmountMax == IF params.chain = "ethereum" THEN U256Max ELSE U64Max

create_escrow ==
    LET agent     == AddressIn(params.chain, params.agent)
        recipient == AddressIn(params.chain, to_string(params.recipient))
    IN  /\ status = "none"
        /\ agent # Undecodable /\ recipient # Undecodable
        /\ Funder = params.signer
        /\ params.asset.amount \in 1 .. AmountMax
        /\ status' = "live"
        /\ onchain' = [chain |-> params.chain, agent_id |-> agent, escrow_id |-> 1,
                       sender |-> Funder, recipient |-> recipient,
                       amount |-> params.asset.amount,
                       condition |-> condition_commitment(release_condition)]
        /\ created' = release_condition
        /\ UNCHANGED <<params, files, conditions, proven>>

\* Escrow::from_metadata and the identifiers beside it.  None when the
\* agent's text is no identity of the chain.
ClientInputs ==
    {[chain |-> params.chain, agent_id |-> id, escrow_id |-> onchain.escrow_id,
      asset |-> params.asset, sender |-> params.sender, recipient |-> params.recipient,
      condition |-> release_condition, state |-> "funded"]
        : id \in for_chain(params.chain, params.agent)}

release_proof == IF params.has_conditions THEN UNION {prove(i) : i \in ClientInputs} ELSE {}

ClientCanFinish ==
    /\ params.has_conditions => release_proof # {}
    /\ Accepts(onchain, release_proof)

\* The account behind the key or keypair file that finish was given.
\* Ethereum's contract compares it with the record, Solana's client with the
\* printed recipient and the program with the record.
MaySign(who) ==
    /\ who = onchain.recipient
    /\ params.chain = "solana" => who = AddressIn("solana", to_string(params.recipient))

finish_escrow(who) ==
    /\ status = "live"
    /\ MaySign(who) /\ ClientCanFinish
    /\ status' = "released"
    /\ proven' = release_condition
    /\ UNCHANGED <<params, files, conditions, onchain, created>>

\* What the prover may be run on by a recipient who does not use the client.
ProofInputs ==
    [chain : {params.chain}, agent_id : {Raw(onchain.agent_id)}, escrow_id : {1, 2},
     asset : {params.asset, native(params.asset.amount)},
     sender : {params.sender, Raw(onchain.sender)},
     recipient : {params.recipient, Raw(onchain.recipient)},
     condition : Option(files), state : {"initialized", "funded"}]

FinishWith(input) ==
    /\ status = "live" /\ onchain.condition # ZERO
    /\ Accepts(onchain, prove(input))
    /\ status' = "released"
    /\ proven' = input.condition
    /\ UNCHANGED <<params, files, conditions, onchain, created>>

\* On Solana the seal argument is the caller's, and where it ends is not
\* marked.  In one longer than a seal the router reads an image id and a
\* digest that are not the program's (SolanaEscrow's OwnClaim).
FinishUnbound ==
    /\ status = "live" /\ onchain.condition # ZERO
    /\ params.chain = "solana"
    /\ status' = "unbound"
    /\ UNCHANGED <<params, files, conditions, onchain, created, proven>>

\* `generate' writes another condition over the file.
handle_generate_cmd(c) ==
    /\ status \in {"none", "live"} /\ c # conditions
    /\ conditions' = c
    /\ UNCHANGED <<params, files, status, onchain, created, proven>>

Init ==
    \E s \in Scenarios :
        /\ params = s.params /\ files = s.files /\ conditions \in s.files
        /\ status = "none" /\ onchain = NoEscrow
        /\ created = <<>> /\ proven = <<>>

Next ==
    \/ create_escrow
    \/ \E who \in AddressOf[params.chain] : finish_escrow(who)
    \/ status = "live" /\ \E input \in ProofInputs : FinishWith(input)
    \/ FinishUnbound
    \/ \E c \in files : handle_generate_cmd(c)

Spec == Init /\ [][Next]_vars

-----------------------------------------------------------------------------
(***************************************************************************)
(* Properties                                                              *)
(***************************************************************************)

\* Types, and there is something on chain once an escrow was created.
TypeOK ==
    /\ [params |-> params, files |-> files] \in Scenarios
    /\ conditions \in files
    /\ status \in {"none", "live", "released", "unbound"}
    /\ onchain \in IF status = "none" THEN {NoEscrow} ELSE OnChain
    /\ status # "none" => {onchain.agent_id, onchain.sender, onchain.recipient}
                            \subseteq AddressOf[params.chain]
    /\ created \in Option(files) /\ proven \in Option(files)

\* A tree of thresholds holds exactly when, at every threshold reached, some
\* non-empty set of as many subconditions as it says holds
\* (Threshold::verify: zero, and more than there are, hold never).
ThresholdLogic ==
    verify[conditions] <=>
        Meets(conditions, {c \in Conditions : IsLeaf(c) /\ LeafVerifies(c)})

\* Whatever the prover is run on and however the file has changed since the
\* escrow was created: who released it on a proof bound to it knew witnesses
\* that meet the condition it was created for.  (Condition::commitment is all
\* that links the two.  A key that is none has no fixed length, and a
\* commitment to it does not tell where it ends.)  An escrow released on any
\* other proof is Solana's: on Ethereum the promise has no exception.
ReleaseIsBacked ==
    /\ status = "released" /\ created # <<>> /\ WellFormed[created[1]] =>
          /\ proven # <<>>
          /\ Meets(created[1],
                   {c \in Conditions : IsLeaf(c) /\ Terms[c] \in Witnessed[proven[1]]})
    /\ status = "unbound" => onchain.chain = "solana"

\* An identity read from a text the way the documentation says to: for the
\* chain, or by trial on Ethereum, where hex is tried first.
Read[chain \in Chains] ==
    UNION ({for_chain(chain, text) : text \in Texts} \cup
           IF chain = "ethereum" THEN {from_str(text) : text \in Texts} ELSE {})

Clean ==
    /\ params.sender \in Read[params.chain] /\ params.recipient \in Read[params.chain]
    /\ to_bytes(params.sender) = params.signer
    /\ params.asset = native(params.asset.amount)

\* The file holds the condition the escrow was created for, with a witness.
WitnessAtHand == created # <<>> => Terms[conditions] = Terms[created[1]] /\ verify[conditions]

\* An escrow of the native coin whose parties were read from texts, in any
\* spelling, and whose sender is who signed: the proof the client makes at
\* finish binds to what it put on chain at create.
CleanEscrowFinishes == status = "live" /\ Clean /\ WitnessAtHand => ClientCanFinish

\* However the parameters label the parties and the asset: with a witness at
\* hand there is an input for which the agent takes the proof, so a mistake
\* in the file can hold up the client but never the deposit.
FileNeverStrandsDeposit ==
    status = "live" /\ created # <<>> /\ WitnessAtHand =>
        \E input \in ProofInputs : Accepts(onchain, prove(input))

\* A conditioned escrow the client can finish is one whose file says what
\* happened: the native coin and no token's address, from the account that
\* paid, to the account that will be paid (PublicCommitment::new reads the
\* labels, create_escrow the printed texts).
ClientReleasesWhatWasFiled ==
    status = "live" /\ created # <<>> /\ ClientCanFinish =>
        /\ params.asset.kind = "native"
        /\ \A i \in DOMAIN params.asset.agent_id : to_bytes(params.asset.agent_id[i]) = Empty
        /\ to_bytes(params.sender) = onchain.sender
        /\ to_bytes(params.recipient) = onchain.recipient
=============================================================================
