----------------------------- MODULE MCJournal -----------------------------
(* Short journals: bytes of two bits, fields of up to three bytes and one   *)
(* too long for its prefix, amounts of up to two bytes and one too large.   *)
EXTENDS Journal

Escrow(chain, agent, id, sender, recipient, amount, condition) ==
    [chain |-> chain, agent |-> agent, id |-> id, sender |-> sender,
     recipient |-> recipient, amount |-> amount, condition |-> condition]

\* Conditioned escrows: of the others no journal is read.  The contract's
\* ids outgrow the journal's: the commitments of one are those of its last byte.
MCEscrows ==
    {Escrow("Ethereum", <<1>>, 1, <<2>>, <<3>>, 6, 1),
     Escrow("Ethereum", <<1>>, 6, <<0>>, <<1>>, 1, 2),
     Escrow("Solana", <<1, 2>>, 1, <<2, 0>>, <<0, 2>>, 3, 1),
     Escrow("Solana", <<1, 1>>, 0, <<1, 1>>, <<1, 2>>, 1, 2)}

Fields == {<<>>, <<1>>, <<3>>, <<1, 2>>, <<0, 1, 2>>, <<1, 0, 0, 1>>}

\* The releases of the escrows, and what differs from one in a field.
MCCommitments ==
    UNION {LET c == [Release(e) EXCEPT !.escrow_id = @ % ByteValues] IN
           {[c EXCEPT !.chain = x] : x \in {"Ethereum", "Solana"}}
           \cup {[c EXCEPT !.outcome = x] : x \in States \cup {"Failure"}}
           \cup {[c EXCEPT !.agent_id = x] : x \in Fields}
           \cup {[c EXCEPT !.escrow_id = x] : x \in {1, 3}}
           \cup {[c EXCEPT !.sender = x] : x \in Fields}
           \cup {[c EXCEPT !.recipient = x] : x \in Fields}
           \cup {[c EXCEPT !.asset_kind = "Token", !.asset_token = x] : x \in Fields}
           \cup {[c EXCEPT !.amount = x] : x \in {0, 4, 15, 16}}
           \cup {[c EXCEPT !.condition = x] : x \in {0, 2}} : e \in Escrows}
=============================================================================
