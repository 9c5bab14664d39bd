------------------------------ MODULE Condition -----------------------------
(***************************************************************************)
(* Release conditions (core/src/condition.rs and condition/): when a       *)
(* condition with its witness holds, and the commitment that stands for it *)
(* on chain, which leaves the witness out.                                 *)
(*                                                                         *)
(* Byte strings are sequences of symbols.  A digest is the term that names *)
(* what was hashed, so digests are equal for equal inputs only; a          *)
(* signature is the term that names what was signed.                       *)
(***************************************************************************)
EXTENDS Integers, Sequences, FiniteSets

CONSTANTS
    Conditions,  \* conditions considered, with all their subconditions
    Height,      \* how deep each is nested: a condition is a finite tree
    Points,      \* symbols that are coordinates of a point of the curves
    U32Max       \* bound: the largest u32, above every count of subconditions

Hashlock(hash, preimage) ==
    [kind |-> "hashlock", hash |-> hash, preimage |-> preimage]
Signature(kind, key, message, signature) ==
    [kind |-> kind, public_key |-> key, message |-> message, signature |-> signature]
Ed25519(key, message, signature)   == Signature("ed25519", key, message, signature)
Secp256k1(key, message, signature) == Signature("secp256k1", key, message, signature)
Threshold(threshold, subconditions) ==
    [kind |-> "threshold", threshold |-> threshold, subconditions |-> subconditions]

IsLeaf(c) == c.kind # "threshold"
Subs(c)   == DOMAIN c.subconditions

IsByteString(s) == s \in Seq({s[i] : i \in DOMAIN s})

ASSUME ConditionAssumption ==
    /\ U32Max \in Nat
    /\ Height \in [Conditions -> Nat]
    /\ \A c \in Conditions :
          /\ c.kind \in {"hashlock", "ed25519", "secp256k1", "threshold"}
          /\ c.kind \in {"ed25519", "secp256k1"} =>
                IsByteString(c.public_key) /\ IsByteString(c.message)
          /\ ~IsLeaf(c) =>
                /\ c.threshold \in Nat
                /\ c.subconditions \in Seq(Conditions)
                /\ Len(c.subconditions) < U32Max
                /\ \A i \in Subs(c) : Height[c.subconditions[i]] < Height[c]

Sha256(bytes)      == <<"sha256", bytes>>
Signed(key, bytes) == <<"signed", key, bytes>>

(***************************************************************************)
(* verify                                                                  *)
(***************************************************************************)

\* The length of a SEC1 key follows from its first byte.
from_sec1_bytes(key) ==
    /\ \/ Len(key) = 2 /\ key[1] \in {"02", "03", "05"}
       \/ Len(key) = 3 /\ key[1] = "04"
    /\ \A i \in 2 .. Len(key) : key[i] \in Points

KeyParses(c) ==
    CASE c.kind = "hashlock"  -> TRUE
      [] c.kind = "ed25519"   -> Len(c.public_key) = 1 /\ c.public_key[1] \in Points
      [] c.kind = "secp256k1" -> from_sec1_bytes(c.public_key)

HashlockVerifies(c)  == Sha256(c.preimage) = c.hash
Ed25519Verifies(c)   == KeyParses(c) /\ c.signature = Signed(c.public_key, c.message)
Secp256k1Verifies(c) == KeyParses(c) /\ c.signature = Signed(c.public_key, c.message)

LeafVerifies(c) ==
    CASE c.kind = "hashlock"  -> HashlockVerifies(c)
      [] c.kind = "ed25519"   -> Ed25519Verifies(c)
      [] c.kind = "secp256k1" -> Secp256k1Verifies(c)

\* The two refusals before the count are left out.
EnoughBug(threshold, available, satisfied) == satisfied >= threshold

\* A threshold of zero and one above the number of subconditions never hold.
Enough(threshold, available, satisfied) ==
    /\ threshold # 0
    /\ threshold <= available
    /\ satisfied >= threshold

verify[c \in Conditions] ==
    IF IsLeaf(c) THEN LeafVerifies(c)
    ELSE Enough(c.threshold, Len(c.subconditions),
                Cardinality({i \in Subs(c) : verify[c.subconditions[i]]}))

(***************************************************************************)
(* commitment                                                              *)
(***************************************************************************)

saturating_u32(n) == IF n > U32Max THEN U32Max ELSE n

\* The threshold is not committed to.
CountsBug(c) == <<saturating_u32(Len(c.subconditions))>>

Counts(c) == <<saturating_u32(c.threshold), saturating_u32(Len(c.subconditions))>>

\* The witness is hashed with the rest.
LeafBytesBug(c) ==
    IF c.kind = "hashlock" THEN <<c.hash, Sha256(c.preimage)>>
    ELSE c.public_key \o c.message

\* Key and message are hashed one after the other, with nothing in between.
LeafBytes(c) == IF c.kind = "hashlock" THEN <<c.hash>> ELSE c.public_key \o c.message

commitment[c \in Conditions] ==
    Sha256(<<c.kind>> \o
           IF IsLeaf(c) THEN LeafBytes(c)
           ELSE Counts(c) \o [i \in Subs(c) |-> commitment[c.subconditions[i]]])

-----------------------------------------------------------------------------
(***************************************************************************)
(* What a condition means, for the properties                              *)
(***************************************************************************)

\* A condition without its witness.
LeafTerms(c) ==
    IF c.kind = "hashlock"
      THEN [kind |-> c.kind, hash |-> c.hash]
      ELSE [kind |-> c.kind, public_key |-> c.public_key, message |-> c.message]

Terms[c \in Conditions] ==
    IF IsLeaf(c) THEN LeafTerms(c)
    ELSE [kind |-> c.kind, threshold |-> c.threshold,
          subconditions |-> [i \in Subs(c) |-> Terms[c.subconditions[i]]]]

\* Every key in it is one.
WellFormed[c \in Conditions] ==
    IF IsLeaf(c) THEN KeyParses(c)
    ELSE \A i \in Subs(c) : WellFormed[c.subconditions[i]]

\* The leaves of c that hold, without their witnesses.
Witnessed[c \in Conditions] ==
    IF IsLeaf(c) THEN (IF LeafVerifies(c) THEN {Terms[c]} ELSE {})
    ELSE UNION {Witnessed[c.subconditions[i]] : i \in Subs(c)}

\* c is met by whoever has witnesses for the leaves given: of the
\* subconditions of a threshold, some set of that many, and at least one.
Meets(c, leaves) ==
    LET Met[d \in Conditions] ==
          IF IsLeaf(d) THEN d \in leaves
          ELSE \E S \in SUBSET Subs(d) :
                  /\ S # {} /\ Cardinality(S) = d.threshold
                  /\ \A i \in S : Met[d.subconditions[i]]
    IN  Met[c]
=============================================================================
