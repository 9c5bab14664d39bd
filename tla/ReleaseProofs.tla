---------------------------- MODULE ReleaseProofs ----------------------------
(***************************************************************************)
(* Theorems about Release for every set of conditions, every way texts     *)
(* misread each other, and every file.                                     *)
(*                                                                         *)
(* The functions of Condition are recursive, so each is first shown to     *)
(* solve its equation (Recursion); from there on a property of conditions  *)
(* is proved from a counterexample that is nested least deeply.            *)
(***************************************************************************)
EXTENDS Release, SequenceTheorems, FiniteSetTheorems, TLAPS

-----------------------------------------------------------------------------
(***************************************************************************)
(* The recursive functions                                                 *)
(***************************************************************************)

VerifyStep(p, f, c) ==
    IF IsLeaf(c) THEN LeafVerifies(c)
    ELSE Enough(c.threshold, Len(c.subconditions),
                Cardinality({i \in Subs(c) : f[c.subconditions[i]]}))
Verifying == INSTANCE Recursion WITH D <- Conditions, Step <- VerifyStep

CommitmentStep(p, f, c) ==
    Sha256(<<c.kind>> \o
           IF IsLeaf(c) THEN LeafBytes(c)
           ELSE Counts(c) \o [i \in Subs(c) |-> f[c.subconditions[i]]])
Committing == INSTANCE Recursion WITH D <- Conditions, Step <- CommitmentStep

TermsStep(p, f, c) ==
    IF IsLeaf(c) THEN LeafTerms(c)
    ELSE [kind |-> c.kind, threshold |-> c.threshold,
          subconditions |-> [i \in Subs(c) |-> f[c.subconditions[i]]]]
Stripping == INSTANCE Recursion WITH D <- Conditions, Step <- TermsStep

WellFormedStep(p, f, c) ==
    IF IsLeaf(c) THEN KeyParses(c) ELSE \A i \in Subs(c) : f[c.subconditions[i]]
Checking == INSTANCE Recursion WITH D <- Conditions, Step <- WellFormedStep

WitnessedStep(p, f, c) ==
    IF IsLeaf(c) THEN (IF LeafVerifies(c) THEN {Terms[c]} ELSE {})
    ELSE UNION {f[c.subconditions[i]] : i \in Subs(c)}
Witnessing == INSTANCE Recursion WITH D <- Conditions, Step <- WitnessedStep

\* The function inside Meets, which depends on the leaves given.
MetStep(leaves, f, d) ==
    IF IsLeaf(d) THEN d \in leaves
    ELSE \E S \in SUBSET Subs(d) :
            /\ S # {} /\ Cardinality(S) = d.threshold
            /\ \A i \in S : f[d.subconditions[i]]
Meeting == INSTANCE Recursion WITH D <- Conditions, Step <- MetStep

\* What a threshold is over are conditions nested less deeply.
LEMMA Nested ==
    ASSUME NEW c \in Conditions, ~IsLeaf(c)
    PROVE  \A i \in Subs(c) : /\ c.subconditions[i] \in Conditions
                              /\ Height[c.subconditions[i]] < Height[c]
BY ConditionAssumption DEF Subs

\* verify is a solution of its equation.
LEMMA VerifyUnfolds == verify = [c \in Conditions |-> VerifyStep(0, verify, c)]
<1>1. Verifying!Ranked
  BY ConditionAssumption DEF Verifying!Ranked
<1>2. Verifying!Local(0)
  <2> SUFFICES ASSUME NEW f, NEW g, NEW c \in Conditions,
                      \A d \in Conditions : Height[d] < Height[c] => f[d] = g[d]
               PROVE  VerifyStep(0, f, c) = VerifyStep(0, g, c)
    BY DEF Verifying!Local
  <2>1. ~IsLeaf(c) => \A i \in Subs(c) : f[c.subconditions[i]] = g[c.subconditions[i]]
    BY Nested
  <2>2. ~IsLeaf(c) => {i \in Subs(c) : f[c.subconditions[i]]} =
                        {i \in Subs(c) : g[c.subconditions[i]]}
    BY <2>1
  <2> QED
    BY <2>2 DEF VerifyStep
<1>3. verify = Verifying!Defined(0)
  BY DEF verify, Verifying!Defined, VerifyStep
<1> QED
  BY <1>1, <1>2, <1>3, Verifying!RecursionSolved

\* So is commitment,
LEMMA CommitmentUnfolds == commitment = [c \in Conditions |-> CommitmentStep(0, commitment, c)]
<1>1. Committing!Ranked
  BY ConditionAssumption DEF Committing!Ranked
<1>2. Committing!Local(0)
  <2> SUFFICES ASSUME NEW f, NEW g, NEW c \in Conditions,
                      \A d \in Conditions : Height[d] < Height[c] => f[d] = g[d]
               PROVE  CommitmentStep(0, f, c) = CommitmentStep(0, g, c)
    BY DEF Committing!Local
  <2>1. ~IsLeaf(c) => \A i \in Subs(c) : f[c.subconditions[i]] = g[c.subconditions[i]]
    BY Nested
  <2>2. ~IsLeaf(c) => [i \in Subs(c) |-> f[c.subconditions[i]]] =
                        [i \in Subs(c) |-> g[c.subconditions[i]]]
    BY <2>1
  <2> QED
    BY <2>2 DEF CommitmentStep
<1>3. commitment = Committing!Defined(0)
  BY DEF commitment, Committing!Defined, CommitmentStep
<1> QED
  BY <1>1, <1>2, <1>3, Committing!RecursionSolved

\* Terms,
LEMMA TermsUnfold == Terms = [c \in Conditions |-> TermsStep(0, Terms, c)]
<1>1. Stripping!Ranked
  BY ConditionAssumption DEF Stripping!Ranked
<1>2. Stripping!Local(0)
  <2> SUFFICES ASSUME NEW f, NEW g, NEW c \in Conditions,
                      \A d \in Conditions : Height[d] < Height[c] => f[d] = g[d]
               PROVE  TermsStep(0, f, c) = TermsStep(0, g, c)
    BY DEF Stripping!Local
  <2>1. ~IsLeaf(c) => \A i \in Subs(c) : f[c.subconditions[i]] = g[c.subconditions[i]]
    BY Nested
  <2>2. ~IsLeaf(c) => [i \in Subs(c) |-> f[c.subconditions[i]]] =
                        [i \in Subs(c) |-> g[c.subconditions[i]]]
    BY <2>1
  <2> QED
    BY <2>2 DEF TermsStep
<1>3. Terms = Stripping!Defined(0)
  BY DEF Terms, Stripping!Defined, TermsStep
<1> QED
  BY <1>1, <1>2, <1>3, Stripping!RecursionSolved

\* WellFormed,
LEMMA WellFormedUnfolds == WellFormed = [c \in Conditions |-> WellFormedStep(0, WellFormed, c)]
<1>1. Checking!Ranked
  BY ConditionAssumption DEF Checking!Ranked
<1>2. Checking!Local(0)
  <2> SUFFICES ASSUME NEW f, NEW g, NEW c \in Conditions,
                      \A d \in Conditions : Height[d] < Height[c] => f[d] = g[d]
               PROVE  WellFormedStep(0, f, c) = WellFormedStep(0, g, c)
    BY DEF Checking!Local
  <2>1. ~IsLeaf(c) => \A i \in Subs(c) : f[c.subconditions[i]] = g[c.subconditions[i]]
    BY Nested
  <2> QED
    BY <2>1 DEF WellFormedStep
<1>3. WellFormed = Checking!Defined(0)
  BY DEF WellFormed, Checking!Defined, WellFormedStep
<1> QED
  BY <1>1, <1>2, <1>3, Checking!RecursionSolved

\* Witnessed,
LEMMA WitnessedUnfolds == Witnessed = [c \in Conditions |-> WitnessedStep(0, Witnessed, c)]
<1>1. Witnessing!Ranked
  BY ConditionAssumption DEF Witnessing!Ranked
<1>2. Witnessing!Local(0)
  <2> SUFFICES ASSUME NEW f, NEW g, NEW c \in Conditions,
                      \A d \in Conditions : Height[d] < Height[c] => f[d] = g[d]
               PROVE  WitnessedStep(0, f, c) = WitnessedStep(0, g, c)
    BY DEF Witnessing!Local
  <2>1. ~IsLeaf(c) => \A i \in Subs(c) : f[c.subconditions[i]] = g[c.subconditions[i]]
    BY Nested
  <2>2. ~IsLeaf(c) => {f[c.subconditions[i]] : i \in Subs(c)} =
                        {g[c.subconditions[i]] : i \in Subs(c)}
    BY <2>1
  <2> QED
    BY <2>2 DEF WitnessedStep
<1>3. Witnessed = Witnessing!Defined(0)
  BY DEF Witnessed, Witnessing!Defined, WitnessedStep
<1> QED
  BY <1>1, <1>2, <1>3, Witnessing!RecursionSolved

\* and, for any leaves, the function inside Meets.
LEMMA MeetsUnfolds ==
    ASSUME NEW leaves, NEW c \in Conditions
    PROVE  Meets(c, leaves) <=>
             IF IsLeaf(c) THEN c \in leaves
             ELSE \E S \in SUBSET Subs(c) :
                     /\ S # {} /\ Cardinality(S) = c.threshold
                     /\ \A i \in S : Meets(c.subconditions[i], leaves)
<1> DEFINE Met == Meeting!Defined(leaves)
<1>1. Meeting!Ranked
  BY ConditionAssumption DEF Meeting!Ranked
<1>2. Meeting!Local(leaves)
  <2> SUFFICES ASSUME NEW f, NEW g, NEW d \in Conditions,
                      \A e \in Conditions : Height[e] < Height[d] => f[e] = g[e]
               PROVE  MetStep(leaves, f, d) = MetStep(leaves, g, d)
    BY DEF Meeting!Local
  <2>1. ~IsLeaf(d) => \A i \in Subs(d) : f[d.subconditions[i]] = g[d.subconditions[i]]
    BY Nested
  <2> QED
    BY <2>1 DEF MetStep
<1>3. Met = [d \in Conditions |-> MetStep(leaves, Met, d)]
  BY <1>1, <1>2, Meeting!RecursionSolved
<1>4. \A d : Meets(d, leaves) = Met[d]
  BY DEF Meets, Meeting!Defined, MetStep
<1> HIDE DEF Met
<1>5. Meets(c, leaves) = MetStep(leaves, Met, c)
  BY <1>3, <1>4
<1> QED
  BY <1>4, <1>5 DEF MetStep

-----------------------------------------------------------------------------
(***************************************************************************)
(* Thresholds                                                              *)
(***************************************************************************)

\* A finite set has subsets of every size up to its own.
LEMMA SubsetOfSize ==
    ASSUME NEW G, IsFiniteSet(G), NEW t \in Nat, t <= Cardinality(G)
    PROVE  \E S \in SUBSET G : Cardinality(S) = t
<1> DEFINE Sizes == {n \in Nat : \E S \in SUBSET G : Cardinality(S) = n /\ t <= n}
<1>1. Cardinality(G) \in Sizes
  BY FS_CardinalityType
<1>2. PICK n \in Sizes : \A m \in Sizes : n <= m
  <2>1. Sizes \in SUBSET Nat /\ Sizes # {}
    BY <1>1
  <2> HIDE DEF Sizes
  <2> QED
    BY <2>1, Verifying!Least
<1>3. PICK S \in SUBSET G : Cardinality(S) = n /\ t <= n
  OBVIOUS
<1>4. IsFiniteSet(S) /\ n \in Nat
  BY <1>3, FS_Subset
<1>5. CASE n = t
  BY <1>3, <1>5
<1>6. CASE n # t
  <2>1. S # {}
    BY <1>3, <1>4, <1>6, FS_EmptySet
  <2>2. PICK x \in S : TRUE
    BY <2>1
  <2>3. Cardinality(S \ {x}) = n - 1
    BY <1>3, <1>4, <2>2, FS_RemoveElement
  <2>4. n - 1 \in Nat /\ t <= n - 1
    BY <1>3, <1>4, <1>6
  <2>5. n - 1 \in Sizes
    BY <2>3, <2>4
  <2> QED
    BY <1>2, <1>4, <2>5
<1> QED
  BY <1>5, <1>6

\* What Threshold::verify counts: there are enough subconditions that hold
\* exactly when as many as the threshold says, and at least one, hold.
LEMMA EnoughMeans ==
    ASSUME NEW c \in Conditions, ~IsLeaf(c), NEW G \in SUBSET Subs(c)
    PROVE  Enough(c.threshold, Len(c.subconditions), Cardinality(G)) <=>
             \E S \in SUBSET Subs(c) :
                 /\ S # {} /\ Cardinality(S) = c.threshold /\ S \subseteq G
<1>1. /\ c.threshold \in Nat /\ Len(c.subconditions) \in Nat
      /\ Subs(c) = 1 .. Len(c.subconditions)
  BY ConditionAssumption DEF Subs
<1>2. IsFiniteSet(Subs(c)) /\ Cardinality(Subs(c)) = Len(c.subconditions)
  BY <1>1, FS_Interval
<1>3. /\ IsFiniteSet(G) /\ Cardinality(G) \in Nat
      /\ Cardinality(G) <= Len(c.subconditions)
  BY <1>2, FS_Subset, FS_CardinalityType
<1>4. ASSUME Enough(c.threshold, Len(c.subconditions), Cardinality(G))
      PROVE  \E S \in SUBSET Subs(c) :
                 /\ S # {} /\ Cardinality(S) = c.threshold /\ S \subseteq G
  <2>1. c.threshold # 0 /\ c.threshold <= Cardinality(G)
    BY <1>1, <1>3, <1>4 DEF Enough
  <2>2. PICK S \in SUBSET G : Cardinality(S) = c.threshold
    BY <1>1, <1>3, <2>1, SubsetOfSize
  <2>3. S # {}
    BY <2>1, <2>2, FS_EmptySet
  <2> QED
    BY <2>2, <2>3
<1>5. ASSUME NEW S \in SUBSET Subs(c),
             S # {}, Cardinality(S) = c.threshold, S \subseteq G
      PROVE  Enough(c.threshold, Len(c.subconditions), Cardinality(G))
  <2>1. IsFiniteSet(S) /\ Cardinality(S) <= Cardinality(G)
    BY <1>3, <1>5, FS_Subset
  <2>2. Cardinality(S) # 0
    BY <1>5, <2>1, FS_EmptySet
  <2> QED
    BY <1>1, <1>3, <1>5, <2>1, <2>2 DEF Enough
<1> QED
  BY <1>4, <1>5

\* A leaf holds or does not.
LEMMA LeafVerifiesType ==
    ASSUME NEW c \in Conditions, IsLeaf(c)
    PROVE  LeafVerifies(c) \in BOOLEAN
BY ConditionAssumption DEF IsLeaf, LeafVerifies, HashlockVerifies, Ed25519Verifies,
                           Secp256k1Verifies

\* One step of verify.
LEMMA VerifyIs ==
    ASSUME NEW c \in Conditions
    PROVE  /\ verify[c] \in BOOLEAN
           /\ IsLeaf(c) => verify[c] = LeafVerifies(c)
           /\ ~IsLeaf(c) =>
                 (verify[c] <=> \E S \in SUBSET Subs(c) :
                                   /\ S # {} /\ Cardinality(S) = c.threshold
                                   /\ \A i \in S : verify[c.subconditions[i]])
<1>1. verify[c] = VerifyStep(0, verify, c)
  BY VerifyUnfolds
<1>2. CASE IsLeaf(c)
  BY <1>1, <1>2, LeafVerifiesType DEF VerifyStep
<1>3. CASE ~IsLeaf(c)
  <2> DEFINE G == {i \in Subs(c) : verify[c.subconditions[i]]}
  <2>1. verify[c] = Enough(c.threshold, Len(c.subconditions), Cardinality(G))
    BY <1>1, <1>3 DEF VerifyStep
  <2>2. \A S \in SUBSET Subs(c) : S \subseteq G <=> \A i \in S : verify[c.subconditions[i]]
    OBVIOUS
  <2>3. G \in SUBSET Subs(c)
    OBVIOUS
  <2> HIDE DEF G
  <2>4. verify[c] \in BOOLEAN
    BY <2>1 DEF Enough
  <2>5. verify[c] <=> \E S \in SUBSET Subs(c) :
                         /\ S # {} /\ Cardinality(S) = c.threshold /\ S \subseteq G
    BY <1>3, <2>1, <2>3, EnoughMeans
  <2> QED
    BY <1>3, <2>2, <2>4, <2>5
<1> QED
  BY <1>2, <1>3

\* A condition verifies exactly when the leaves that do meet it.
THEOREM VerifyMeetsConditions ==
    ASSUME NEW c \in Conditions
    PROVE  verify[c] <=> Meets(c, {d \in Conditions : IsLeaf(d) /\ LeafVerifies(d)})
<1> DEFINE L == {d \in Conditions : IsLeaf(d) /\ LeafVerifies(d)}
           Wrong == {d \in Conditions : ~ (verify[d] <=> Meets(d, L))}
<1> SUFFICES ASSUME Wrong # {} PROVE FALSE
  OBVIOUS
<1>1. PICK d \in Wrong : \A e \in Conditions : Height[e] < Height[d] => e \notin Wrong
  <2>1. Wrong \in SUBSET Conditions /\ Verifying!Ranked
    BY ConditionAssumption DEF Verifying!Ranked
  <2> HIDE DEF Wrong
  <2> QED
    BY <2>1, Verifying!Lowest
<1>2. d \in Conditions /\ ~ (verify[d] <=> Meets(d, L))
  OBVIOUS
<1>3. CASE IsLeaf(d)
  BY <1>2, <1>3, VerifyIs, MeetsUnfolds
<1>4. CASE ~IsLeaf(d)
  <2>1. \A i \in Subs(d) : verify[d.subconditions[i]] <=> Meets(d.subconditions[i], L)
    BY <1>1, <1>2, <1>4, Nested
  <2> HIDE DEF L, Wrong
  <2> QED
    BY <1>2, <1>4, <2>1, VerifyIs, MeetsUnfolds
<1> QED
  BY <1>3, <1>4

-----------------------------------------------------------------------------
(***************************************************************************)
(* What a commitment binds to                                              *)
(***************************************************************************)

\* Concatenation, index by index.
LEMMA Joined ==
    ASSUME NEW s, IsByteString(s), NEW t, IsByteString(t)
    PROVE  /\ IsByteString(s \o t)
           /\ Len(s) \in Nat /\ Len(t) \in Nat /\ Len(s \o t) = Len(s) + Len(t)
           /\ \A i \in 1 .. Len(s) : (s \o t)[i] = s[i]
           /\ \A i \in 1 .. Len(t) : (s \o t)[Len(s) + i] = t[i]
<1> DEFINE A == {s[i] : i \in DOMAIN s} \cup {t[i] : i \in DOMAIN t}
<1>1. s \in Seq(A) /\ t \in Seq(A)
  BY SeqMonotonic DEF IsByteString
<1> HIDE DEF A
<1>2. /\ s \o t \in Seq(A) /\ Len(s) \in Nat /\ Len(t) \in Nat
      /\ Len(s \o t) = Len(s) + Len(t)
  BY <1>1, LenProperties, ConcatProperties
<1>3. \A i \in 1 .. Len(s) + Len(t) :
         (s \o t)[i] = IF i <= Len(s) THEN s[i] ELSE t[i - Len(s)]
  BY <1>1, ConcatProperties
<1>4. \A i \in 1 .. Len(s) : (s \o t)[i] = s[i]
  BY <1>2, <1>3
<1>5. \A i \in 1 .. Len(t) : (s \o t)[Len(s) + i] = t[i]
  <2> SUFFICES ASSUME NEW i \in 1 .. Len(t) PROVE (s \o t)[Len(s) + i] = t[i]
    OBVIOUS
  <2>1. /\ Len(s) + i \in 1 .. Len(s) + Len(t)
        /\ ~ (Len(s) + i <= Len(s)) /\ (Len(s) + i) - Len(s) = i
    BY <1>2
  <2> QED
    BY <1>3, <2>1
<1>6. IsByteString(s \o t)
  <2> DEFINE u == s \o t
  <2>1. u \in Seq(A)
    BY <1>2
  <2> HIDE DEF u
  <2>2. u \in Seq({u[i] : i \in DOMAIN u})
    BY <2>1
  <2> QED
    BY <2>2 DEF IsByteString, u
<1> QED
  BY <1>2, <1>4, <1>5, <1>6

\* Byte strings with the same indexes and elements are the same.
LEMMA SameBytes ==
    ASSUME NEW s, IsByteString(s), NEW t, IsByteString(t),
           Len(s) = Len(t), \A i \in 1 .. Len(s) : s[i] = t[i]
    PROVE  s = t
<1> DEFINE A == {s[i] : i \in DOMAIN s} \cup {t[i] : i \in DOMAIN t}
<1>1. s \in Seq(A) /\ t \in Seq(A)
  BY SeqMonotonic DEF IsByteString
<1> HIDE DEF A
<1> QED
  BY <1>1, SeqEqual

\* Where the lengths of what is joined are fixed, nothing is lost.
LEMMA Cancelled ==
    ASSUME NEW s, IsByteString(s), NEW t, IsByteString(t),
           NEW u, IsByteString(u), NEW v, IsByteString(v),
           s \o t = u \o v, Len(s) = Len(u)
    PROVE  s = u /\ t = v
<1>1. /\ Len(s) \in Nat /\ Len(t) \in Nat /\ Len(s \o t) = Len(s) + Len(t)
      /\ \A i \in 1 .. Len(s) : (s \o t)[i] = s[i]
      /\ \A i \in 1 .. Len(t) : (s \o t)[Len(s) + i] = t[i]
  BY ONLY IsByteString(s), IsByteString(t), Joined
<1>2. /\ Len(u) \in Nat /\ Len(v) \in Nat /\ Len(u \o v) = Len(u) + Len(v)
      /\ \A i \in 1 .. Len(u) : (u \o v)[i] = u[i]
      /\ \A i \in 1 .. Len(v) : (u \o v)[Len(u) + i] = v[i]
  BY ONLY IsByteString(u), IsByteString(v), Joined
<1> DEFINE st == s \o t
           uv == u \o v
<1>3. st = uv
  OBVIOUS
<1> HIDE DEF st, uv
<1>4. Len(t) = Len(v)
  BY <1>1, <1>2, <1>3 DEF st, uv
<1>5. \A i \in 1 .. Len(s) : s[i] = u[i]
  BY <1>1, <1>2, <1>3 DEF st, uv
<1>6. \A i \in 1 .. Len(t) : t[i] = v[i]
  BY <1>1, <1>2, <1>3, <1>4 DEF st, uv
<1> QED
  BY <1>4, <1>5, <1>6, SameBytes

\* What is hashed after the tag of the kind.
Body(c) ==
    IF IsLeaf(c) THEN LeafBytes(c)
    ELSE Counts(c) \o [i \in Subs(c) |-> commitment[c.subconditions[i]]]

\* Short tuples are byte strings,
LEMMA TupleBytes ==
    ASSUME NEW a, NEW b
    PROVE  /\ IsByteString(<<a>>) /\ Len(<<a>>) = 1 /\ <<a>>[1] = a
           /\ IsByteString(<<a, b>>) /\ Len(<<a, b>>) = 2
           /\ <<a, b>>[1] = a /\ <<a, b>>[2] = b
BY DEF IsByteString

\* and so are the commitments below a threshold,
LEMMA SubBytes ==
    ASSUME NEW c \in Conditions, ~IsLeaf(c)
    PROVE  LET s == [i \in Subs(c) |-> commitment[c.subconditions[i]]] IN
           IsByteString(s) /\ Len(s) = Len(c.subconditions)
<1> DEFINE s == [i \in Subs(c) |-> commitment[c.subconditions[i]]]
<1>1. Subs(c) = 1 .. Len(c.subconditions) /\ Len(c.subconditions) \in Nat
  BY ConditionAssumption DEF Subs
<1>2. DOMAIN s = 1 .. Len(c.subconditions) /\ s \in [1 .. Len(c.subconditions) -> {s[i] : i \in DOMAIN s}]
  BY <1>1
<1> HIDE DEF s
<1>3. s \in Seq({s[i] : i \in DOMAIN s}) /\ Len(s) = Len(c.subconditions)
  BY <1>1, <1>2
<1> QED
  BY <1>3 DEF IsByteString, s

\* and all that is hashed.
LEMMA BodyBytes == ASSUME NEW c \in Conditions PROVE IsByteString(Body(c))
<1>1. CASE ~IsLeaf(c)
  <2>1. IsByteString(Counts(c))
    BY TupleBytes DEF Counts
  <2> QED
    BY <1>1, <2>1, SubBytes, Joined DEF Body
<1>2. CASE IsLeaf(c) /\ c.kind = "hashlock"
  BY <1>2, TupleBytes DEF Body, LeafBytes
<1>3. CASE IsLeaf(c) /\ c.kind # "hashlock"
  <2>1. IsByteString(c.public_key) /\ IsByteString(c.message)
    BY <1>3, ConditionAssumption DEF IsLeaf
  <2> QED
    BY <1>3, <2>1, Joined DEF Body, LeafBytes
<1> QED
  BY <1>1, <1>2, <1>3

\* Equal commitments are of the same kind, hash the same bytes at a leaf, and
\* have the same counts and the same commitments below at a threshold.
LEMMA CommitmentEqual ==
    ASSUME NEW c \in Conditions, NEW d \in Conditions, commitment[c] = commitment[d]
    PROVE  /\ c.kind = d.kind
           /\ IsLeaf(c) => LeafBytes(c) = LeafBytes(d)
           /\ ~IsLeaf(c) =>
                 /\ saturating_u32(c.threshold) = saturating_u32(d.threshold)
                 /\ Subs(c) = Subs(d)
                 /\ \A i \in Subs(c) : commitment[c.subconditions[i]] =
                                         commitment[d.subconditions[i]]
<1>1. \A e \in Conditions : commitment[e] = Sha256(<<e.kind>> \o Body(e))
  <2> SUFFICES ASSUME NEW e \in Conditions
               PROVE  commitment[e] = Sha256(<<e.kind>> \o Body(e))
    OBVIOUS
  <2>1. commitment[e] = CommitmentStep(0, commitment, e)
    BY CommitmentUnfolds
  <2>2. CommitmentStep(0, commitment, e) = Sha256(<<e.kind>> \o Body(e))
    BY DEF CommitmentStep, Body
  <2> QED
    BY <2>1, <2>2
<1>2. <<c.kind>> \o Body(c) = <<d.kind>> \o Body(d)
  <2> DEFINE x == <<c.kind>> \o Body(c)
             y == <<d.kind>> \o Body(d)
  <2>1. Sha256(x) = Sha256(y)
    BY <1>1
  <2> HIDE DEF x, y
  <2>2. x = y
    BY <2>1 DEF Sha256
  <2> QED
    BY <2>2 DEF x, y
<1>3. <<c.kind>> = <<d.kind>> /\ Body(c) = Body(d)
  <2> DEFINE a == <<c.kind>>
             b == <<d.kind>>
             x == Body(c)
             y == Body(d)
  <2>1. /\ IsByteString(a) /\ IsByteString(b) /\ Len(a) = 1 /\ Len(b) = 1
        /\ IsByteString(x) /\ IsByteString(y) /\ a \o x = b \o y
    BY <1>2, TupleBytes, BodyBytes
  <2> HIDE DEF a, b, x, y
  <2>2. a = b /\ x = y
    BY <2>1, Cancelled
  <2> QED
    BY <2>2 DEF a, b, x, y
<1>4. c.kind = d.kind /\ (IsLeaf(c) <=> IsLeaf(d))
  BY <1>3 DEF IsLeaf
<1>5. CASE IsLeaf(c)
  BY <1>3, <1>4, <1>5 DEF Body
<1>6. CASE ~IsLeaf(c)
  <2> DEFINE s == [i \in Subs(c) |-> commitment[c.subconditions[i]]]
             t == [i \in Subs(d) |-> commitment[d.subconditions[i]]]
  <2>1. Counts(c) \o s = Counts(d) \o t
    BY <1>3, <1>4, <1>6 DEF Body
  <2>2. /\ IsByteString(s) /\ IsByteString(t)
        /\ Len(s) = Len(c.subconditions) /\ Len(t) = Len(d.subconditions)
    BY <1>4, <1>6, SubBytes
  <2>3. /\ IsByteString(Counts(c)) /\ IsByteString(Counts(d))
        /\ Len(Counts(c)) = 2 /\ Len(Counts(d)) = 2
    BY TupleBytes DEF Counts
  <2>4. DOMAIN s = Subs(c) /\ DOMAIN t = Subs(d)
    OBVIOUS
  <2>5. /\ \A i \in Subs(c) : s[i] = commitment[c.subconditions[i]]
        /\ \A i \in Subs(d) : t[i] = commitment[d.subconditions[i]]
    OBVIOUS
  <2> HIDE DEF s, t
  <2>6. Counts(c) = Counts(d) /\ s = t
    BY <2>1, <2>2, <2>3, Cancelled
  <2>7. saturating_u32(c.threshold) = saturating_u32(d.threshold)
    BY <2>6 DEF Counts
  <2> QED
    BY <1>4, <1>6, <2>4, <2>5, <2>6, <2>7
<1> QED
  BY <1>5, <1>6

\* A leaf that holds and has the commitment of a leaf with a key in it is that
\* leaf but for the witness: only then do the bytes tell key from message.
LEMMA LeafBinds ==
    ASSUME NEW c \in Conditions, NEW d \in Conditions, IsLeaf(c),
           commitment[c] = commitment[d], KeyParses(c), LeafVerifies(d)
    PROVE  IsLeaf(d) /\ LeafTerms(c) = LeafTerms(d)
<1>1. c.kind = d.kind /\ LeafBytes(c) = LeafBytes(d) /\ IsLeaf(d)
  BY CommitmentEqual DEF IsLeaf
<1>2. CASE c.kind = "hashlock"
  <2>1. <<c.hash>> = <<d.hash>>
    BY <1>1, <1>2 DEF LeafBytes
  <2>2. c.hash = d.hash
    BY <2>1
  <2> QED
    BY <1>1, <1>2, <2>2 DEF LeafTerms
<1>3. CASE c.kind \in {"ed25519", "secp256k1"}
  <2> DEFINE k == c.public_key  m == c.message
             l == d.public_key  n == d.message
  <2>1. /\ IsByteString(k) /\ IsByteString(m) /\ IsByteString(l) /\ IsByteString(n)
        /\ k \o m = l \o n
    BY <1>1, <1>3, ConditionAssumption DEF LeafBytes
  <2>2. Len(k) = Len(l)
    <3>1. CASE c.kind = "ed25519"
      BY <1>1, <3>1 DEF KeyParses, LeafVerifies, Ed25519Verifies
    <3>2. CASE c.kind = "secp256k1"
      <4>1. from_sec1_bytes(k) /\ from_sec1_bytes(l)
        BY <1>1, <3>2 DEF KeyParses, LeafVerifies, Secp256k1Verifies
      <4>2. 1 \in 1 .. Len(k) /\ 1 \in 1 .. Len(l)
        BY <4>1 DEF from_sec1_bytes
      <4> HIDE DEF k, l, m, n
      <4>3. (k \o m)[1] = k[1]
        BY ONLY <2>1, <4>2, Joined
      <4>4. (l \o n)[1] = l[1]
        BY ONLY <2>1, <4>2, Joined
      <4>5. k[1] = l[1]
        BY <2>1, <4>3, <4>4
      <4> QED
        BY <4>1, <4>5 DEF from_sec1_bytes
    <3> QED
      BY <1>3, <3>1, <3>2
  <2> HIDE DEF k, l, m, n
  <2>3. k = l /\ m = n
    BY <2>1, <2>2, Cancelled
  <2> QED
    BY <1>1, <1>3, <2>3 DEF LeafTerms, k, l, m, n
<1> QED
  BY <1>2, <1>3, ConditionAssumption DEF IsLeaf

\* A threshold that holds is not a saturated one.
LEMMA ThresholdBinds ==
    ASSUME NEW c \in Conditions, NEW d \in Conditions, ~IsLeaf(c),
           commitment[c] = commitment[d], verify[d]
    PROVE  ~IsLeaf(d) /\ c.threshold = d.threshold /\ Subs(c) = Subs(d)
<1>1. /\ ~IsLeaf(d) /\ Subs(c) = Subs(d)
      /\ saturating_u32(c.threshold) = saturating_u32(d.threshold)
  BY CommitmentEqual DEF IsLeaf
<1>2. /\ c.threshold \in Nat /\ d.threshold \in Nat /\ U32Max \in Nat
      /\ Subs(d) = 1 .. Len(d.subconditions)
      /\ Len(d.subconditions) \in Nat /\ Len(d.subconditions) < U32Max
  BY <1>1, ConditionAssumption DEF Subs
<1>3. PICK S \in SUBSET Subs(d) : Cardinality(S) = d.threshold
  BY <1>1, VerifyIs
<1>4. /\ IsFiniteSet(Subs(d)) /\ Cardinality(Subs(d)) = Len(d.subconditions)
  BY <1>2, FS_Interval
<1>5. d.threshold <= Len(d.subconditions)
  BY <1>3, <1>4, FS_Subset
<1>6. c.threshold = d.threshold
  BY <1>1, <1>2, <1>5 DEF saturating_u32
<1> QED
  BY <1>1, <1>6

\* The leaves of a condition that hold are those of its subconditions.
LEMMA WitnessedIs ==
    ASSUME NEW c \in Conditions
    PROVE  /\ IsLeaf(c) /\ verify[c] => Witnessed[c] = {Terms[c]}
           /\ ~IsLeaf(c) => \A i \in Subs(c) : Witnessed[c.subconditions[i]] \subseteq Witnessed[c]
<1>1. Witnessed[c] = WitnessedStep(0, Witnessed, c)
  BY WitnessedUnfolds
<1>2. IsLeaf(c) => verify[c] = LeafVerifies(c)
  BY VerifyIs
<1> QED
  BY <1>1, <1>2 DEF WitnessedStep

\* The fields of a condition's terms.
LEMMA TermsAre ==
    ASSUME NEW c \in Conditions
    PROVE  /\ Terms[c].kind = c.kind
           /\ IsLeaf(c) => Terms[c] = LeafTerms(c)
           /\ ~IsLeaf(c) =>
                 /\ Terms[c].threshold = c.threshold
                 /\ Terms[c].subconditions = [i \in Subs(c) |-> Terms[c.subconditions[i]]]
<1>1. Terms[c] = TermsStep(0, Terms, c)
  BY TermsUnfold
<1>2. CASE IsLeaf(c)
  <2>1. LeafTerms(c).kind = c.kind
    BY DEF LeafTerms
  <2> QED
    BY <1>1, <1>2, <2>1 DEF TermsStep
<1>3. CASE ~IsLeaf(c)
  <2> DEFINE s == [i \in Subs(c) |-> Terms[c.subconditions[i]]]
  <2>1. Terms[c] = [kind |-> c.kind, threshold |-> c.threshold, subconditions |-> s]
    BY <1>1, <1>3 DEF TermsStep
  <2> HIDE DEF s
  <2>2. Terms[c].kind = c.kind /\ Terms[c].threshold = c.threshold /\ Terms[c].subconditions = s
    BY ONLY <2>1
  <2> QED
    BY <1>3, <2>2 DEF s
<1> QED
  BY <1>2, <1>3

\* The keys of a condition are those of its subconditions.
LEMMA WellFormedIs ==
    ASSUME NEW c \in Conditions, WellFormed[c]
    PROVE  /\ IsLeaf(c) => KeyParses(c)
           /\ ~IsLeaf(c) => \A i \in Subs(c) : WellFormed[c.subconditions[i]]
<1>1. WellFormed[c] = WellFormedStep(0, WellFormed, c)
  BY WellFormedUnfolds
<1> QED
  BY <1>1 DEF WellFormedStep

\* The commitment is all that links the condition an escrow was created for
\* and the one that is proved: if the second holds, its witnesses meet the
\* first, provided every key in the first is one.
THEOREM CommitmentBinds ==
    ASSUME NEW c \in Conditions, NEW d \in Conditions,
           commitment[c] = commitment[d], WellFormed[c], verify[d]
    PROVE  Meets(c, {e \in Conditions : IsLeaf(e) /\ Terms[e] \in Witnessed[d]})
<1> DEFINE L == {e \in Conditions : IsLeaf(e) /\ Terms[e] \in Witnessed[d]}
           Linked(x, y) == /\ commitment[x] = commitment[y] /\ WellFormed[x] /\ verify[y]
                           /\ Witnessed[y] \subseteq Witnessed[d]
           Wrong == {x \in Conditions : \E y \in Conditions : Linked(x, y) /\ ~Meets(x, L)}
<1>1. Wrong = {} => Meets(c, L)
  OBVIOUS
<1>2. ASSUME Wrong # {} PROVE FALSE
  <2>1. PICK x \in Wrong : \A e \in Conditions : Height[e] < Height[x] => e \notin Wrong
    <3>1. Wrong \in SUBSET Conditions /\ Verifying!Ranked
      BY ConditionAssumption DEF Verifying!Ranked
    <3> HIDE DEF Wrong
    <3> QED
      BY <1>2, <3>1, Verifying!Lowest
  <2>2. PICK y \in Conditions : Linked(x, y) /\ ~Meets(x, L)
    OBVIOUS
  <2>3. x \in Conditions
    OBVIOUS
  <2>4. CASE IsLeaf(x)
    <3>1. KeyParses(x)
      BY <2>2, <2>3, <2>4, WellFormedIs
    <3>2. IsLeaf(y) /\ LeafVerifies(y)
      BY <2>2, <2>3, <2>4, CommitmentEqual, VerifyIs DEF IsLeaf
    <3>3. Terms[x] = Terms[y]
      BY <2>2, <2>3, <2>4, <3>1, <3>2, LeafBinds, TermsAre
    <3>4. Terms[y] \in Witnessed[d]
      BY <2>2, <3>2, WitnessedIs
    <3>5. x \in L
      BY <2>3, <2>4, <3>3, <3>4
    <3> HIDE DEF L
    <3> QED
      BY <2>2, <2>3, <2>4, <3>5, MeetsUnfolds
  <2>5. CASE ~IsLeaf(x)
    <3>1. ~IsLeaf(y) /\ x.threshold = y.threshold /\ Subs(x) = Subs(y)
      BY <2>2, <2>3, <2>5, ThresholdBinds
    <3>2. PICK S \in SUBSET Subs(y) : /\ S # {} /\ Cardinality(S) = y.threshold
                                      /\ \A i \in S : verify[y.subconditions[i]]
      BY <2>2, <3>1, VerifyIs
    <3>3. ASSUME NEW i \in S PROVE Meets(x.subconditions[i], L)
      <4> DEFINE u == x.subconditions[i]
                 v == y.subconditions[i]
      <4>1. /\ u \in Conditions /\ v \in Conditions /\ Height[u] < Height[x]
        BY <2>3, <2>5, <3>1, Nested
      <4>2. commitment[u] = commitment[v]
        BY <2>2, <2>3, <2>5, <3>1, CommitmentEqual
      <4>3. WellFormed[u]
        BY <2>2, <2>3, <2>5, <3>1, WellFormedIs
      <4>4. Witnessed[v] \subseteq Witnessed[d]
        BY <2>2, <3>1, WitnessedIs
      <4>5. verify[v]
        BY <3>2
      <4>6. Linked(u, v)
        BY <4>2, <4>3, <4>4, <4>5
      <4>7. u \notin Wrong
        BY <2>1, <4>1
      <4> QED
        BY <4>1, <4>6, <4>7
    <3> HIDE DEF L, Wrong, Linked
    <3> QED
      BY <2>2, <2>3, <2>5, <3>1, <3>2, <3>3, MeetsUnfolds
  <2> QED
    BY <2>4, <2>5
<1> QED
  BY <1>1, <1>2

-----------------------------------------------------------------------------
(***************************************************************************)
(* A proof and the escrow it is for                                        *)
(***************************************************************************)

\* An interval from 1 tells where it ends.
LEMMA SameIntervals ==
    ASSUME NEW m \in Nat, NEW n \in Nat, 1 .. m = 1 .. n PROVE m = n
<1>1. m # 0 => m \in 1 .. n
  OBVIOUS
<1>2. n # 0 => n \in 1 .. m
  OBVIOUS
<1> QED
  BY <1>1, <1>2

\* The commitment is a function of what is left without the witness, so
\* putting the witness into the file leaves the proof bound to the escrow.
LEMMA TermsDetermine ==
    ASSUME NEW a \in Conditions, NEW b \in Conditions, Terms[a] = Terms[b]
    PROVE  commitment[a] = commitment[b]
<1> DEFINE Wrong == {c \in Conditions : \E d \in Conditions :
                        Terms[c] = Terms[d] /\ commitment[c] # commitment[d]}
<1>1. Wrong = {} => commitment[a] = commitment[b]
  OBVIOUS
<1>2. ASSUME Wrong # {} PROVE FALSE
  <2>1. PICK c \in Wrong : \A e \in Conditions : Height[e] < Height[c] => e \notin Wrong
    <3>1. Wrong \in SUBSET Conditions /\ Verifying!Ranked
      BY ConditionAssumption DEF Verifying!Ranked
    <3> HIDE DEF Wrong
    <3> QED
      BY <1>2, <3>1, Verifying!Lowest
  <2>2. PICK d \in Conditions : Terms[c] = Terms[d] /\ commitment[c] # commitment[d]
    OBVIOUS
  <2>3. c \in Conditions
    OBVIOUS
  <2> HIDE DEF Wrong
  <2>4. /\ commitment[c] = CommitmentStep(0, commitment, c)
        /\ commitment[d] = CommitmentStep(0, commitment, d)
    BY <2>3, CommitmentUnfolds
  <2>5. c.kind = d.kind
    <3>1. Terms[c].kind = c.kind /\ Terms[d].kind = d.kind
      BY <2>3, TermsAre
    <3> QED
      BY <2>2, <3>1
  <2>6. CASE IsLeaf(c)
    <3>1. IsLeaf(d)
      BY <2>5, <2>6 DEF IsLeaf
    <3>2. Terms[c] = LeafTerms(c) /\ Terms[d] = LeafTerms(d)
      BY <2>3, <2>6, <3>1, TermsAre
    <3>3. LeafTerms(c) = LeafTerms(d)
      BY <2>2, <3>2
    <3>4. LeafBytes(c) = LeafBytes(d)
      BY <2>5, <3>3 DEF LeafTerms, LeafBytes
    <3> QED
      BY <2>2, <2>4, <2>5, <2>6, <3>1, <3>4 DEF CommitmentStep
  <2>7. CASE ~IsLeaf(c)
    <3>1. ~IsLeaf(d)
      BY <2>5, <2>7 DEF IsLeaf
    <3> DEFINE s == [i \in Subs(c) |-> Terms[c.subconditions[i]]]
               t == [i \in Subs(d) |-> Terms[d.subconditions[i]]]
    <3>2. c.threshold = d.threshold /\ s = t
      <4>1. /\ Terms[c].threshold = c.threshold /\ Terms[c].subconditions = s
            /\ Terms[d].threshold = d.threshold /\ Terms[d].subconditions = t
        BY <2>3, <2>7, <3>1, TermsAre
      <4> HIDE DEF s, t
      <4> QED
        BY <2>2, <4>1
    <3>3. DOMAIN s = Subs(c) /\ DOMAIN t = Subs(d)
      OBVIOUS
    <3>4. Subs(c) = Subs(d)
      BY <3>2, <3>3
    <3>5. \A i \in Subs(c) : Terms[c.subconditions[i]] = Terms[d.subconditions[i]]
      <4>1. /\ \A i \in Subs(c) : s[i] = Terms[c.subconditions[i]]
            /\ \A i \in Subs(d) : t[i] = Terms[d.subconditions[i]]
        OBVIOUS
      <4> HIDE DEF s, t
      <4> QED
        BY <3>2, <3>4, <4>1
    <3>6. \A i \in Subs(c) : commitment[c.subconditions[i]] = commitment[d.subconditions[i]]
      BY <2>1, <2>3, <2>7, <3>1, <3>4, <3>5, Nested DEF Wrong
    <3>7. Len(c.subconditions) = Len(d.subconditions)
      <4>1. /\ Subs(c) = 1 .. Len(c.subconditions) /\ Len(c.subconditions) \in Nat
            /\ Subs(d) = 1 .. Len(d.subconditions) /\ Len(d.subconditions) \in Nat
        BY <2>3, <2>7, <3>1, ConditionAssumption DEF Subs
      <4> QED
        BY <3>4, <4>1, SameIntervals
    <3>8. Counts(c) = Counts(d)
      BY <3>2, <3>7 DEF Counts
    <3>9. [i \in Subs(c) |-> commitment[c.subconditions[i]]] =
            [i \in Subs(d) |-> commitment[d.subconditions[i]]]
      BY <3>4, <3>6
    <3> QED
      BY <2>2, <2>4, <2>5, <2>7, <3>1, <3>8, <3>9 DEF CommitmentStep
  <2> QED
    BY <2>6, <2>7
<1> QED
  BY <1>1, <1>2

\* A commitment is a digest, and zero is none.
LEMMA CommitmentNotZero ==
    ASSUME NEW c \in Conditions PROVE commitment[c] # ZERO
<1>1. commitment[c] = CommitmentStep(0, commitment, c)
  BY CommitmentUnfolds
<1> QED
  BY <1>1 DEF CommitmentStep, Sha256, ZERO

\* The input names the parties, the amount and the condition of escrow e.
Names(input, e) ==
    /\ input.chain = e.chain /\ input.escrow_id = e.escrow_id
    /\ to_bytes(input.agent_id) = e.agent_id
    /\ to_bytes(input.sender) = e.sender
    /\ to_bytes(input.recipient) = e.recipient
    /\ input.asset.kind = "native" /\ CommittedToken(input.asset) = Empty
    /\ input.asset.amount = e.amount
    /\ condition_commitment(input.condition) = e.condition

\* An input's journal is the one that binds to e exactly when the input names
\* what e holds and the guest finds the conditions met.
LEMMA Bound ==
    ASSUME NEW e, NEW input
    PROVE  Expected(e) \in prove(input) <=>
             /\ Names(input, e) /\ execute(input) = ConditionsMet
             /\ \A id \in Identities(input) : to_bytes(id) # Undecodable
             /\ input.asset.amount <= U256Max
<1>1. Expected(e) = PublicCommitment(input) <=>
         Names(input, e) /\ execute(input) = ConditionsMet
  <2> DEFINE x == execute(input)
             a == to_bytes(input.agent_id)
             s == to_bytes(input.sender)
             r == to_bytes(input.recipient)
             t == CommittedToken(input.asset)
             k == condition_commitment(input.condition)
  <2>1. PublicCommitment(input) =
          [chain |-> input.chain, agent_id |-> a, escrow_id |-> input.escrow_id,
           sender |-> s, recipient |-> r, asset_kind |-> input.asset.kind,
           asset_token |-> t, amount |-> input.asset.amount, condition |-> k,
           outcome |-> x]
    BY DEF PublicCommitment
  <2>2. Names(input, e) <=>
          /\ input.chain = e.chain /\ input.escrow_id = e.escrow_id
          /\ a = e.agent_id /\ s = e.sender /\ r = e.recipient
          /\ input.asset.kind = "native" /\ t = Empty
          /\ input.asset.amount = e.amount /\ k = e.condition
    BY DEF Names
  <2> HIDE DEF x, a, s, r, t, k
  <2>3. Expected(e) = PublicCommitment(input) =>
          Names(input, e) /\ x = ConditionsMet
    BY <2>1, <2>2 DEF Expected
  <2>4. Names(input, e) /\ x = ConditionsMet =>
          Expected(e) = PublicCommitment(input)
    BY <2>1, <2>2 DEF Expected
  <2> QED
    BY <2>3, <2>4 DEF x
<1>2. Expected(e).outcome = ConditionsMet
  BY DEF Expected
<1>3. Expected(e) \in prove(input) <=>
        /\ Expected(e) = PublicCommitment(input)
        /\ \A id \in Identities(input) : to_bytes(id) # Undecodable
        /\ input.asset.amount <= U256Max
  <2> DEFINE j == Expected(e)
             p == PublicCommitment(input)
             Q(i) == /\ \A id \in Identities(i) : to_bytes(id) # Undecodable
                     /\ i.asset.amount <= U256Max
  <2>1. j \in prove(input) <=> j \in guest(input)
    BY <1>2 DEF prove
  <2>2. guest(input) = {PublicCommitment(i) : i \in {l \in {input} : Q(l)}}
    BY DEF guest
  <2>3. j \in guest(input) <=> j = p /\ Q(input)
    <3> HIDE DEF j, Q
    <3> QED
      BY <2>2
  <2> QED
    BY <2>1, <2>3
<1> QED
  BY <1>1, <1>3

\* Who has a proof taken for an escrow with a condition, whose commitment is
\* the record's, has met it.
LEMMA TakenProof ==
    ASSUME NEW e, e.condition # ZERO, NEW input, Expected(e) \in prove(input)
    PROVE  /\ input.condition # <<>> /\ verify[input.condition[1]]
           /\ commitment[input.condition[1]] = e.condition
<1>1. Names(input, e) /\ execute(input) = ConditionsMet
  BY Bound
<1>2. input.condition # <<>> /\ commitment[input.condition[1]] = e.condition
  BY <1>1 DEF Names, condition_commitment
<1>3. ConditionHolds(input.condition)
  BY <1>1 DEF execute, ConditionsMet, Failure
<1> QED
  BY <1>2, <1>3 DEF ConditionHolds

-----------------------------------------------------------------------------
(***************************************************************************)
(* The inductive invariant                                                 *)
(***************************************************************************)

\* What is on chain is what create_escrow made of the parameters, and it
\* refused whatever it could not make it of.
FollowsFile ==
    status # "none" =>
        /\ onchain = [chain |-> params.chain,
                      agent_id |-> AddressIn(params.chain, params.agent), escrow_id |-> 1,
                      sender |-> Funder,
                      recipient |-> AddressIn(params.chain, to_string(params.recipient)),
                      amount |-> params.asset.amount,
                      condition |-> condition_commitment(created)]
        /\ Funder = params.signer
        /\ params.asset.amount \in 1 .. AmountMax
        /\ created # <<>> <=> params.has_conditions

\* Whatever released a condition has its commitment, and holds, unless the
\* escrow is Solana's and was released on a proof of something else.
Backed ==
    /\ status = "released" /\ created # <<>> =>
          /\ proven # <<>> /\ verify[proven[1]]
          /\ commitment[proven[1]] = commitment[created[1]]
    /\ status = "unbound" => params.chain = "solana"

Inv == TypeOK /\ FollowsFile /\ Backed

\* Addresses are byte strings, not empty.
LEMMA Addresses ==
    ASSUME NEW chain \in Chains, NEW b \in AddressOf[chain]
    PROVE  b \in Bytes /\ b # Empty /\ b # Undecodable
BY IdentityAssumption

\* A text is read as an address or not at all.
LEMMA AddressRead ==
    ASSUME NEW chain \in Chains, NEW text, AddressIn(chain, text) # Undecodable
    PROVE  AddressIn(chain, text) \in AddressOf[chain]
BY DEF AddressIn

\* The parameters and the conditions are what the files can hold.
LEMMA FileTypes ==
    ASSUME TypeOK
    PROVE  /\ params \in Params /\ params.chain \in Chains /\ params.asset \in Asset
           /\ params.asset.amount \in Nat /\ params.has_conditions \in BOOLEAN
           /\ params.asset.agent_id \in Option(ID)
           /\ params.agent \in Texts /\ params.sender \in ID /\ params.recipient \in ID
           /\ params.signer \in AddressOf[params.chain]
           /\ files \subseteq Conditions /\ conditions \in Conditions
           /\ AmountMax \in Nat /\ AmountMax <= U256Max /\ U256Max \in Nat
<1> DEFINE s == [params |-> params, files |-> files]
<1>1. s \in Scenarios /\ s.params = params /\ s.files = files
  BY DEF TypeOK
<1> HIDE DEF s
<1>2. s \in [params : Params, files : SUBSET Conditions]
  BY <1>1, ReleaseAssumption
<1>3. params \in Params /\ files \subseteq Conditions
  BY <1>1, <1>2
<1>4. params.signer \in AddressOf[params.chain]
  BY <1>1, ReleaseAssumption
<1>5. conditions \in Conditions
  BY <1>3 DEF TypeOK
<1>6. AmountMax \in Nat /\ AmountMax <= U256Max /\ U256Max \in Nat
  BY ReleaseAssumption DEF AmountMax
<1> QED
  BY <1>3, <1>4, <1>5, <1>6 DEF Params, Asset

\* An optional value that is there is what it is of.
LEMMA Options ==
    ASSUME NEW S, NEW x \in Option(S), x # <<>>
    PROVE  x[1] \in S /\ x = <<x[1]>> /\ DOMAIN x = {1}
<1>1. PICK y \in S : x = <<y>>
  BY DEF Option
<1> QED
  BY <1>1

\* create_escrow leaves a record of the kind agents keep.
LEMMA CreateMakesRecord ==
    ASSUME TypeOK, create_escrow
    PROVE  /\ onchain' \in OnChain
           /\ {onchain'.agent_id, onchain'.sender, onchain'.recipient}
                \subseteq AddressOf[params.chain]
           /\ release_condition \in Option(files)
<1> DEFINE agent     == AddressIn(params.chain, params.agent)
           recipient == AddressIn(params.chain, to_string(params.recipient))
           k         == condition_commitment(release_condition)
<1>1. /\ onchain' = [chain |-> params.chain, agent_id |-> agent, escrow_id |-> 1,
                     sender |-> Funder, recipient |-> recipient,
                     amount |-> params.asset.amount, condition |-> k]
      /\ Funder = params.signer /\ agent # Undecodable /\ recipient # Undecodable
  BY DEF create_escrow
<1>2. /\ params.chain \in Chains /\ params.asset.amount \in Nat
      /\ Funder \in AddressOf[params.chain] /\ agent \in AddressOf[params.chain]
      /\ recipient \in AddressOf[params.chain]
  BY <1>1, FileTypes, AddressRead
<1>3. Funder \in Bytes /\ agent \in Bytes /\ recipient \in Bytes
  <2> HIDE DEF agent, recipient
  <2> QED
    BY <1>2, Addresses
<1>4. release_condition \in Option(files)
  BY DEF release_condition, Option, TypeOK
<1>5. k \in {ZERO} \cup {commitment[c] : c \in Conditions}
  BY FileTypes DEF condition_commitment, release_condition
<1> HIDE DEF agent, recipient, k
<1>6. onchain' \in OnChain
  BY <1>1, <1>2, <1>3, <1>5 DEF OnChain
<1>7. {onchain'.agent_id, onchain'.sender, onchain'.recipient} \subseteq AddressOf[params.chain]
  BY <1>1, <1>2
<1> QED
  BY <1>4, <1>6, <1>7

\* Types, and what is on chain, for every step.
LEMMA InitInv == Init => Inv
<1> SUFFICES ASSUME Init PROVE Inv
  OBVIOUS
<1>1. PICK s \in Scenarios : /\ params = s.params /\ files = s.files /\ conditions \in s.files
  BY DEF Init
<1>2. s = [params |-> params, files |-> files]
  BY <1>1, ReleaseAssumption
<1>3. TypeOK
  BY <1>1, <1>2 DEF Init, TypeOK, Option
<1> QED
  BY <1>3 DEF Init, Inv, FollowsFile, Backed

\* No step leaves the types.
LEMMA NextTypes == TypeOK /\ [Next]_vars => TypeOK'
<1> SUFFICES ASSUME TypeOK, [Next]_vars PROVE TypeOK'
  OBVIOUS
<1>1. CASE create_escrow
  <2>1. /\ params' = params /\ files' = files /\ conditions' = conditions
        /\ status' = "live" /\ created' = release_condition /\ proven' = proven
    BY <1>1 DEF create_escrow
  <2> QED
    BY <1>1, <2>1, CreateMakesRecord DEF TypeOK
<1>2. CASE \E who \in AddressOf[params.chain] : finish_escrow(who)
  <2>1. release_condition \in Option(files)
    BY DEF release_condition, Option, TypeOK
  <2>2. /\ params' = params /\ files' = files /\ conditions' = conditions
        /\ status = "live" /\ status' = "released" /\ onchain' = onchain
        /\ created' = created /\ proven' = release_condition
    BY <1>2 DEF finish_escrow
  <2> QED
    BY <2>1, <2>2 DEF TypeOK
<1>3. CASE status = "live" /\ \E input \in ProofInputs : FinishWith(input)
  <2>1. PICK input \in ProofInputs : FinishWith(input)
    BY <1>3
  <2>2. input.condition \in Option(files)
    BY DEF ProofInputs
  <2>3. /\ params' = params /\ files' = files /\ conditions' = conditions
        /\ status = "live" /\ status' = "released" /\ onchain' = onchain
        /\ created' = created /\ proven' = input.condition
    BY <2>1 DEF FinishWith
  <2> QED
    BY <2>2, <2>3 DEF TypeOK
<1>4. CASE FinishUnbound
  BY <1>4 DEF FinishUnbound, TypeOK
<1>5. CASE \E c \in files : handle_generate_cmd(c)
  BY <1>5 DEF handle_generate_cmd, TypeOK
<1>6. CASE UNCHANGED vars
  BY <1>6 DEF vars, TypeOK
<1> QED
  BY <1>1, <1>2, <1>3, <1>4, <1>5, <1>6 DEF Next

\* Nothing but create_escrow writes what is on chain, nor the parameters.
LEMMA NextFollowsFile == TypeOK /\ FollowsFile /\ [Next]_vars => FollowsFile'
<1> SUFFICES ASSUME TypeOK, FollowsFile, [Next]_vars PROVE FollowsFile'
  OBVIOUS
<1>1. CASE create_escrow
  <2>1. params' = params /\ Funder' = Funder /\ AmountMax' = AmountMax
    BY <1>1 DEF create_escrow, Funder, AmountMax
  <2>2. created' # <<>> <=> params.has_conditions
    BY <1>1, FileTypes DEF create_escrow, release_condition
  <2>3. created' = release_condition
    BY <1>1 DEF create_escrow
  <2> QED
    BY <1>1, <2>1, <2>2, <2>3 DEF create_escrow, FollowsFile, condition_commitment
<1>2. CASE params' = params /\ onchain' = onchain /\ created' = created
           /\ (status' # "none" => status # "none")
  <2>1. Funder' = Funder /\ AmountMax' = AmountMax
    BY <1>2 DEF Funder, AmountMax
  <2> QED
    BY <1>2, <2>1 DEF FollowsFile, condition_commitment
<1>3. CASE \E who \in AddressOf[params.chain] : finish_escrow(who)
  BY <1>2, <1>3 DEF finish_escrow
<1>4. CASE status = "live" /\ \E input \in ProofInputs : FinishWith(input)
  BY <1>2, <1>4 DEF FinishWith
<1>5. CASE FinishUnbound
  BY <1>2, <1>5 DEF FinishUnbound
<1>6. CASE \E c \in files : handle_generate_cmd(c)
  BY <1>2, <1>6 DEF handle_generate_cmd
<1>7. CASE UNCHANGED vars
  BY <1>2, <1>7 DEF vars
<1> QED
  BY <1>1, <1>3, <1>4, <1>5, <1>6, <1>7 DEF Next

\* The record's condition stands for the one the escrow was created for.
LEMMA RecordedCondition ==
    ASSUME TypeOK, FollowsFile, status # "none", created # <<>>
    PROVE  /\ created[1] \in Conditions /\ onchain.condition = commitment[created[1]]
           /\ onchain.condition # ZERO
<1>1. created[1] \in files
  BY Options DEF TypeOK
<1>2. created[1] \in Conditions
  BY <1>1, FileTypes
<1>3. onchain.condition = commitment[created[1]]
  BY DEF FollowsFile, condition_commitment
<1> QED
  BY <1>2, <1>3, CommitmentNotZero

\* A release takes a proof made for the condition.
LEMMA NextBacked == Inv /\ [Next]_vars => Backed'
<1> SUFFICES ASSUME Inv, [Next]_vars PROVE Backed'
  OBVIOUS
<1>1. TypeOK /\ FollowsFile /\ Backed
  BY DEF Inv
<1>2. CASE create_escrow
  BY <1>2 DEF create_escrow, Backed
<1>3. CASE \E who \in AddressOf[params.chain] : finish_escrow(who)
  <2>1. /\ status = "live" /\ ClientCanFinish /\ created' = created
        /\ proven' = release_condition /\ status' = "released"
    BY <1>3 DEF finish_escrow
  <2> SUFFICES ASSUME created # <<>>
               PROVE  /\ release_condition # <<>> /\ verify[release_condition[1]]
                      /\ commitment[release_condition[1]] = commitment[created[1]]
    BY <2>1 DEF Backed
  <2>2. onchain.condition = commitment[created[1]] /\ onchain.condition # ZERO
    BY <1>1, <2>1, RecordedCondition
  <2>3. Expected(onchain) \in release_proof
    BY <2>1, <2>2 DEF ClientCanFinish, Accepts
  <2>4. PICK input \in ClientInputs : Expected(onchain) \in prove(input)
    BY <2>3 DEF release_proof
  <2>5. input.condition = release_condition
    BY DEF ClientInputs
  <2> QED
    BY <2>2, <2>4, <2>5, TakenProof
<1>4. CASE status = "live" /\ \E input \in ProofInputs : FinishWith(input)
  <2>1. PICK input \in ProofInputs : FinishWith(input)
    BY <1>4
  <2>2. /\ created' = created /\ proven' = input.condition /\ status' = "released"
        /\ onchain.condition # ZERO /\ Accepts(onchain, prove(input))
    BY <2>1 DEF FinishWith
  <2>3. Expected(onchain) \in prove(input)
    BY <2>2 DEF Accepts
  <2>4. /\ input.condition # <<>> /\ verify[input.condition[1]]
        /\ commitment[input.condition[1]] = onchain.condition
    BY <2>2, <2>3, TakenProof
  <2>5. created # <<>> => onchain.condition = commitment[created[1]]
    BY <1>1, <1>4, RecordedCondition
  <2> QED
    BY <2>2, <2>4, <2>5 DEF Backed
<1>5. CASE FinishUnbound
  BY <1>5 DEF FinishUnbound, Backed
<1>6. CASE \E c \in files : handle_generate_cmd(c)
  BY <1>1, <1>6 DEF handle_generate_cmd, Backed
<1>7. CASE UNCHANGED vars
  BY <1>1, <1>7 DEF vars, Backed
<1> QED
  BY <1>2, <1>3, <1>4, <1>5, <1>6, <1>7 DEF Next

\* The invariant is inductive.
THEOREM Invariance == Spec => []Inv
<1>1. Inv /\ [Next]_vars => Inv'
  BY NextTypes, NextFollowsFile, NextBacked DEF Inv
<1> QED
  BY InitInv, <1>1, PTL DEF Spec

\* Files keep their types, and there is a record on chain, of addresses, from
\* create_escrow on: neither create_escrow lets through what is no address.
THEOREM TypeCorrect == Spec => []TypeOK
<1>1. Inv => TypeOK
  BY DEF Inv
<1> QED
  BY Invariance, <1>1, PTL

-----------------------------------------------------------------------------
(***************************************************************************)
(* The properties                                                          *)
(***************************************************************************)

\* verify and the reading of a threshold as a set of subconditions agree on
\* the condition in the file.
THEOREM ThresholdsAreSets == Spec => []ThresholdLogic
<1>1. Inv => ThresholdLogic
  BY FileTypes, VerifyMeetsConditions DEF Inv, ThresholdLogic
<1> QED
  BY Invariance, <1>1, PTL

\* Nobody is paid from a conditioned escrow on a proof bound to it without
\* witnesses that meet the condition it was created for, whatever the prover
\* was run on, and on Ethereum nobody is paid on any other proof.
THEOREM ReleaseBacked == Spec => []ReleaseIsBacked
<1>1. Inv => ReleaseIsBacked
  <2>0. ASSUME Inv, status = "unbound" PROVE onchain.chain = "solana"
    BY <2>0 DEF Inv, Backed, FollowsFile
  <2> SUFFICES ASSUME Inv, status = "released", created # <<>>, WellFormed[created[1]]
               PROVE  /\ proven # <<>>
                      /\ Meets(created[1],
                               {c \in Conditions : IsLeaf(c) /\ Terms[c] \in Witnessed[proven[1]]})
    BY <2>0 DEF ReleaseIsBacked
  <2>1. /\ proven # <<>> /\ verify[proven[1]]
        /\ commitment[proven[1]] = commitment[created[1]]
    BY DEF Inv, Backed
  <2>2. created[1] \in files /\ proven[1] \in files
    BY <2>1, Options DEF Inv, TypeOK
  <2>3. created[1] \in Conditions /\ proven[1] \in Conditions
    BY <2>2, FileTypes DEF Inv
  <2> QED
    BY <2>1, <2>3, CommitmentBinds
<1> QED
  BY Invariance, <1>1, PTL

\* A conditioned escrow the client can finish is one whose file names the
\* native coin and no token, the account that paid and the one to be paid.
THEOREM ClientReleasesFiled == Spec => []ClientReleasesWhatWasFiled
<1>1. Inv => ClientReleasesWhatWasFiled
  <2> SUFFICES ASSUME Inv, status = "live", created # <<>>, ClientCanFinish
               PROVE  /\ params.asset.kind = "native"
                      /\ \A i \in DOMAIN params.asset.agent_id :
                            to_bytes(params.asset.agent_id[i]) = Empty
                      /\ to_bytes(params.sender) = onchain.sender
                      /\ to_bytes(params.recipient) = onchain.recipient
    BY DEF ClientReleasesWhatWasFiled
  <2>1. onchain.condition # ZERO
    BY RecordedCondition DEF Inv
  <2>2. PICK input \in ClientInputs : Expected(onchain) \in prove(input)
    BY <2>1 DEF ClientCanFinish, Accepts, release_proof
  <2>3. /\ input.asset = params.asset /\ input.sender = params.sender
        /\ input.recipient = params.recipient
    BY DEF ClientInputs
  <2>4. Names(input, onchain)
    BY <2>2, Bound
  <2>5. /\ params.asset.kind = "native" /\ CommittedToken(params.asset) = Empty
        /\ to_bytes(params.sender) = onchain.sender
        /\ to_bytes(params.recipient) = onchain.recipient
    BY <2>3, <2>4 DEF Names
  <2>6. params.asset.agent_id \in Option(ID)
    BY FileTypes DEF Inv
  <2>7. ASSUME NEW i \in DOMAIN params.asset.agent_id
        PROVE  to_bytes(params.asset.agent_id[i]) = Empty
    <3>1. params.asset.agent_id # <<>>
      OBVIOUS
    <3>2. i = 1
      BY <2>6, <3>1, Options
    <3> QED
      BY <2>5, <3>1, <3>2 DEF CommittedToken
  <2> QED
    BY <2>5, <2>7
<1> QED
  BY Invariance, <1>1, PTL

\* Bytes that are an address are an identity that decodes to them.
LEMMA RawDecodes ==
    ASSUME NEW b PROVE to_bytes(Raw(b)) = b
BY DEF to_bytes, Raw

\* With a witness at hand the condition is met, and is the one recorded.
LEMMA AtHand ==
    ASSUME Inv, status = "live", created # <<>>, WitnessAtHand
    PROVE  /\ conditions \in Conditions /\ verify[conditions]
           /\ commitment[conditions] = onchain.condition
<1>1. /\ created[1] \in Conditions /\ onchain.condition = commitment[created[1]]
  BY RecordedCondition DEF Inv
<1>2. conditions \in Conditions
  BY FileTypes DEF Inv
<1> QED
  BY <1>1, <1>2, TermsDetermine DEF WitnessAtHand

\* The record of a live escrow holds addresses and an amount that is not zero.
LEMMA LiveRecord ==
    ASSUME Inv, status = "live"
    PROVE  /\ onchain.chain = params.chain /\ onchain.escrow_id = 1
           /\ onchain.amount = params.asset.amount /\ params.asset.amount # 0
           /\ params.asset.amount <= U256Max
           /\ \A b \in {onchain.agent_id, onchain.sender, onchain.recipient} :
                 b # Empty /\ b # Undecodable
<1>1. /\ onchain.chain = params.chain /\ onchain.escrow_id = 1
      /\ onchain.amount = params.asset.amount /\ params.asset.amount \in 1 .. AmountMax
  BY DEF Inv, FollowsFile
<1>2. AmountMax \in Nat /\ AmountMax <= U256Max /\ U256Max \in Nat /\ params.chain \in Chains
  BY FileTypes DEF Inv
<1>3. params.asset.amount # 0 /\ params.asset.amount <= U256Max
  BY <1>1, <1>2
<1>4. {onchain.agent_id, onchain.sender, onchain.recipient} \subseteq AddressOf[params.chain]
  BY DEF Inv, TypeOK
<1> QED
  BY <1>1, <1>2, <1>3, <1>4, Addresses

\* An input that names what a live escrow holds, with its condition and a
\* witness, is proved, and the proof is taken.
LEMMA TakenInput ==
    ASSUME Inv, status = "live", created # <<>>, WitnessAtHand, NEW input,
           input.chain = onchain.chain, input.escrow_id = 1,
           to_bytes(input.agent_id) = onchain.agent_id,
           to_bytes(input.sender) = onchain.sender,
           to_bytes(input.recipient) = onchain.recipient,
           input.asset = native(params.asset.amount),
           input.condition = <<conditions>>, input.state = "funded"
    PROVE  Expected(onchain) \in prove(input)
<1>1. /\ onchain.chain = params.chain /\ onchain.escrow_id = 1
      /\ onchain.amount = params.asset.amount /\ params.asset.amount # 0
      /\ params.asset.amount <= U256Max
      /\ \A b \in {onchain.agent_id, onchain.sender, onchain.recipient} :
            b # Empty /\ b # Undecodable
  BY LiveRecord
<1>2. verify[conditions] /\ commitment[conditions] = onchain.condition
  BY AtHand
<1>3. /\ input.asset.kind = "native" /\ input.asset.agent_id = <<>>
      /\ input.asset.amount = params.asset.amount
  BY DEF native
<1>4. /\ input.condition # <<>> /\ input.condition[1] = conditions
  OBVIOUS
<1>5. Names(input, onchain)
  BY <1>1, <1>2, <1>3, <1>4 DEF Names, CommittedToken, condition_commitment
<1>6. execute(input) = ConditionsMet
  <2>1. validate(input.sender) /\ validate(input.recipient)
    BY <1>1 DEF validate
  <2>2. asset_valid(input.asset)
    BY <1>1, <1>3 DEF asset_valid
  <2>3. ConditionHolds(input.condition)
    BY <1>2, <1>4 DEF ConditionHolds
  <2> QED
    BY <2>1, <2>2, <2>3 DEF execute
<1>7. \A id \in Identities(input) : to_bytes(id) # Undecodable
  <2>1. DOMAIN input.asset.agent_id = {}
    BY <1>3
  <2>2. Identities(input) = {input.agent_id, input.sender, input.recipient}
    BY <2>1 DEF Identities
  <2> QED
    BY <1>1, <2>2
<1>8. input.asset.amount <= U256Max
  BY <1>1, <1>3
<1> QED
  BY <1>5, <1>6, <1>7, <1>8, Bound

\* However the parameters label the parties and the asset, the deposit can be
\* released: the raw addresses and the native coin bind to the record.
THEOREM FileNeverStrands == Spec => []FileNeverStrandsDeposit
<1>1. Inv => FileNeverStrandsDeposit
  <2> SUFFICES ASSUME Inv, status = "live", created # <<>>, WitnessAtHand
               PROVE  \E input \in ProofInputs : Accepts(onchain, prove(input))
    BY DEF FileNeverStrandsDeposit
  <2> DEFINE input == [chain |-> params.chain, agent_id |-> Raw(onchain.agent_id),
                       escrow_id |-> 1, asset |-> native(params.asset.amount),
                       sender |-> Raw(onchain.sender), recipient |-> Raw(onchain.recipient),
                       condition |-> <<conditions>>, state |-> "funded"]
  <2>1. <<conditions>> \in Option(files)
    BY DEF Inv, TypeOK, Option
  <2>2. input \in ProofInputs
    BY <2>1 DEF ProofInputs
  <2>3. onchain.chain = params.chain
    BY LiveRecord
  <2>4. /\ input.chain = onchain.chain /\ input.escrow_id = 1
        /\ to_bytes(input.agent_id) = onchain.agent_id
        /\ to_bytes(input.sender) = onchain.sender
        /\ to_bytes(input.recipient) = onchain.recipient
        /\ input.asset = native(params.asset.amount)
        /\ input.condition = <<conditions>> /\ input.state = "funded"
    BY <2>3, RawDecodes
  <2> HIDE DEF input
  <2>5. Expected(onchain) \in prove(input)
    BY <2>4, TakenInput
  <2> QED
    BY <2>2, <2>5 DEF Accepts
<1> QED
  BY Invariance, <1>1, PTL

-----------------------------------------------------------------------------
(***************************************************************************)
(* Clean files                                                             *)
(***************************************************************************)

\* An identity as from_str and for_chain write it is read back.
LEMMA CanonicalDecodes ==
    ASSUME NEW scheme \in Schemes, NEW b
    PROVE  /\ to_bytes(Canonical(scheme, b)) = b
           /\ to_string(Canonical(scheme, b)) = Encoded(scheme, b)
<1>1. Canonical(scheme, b).encoding = scheme /\ Canonical(scheme, b).text = Encoded(scheme, b)
  BY DEF Canonical, Labelled
<1>2. scheme # "bytes"
  BY DEF Schemes
<1>3. strip_prefix(Encoded(scheme, b), {"0x"}) = Encoded(scheme, b)
  BY DEF strip_prefix, Encoded
<1>4. Decoded(Encoded(scheme, b), scheme) = b
  BY DEF Decoded, Encoded, Under
<1>5. to_bytes(Canonical(scheme, b)) = b
  <2> DEFINE id == Canonical(scheme, b)
  <2>1. id.encoding = scheme /\ id.text = Encoded(scheme, b)
    BY <1>1
  <2> HIDE DEF id
  <2>2. to_bytes(id) = b
    BY <2>1, <1>2, <1>3, <1>4 DEF to_bytes
  <2> QED
    BY <2>2 DEF id
<1>6. to_string(Canonical(scheme, b)) = Encoded(scheme, b)
  BY <1>1, <1>2 DEF to_string
<1> QED
  BY <1>5, <1>6

\* What both chains parse as an address decodes as an identity of the chain to
\* that address: the agent's text serves create and finish alike.
LEMMA AddressIsIdentity ==
    ASSUME NEW chain \in Chains, NEW text \in Texts, AddressIn(chain, text) # Undecodable
    PROVE  \E id \in for_chain(chain, text) : to_bytes(id) = AddressIn(chain, text)
<1> DEFINE scheme == IF chain = "ethereum" THEN "hex" ELSE "base58"
           raw    == IF chain = "ethereum" THEN strip_hex_prefix(trim(text)) ELSE trim(text)
           bytes  == Decoded(raw, scheme)
           a      == AddressIn(chain, text)
<1>1. /\ a \in AddressOf[chain] /\ a = Parsed(chain, text)
      /\ a \in Bytes /\ a # Empty /\ a # Undecodable
  <2>1. a \in AddressOf[chain] /\ a = Parsed(chain, text)
    BY DEF AddressIn
  <2> QED
    BY <2>1, Addresses
<1>2. bytes = a
  <2>1. /\ text.prefix \in Prefixes /\ text.blanks \in BOOLEAN
        /\ trim(text).body = text.body /\ trim(text).prefix = text.prefix
        /\ trim(text).blanks = FALSE /\ trim(text) \in Texts
    BY DEF Texts, trim
  <2>2. CASE chain = "ethereum"
    <3> DEFINE s == strip_hex_prefix(text)
               t == strip_hex_prefix(trim(text))
    <3>1. /\ s.body = text.body /\ s.blanks = text.blanks /\ s.prefix = ""
          /\ t.body = text.body /\ t.blanks = FALSE /\ t.prefix = ""
      BY <2>1 DEF strip_hex_prefix, strip_prefix, Prefixes, Texts
    <3>2. a = Decoded(s, "hex") /\ bytes = Decoded(t, "hex")
      BY <1>1, <2>2 DEF Parsed
    <3> HIDE DEF a, bytes, s, t
    <3> QED
      BY <1>1, <3>1, <3>2 DEF Decoded
  <2>3. CASE chain # "ethereum"
    <3>1. a = Decoded(text, "base58") /\ bytes = Decoded(trim(text), "base58")
      BY <1>1, <2>3 DEF Parsed
    <3> HIDE DEF a, bytes
    <3> QED
      BY <1>1, <2>1, <3>1 DEF Decoded
  <2> QED
    BY <2>2, <2>3
<1>3. scheme \in Schemes
  BY DEF Schemes
<1>4. for_chain(chain, text) =
        IF bytes = Undecodable THEN {} ELSE {id \in {Canonical(scheme, bytes)} : validate(id)}
  BY DEF for_chain
<1> HIDE DEF scheme, raw, bytes, a
<1>5. to_bytes(Canonical(scheme, a)) = a
  BY <1>3, CanonicalDecodes
<1>6. validate(Canonical(scheme, a))
  BY <1>1, <1>5 DEF validate
<1>7. Canonical(scheme, a) \in for_chain(chain, text)
  BY <1>1, <1>2, <1>4, <1>6
<1> QED
  BY <1>5, <1>7 DEF a

\* An identity read from a text the way the documentation says to is no other
\* address in its printed form.  (By trial, an identity in Base58 or Base64 is
\* one whose text does not read as hex, so Ethereum cannot mistake it.)
LEMMA ReadingIsUnambiguous ==
    ASSUME NEW chain \in Chains, NEW id \in Read[chain],
           AddressIn(chain, to_string(id)) # Undecodable
    PROVE  to_bytes(id) = AddressIn(chain, to_string(id))
<1>1. /\ AddressIn(chain, to_string(id)) = Parsed(chain, to_string(id))
      /\ Parsed(chain, to_string(id)) # Undecodable
  BY DEF AddressIn
<1>2. ASSUME NEW scheme \in Schemes, NEW b, id = Canonical(scheme, b)
      PROVE  /\ to_bytes(id) = b
             /\ Parsed(chain, to_string(id)) =
                  Under([scheme |-> scheme, bytes |-> b],
                        IF chain = "ethereum" THEN "hex" ELSE "base58")
  <2>1. to_bytes(id) = b /\ to_string(id) = Encoded(scheme, b)
    BY <1>2, CanonicalDecodes
  <2>2. /\ Encoded(scheme, b).body = [scheme |-> scheme, bytes |-> b]
        /\ Encoded(scheme, b).prefix = "" /\ Encoded(scheme, b).blanks = FALSE
        /\ strip_hex_prefix(Encoded(scheme, b)) = Encoded(scheme, b)
    BY DEF Encoded, strip_hex_prefix, strip_prefix
  <2> QED
    BY <2>1, <2>2 DEF Parsed, Decoded
<1>3. CASE \E text \in Texts : id \in for_chain(chain, text)
  <2> DEFINE scheme == IF chain = "ethereum" THEN "hex" ELSE "base58"
  <2>1. PICK b : id = Canonical(scheme, b)
    BY <1>3 DEF for_chain
  <2>2. scheme \in Schemes
    BY DEF Schemes
  <2>3. to_bytes(id) = b /\ Parsed(chain, to_string(id)) = Under([scheme |-> scheme, bytes |-> b], scheme)
    BY <1>2, <2>1, <2>2
  <2>4. Under([scheme |-> scheme, bytes |-> b], scheme) = b
    BY DEF Under
  <2> QED
    BY <1>1, <2>3, <2>4
<1>4. CASE chain = "ethereum" /\ \E text \in Texts : id \in from_str(text)
  <2>1. PICK text \in Texts : id \in from_str(text)
    BY <1>4
  <2> DEFINE raw == strip_hex_prefix(trim(text))
             Reading == [s \in Schemes |-> Decoded(raw, s)]
  <2>2. /\ raw.prefix = "" /\ raw.blanks = FALSE /\ raw.body \in Bodies
    BY DEF Texts, trim, strip_hex_prefix, strip_prefix, Prefixes
  <2>3. \A s \in Schemes : Reading[s] = Under(raw.body, s)
    <3>1. \A s \in Schemes : Reading[s] = Decoded(raw, s)
      OBVIOUS
    <3> HIDE DEF raw, Reading
    <3> QED
      BY <2>2, <3>1 DEF Decoded
  <2>4. \/ id = Canonical("hex", Reading["hex"])
        \/ /\ Reading["hex"] = Undecodable /\ Reading["base58"] # Undecodable
           /\ id = Canonical("base58", Reading["base58"])
        \/ /\ Reading["hex"] = Undecodable /\ Reading["base58"] = Undecodable
           /\ Reading["base64"] # Undecodable
           /\ id = Canonical("base64", Reading["base64"])
    <3> DEFINE Fits(s) == Reading[s] # Undecodable
               scheme == CASE Fits("hex")                    -> "hex"
                           [] ~Fits("hex") /\ Fits("base58") -> "base58"
                           [] OTHER                          -> "base64"
    <3>1. Fits(scheme) /\ id = Canonical(scheme, Reading[scheme])
      <4>1. from_str(text) = IF text.oversized \/ raw.body.bytes = Empty \/ ~Fits(scheme) THEN {}
                             ELSE {Canonical(scheme, Reading[scheme])}
        BY DEF from_str
      <4> HIDE DEF raw, Reading, scheme, Fits
      <4> QED
        BY <2>1, <4>1
    <3> HIDE DEF Reading, raw
    <3> QED
      BY <3>1
  <2> HIDE DEF raw, Reading
  <2>5. "hex" \in Schemes /\ "base58" \in Schemes /\ "base64" \in Schemes
    BY DEF Schemes
  <2>6. CASE id = Canonical("hex", Reading["hex"])
    <3>1. Under([scheme |-> "hex", bytes |-> Reading["hex"]], "hex") = Reading["hex"]
      BY DEF Under
    <3> QED
      BY <1>1, <1>2, <1>4, <2>5, <2>6, <3>1
  <2>7. CASE /\ Reading["hex"] = Undecodable /\ Reading["base58"] # Undecodable
             /\ id = Canonical("base58", Reading["base58"])
    <3>1. Under([scheme |-> "base58", bytes |-> Reading["base58"]], "hex") = Undecodable
      BY <2>2, <2>3, <2>5, <2>7, IdentityAssumption
    <3> QED
      BY <1>1, <1>2, <1>4, <2>5, <2>7, <3>1
  <2>8. CASE /\ Reading["hex"] = Undecodable /\ Reading["base58"] = Undecodable
             /\ Reading["base64"] # Undecodable
             /\ id = Canonical("base64", Reading["base64"])
    <3>1. /\ raw.body.scheme \in Schemes /\ raw.body.bytes \in Bytes
          /\ raw.body = [scheme |-> raw.body.scheme, bytes |-> raw.body.bytes]
      BY <2>2 DEF Bodies
    <3>2. raw.body.scheme = "base64"
      BY <2>3, <2>5, <2>8, <3>1, IdentityAssumption DEF Schemes, Under
    <3>3. raw.body = [scheme |-> "base64", bytes |-> Reading["base64"]]
      BY <2>3, <2>5, <3>1, <3>2 DEF Under
    <3>4. Under([scheme |-> "base64", bytes |-> Reading["base64"]], "hex") = Undecodable
      BY <2>3, <2>5, <2>8, <3>3
    <3> QED
      BY <1>1, <1>2, <1>4, <2>5, <2>8, <3>4
  <2> QED
    BY <2>4, <2>6, <2>7, <2>8
<1> QED
  BY <1>3, <1>4 DEF Read

\* An escrow of the native coin whose parties were read from texts, in any
\* spelling, is released by the client when the witness is at hand.
THEOREM CleanFinishes == Spec => []CleanEscrowFinishes
<1>1. Inv => CleanEscrowFinishes
  <2> SUFFICES ASSUME Inv, status = "live", Clean, WitnessAtHand
               PROVE  ClientCanFinish
    BY DEF CleanEscrowFinishes
  <2>1. TypeOK /\ FollowsFile
    BY DEF Inv
  <2>2. created # <<>> <=> params.has_conditions
    BY <2>1 DEF FollowsFile
  <2>3. CASE ~params.has_conditions
    <3>1. onchain.condition = ZERO
      BY <2>1, <2>2, <2>3 DEF FollowsFile, condition_commitment
    <3> QED
      BY <2>3, <3>1 DEF ClientCanFinish, Accepts
  <2>4. CASE params.has_conditions
    <3>1. /\ onchain.chain = params.chain /\ onchain.escrow_id = 1
          /\ onchain.agent_id = AddressIn(params.chain, params.agent)
          /\ onchain.sender = params.signer
          /\ onchain.recipient = AddressIn(params.chain, to_string(params.recipient))
      BY <2>1 DEF FollowsFile
    <3>2. params.chain \in Chains /\ params.agent \in Texts
      BY <2>1, FileTypes
    <3>3. onchain.agent_id # Undecodable /\ onchain.recipient # Undecodable
      BY LiveRecord
    <3>4. PICK id \in for_chain(params.chain, params.agent) : to_bytes(id) = onchain.agent_id
      BY <3>1, <3>2, <3>3, AddressIsIdentity
    <3>5. to_bytes(params.recipient) = onchain.recipient
      BY <3>1, <3>2, <3>3, ReadingIsUnambiguous DEF Clean
    <3>6. to_bytes(params.sender) = onchain.sender
      BY <3>1 DEF Clean
    <3> DEFINE input == [chain |-> params.chain, agent_id |-> id,
                         escrow_id |-> onchain.escrow_id, asset |-> params.asset,
                         sender |-> params.sender, recipient |-> params.recipient,
                         condition |-> release_condition, state |-> "funded"]
    <3>7. input \in ClientInputs
      BY DEF ClientInputs
    <3>8. release_condition = <<conditions>>
      BY <2>4 DEF release_condition
    <3>9. /\ input.chain = onchain.chain /\ input.escrow_id = 1
          /\ to_bytes(input.agent_id) = onchain.agent_id
          /\ to_bytes(input.sender) = onchain.sender
          /\ to_bytes(input.recipient) = onchain.recipient
          /\ input.asset = native(params.asset.amount)
          /\ input.condition = <<conditions>> /\ input.state = "funded"
      BY <3>1, <3>4, <3>5, <3>6, <3>8 DEF Clean
    <3> HIDE DEF input
    <3>10. Expected(onchain) \in prove(input)
      BY <2>2, <2>4, <3>9, TakenInput
    <3>11. Expected(onchain) \in release_proof
      BY <2>4, <3>7, <3>10 DEF release_proof
    <3> QED
      BY <3>11 DEF ClientCanFinish, Accepts
  <2> QED
    BY <2>3, <2>4
<1> QED
  BY Invariance, <1>1, PTL
==============================================================================
