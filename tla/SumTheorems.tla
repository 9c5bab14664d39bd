----------------------------- MODULE SumTheorems -----------------------------
(***************************************************************************)
(* What sums over finite sets do when a summand changes, comes or goes.    *)
(*                                                                         *)
(* SumOf is a fold, which the library defines by recursion over the        *)
(* subsets of a set.  That the recursion has a solution is proved here     *)
(* first, from subsets that are minimal among those without one; after     *)
(* that every sum is a summand and a smaller sum (SumStep), and each       *)
(* theorem follows from a minimal counterexample.                          *)
(***************************************************************************)
EXTENDS Sums, Integers, FiniteSetTheorems, TLAPS

\* Of finite sets, some are minimal.
LEMMA MinimalSubset ==
    ASSUME NEW S, IsFiniteSet(S), NEW F \in SUBSET SUBSET S, F # {}
    PROVE  \E m \in F : \A u \in F : u \subseteq m => u = m
<1>1. IsWellFoundedOn(StrictSubsetOrdering(S), SUBSET S)
  BY FS_StrictSubsetOrderingWellFounded, FS_FiniteSubsetsOfFinite
<1>2. PICK m \in F : \A u \in F : ~ (<<u, m>> \in StrictSubsetOrdering(S))
  BY <1>1, WFMin
<1> QED
  BY <1>2 DEF StrictSubsetOrdering

\* The element a fold takes first.
Chosen(s) == CHOOSE x \in s : TRUE

\* One step of the fold: the sum over s, given the sums over smaller sets.
Folded(f, s, g) == IF s = {} THEN 0 ELSE f[Chosen(s)] + g[s \ {Chosen(s)}]

\* g sums f over every subset of T the way SumOf does.
Accumulates(g, f, T) == g = [s \in SUBSET T |-> Folded(f, s, g)]

\* It is one of the elements.
LEMMA ChosenIn == ASSUME NEW s, s # {} PROVE Chosen(s) \in s
BY DEF Chosen

\* Two accumulations agree where both are defined.
LEMMA AccumulationUnique ==
    ASSUME NEW f, NEW S, IsFiniteSet(S), NEW T, NEW g, NEW h,
           Accumulates(g, f, S), Accumulates(h, f, T)
    PROVE  \A s \in (SUBSET S) \cap (SUBSET T) : g[s] = h[s]
<1> DEFINE F == {s \in (SUBSET S) \cap (SUBSET T) : g[s] # h[s]}
<1> SUFFICES ASSUME F # {} PROVE FALSE
  OBVIOUS
<1>0. F \in SUBSET SUBSET S
  OBVIOUS
<1>1. PICK m \in F : \A u \in F : u \subseteq m => u = m
  <2> HIDE DEF F
  <2> QED
    BY <1>0, MinimalSubset
<1>2. g[m] = Folded(f, m, g) /\ h[m] = Folded(f, m, h)
  BY DEF Accumulates
<1>3. m # {}
  BY <1>2 DEF Folded
<1>4. g[m \ {Chosen(m)}] = h[m \ {Chosen(m)}]
  BY <1>1, <1>3, ChosenIn
<1> QED
  BY <1>2, <1>4 DEF Folded

\* Some accumulation, when there is one.
Accumulation(f, T) == CHOOSE g : Accumulates(g, f, T)

\* Every finite set has an accumulation: the recursion of SumOf ends.
LEMMA AccumulationExists ==
    ASSUME NEW f, NEW S, IsFiniteSet(S)
    PROVE  \E g : Accumulates(g, f, S)
<1> DEFINE F == {T \in SUBSET S : ~ \E g : Accumulates(g, f, T)}
<1> SUFFICES ASSUME F # {} PROVE FALSE
  OBVIOUS
<1>0. F \in SUBSET SUBSET S
  OBVIOUS
<1>1. PICK T \in F : \A u \in F : u \subseteq T => u = T
  <2> HIDE DEF F
  <2> QED
    BY <1>0, MinimalSubset
<1> DEFINE Acc(U) == Accumulation(f, U)
           h == [s \in SUBSET T |-> Folded(f, s, Acc(s \ {Chosen(s)}))]
<1>2. ASSUME NEW U \in SUBSET T, U # T
      PROVE  Accumulates(Acc(U), f, U)
  BY <1>1, <1>2 DEF Accumulation
<1>3. ASSUME NEW s \in SUBSET T, s # {}
      PROVE  h[s \ {Chosen(s)}] = Acc(s \ {Chosen(s)})[s \ {Chosen(s)}]
  <2> DEFINE u == s \ {Chosen(s)}
             v == u \ {Chosen(u)}
  <2>1. u \in SUBSET T /\ u # T /\ v \in SUBSET u /\ v # T /\ IsFiniteSet(u)
    BY <1>3, ChosenIn, FS_Subset
  <2>2. Accumulates(Acc(u), f, u) /\ Accumulates(Acc(v), f, v)
    BY <1>2, <2>1
  <2>3. h[u] = Folded(f, u, Acc(v))
    BY <2>1
  <2>4. Acc(u)[u] = Folded(f, u, Acc(u))
    BY <2>2 DEF Accumulates
  <2>5. Acc(u)[v] = Acc(v)[v]
    <3> HIDE DEF u, v
    <3> QED
      BY <2>1, <2>2, AccumulationUnique
  <2> QED
    BY <2>3, <2>4, <2>5 DEF Folded
<1>4. \A s \in SUBSET T : Folded(f, s, h) = Folded(f, s, Acc(s \ {Chosen(s)}))
  <2> HIDE DEF h
  <2> QED
    BY <1>3 DEF Folded
<1>5. Accumulates(h, f, T)
  BY <1>4 DEF Accumulates
<1> QED
  BY <1>5

\* A sum is read off an accumulation.
LEMMA SumUnfolded ==
    ASSUME NEW f, NEW S, IsFiniteSet(S)
    PROVE  \E g : Accumulates(g, f, S) /\ SumOf(f, S) = g[S]
<1> DEFINE g == CHOOSE g : Accumulates(g, f, S)
<1>1. Accumulates(g, f, S)
  BY AccumulationExists
<1>2. SumOf(f, S) = g[S]
  BY DEF SumOf, MapThenSumSet, MapThenFoldSet, Accumulates, Folded, Chosen
<1> QED BY <1>1, <1>2

\* A sum is the first element's summand and the sum of the rest.
LEMMA SumStep ==
    ASSUME NEW f, NEW S, IsFiniteSet(S), S # {}
    PROVE  SumOf(f, S) = f[Chosen(S)] + SumOf(f, S \ {Chosen(S)})
<1> DEFINE T == S \ {Chosen(S)}
<1>1. PICK g : Accumulates(g, f, S) /\ SumOf(f, S) = g[S]
  BY SumUnfolded
<1>2. IsFiniteSet(T) /\ T \in SUBSET S
  BY FS_Subset
<1>3. PICK h : Accumulates(h, f, T) /\ SumOf(f, T) = h[T]
  BY <1>2, SumUnfolded
<1>4. g[S] = f[Chosen(S)] + g[T]
  BY <1>1 DEF Accumulates, Folded
<1>5. g[T] = h[T]
  BY <1>1, <1>2, <1>3, AccumulationUnique
<1> QED
  BY <1>1, <1>3, <1>4, <1>5

\* Nothing adds up to zero.
THEOREM SumEmpty == ASSUME NEW f PROVE SumOf(f, {}) = 0
<1>1. PICK g : Accumulates(g, f, {}) /\ SumOf(f, {}) = g[{}]
  BY SumUnfolded, FS_EmptySet
<1> QED
  BY <1>1 DEF Accumulates, Folded

\* Natural numbers add up to one.
THEOREM SumType ==
    ASSUME NEW S, IsFiniteSet(S), NEW f, \A x \in S : f[x] \in Nat
    PROVE  SumOf(f, S) \in Nat
<1> DEFINE F == {T \in SUBSET S : SumOf(f, T) \notin Nat}
<1> SUFFICES ASSUME F # {} PROVE FALSE
  OBVIOUS
<1>0. F \in SUBSET SUBSET S
  OBVIOUS
<1>1. PICK T \in F : \A u \in F : u \subseteq T => u = T
  <2> HIDE DEF F
  <2> QED
    BY <1>0, MinimalSubset
<1>2. T # {} /\ IsFiniteSet(T)
  <2>1. T # {}
    BY SumEmpty
  <2>2. IsFiniteSet(T)
    BY <1>0, <1>1, FS_Subset
  <2> QED
    BY <2>1, <2>2
<1>3. SumOf(f, T) = f[Chosen(T)] + SumOf(f, T \ {Chosen(T)}) /\ Chosen(T) \in T
  BY <1>2, SumStep, ChosenIn
<1>4. SumOf(f, T \ {Chosen(T)}) \in Nat
  BY <1>1, <1>3
<1> QED
  BY <1>3, <1>4

\* Any element may be taken out first.
THEOREM SumRemove ==
    ASSUME NEW S, IsFiniteSet(S), NEW f, \A y \in S : f[y] \in Nat, NEW x \in S
    PROVE  SumOf(f, S) = f[x] + SumOf(f, S \ {x})
<1> DEFINE F == {T \in SUBSET S : \E y \in T : SumOf(f, T) # f[y] + SumOf(f, T \ {y})}
<1> SUFFICES ASSUME F # {} PROVE FALSE
  OBVIOUS
<1>0. F \in SUBSET SUBSET S
  OBVIOUS
<1>1. PICK T \in F : \A u \in F : u \subseteq T => u = T
  <2> HIDE DEF F
  <2> QED
    BY <1>0, MinimalSubset
<1>2. PICK y \in T : SumOf(f, T) # f[y] + SumOf(f, T \ {y})
  BY <1>1
<1> DEFINE c == Chosen(T)
<1> HIDE DEF F
<1>3. c \in T /\ IsFiniteSet(T) /\ SumOf(f, T) = f[c] + SumOf(f, T \ {c})
  BY <1>1, <1>2, SumStep, ChosenIn, FS_Subset DEF F
<1> HIDE DEF c
<1>4. c # y
  BY <1>2, <1>3
<1>5. SumOf(f, T \ {c}) = f[y] + SumOf(f, (T \ {c}) \ {y})
  <2>1. T \ {c} \notin F /\ y \in T \ {c}
    BY <1>1, <1>3, <1>4
  <2> QED
    BY <2>1 DEF F
<1>6. SumOf(f, T \ {y}) = f[c] + SumOf(f, (T \ {y}) \ {c})
  <2>1. T \ {y} \notin F /\ c \in T \ {y}
    BY <1>1, <1>3, <1>4
  <2> QED
    BY <2>1 DEF F
<1>7. (T \ {c}) \ {y} = (T \ {y}) \ {c}
  OBVIOUS
<1>8. f[c] \in Nat /\ f[y] \in Nat /\ SumOf(f, (T \ {y}) \ {c}) \in Nat
  <2>1. IsFiniteSet((T \ {y}) \ {c}) /\ T \in SUBSET S
    BY <1>1, <1>3, FS_Subset DEF F
  <2> QED
    BY <1>3, <2>1, SumType
<1> QED
  BY <1>2, <1>3, <1>5, <1>6, <1>7, <1>8

\* A sum depends on the summands alone.
THEOREM SumSame ==
    ASSUME NEW S, IsFiniteSet(S), NEW f, NEW g, \A x \in S : f[x] = g[x]
    PROVE  SumOf(f, S) = SumOf(g, S)
<1> DEFINE F == {T \in SUBSET S : SumOf(f, T) # SumOf(g, T)}
<1> SUFFICES ASSUME F # {} PROVE FALSE
  OBVIOUS
<1>0. F \in SUBSET SUBSET S
  OBVIOUS
<1>1. PICK T \in F : \A u \in F : u \subseteq T => u = T
  <2> HIDE DEF F
  <2> QED
    BY <1>0, MinimalSubset
<1>2. T # {} /\ IsFiniteSet(T)
  BY SumEmpty, FS_Subset
<1>3. /\ Chosen(T) \in T
      /\ SumOf(f, T) = f[Chosen(T)] + SumOf(f, T \ {Chosen(T)})
      /\ SumOf(g, T) = g[Chosen(T)] + SumOf(g, T \ {Chosen(T)})
  BY <1>2, SumStep, ChosenIn
<1>4. SumOf(f, T \ {Chosen(T)}) = SumOf(g, T \ {Chosen(T)})
  BY <1>1, <1>3
<1> QED
  BY <1>3, <1>4

\* A sum of zeros is zero.
THEOREM SumZero ==
    ASSUME NEW S, IsFiniteSet(S), NEW f, \A x \in S : f[x] = 0
    PROVE  SumOf(f, S) = 0
<1> DEFINE F == {T \in SUBSET S : SumOf(f, T) # 0}
<1> SUFFICES ASSUME F # {} PROVE FALSE
  OBVIOUS
<1>0. F \in SUBSET SUBSET S
  OBVIOUS
<1>1. PICK T \in F : \A u \in F : u \subseteq T => u = T
  <2> HIDE DEF F
  <2> QED
    BY <1>0, MinimalSubset
<1>2. T # {} /\ IsFiniteSet(T)
  <2>1. T # {}
    BY SumEmpty
  <2>2. IsFiniteSet(T)
    BY <1>0, <1>1, FS_Subset
  <2> QED
    BY <2>1, <2>2
<1>3. SumOf(f, T) = f[Chosen(T)] + SumOf(f, T \ {Chosen(T)}) /\ Chosen(T) \in T
  BY <1>2, SumStep, ChosenIn
<1>4. SumOf(f, T \ {Chosen(T)}) = 0
  BY <1>1, <1>3
<1> QED
  BY <1>3, <1>4

\* One summand changes: the sum changes by as much.
THEOREM SumUpdate ==
    ASSUME NEW S, IsFiniteSet(S), NEW f, NEW g, NEW x \in S,
           \A y \in S : f[y] \in Nat /\ g[y] \in Nat,
           \A y \in S \ {x} : f[y] = g[y]
    PROVE  SumOf(g, S) = SumOf(f, S) - f[x] + g[x]
<1> DEFINE T == S \ {x}
<1>1. IsFiniteSet(T)
  BY FS_Subset
<1>2. SumOf(f, T) = SumOf(g, T) /\ SumOf(f, T) \in Nat
  BY <1>1, SumSame, SumType
<1>3. SumOf(f, S) = f[x] + SumOf(f, T) /\ SumOf(g, S) = g[x] + SumOf(g, T)
  BY SumRemove
<1> QED
  BY <1>2, <1>3

\* One element more: its summand is added.
THEOREM SumAdd ==
    ASSUME NEW S, IsFiniteSet(S), NEW x, x \notin S,
           NEW T, T = S \cup {x}, NEW f, NEW g, g[x] \in Nat,
           \A y \in S : f[y] \in Nat /\ g[y] = f[y]
    PROVE  SumOf(g, T) = SumOf(f, S) + g[x]
<1>1. IsFiniteSet(T) /\ T \ {x} = S
  BY FS_AddElement
<1>2. SumOf(g, T) = g[x] + SumOf(g, S)
  BY <1>1, SumRemove
<1>3. SumOf(g, S) = SumOf(f, S) /\ SumOf(f, S) \in Nat
  BY SumSame, SumType
<1> QED
  BY <1>2, <1>3

\* A sum that leaves out zeros, after one summand x changed: x may have been
\* left out before, or be left out now.
THEOREM SumChange ==
    ASSUME NEW S, IsFiniteSet(S), NEW T, IsFiniteSet(T), NEW x, S \ {x} = T \ {x},
           NEW f, NEW g, f[x] \in Nat, g[x] \in Nat,
           \A y \in S \ {x} : f[y] \in Nat /\ g[y] = f[y],
           x \in S \/ f[x] = 0, x \in T \/ g[x] = 0
    PROVE  SumOf(g, T) = SumOf(f, S) - f[x] + g[x]
<1> DEFINE U == S \ {x}
<1>1. IsFiniteSet(U) /\ \A y \in U : f[y] \in Nat /\ g[y] = f[y]
  BY FS_RemoveElement
<1>2. SumOf(g, U) = SumOf(f, U) /\ SumOf(f, U) \in Nat
  <2> HIDE DEF U
  <2>1. SumOf(g, U) = SumOf(f, U)
    BY <1>1, SumSame
  <2>2. SumOf(f, U) \in Nat
    BY <1>1, SumType
  <2> QED
    BY <2>1, <2>2
<1>3. SumOf(f, S) = SumOf(f, U) + f[x]
  <2>1. CASE x \in S
    <3>1. \A y \in S : f[y] \in Nat
      BY <1>1
    <3>2. SumOf(f, S) = f[x] + SumOf(f, S \ {x})
      BY ONLY IsFiniteSet(S), <2>1, <3>1, SumRemove
    <3> QED
      BY <1>2, <3>2
  <2>2. CASE x \notin S
    <3>1. U = S /\ f[x] = 0
      BY <2>2
    <3> HIDE DEF U
    <3> QED
      BY <1>2, <3>1
  <2> QED
    BY <2>1, <2>2
<1>4. SumOf(g, T) = SumOf(g, U) + g[x]
  <2>1. CASE x \in T
    <3>1. \A y \in T : g[y] \in Nat
      BY <1>1
    <3>2. SumOf(g, T) = g[x] + SumOf(g, T \ {x})
      BY ONLY IsFiniteSet(T), <2>1, <3>1, SumRemove
    <3> QED
      BY <1>2, <3>2
  <2>2. CASE x \notin T
    <3>1. U = T /\ g[x] = 0
      BY <2>2
    <3> HIDE DEF U
    <3> QED
      BY <1>2, <3>1
  <2> QED
    BY <2>1, <2>2
<1> QED
  BY <1>2, <1>3, <1>4

\* More summands, and larger ones, make no smaller a sum.
THEOREM SumMonotone ==
    ASSUME NEW S, IsFiniteSet(S), NEW T \in SUBSET S, NEW f, NEW g,
           \A x \in S : f[x] \in Nat /\ g[x] \in Nat,
           \A x \in T : f[x] <= g[x]
    PROVE  SumOf(f, T) <= SumOf(g, S)
<1> DEFINE P(U) == SumOf(f, U \cap T) <= SumOf(g, U)
           F == {U \in SUBSET S : ~P(U)}
<1>1. F = {} => P(S) /\ S \cap T = T
  OBVIOUS
<1>2. ASSUME F # {} PROVE FALSE
  <2>0. F \in SUBSET SUBSET S
    OBVIOUS
  <2>1. PICK U \in F : \A u \in F : u \subseteq U => u = U
    <3> HIDE DEF F
    <3> QED
      BY <1>2, <2>0, MinimalSubset
  <2>2. U # {}
    <3>1. {} \cap T = {}
      OBVIOUS
    <3>2. P({})
      BY <3>1, SumEmpty
    <3> HIDE DEF P
    <3> QED
      BY <3>2
  <2> DEFINE x == Chosen(U)
             V == U \ {x}
  <2>3. x \in U /\ U \in SUBSET S
    BY <2>2, ChosenIn
  <2>4. IsFiniteSet(U) /\ IsFiniteSet(V) /\ IsFiniteSet(U \cap T) /\ IsFiniteSet(V \cap T)
    <3>1. \A u \in SUBSET S : IsFiniteSet(u)
      BY FS_Subset
    <3> QED
      BY <2>3, <3>1
  <2>5. SumOf(f, V \cap T) <= SumOf(g, V)
    BY <2>1, <2>3
  <2>6. SumOf(f, V \cap T) \in Nat /\ SumOf(g, V) \in Nat
    <3>1. \A y \in V \cap T : f[y] \in Nat
      BY <2>3
    <3>2. \A y \in V : g[y] \in Nat
      BY <2>3
    <3> HIDE DEF V
    <3> QED
      BY <2>4, <3>1, <3>2, SumType
  <2>7. SumOf(g, U) = g[x] + SumOf(g, V)
    <3>1. \A y \in U : g[y] \in Nat
      BY <2>3
    <3> HIDE DEF x
    <3> QED
      BY <2>3, <2>4, <3>1, SumRemove
  <2>8. CASE x \in T
    <3>1. SumOf(f, U \cap T) = f[x] + SumOf(f, (U \cap T) \ {x})
      <4>1. \A y \in U \cap T : f[y] \in Nat
        BY <2>3
      <4>2. x \in U \cap T
        BY <2>3, <2>8
      <4> HIDE DEF x
      <4> QED
        BY <2>4, <4>1, <4>2, SumRemove
    <3>2. (U \cap T) \ {x} = V \cap T
      OBVIOUS
    <3>3. f[x] \in Nat /\ g[x] \in Nat /\ f[x] <= g[x]
      BY <2>3, <2>8
    <3>4. SumOf(f, U \cap T) = f[x] + SumOf(f, V \cap T)
      BY <3>1, <3>2
    <3>5. SumOf(f, U \cap T) <= SumOf(g, U)
      <4> HIDE DEF x, V
      <4> QED
        BY <2>5, <2>6, <2>7, <3>3, <3>4
    <3> QED
      BY <2>1, <3>5
  <2>9. CASE x \notin T
    <3>1. U \cap T = V \cap T /\ g[x] \in Nat
      BY <2>3, <2>9
    <3>2. SumOf(f, U \cap T) <= SumOf(g, U)
      BY <2>5, <2>6, <2>7, <3>1
    <3> QED
      BY <2>1, <3>2
  <2> QED
    BY <2>8, <2>9
<1> QED
  BY <1>1, <1>2
==============================================================================
