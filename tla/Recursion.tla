------------------------------ MODULE Recursion ------------------------------
(***************************************************************************)
(* Functions defined by recursion, and arguments by induction, over values *)
(* that are built from lower ones.                                         *)
(*                                                                         *)
(* A recursive function is whatever solves its equation, and says nothing  *)
(* if none does.  Here an equation whose right side looks at lower values  *)
(* only is shown to have a solution.  The right side is an operator, so    *)
(* the module is instantiated once for every function it is used for; p    *)
(* stands for what the function depends on besides its argument.           *)
(***************************************************************************)
EXTENDS Integers, NaturalsInduction, WellFoundedInduction, TLAPS

CONSTANTS
    D,            \* the values
    Height,       \* of every value, above the heights of its parts
    Step(_, _, _) \* Step(p, f, c): f's value at c, given f on lower values

Ranked == Height \in [D -> Nat]

\* The right side at c looks at lower values only.
Local(p) ==
    \A f, g : \A c \in D :
        (\A d \in D : Height[d] < Height[c] => f[d] = g[d])
            => Step(p, f, c) = Step(p, g, c)

\* What `f[c \in D] == Step(p, f, c)' defines.
Defined(p) == CHOOSE f : f = [c \in D |-> Step(p, f, c)]

\* Every set of natural numbers but the empty one has a least element.
LEMMA Least ==
    ASSUME NEW S \in SUBSET Nat, S # {}
    PROVE  \E n \in S : \A m \in S : n <= m
<1> DEFINE R == OpToRel(<, Nat)
<1>1. IsWellFoundedOn(R, Nat)
  BY NatLessThanWellFounded
<1>2. \A m, n \in Nat : <<m, n>> \in R <=> m < n
  BY DEF OpToRel
<1> HIDE DEF R
<1>3. PICK n \in S : \A m \in S : ~ (<<m, n>> \in R)
  BY <1>1, WFMin
<1>4. ASSUME NEW m \in S PROVE n <= m
  <2>1. m \in Nat /\ n \in Nat /\ ~ (<<m, n>> \in R)
    BY <1>3
  <2>2. ~ (m < n)
    BY <1>2, <2>1
  <2> QED
    BY <2>1, <2>2
<1> QED
  BY <1>4

\* A counterexample that is lowest: all that is below it is fine.
THEOREM Lowest ==
    ASSUME Ranked, NEW F \in SUBSET D, F # {}
    PROVE  \E c \in F : \A d \in D : Height[d] < Height[c] => d \notin F
<1> DEFINE S == {Height[c] : c \in F}
<1>1. S \in SUBSET Nat /\ S # {}
  BY DEF Ranked
<1>2. PICK n \in S : \A m \in S : n <= m
  <2> HIDE DEF S
  <2> QED
    BY <1>1, Least
<1>3. PICK c \in F : Height[c] = n
  OBVIOUS
<1> QED
  BY <1>1, <1>2, <1>3 DEF Ranked

-----------------------------------------------------------------------------
Below(n) == {c \in D : Height[c] < n}

\* g solves the equation for values below n.
Solves(p, g, n) == g = [c \in Below(n) |-> Step(p, g, c)]

\* Two solutions agree where both are defined.
LEMMA SolutionsAgree ==
    ASSUME Ranked, NEW p, Local(p), NEW m \in Nat, NEW n \in Nat, NEW g, NEW h,
           Solves(p, g, m), Solves(p, h, n)
    PROVE  \A c \in Below(m) \cap Below(n) : g[c] = h[c]
<1> DEFINE F == {c \in Below(m) \cap Below(n) : g[c] # h[c]}
<1> SUFFICES ASSUME F # {} PROVE FALSE
  OBVIOUS
<1>0. F \in SUBSET D
  BY DEF Below
<1>1. PICK c \in F : \A d \in D : Height[d] < Height[c] => d \notin F
  <2> HIDE DEF F
  <2> QED
    BY <1>0, Lowest
<1>2. \A d \in D : Height[d] < Height[c] => g[d] = h[d]
  BY <1>1 DEF Below, Ranked
<1>3. c \in D /\ c \in Below(m) /\ c \in Below(n)
  BY DEF Below
<1>4. Step(p, g, c) = Step(p, h, c)
  BY <1>2, <1>3 DEF Local
<1>5. g[c] = Step(p, g, c) /\ h[c] = Step(p, h, c)
  BY <1>3 DEF Solves
<1> QED
  BY <1>4, <1>5

\* A solution reaches one step further than it was found for.
LEMMA OneFurther ==
    ASSUME Ranked, NEW p, Local(p), NEW n \in Nat, NEW g, Solves(p, g, n)
    PROVE  \E h : Solves(p, h, n + 1)
<1> DEFINE h == [c \in Below(n + 1) |-> Step(p, g, c)]
<1>1. \A d \in D : Height[d] < n => h[d] = g[d]
  BY DEF Below, Solves, Ranked
<1>2. ASSUME NEW c \in Below(n + 1) PROVE Step(p, g, c) = Step(p, h, c)
  <2>1. c \in D /\ \A d \in D : Height[d] < Height[c] => h[d] = g[d]
    BY <1>1 DEF Below, Ranked
  <2> HIDE DEF h
  <2> QED
    BY <2>1 DEF Local
<1>3. h = [c \in Below(n + 1) |-> Step(p, h, c)]
  BY <1>2
<1> QED
  BY <1>3 DEF Solves

\* There are solutions up to any height.
LEMMA SolutionsExist ==
    ASSUME Ranked, NEW p, Local(p), NEW n \in Nat
    PROVE  \E g : Solves(p, g, n)
<1> DEFINE S == {k \in Nat : ~ \E g : Solves(p, g, k)}
<1> SUFFICES ASSUME S # {} PROVE FALSE
  OBVIOUS
<1>1. PICK k \in S : \A m \in S : k <= m
  <2>1. S \in SUBSET Nat
    OBVIOUS
  <2> HIDE DEF S
  <2> QED
    BY <2>1, Least
<1>2. k # 0
  <2>1. Below(0) = {}
    BY DEF Below, Ranked
  <2>2. Solves(p, [c \in {} |-> 0], 0)
    BY <2>1 DEF Solves
  <2> QED
    BY <2>2
<1>3. PICK g : Solves(p, g, k - 1)
  BY <1>1, <1>2
<1>4. \E h : Solves(p, h, (k - 1) + 1)
  BY <1>2, <1>3, OneFurther
<1> QED
  BY <1>4

\* The solution below height n.
Solution(p, n) == CHOOSE g : Solves(p, g, n)

\* The recursive function exists, and is a solution of its equation.
THEOREM RecursionSolved ==
    ASSUME Ranked, NEW p, Local(p)
    PROVE  Defined(p) = [c \in D |-> Step(p, Defined(p), c)]
<1> DEFINE g(n) == Solution(p, n)
           f == [c \in D |-> g(Height[c] + 1)[c]]
<1>1. \A n \in Nat : Solves(p, g(n), n)
  BY SolutionsExist DEF Solution
<1>2. \A c \in D : Height[c] \in Nat
  BY DEF Ranked
<1>3. ASSUME NEW c \in D PROVE f[c] = Step(p, f, c)
  <2>1. g(Height[c] + 1)[c] = Step(p, g(Height[c] + 1), c)
    <3>1. Solves(p, g(Height[c] + 1), Height[c] + 1) /\ c \in Below(Height[c] + 1)
      BY <1>1, <1>2 DEF Below
    <3> HIDE DEF g
    <3> QED
      BY <3>1 DEF Solves
  <2>2. ASSUME NEW d \in D, Height[d] < Height[c]
        PROVE  g(Height[c] + 1)[d] = f[d]
    <3>1. d \in Below(Height[c] + 1) \cap Below(Height[d] + 1)
      BY <1>2, <2>2 DEF Below
    <3>2. /\ Solves(p, g(Height[c] + 1), Height[c] + 1)
          /\ Solves(p, g(Height[d] + 1), Height[d] + 1)
          /\ Height[c] + 1 \in Nat /\ Height[d] + 1 \in Nat
      BY <1>1, <1>2
    <3> HIDE DEF g
    <3>3. g(Height[c] + 1)[d] = g(Height[d] + 1)[d]
      BY <3>1, <3>2, SolutionsAgree
    <3> QED
      BY <3>3
  <2> HIDE DEF f, g
  <2>3. Step(p, g(Height[c] + 1), c) = Step(p, f, c)
    BY <2>2 DEF Local
  <2> QED
    BY <2>1, <2>3 DEF f
<1>4. f = [c \in D |-> Step(p, f, c)]
  <2>1. f = [c \in D |-> f[c]]
    OBVIOUS
  <2> HIDE DEF f
  <2> QED
    BY <1>3, <2>1
<1> HIDE DEF f
<1> QED
  BY <1>4 DEF Defined
==============================================================================
