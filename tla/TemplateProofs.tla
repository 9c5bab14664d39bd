--------------------------- MODULE TemplateProofs ---------------------------
(***************************************************************************)
(* Theorems about Template for every text, of any length and in any        *)
(* characters, every environment and every value a user sets.              *)
(*                                                                         *)
(* The loop of expand_with is compared with the reference definition,      *)
(* which is recursive over texts; it exists by Recursion, and what it does *)
(* to a text is proved from a shortest text for which it does not.         *)
(***************************************************************************)
EXTENDS Template, SequenceTheorems, TLAPS

Strings == Seq(Symbols)
Lengths == [t \in Strings |-> Len(t)]

\* The right side of the reference definition's equation, in environment e.
ExpansionStep(e, f, t) ==
    IF t = <<>> THEN [text |-> <<>>, unset |-> {}]
    ELSE LET rest   == From(t, 2)
             Closes == {j \in DOMAIN rest : rest[j] = "}"}
             name   == SubSeq(rest, 1, Min(Closes) - 1)
             after  == From(rest, Min(Closes) + 1)
         IN  IF t[1] # "${" \/ Closes = {}
             THEN [text |-> <<t[1]>> \o f[rest].text, unset |-> f[rest].unset]
             ELSE [text  |-> Value(name, e) \o f[after].text,
                   unset |-> f[after].unset \cup (IF IsSet(name, e) THEN {} ELSE {name})]
Rec == INSTANCE Recursion WITH D <- Strings, Height <- Lengths, Step <- ExpansionStep

-----------------------------------------------------------------------------
(***************************************************************************)
(* Ends and beginnings of texts                                            *)
(***************************************************************************)

\* What is left of a text from a place on.
LEMMA Ends ==
    ASSUME NEW s \in Strings, NEW i \in 1 .. Len(s) + 1
    PROVE  /\ From(s, i) \in Strings /\ Len(From(s, i)) = Len(s) - i + 1
           /\ \A k \in 1 .. Len(s) - i + 1 : From(s, i)[k] = s[i + k - 1]
           /\ DOMAIN From(s, i) = 1 .. Len(s) - i + 1
<1>1. Len(s) \in Nat /\ \A k \in 1 .. Len(s) : s[k] \in Symbols
  BY LenProperties, ElementOfSeq DEF Strings
<1>2. /\ SubSeq(s, i, Len(s)) \in Seq(Symbols)
      /\ Len(SubSeq(s, i, Len(s))) = IF i <= Len(s) THEN Len(s) - i + 1 ELSE 0
      /\ \A k \in 1 .. Len(s) - i + 1 : SubSeq(s, i, Len(s))[k] = s[i + k - 1]
  <2>1. i \in Int /\ Len(s) \in Int /\ \A k \in i .. Len(s) : s[k] \in Symbols
    BY <1>1
  <2> QED
    BY <2>1, SubSeqProperties
<1>3. Len(From(s, i)) = Len(s) - i + 1
  BY <1>1, <1>2 DEF From
<1> QED
  BY <1>2, <1>3, LenProperties DEF From, Strings

\* What is left after two steps is left after one.
LEMMA EndOfEnd ==
    ASSUME NEW s \in Strings, NEW i \in 1 .. Len(s) + 1, NEW j \in 1 .. Len(s) - i + 2
    PROVE  From(From(s, i), j) = From(s, i + j - 1)
<1> DEFINE r == From(s, i)
           u == From(r, j)
           v == From(s, i + j - 1)
<1>0. Len(s) \in Nat
  BY LenProperties DEF Strings
<1>1. /\ r \in Strings /\ Len(r) = Len(s) - i + 1
      /\ \A k \in 1 .. Len(s) - i + 1 : r[k] = s[i + k - 1]
  BY Ends
<1>2. j \in 1 .. Len(r) + 1 /\ i + j - 1 \in 1 .. Len(s) + 1
  BY <1>0, <1>1
<1> HIDE DEF r
<1>3. /\ u \in Strings /\ Len(u) = Len(r) - j + 1
      /\ \A k \in 1 .. Len(r) - j + 1 : u[k] = r[j + k - 1]
  BY <1>1, <1>2, Ends
<1>4. /\ v \in Strings /\ Len(v) = Len(s) - (i + j - 1) + 1
      /\ \A k \in 1 .. Len(s) - (i + j - 1) + 1 : v[k] = s[(i + j - 1) + k - 1]
  BY <1>2, Ends
<1> HIDE DEF u, v
<1>5. Len(u) = Len(v)
  BY <1>0, <1>1, <1>3, <1>4
<1>6. ASSUME NEW k \in 1 .. Len(u) PROVE u[k] = v[k]
  <2>1. /\ k \in 1 .. Len(r) - j + 1 /\ j + k - 1 \in 1 .. Len(s) - i + 1
        /\ k \in 1 .. Len(s) - (i + j - 1) + 1
        /\ i + (j + k - 1) - 1 = (i + j - 1) + k - 1
    BY <1>0, <1>1, <1>3
  <2> QED
    BY <1>1, <1>3, <1>4, <2>1
<1>7. u = v
  BY <1>3, <1>4, <1>5, <1>6, SeqEqual DEF Strings
<1> QED
  BY <1>7 DEF u, v, r

\* The whole, and nothing.
LEMMA EndsOfAll ==
    ASSUME NEW s \in Strings
    PROVE  From(s, 1) = s /\ From(s, Len(s) + 1) = <<>> /\ Len(s) \in Nat
<1>1. Len(s) \in Nat
  BY LenProperties DEF Strings
<1>2. From(s, 1) = s
  BY SubSeqFull DEF From, Strings
<1>3. From(s, Len(s) + 1) = <<>>
  BY <1>1, SubSeqEmpty DEF From
<1> QED
  BY <1>1, <1>2, <1>3

\* What precedes a place.
LEMMA Beginnings ==
    ASSUME NEW s \in Strings, NEW n \in 0 .. Len(s)
    PROVE  SubSeq(s, 1, n) \in Strings
<1>1. Len(s) \in Nat /\ \A k \in 1 .. n : s[k] \in Symbols
  BY LenProperties, ElementOfSeq DEF Strings
<1> QED
  BY <1>1, SubSeqProperties DEF Strings

\* `find' finds a place where the symbol is, the first one.
LEMMA FirstPlace ==
    ASSUME NEW s \in Strings, NEW symbol, Found(symbol, s)
    PROVE  /\ find(symbol, s) \in 1 .. Len(s) /\ s[find(symbol, s)] = symbol
           /\ \A i \in 1 .. Len(s) : i < find(symbol, s) => s[i] # symbol
<1> DEFINE S == Occurs(symbol, s)
<1>1. /\ DOMAIN s = 1 .. Len(s) /\ Len(s) \in Nat
  BY LenProperties DEF Strings
<1>2. S \in SUBSET Nat /\ S # {} /\ S \subseteq 1 .. Len(s)
  BY <1>1 DEF Occurs, Found
<1>3. \E n \in S : \A m \in S : n <= m
  <2> HIDE DEF S
  <2> QED
    BY <1>2, Rec!Least
<1>4. Min(S) \in S /\ \A m \in S : Min(S) <= m
  <2> HIDE DEF S
  <2> QED
    BY <1>3 DEF Min
<1>5. find(symbol, s) \in S /\ \A m \in S : find(symbol, s) <= m
  BY <1>4 DEF find
<1>6. find(symbol, s) \in 1 .. Len(s) /\ s[find(symbol, s)] = symbol
  BY <1>1, <1>5 DEF Occurs
<1>7. \A i \in 1 .. Len(s) : i < find(symbol, s) => s[i] # symbol
  BY <1>1, <1>5, <1>6 DEF Occurs
<1> QED
  BY <1>6, <1>7

-----------------------------------------------------------------------------
(***************************************************************************)
(* The reference definition                                                *)
(***************************************************************************)

\* What follows the reference that t begins with, the name in it,
\* and whether it is unset.
After(t) == From(From(t, 2), find("}", From(t, 2)) + 1)
Name(t)  == SubSeq(From(t, 2), 1, find("}", From(t, 2)) - 1)
Missed(t, e) == IF IsSet(Name(t), e) THEN {} ELSE {Name(t)}

\* What follows the first symbol is a shorter text, and so is what follows a
\* closing symbol in that.
LEMMA Shorter ==
    ASSUME NEW t \in Strings, t # <<>>
    PROVE  /\ From(t, 2) \in Strings /\ Lengths[From(t, 2)] < Lengths[t]
           /\ Found("}", From(t, 2)) =>
                Name(t) \in Strings /\ After(t) \in Strings /\ Lengths[After(t)] < Lengths[t]
<1> DEFINE r == From(t, 2)
           j == find("}", r)
<1>1. Len(t) \in Nat \ {0}
  BY EmptySeq DEF Strings
<1>2. r \in Strings /\ Len(r) = Len(t) - 1
  <2>1. 2 \in 1 .. Len(t) + 1
    BY <1>1
  <2> QED
    BY <1>1, <2>1, Ends
<1> HIDE DEF r
<1>3. Lengths[r] < Lengths[t]
  BY <1>1, <1>2 DEF Lengths
<1>4. ASSUME Found("}", r)
      PROVE  /\ SubSeq(r, 1, j - 1) \in Strings /\ From(r, j + 1) \in Strings
             /\ Lengths[From(r, j + 1)] < Lengths[t]
  <2>1. j \in 1 .. Len(r)
    BY <1>2, <1>4, FirstPlace
  <2> HIDE DEF j
  <2>2. Len(r) \in Nat
    BY <1>1, <1>2
  <2>3. j - 1 \in 0 .. Len(r) /\ j + 1 \in 1 .. Len(r) + 1
    BY <2>1, <2>2
  <2>4. SubSeq(r, 1, j - 1) \in Strings
    BY <1>2, <2>3, Beginnings
  <2>5. From(r, j + 1) \in Strings /\ Len(From(r, j + 1)) = Len(r) - (j + 1) + 1
    BY <1>2, <2>3, Ends
  <2>6. Lengths[From(r, j + 1)] < Lengths[t]
    BY <1>1, <1>2, <2>1, <2>2, <2>5 DEF Lengths
  <2> QED
    BY <2>4, <2>5, <2>6
<1> QED
  BY <1>2, <1>3, <1>4 DEF Name, After, r, j

\* The right side, with the helpers of the loop: at the end,
LEMMA StepEnds ==
    ASSUME NEW e, NEW f
    PROVE  ExpansionStep(e, f, <<>>) = [text |-> <<>>, unset |-> {}]
BY DEF ExpansionStep

\* at a symbol that is copied,
LEMMA StepCopies ==
    ASSUME NEW e, NEW f, NEW t \in Strings, t # <<>>,
           t[1] # "${" \/ ~Found("}", From(t, 2))
    PROVE  ExpansionStep(e, f, t) = [text  |-> <<t[1]>> \o f[From(t, 2)].text,
                                     unset |-> f[From(t, 2)].unset]
<1> DEFINE r == From(t, 2)
           Closes == {j \in DOMAIN r : r[j] = "}"}
<1>1. Closes = {} <=> ~Found("}", r)
  BY DEF Occurs, Found
<1> QED
  BY <1>1 DEF ExpansionStep

\* and at a reference.
LEMMA StepExpands ==
    ASSUME NEW e, NEW f, NEW t \in Strings, t # <<>>, t[1] = "${", Found("}", From(t, 2))
    PROVE  ExpansionStep(e, f, t) =
             [text  |-> Value(Name(t), e) \o f[After(t)].text,
              unset |-> f[After(t)].unset \cup Missed(t, e)]
<1> DEFINE r == From(t, 2)
           Closes == {j \in DOMAIN r : r[j] = "}"}
<1>1. Closes # {} /\ Min(Closes) = find("}", r)
  BY DEF Occurs, Found, find
<1>2. /\ Name(t) = SubSeq(r, 1, Min(Closes) - 1)
      /\ After(t) = From(r, Min(Closes) + 1)
  BY <1>1 DEF Name, After
<1> QED
  BY <1>1, <1>2 DEF ExpansionStep, Missed

\* It looks at shorter texts only, so the reference definition defines.
LEMMA ExpansionSolved ==
    ASSUME NEW e
    PROVE  \E f : /\ f = [t \in Strings |-> ExpansionStep(e, f, t)]
                  /\ \A s : Expansion(s, e) = f[s]
<1>1. Rec!Ranked
  BY LenProperties DEF Rec!Ranked, Lengths, Strings
<1>2. Rec!Local(e)
  <2> SUFFICES ASSUME NEW f, NEW g, NEW t \in Strings,
                      \A d \in Strings : Lengths[d] < Lengths[t] => f[d] = g[d]
               PROVE  ExpansionStep(e, f, t) = ExpansionStep(e, g, t)
    BY DEF Rec!Local
  <2>1. t # <<>> => f[From(t, 2)] = g[From(t, 2)]
    BY Shorter
  <2>2. t # <<>> /\ Found("}", From(t, 2)) => f[After(t)] = g[After(t)]
    BY Shorter
  <2>3. CASE t = <<>>
    BY <2>3, StepEnds
  <2>4. CASE t # <<>> /\ (t[1] # "${" \/ ~Found("}", From(t, 2)))
    <3>1. ExpansionStep(e, f, t) = [text  |-> <<t[1]>> \o f[From(t, 2)].text,
                                    unset |-> f[From(t, 2)].unset]
      BY <2>4, StepCopies
    <3>2. ExpansionStep(e, g, t) = [text  |-> <<t[1]>> \o g[From(t, 2)].text,
                                    unset |-> g[From(t, 2)].unset]
      BY <2>4, StepCopies
    <3> QED
      BY <2>1, <2>4, <3>1, <3>2
  <2>5. CASE t # <<>> /\ t[1] = "${" /\ Found("}", From(t, 2))
    <3>1. ExpansionStep(e, f, t) = [text  |-> Value(Name(t), e) \o f[After(t)].text,
                                    unset |-> f[After(t)].unset \cup Missed(t, e)]
      BY <2>5, StepExpands
    <3>2. ExpansionStep(e, g, t) = [text  |-> Value(Name(t), e) \o g[After(t)].text,
                                    unset |-> g[After(t)].unset \cup Missed(t, e)]
      BY <2>5, StepExpands
    <3> QED
      BY <2>2, <2>5, <3>1, <3>2
  <2> QED
    BY <2>3, <2>4, <2>5
<1> DEFINE f == Rec!Defined(e)
<1>3. f = [t \in Strings |-> ExpansionStep(e, f, t)]
  BY <1>1, <1>2, Rec!RecursionSolved
<1>4. \A s : Expansion(s, e) = f[s]
  BY DEF Expansion, Rec!Defined, ExpansionStep, Strings
<1> QED
  BY <1>3, <1>4

\* The expansion of a text by cases of its first symbol.
LEMMA Expanded ==
    ASSUME NEW e, NEW t \in Strings
    PROVE  /\ t = <<>> => Expansion(t, e).text = <<>> /\ Expansion(t, e).unset = {}
           /\ t # <<>> /\ (t[1] # "${" \/ ~Found("}", From(t, 2))) =>
                /\ Expansion(t, e).text = <<t[1]>> \o Expansion(From(t, 2), e).text
                /\ Expansion(t, e).unset = Expansion(From(t, 2), e).unset
           /\ t # <<>> /\ t[1] = "${" /\ Found("}", From(t, 2)) =>
                /\ Expansion(t, e).text = Value(Name(t), e) \o Expansion(After(t), e).text
                /\ Expansion(t, e).unset = Expansion(After(t), e).unset \cup
                                             Missed(t, e)
<1>1. PICK f : /\ f = [s \in Strings |-> ExpansionStep(e, f, s)]
               /\ \A s : Expansion(s, e) = f[s]
  BY ExpansionSolved
<1>2. Expansion(t, e) = ExpansionStep(e, f, t)
  BY <1>1
<1>3. CASE t = <<>>
  BY <1>2, <1>3, StepEnds
<1>4. CASE t # <<>> /\ (t[1] # "${" \/ ~Found("}", From(t, 2)))
  <2>1. ExpansionStep(e, f, t) = [text  |-> <<t[1]>> \o f[From(t, 2)].text,
                                  unset |-> f[From(t, 2)].unset]
    BY <1>4, StepCopies
  <2>2. Expansion(From(t, 2), e) = f[From(t, 2)]
    BY <1>1
  <2>3. /\ Expansion(t, e).text = <<t[1]>> \o Expansion(From(t, 2), e).text
        /\ Expansion(t, e).unset = Expansion(From(t, 2), e).unset
    BY <1>2, <2>1, <2>2
  <2> QED
    BY <1>4, <2>3
<1>5. CASE t # <<>> /\ t[1] = "${" /\ Found("}", From(t, 2))
  <2>1. ExpansionStep(e, f, t) = [text  |-> Value(Name(t), e) \o f[After(t)].text,
                                  unset |-> f[After(t)].unset \cup Missed(t, e)]
    BY <1>5, StepExpands
  <2>2. Expansion(After(t), e) = f[After(t)]
    BY <1>1
  <2>3. /\ Expansion(t, e).text = Value(Name(t), e) \o Expansion(After(t), e).text
        /\ Expansion(t, e).unset = Expansion(After(t), e).unset \cup Missed(t, e)
    BY <1>2, <2>1, <2>2
  <2> QED
    BY <1>5, <2>3
<1> QED
  BY <1>3, <1>4, <1>5

\* Every variable has a text for a value.
EnvTyped(e) == \A name \in DOMAIN e : e[name] \in Strings

\* A symbol is a text, and the first of a text is one.
LEMMA FirstSymbol ==
    ASSUME NEW t \in Strings, t # <<>>
    PROVE  Len(t) > 0 /\ t[1] \in Symbols /\ <<t[1]>> \in Strings
<1>1. Len(t) \in Nat \ {0}
  BY EmptySeq DEF Strings
<1>2. 1 \in 1 .. Len(t)
  BY <1>1
<1>3. t[1] \in Symbols
  BY <1>2, ElementOfSeq DEF Strings
<1>4. <<t[1]>> \in Seq(Symbols)
  BY <1>3
<1> QED
  BY <1>1, <1>3, <1>4 DEF Strings

\* A shortest text in a set of texts.
LEMMA Shortest ==
    ASSUME NEW W \in SUBSET Strings, W # {}
    PROVE  \E t \in W : \A d \in Strings : Lengths[d] < Lengths[t] => d \notin W
<1>1. Rec!Ranked
  BY LenProperties DEF Rec!Ranked, Lengths, Strings
<1> QED
  BY <1>1, Rec!Lowest

\* A text expands to a text.
LEMMA ExpandsToText ==
    ASSUME NEW e, EnvTyped(e), NEW s \in Strings
    PROVE  Expansion(s, e).text \in Strings
<1> DEFINE Wrong == {t \in Strings : Expansion(t, e).text \notin Strings}
<1> SUFFICES ASSUME Wrong # {} PROVE FALSE
  OBVIOUS
<1>1. PICK t \in Wrong : \A d \in Strings : Lengths[d] < Lengths[t] => d \notin Wrong
  <2> HIDE DEF Wrong
  <2>1. Wrong \in SUBSET Strings
    BY DEF Wrong
  <2> QED
    BY <2>1, Shortest
<1>2. t \in Strings /\ Expansion(t, e).text \notin Strings
  OBVIOUS
<1>3. \A d \in Strings : Lengths[d] < Lengths[t] => Expansion(d, e).text \in Strings
  BY <1>1
<1> HIDE DEF Wrong
<1>4. CASE t = <<>>
  BY <1>2, <1>4, Expanded, EmptySeq DEF Strings
<1>5. CASE t # <<>> /\ (t[1] # "${" \/ ~Found("}", From(t, 2)))
  <2>1. Expansion(From(t, 2), e).text \in Strings
    BY <1>2, <1>3, <1>5, Shorter
  <2>2. <<t[1]>> \in Strings
    BY <1>2, <1>5, FirstSymbol
  <2>3. Expansion(t, e).text = <<t[1]>> \o Expansion(From(t, 2), e).text
    BY <1>2, <1>5, Expanded
  <2> QED
    BY <1>2, <2>1, <2>2, <2>3, ConcatProperties DEF Strings
<1>6. CASE t # <<>> /\ t[1] = "${" /\ Found("}", From(t, 2))
  <2>1. Expansion(After(t), e).text \in Strings
    BY <1>2, <1>3, <1>6, Shorter
  <2>2. Value(Name(t), e) \in Strings
    BY EmptySeq DEF Value, IsSet, EnvTyped, Strings
  <2>3. Expansion(t, e).text = Value(Name(t), e) \o Expansion(After(t), e).text
    BY <1>2, <1>6, Expanded
  <2> QED
    BY <1>2, <2>1, <2>2, <2>3, ConcatProperties DEF Strings
<1> QED
  BY <1>4, <1>5, <1>6

\* What is reported unset in an environment is unset in it, and to set more
\* variables leaves no others unset.
LEMMA UnsetShrinks ==
    ASSUME NEW e, NEW d, DOMAIN e \subseteq DOMAIN d, NEW s \in Strings
    PROVE  Expansion(s, d).unset \subseteq Expansion(s, e).unset \ DOMAIN d
<1> DEFINE Fine(t) == Expansion(t, d).unset \subseteq Expansion(t, e).unset \ DOMAIN d
           Wrong   == {t \in Strings : ~Fine(t)}
<1> SUFFICES ASSUME Wrong # {} PROVE FALSE
  OBVIOUS
<1>1. PICK t \in Wrong : \A u \in Strings : Lengths[u] < Lengths[t] => u \notin Wrong
  <2> HIDE DEF Wrong
  <2>1. Wrong \in SUBSET Strings
    BY DEF Wrong
  <2> QED
    BY <2>1, Shortest
<1>2. t \in Strings /\ ~Fine(t)
  OBVIOUS
<1>3. \A u \in Strings : Lengths[u] < Lengths[t] => Fine(u)
  BY <1>1
<1> HIDE DEF Wrong
<1>4. CASE t = <<>>
  <2>1. Expansion(t, d).unset = {}
    BY <1>2, <1>4, Expanded
  <2> QED
    BY <1>2, <2>1
<1>5. CASE t # <<>> /\ (t[1] # "${" \/ ~Found("}", From(t, 2)))
  <2>1. Fine(From(t, 2))
    BY <1>2, <1>3, <1>5, Shorter
  <2>2. Expansion(t, d).unset = Expansion(From(t, 2), d).unset
    BY <1>2, <1>5, Expanded
  <2>3. Expansion(t, e).unset = Expansion(From(t, 2), e).unset
    BY <1>2, <1>5, Expanded
  <2> QED
    BY <1>2, <2>1, <2>2, <2>3
<1>6. CASE t # <<>> /\ t[1] = "${" /\ Found("}", From(t, 2))
  <2>1. Fine(After(t))
    BY <1>2, <1>3, <1>6, Shorter
  <2>2. Expansion(t, d).unset = Expansion(After(t), d).unset \cup Missed(t, d)
    BY <1>2, <1>6, Expanded
  <2>3. Expansion(t, e).unset = Expansion(After(t), e).unset \cup Missed(t, e)
    BY <1>2, <1>6, Expanded
  <2>4. Missed(t, d) \subseteq Missed(t, e) \ DOMAIN d
    BY DEF Missed, IsSet
  <2> QED
    BY <1>2, <2>1, <2>2, <2>3, <2>4
<1> QED
  BY <1>4, <1>5, <1>6

\* Places in what is left of a text of length l after the first m symbols,
LEMMA PlaceAfter ==
    ASSUME NEW l \in Nat, NEW m \in 1 .. l, NEW k \in 1 .. l - (m + 1) + 1
    PROVE  (m + 1) + k - 1 \in m + 1 .. l
OBVIOUS

\* and back.
LEMMA PlaceBefore ==
    ASSUME NEW l \in Nat, NEW m \in 1 .. l, NEW j \in m + 1 .. l
    PROVE  j - m \in 1 .. l - (m + 1) + 1 /\ (m + 1) + (j - m) - 1 = j
OBVIOUS

\* A place after i is after every k that i is not before.
LEMMA PlaceLater ==
    ASSUME NEW l \in Nat, NEW k \in 1 .. l, NEW i \in 1 .. l, ~ (i < k), NEW j \in i + 1 .. l
    PROVE  j \in k + 1 .. l
OBVIOUS

\* Places around place k of a text of length l.
LEMMA PlacesAround ==
    ASSUME NEW l \in Nat, NEW k \in 1 .. l
    PROVE  /\ k \in 1 .. l + 1 /\ k + 1 \in 1 .. l + 1 /\ k - 1 \in 0 .. l
           /\ 1 \in 1 .. l - k + 1 /\ 2 \in 1 .. l - k + 2 /\ l - k + 1 # 0
           /\ k + 1 - 1 = k /\ k + 2 - 1 = k + 1 /\ (k - 1) + 1 = k
           /\ 1 .. k - 1 = {i \in 1 .. l : i < k}
OBVIOUS

\* The first n symbols of s are copied when none of them opens a reference
\* that is closed later.
CopiedUpTo(s, n) ==
    \A i \in 1 .. n : s[i] # "${" \/ \A j \in i + 1 .. Len(s) : s[j] # "}"

LEMMA Copied ==
    ASSUME NEW e, EnvTyped(e), NEW s \in Strings, NEW n \in 0 .. Len(s), CopiedUpTo(s, n)
    PROVE  /\ Expansion(s, e).text = SubSeq(s, 1, n) \o Expansion(From(s, n + 1), e).text
           /\ Expansion(s, e).unset = Expansion(From(s, n + 1), e).unset
<1> DEFINE Fine(m) ==
             /\ Expansion(s, e).text = SubSeq(s, 1, m) \o Expansion(From(s, m + 1), e).text
             /\ Expansion(s, e).unset = Expansion(From(s, m + 1), e).unset
           Wrong == {m \in 0 .. n : ~Fine(m)}
<1>0. Len(s) \in Nat /\ n \in Nat
  BY EndsOfAll
<1> SUFFICES ASSUME Wrong # {} PROVE FALSE
  <2>1. n \in 0 .. n
    BY <1>0
  <2>2. Wrong = {} => Fine(n)
    <3> HIDE DEF Fine
    <3> QED
      BY <2>1
  <2> QED
    BY <2>2
<1>1. PICK m \in Wrong : \A k \in Wrong : m <= k
  <2>1. Wrong \in SUBSET Nat
    BY <1>0
  <2> HIDE DEF Wrong
  <2> QED
    BY <2>1, Rec!Least
<1>2. m \in 0 .. n /\ ~Fine(m)
  OBVIOUS
<1>3. m > 0 => Fine(m - 1)
  <2> HIDE DEF Fine
  <2>1. m > 0 => m - 1 \in 0 .. n /\ ~ (m <= m - 1)
    BY <1>0, <1>2
  <2> QED
    BY <1>1, <2>1
<1> HIDE DEF Wrong
<1>4. CASE m = 0
  <2>1. SubSeq(s, 1, 0) = <<>> /\ From(s, 1) = s
    BY SubSeqEmpty, EndsOfAll
  <2>2. <<>> \o Expansion(s, e).text = Expansion(s, e).text
    BY ExpandsToText, ConcatEmptySeq DEF Strings
  <2>3. 0 + 1 = 1
    OBVIOUS
  <2>4. Fine(0)
    BY <2>1, <2>2, <2>3
  <2> QED
    BY <1>2, <1>4, <2>4
<1>5. CASE m > 0
  <2> DEFINE t == From(s, m)
  <2>0. m \in 1 .. n
    <3> HIDE DEF Fine
    <3> QED
      BY <1>0, <1>2, <1>5
  <2>1. m \in 1 .. Len(s) /\ m \in 1 .. Len(s) + 1 /\ m + 1 \in 1 .. Len(s) + 1 /\ 2 \in 1 .. Len(s) - m + 2
    BY <1>0, <1>2, <1>5
  <2>2. /\ t \in Strings /\ Len(t) = Len(s) - m + 1
        /\ \A k \in 1 .. Len(s) - m + 1 : t[k] = s[m + k - 1]
    BY <2>1, Ends
  <2>3. From(t, 2) = From(s, m + 1)
    <3>1. From(t, 2) = From(s, m + 2 - 1)
      BY <2>1, EndOfEnd
    <3>2. m + 2 - 1 = m + 1
      BY <2>1
    <3> QED
      BY <3>1, <3>2
  <2>4. /\ From(s, m + 1) \in Strings
        /\ DOMAIN From(s, m + 1) = 1 .. Len(s) - (m + 1) + 1
        /\ \A k \in 1 .. Len(s) - (m + 1) + 1 : From(s, m + 1)[k] = s[(m + 1) + k - 1]
    BY <2>1, Ends
  <2> HIDE DEF t
  <2>5. t # <<>> /\ t[1] = s[m]
    <3>1. Len(t) > 0 /\ 1 \in 1 .. Len(s) - m + 1 /\ m + 1 - 1 = m
      BY <1>0, <2>1, <2>2
    <3> QED
      BY <2>2, <3>1, EmptySeq
  <2>6. t[1] # "${" \/ ~Found("}", From(t, 2))
    <3> SUFFICES ASSUME s[m] = "${", NEW k \in DOMAIN From(s, m + 1), From(s, m + 1)[k] = "}"
                 PROVE  FALSE
      BY <2>3, <2>5 DEF Found, Occurs
    <3>0. k \in 1 .. Len(s) - (m + 1) + 1 /\ s[(m + 1) + k - 1] = "}"
      BY <2>4
    <3> DEFINE l == Len(s)
    <3>1. l \in Nat /\ m \in 1 .. l /\ k \in 1 .. l - (m + 1) + 1
      BY <1>0, <2>1, <3>0
    <3> HIDE DEF l
    <3>2. (m + 1) + k - 1 \in m + 1 .. l
      BY <3>1, PlaceAfter
    <3>3. \A j \in m + 1 .. Len(s) : s[j] # "}"
      BY <2>0 DEF CopiedUpTo
    <3> QED
      BY <3>0, <3>2, <3>3 DEF l
  <2>7. /\ Expansion(t, e).text = <<s[m]>> \o Expansion(From(s, m + 1), e).text
        /\ Expansion(t, e).unset = Expansion(From(s, m + 1), e).unset
    BY <2>2, <2>3, <2>5, <2>6, Expanded
  <2>8. /\ Expansion(s, e).text = SubSeq(s, 1, m - 1) \o Expansion(t, e).text
        /\ Expansion(s, e).unset = Expansion(t, e).unset
    <3>1. (m - 1) + 1 = m
      BY <2>1
    <3> QED
      BY <1>3, <1>5, <3>1 DEF t
  <2>9. SubSeq(s, 1, m) = SubSeq(s, 1, m - 1) \o <<s[m]>>
    <3>1. 1 \in 1 .. Len(s) /\ m \in 1 .. Len(s)
      BY <1>0, <2>1
    <3> QED
      BY <3>1, SubSeqRecursiveSecond DEF Strings
  <2>10. /\ SubSeq(s, 1, m - 1) \in Strings /\ <<s[m]>> \in Strings
         /\ Expansion(From(s, m + 1), e).text \in Strings
    <3>1. m - 1 \in 0 .. Len(s)
      BY <1>0, <2>1
    <3>2. s[m] \in Symbols
      BY <2>1, ElementOfSeq DEF Strings
    <3>3. <<s[m]>> \in Strings
      BY <3>2 DEF Strings
    <3> QED
      BY <2>4, <3>1, <3>3, Beginnings, ExpandsToText
  <2>11. Expansion(s, e).text = SubSeq(s, 1, m) \o Expansion(From(s, m + 1), e).text
    <3> DEFINE a == SubSeq(s, 1, m - 1)
               b == <<s[m]>>
               c == Expansion(From(s, m + 1), e).text
    <3>1. a \in Seq(Symbols) /\ b \in Seq(Symbols) /\ c \in Seq(Symbols)
      BY <2>10 DEF Strings
    <3>2. Expansion(s, e).text = a \o (b \o c)
      BY <2>7, <2>8
    <3>3. SubSeq(s, 1, m) = a \o b
      BY <2>9
    <3> HIDE DEF a, b, c
    <3>4. (a \o b) \o c = a \o (b \o c)
      BY <3>1, ConcatAssociative
    <3> QED
      BY <3>2, <3>3, <3>4 DEF c
  <2> QED
    BY <1>2, <2>7, <2>8, <2>11
<1> QED
  BY <1>0, <1>2, <1>4, <1>5

-----------------------------------------------------------------------------
(***************************************************************************)
(* The loop                                                                *)
(***************************************************************************)

\* At the first reference that is closed, or with none, the reference
\* definition copies what precedes it.
LEMMA FirstReference ==
    ASSUME NEW e, EnvTyped(e), NEW s \in Strings, Found("${", s)
    PROVE  LET k == find("${", s) IN
           /\ k \in 1 .. Len(s) /\ s[k] = "${" /\ AfterStart(s) = From(From(s, k), 2)
           /\ From(s, k) \in Strings /\ From(s, k) # <<>> /\ From(s, k)[1] = "${"
           /\ SubSeq(s, 1, k - 1) \in Strings
           /\ Expansion(s, e).text = SubSeq(s, 1, k - 1) \o Expansion(From(s, k), e).text
           /\ Expansion(s, e).unset = Expansion(From(s, k), e).unset
<1> DEFINE k == find("${", s)
           l == Len(s)
<1>1. l \in Nat
  BY EndsOfAll
<1>2. k \in 1 .. l /\ s[k] = "${" /\ \A i \in 1 .. l : i < k => s[i] # "${"
  BY FirstPlace
<1>3. AfterStart(s) = From(s, k + 1)
  BY DEF AfterStart
<1> HIDE DEF k, l
<1>4. /\ k \in 1 .. l + 1 /\ 2 \in 1 .. l - k + 2 /\ k + 2 - 1 = k + 1 /\ k - 1 \in 0 .. l
      /\ (k - 1) + 1 = k /\ 1 \in 1 .. l - k + 1 /\ k + 1 - 1 = k /\ l - k + 1 # 0
      /\ 1 .. k - 1 = {i \in 1 .. l : i < k}
  BY <1>1, <1>2, PlacesAround
<1>5. From(s, k + 1) = From(From(s, k), 2)
  BY <1>4, EndOfEnd DEF l
<1>6. /\ From(s, k) \in Strings /\ Len(From(s, k)) = l - k + 1 /\ From(s, k)[1] = s[k]
  BY <1>4, Ends DEF l
<1>7. From(s, k) # <<>>
  <2> DEFINE t == From(s, k)
  <2>0. Len(t) = l - k + 1
    BY <1>6
  <2> HIDE DEF t
  <2>1. Len(t) # 0
    BY <1>4, <2>0
  <2>2. Len(<<>>) = 0
    BY EmptySeq
  <2>3. t # <<>>
    BY <2>1, <2>2
  <2> QED
    BY <2>3 DEF t
<1>8. CopiedUpTo(s, k - 1)
  <2> SUFFICES ASSUME NEW i \in 1 .. k - 1 PROVE s[i] # "${"
    BY DEF CopiedUpTo
  <2>1. i \in 1 .. l /\ i < k
    BY <1>4
  <2> QED
    BY <1>2, <2>1
<1>9. /\ Expansion(s, e).text = SubSeq(s, 1, k - 1) \o Expansion(From(s, k), e).text
      /\ Expansion(s, e).unset = Expansion(From(s, k), e).unset
  <2> DEFINE n == k - 1
  <2>1. n \in 0 .. Len(s) /\ n + 1 = k /\ CopiedUpTo(s, n)
    BY <1>4, <1>8 DEF l
  <2> HIDE DEF n
  <2>2. /\ Expansion(s, e).text = SubSeq(s, 1, n) \o Expansion(From(s, n + 1), e).text
        /\ Expansion(s, e).unset = Expansion(From(s, n + 1), e).unset
    BY <2>1, Copied
  <2>3. /\ Expansion(s, e).text = SubSeq(s, 1, n) \o Expansion(From(s, k), e).text
        /\ Expansion(s, e).unset = Expansion(From(s, k), e).unset
    BY <2>1, <2>2
  <2> QED
    BY <2>3 DEF n
<1>10. SubSeq(s, 1, k - 1) \in Strings
  BY <1>4, Beginnings DEF l
<1> QED
  BY <1>2, <1>3, <1>5, <1>6, <1>7, <1>9, <1>10 DEF k, l

\* Nothing expands to nothing.
LEMMA NothingLeft ==
    ASSUME NEW e
    PROVE  Expansion(<<>>, e).text = <<>> /\ Expansion(<<>>, e).unset = {}
<1>1. <<>> \in Strings
  BY EmptySeq DEF Strings
<1> QED
  BY <1>1, Expanded

\* A text without a closed reference is its own expansion.
LEMMA NothingToExpand ==
    ASSUME NEW e, EnvTyped(e), NEW s \in Strings, ~Closed(s)
    PROVE  Expansion(s, e).text = s /\ Expansion(s, e).unset = {}
<1> DEFINE k == find("${", s)
           l == Len(s)
<1>1. l \in Nat /\ l \in 0 .. l /\ DOMAIN s = 1 .. l
  BY EndsOfAll, LenProperties DEF Strings
<1>2. CopiedUpTo(s, l)
  <2> SUFFICES ASSUME NEW i \in 1 .. l, s[i] = "${", NEW j \in i + 1 .. l, s[j] = "}"
               PROVE  FALSE
    BY DEF CopiedUpTo
  <2>1. Found("${", s)
    BY <1>1 DEF Found, Occurs
  <2>2. k \in 1 .. l /\ \A m \in 1 .. l : m < k => s[m] # "${"
    BY <2>1, FirstPlace
  <2>3. ~Found("}", From(s, k + 1))
    BY <2>1 DEF Closed, AfterStart
  <2> HIDE DEF k
  <2>4. k + 1 \in 1 .. Len(s) + 1
    BY <1>1, <2>2, PlacesAround
  <2>5. /\ DOMAIN From(s, k + 1) = 1 .. l - (k + 1) + 1
        /\ \A m \in 1 .. l - (k + 1) + 1 : From(s, k + 1)[m] = s[(k + 1) + m - 1]
    BY <2>4, Ends
  <2> HIDE DEF l
  <2>6. j \in k + 1 .. l
    <3>1. ~ (i < k)
      BY <2>2
    <3> QED
      BY <1>1, <2>2, <3>1, PlaceLater
  <2>7. j - k \in 1 .. l - (k + 1) + 1 /\ (k + 1) + (j - k) - 1 = j
    BY <1>1, <2>2, <2>6, PlaceBefore
  <2>8. From(s, k + 1)[j - k] = "}"
    BY <2>5, <2>7
  <2> QED
    BY <2>3, <2>5, <2>7, <2>8 DEF Found, Occurs
<1>3. /\ Expansion(s, e).text = SubSeq(s, 1, l) \o Expansion(From(s, l + 1), e).text
      /\ Expansion(s, e).unset = Expansion(From(s, l + 1), e).unset
  BY <1>1, <1>2, Copied
<1>4. SubSeq(s, 1, l) = s /\ From(s, l + 1) = <<>>
  BY SubSeqFull, EndsOfAll DEF Strings
<1>5. Expansion(<<>>, e).text = <<>> /\ Expansion(<<>>, e).unset = {}
  BY NothingLeft
<1>6. s \o <<>> = s
  BY ConcatEmptySeq DEF Strings
<1> QED
  BY <1>3, <1>4, <1>5, <1>6

\* One turn of the loop, as the reference definition has it.
LEMMA OneReference ==
    ASSUME NEW e, EnvTyped(e), NEW s \in Strings, Closed(s)
    PROVE  LET before == SubSeq(s, 1, find("${", s) - 1) IN
           /\ before \in Strings /\ VarName(s) \in Strings /\ NextScan(s) \in Strings
           /\ Value(VarName(s), e) \in Strings
           /\ Expansion(s, e).text =
                before \o (Value(VarName(s), e) \o Expansion(NextScan(s), e).text)
           /\ Expansion(s, e).unset = Expansion(NextScan(s), e).unset \cup
                                        (IF IsSet(VarName(s), e) THEN {} ELSE {VarName(s)})
<1> DEFINE t      == From(s, find("${", s))
           before == SubSeq(s, 1, find("${", s) - 1)
<1>1. /\ AfterStart(s) = From(t, 2) /\ t \in Strings /\ t # <<>> /\ t[1] = "${"
      /\ before \in Strings
      /\ Expansion(s, e).text = before \o Expansion(t, e).text
      /\ Expansion(s, e).unset = Expansion(t, e).unset
  BY FirstReference DEF Closed
<1> HIDE DEF t, before
<1>2. Found("}", From(t, 2))
  BY <1>1 DEF Closed
<1>3. VarName(s) = Name(t) /\ NextScan(s) = After(t)
  BY <1>1 DEF VarName, NextScan, Name, After
<1>4. Name(t) \in Strings /\ After(t) \in Strings
  BY <1>1, <1>2, Shorter
<1>5. /\ Expansion(t, e).text = Value(Name(t), e) \o Expansion(After(t), e).text
      /\ Expansion(t, e).unset = Expansion(After(t), e).unset \cup Missed(t, e)
  BY <1>1, <1>2, Expanded
<1>6. Missed(t, e) = IF IsSet(VarName(s), e) THEN {} ELSE {VarName(s)}
  BY <1>3 DEF Missed
<1>7. Value(VarName(s), e) \in Strings
  BY EmptySeq DEF Value, IsSet, EnvTyped, Strings
<1>8. /\ Expansion(s, e).text = before \o (Value(VarName(s), e) \o Expansion(NextScan(s), e).text)
      /\ Expansion(s, e).unset = Expansion(NextScan(s), e).unset \cup Missed(t, e)
  BY <1>1, <1>3, <1>5
<1> HIDE DEF before
<1> QED
  BY <1>1, <1>3, <1>4, <1>6, <1>7, <1>8 DEF before

-----------------------------------------------------------------------------
(***************************************************************************)
(* The inductive invariant                                                 *)
(***************************************************************************)

\* Names recorded as missing.
Recordings == {missing[i] : i \in DOMAIN missing}

Typed ==
    /\ TypeOK
    /\ content \in Strings /\ remaining \in Strings /\ result \in Strings
    /\ EnvTyped(env)
    /\ missing \in Seq(Strings)

\* A load that ended scanned the file to its end, and one that succeeded
\* missed nothing.
Ended ==
    /\ pc # "expanding" => remaining = <<>>
    /\ pc = "loaded" => missing = <<>>

\* After the user has set what an error named, only the empty name is unset.
Corrected == rounds > 0 => Expansion(content, env).unset \subseteq {<<>>}

Inv == Typed /\ ExpandsOnce /\ Ended /\ Corrected

\* The texts of the model are texts.
LEMMA TextsAreStrings == Texts \subseteq Strings
<1> SUFFICES ASSUME NEW n \in 0 .. MaxLength, NEW s \in [1 .. n -> Symbols] PROVE s \in Strings
  BY DEF Texts
<1>1. n \in Nat
  <2>1. MaxLength \in Nat
    BY TemplateAssumption
  <2> QED
    BY <2>1
<1> QED
  BY <1>1 DEF Strings

\* What is left of an end of a text is an end of the text.
LEMMA EndStaysEnd ==
    ASSUME NEW s \in Strings, NEW r \in Strings, Len(r) <= Len(s),
           r = From(s, Len(s) - Len(r) + 1), NEW i \in 1 .. Len(r) + 1
    PROVE  /\ From(r, i) \in Strings /\ Len(From(r, i)) <= Len(s)
           /\ From(r, i) = From(s, Len(s) - Len(From(r, i)) + 1)
<1> DEFINE l == Len(s)
           m == Len(r)
           u == From(r, i)
<1>1. l \in Nat /\ m \in Nat /\ m <= l /\ i \in 1 .. m + 1
  BY EndsOfAll
<1>2. u \in Strings /\ Len(u) = m - i + 1
  BY Ends
<1>3. u = From(From(s, l - m + 1), i)
  OBVIOUS
<1> HIDE DEF l, m, u
<1>4. /\ l - m + 1 \in 1 .. l + 1 /\ i \in 1 .. l - (l - m + 1) + 2
      /\ (l - m + 1) + i - 1 = l - (m - i + 1) + 1 /\ m - i + 1 <= l
  BY <1>1
<1>5. u = From(s, (l - m + 1) + i - 1)
  BY <1>3, <1>4, EndOfEnd DEF l
<1> QED
  BY <1>2, <1>4, <1>5 DEF l, u

\* The names recorded grow by the unset one.
LEMMA RecordedNames ==
    ASSUME NEW name \in Strings, missing \in Seq(Strings)
    PROVE  LET m == Recorded(name) IN
           /\ m \in Seq(Strings)
           /\ {m[i] : i \in DOMAIN m} = Recordings \cup (IF IsSet(name, env) THEN {} ELSE {name})
<1>1. CASE IsSet(name, env)
  BY <1>1 DEF Recorded, Recordings
<1>2. CASE ~IsSet(name, env)
  <2> DEFINE m == Append(missing, name)
             n == Len(missing)
  <2>1. /\ n \in Nat /\ DOMAIN missing = 1 .. n
        /\ m \in Seq(Strings) /\ Len(m) = n + 1
        /\ \A i \in 1 .. n : m[i] = missing[i]
        /\ m[n + 1] = name
    BY LenProperties, AppendProperties
  <2>2. DOMAIN m = 1 .. n + 1
    BY <2>1, LenProperties
  <2> HIDE DEF m, n
  <2>3. 1 .. n + 1 = (1 .. n) \cup {n + 1}
    BY <2>1
  <2>4. {m[i] : i \in DOMAIN m} = {missing[i] : i \in DOMAIN missing} \cup {name}
    BY <2>1, <2>2, <2>3
  <2> QED
    BY <1>2, <2>1, <2>4 DEF Recorded, Recordings, m
<1> QED
  BY <1>1, <1>2

\* Nothing is left of what was scanned at first.
LEMMA InitInv == Init => Inv
<1> SUFFICES ASSUME Init PROVE Inv
  OBVIOUS
<1>1. /\ content \in Texts /\ env \in Environments /\ pc = "expanding"
      /\ remaining = content /\ result = <<>> /\ missing = <<>> /\ rounds = 0
  BY DEF Init
<1>2. content \in Strings /\ EnvTyped(env)
  BY <1>1, TextsAreStrings, TemplateAssumption DEF EnvTyped, Strings
<1>3. Len(content) \in Nat /\ From(content, 1) = content
  BY <1>2, EndsOfAll
<1>4. result \in Strings /\ missing \in Seq(Strings)
  BY <1>1, EmptySeq DEF Strings
<1>5. TypeOK
  <2>1. Len(content) - Len(remaining) + 1 = 1 /\ Len(remaining) <= Len(content)
    BY <1>1, <1>3
  <2>2. result \in Seq(Symbols) /\ rounds \in Nat
    BY <1>1, <1>4 DEF Strings
  <2>3. remaining = From(content, Len(content) - Len(remaining) + 1)
    BY <1>1, <1>3, <2>1
  <2> QED
    BY <1>1, <2>1, <2>2, <2>3 DEF TypeOK
<1>6. ExpandsOnce
  <2>1. result \o Expansion(content, env).text = Expansion(content, env).text
    BY <1>1, <1>2, ExpandsToText, ConcatEmptySeq DEF Strings
  <2>2. {missing[i] : i \in DOMAIN missing} = {}
    BY <1>1
  <2> QED
    BY <1>1, <2>1, <2>2 DEF ExpandsOnce
<1> QED
  BY <1>1, <1>2, <1>4, <1>5, <1>6 DEF Inv, Typed, Ended, Corrected

\* Three sequences in a row,
LEMMA InARow == \A S : \A x, y, z \in Seq(S) : (x \o y) \o z = x \o (y \o z)
BY ConcatAssociative

\* and three texts,
LEMMA ThreeTexts ==
    ASSUME NEW a, NEW b, NEW c, a \in Strings, b \in Strings, c \in Strings
    PROVE  (a \o b) \o c = a \o (b \o c)
BY InARow DEF Strings

\* Two texts.
LEMMA TwoTexts ==
    ASSUME NEW a, NEW b, a \in Strings, b \in Strings
    PROVE  a \o b \in Strings
BY ConcatProperties DEF Strings

\* A turn of the loop at a reference.
LEMMA ReferenceInv == Inv /\ ExpandReference => Inv'
<1> SUFFICES ASSUME Inv, ExpandReference PROVE Inv'
  OBVIOUS
<1> DEFINE before == SubSeq(remaining, 1, find("${", remaining) - 1)
           value  == Value(VarName(remaining), env)
           name   == VarName(remaining)
           next   == NextScan(remaining)
           rest   == Expansion(remaining, env)
           new    == IF IsSet(name, env) THEN {} ELSE {name}
<1>1. /\ TypeOK /\ content \in Strings /\ remaining \in Strings /\ result \in Strings
      /\ EnvTyped(env) /\ missing \in Seq(Strings)
  BY DEF Inv, Typed
<1>2. /\ pc = "expanding" /\ Closed(remaining)
      /\ result' = (result \o before) \o value
      /\ missing' = Recorded(name) /\ remaining' = next
      /\ content' = content /\ env' = env /\ pc' = pc /\ rounds' = rounds
  BY DEF ExpandReference
<1>3. /\ before \in Strings /\ name \in Strings /\ next \in Strings /\ value \in Strings
      /\ rest.text = before \o (value \o Expansion(next, env).text)
      /\ rest.unset = Expansion(next, env).unset \cup new
  BY <1>1, <1>2, OneReference
<1>4. Expansion(next, env).text \in Strings
  <2>1. \A t \in Strings : Expansion(t, env).text \in Strings
    BY <1>1, ExpandsToText
  <2> HIDE DEF next
  <2> QED
    BY <1>3, <2>1
<1>5. /\ missing' \in Seq(Strings)
      /\ {missing'[i] : i \in DOMAIN missing'} = Recordings \cup new
  <2>1. /\ Recorded(name) \in Seq(Strings)
        /\ {Recorded(name)[i] : i \in DOMAIN Recorded(name)} =
              Recordings \cup (IF IsSet(name, env) THEN {} ELSE {name})
    <3> HIDE DEF name
    <3> QED
      BY <1>1, <1>3, RecordedNames
  <2> HIDE DEF name
  <2> QED
    BY <1>2, <2>1
<1>6. Expansion(content, env).text = result \o rest.text
      /\ Recordings \cup rest.unset = Expansion(content, env).unset
  BY DEF Inv, ExpandsOnce, Recordings
<1>7. remaining' \in Strings /\ Len(remaining') <= Len(content')
      /\ remaining' = From(content', Len(content') - Len(remaining') + 1)
  <2> DEFINE r == remaining
             k == find("${", r)
             j == find("}", AfterStart(r))
  <2>1. Len(r) <= Len(content) /\ r = From(content, Len(content) - Len(r) + 1)
    BY <1>1 DEF TypeOK
  <2>2. k \in 1 .. Len(r) /\ Len(r) \in Nat /\ Found("}", AfterStart(r))
    BY <1>1, <1>2, FirstPlace, EndsOfAll DEF Closed
  <2> DEFINE u == From(r, k + 1)
  <2>3. AfterStart(r) = u
    BY DEF AfterStart
  <2>4. k + 1 \in 1 .. Len(r) + 1
    BY <2>2, PlacesAround
  <2>5. /\ u \in Strings /\ Len(u) <= Len(content)
        /\ u = From(content, Len(content) - Len(u) + 1)
    BY <1>1, <2>1, <2>4, EndStaysEnd
  <2> HIDE DEF u
  <2>6. j \in 1 .. Len(u) /\ Len(u) \in Nat
    BY <2>2, <2>3, <2>5, FirstPlace, EndsOfAll
  <2>7. j + 1 \in 1 .. Len(u) + 1
    BY <2>6, PlacesAround
  <2>8. next = From(u, j + 1)
    BY <2>3 DEF NextScan
  <2> HIDE DEF j, next
  <2>9. /\ next \in Strings /\ Len(next) <= Len(content)
        /\ next = From(content, Len(content) - Len(next) + 1)
    BY <1>1, <2>5, <2>7, <2>8, EndStaysEnd
  <2> QED
    BY <1>2, <2>9
<1> HIDE DEF before, value, name, next, rest, new
<1>8. result' \in Strings
      /\ result' \o Expansion(next, env).text = Expansion(content, env).text
  <2> DEFINE z == Expansion(next, env).text
  <2>1. z \in Strings
    BY <1>4
  <2> HIDE DEF z
  <2> DEFINE ab  == result \o before
             abc == ab \o value
             cd  == value \o z
             bcd == before \o cd
  <2>2. ab = result \o before /\ abc = ab \o value /\ cd = value \o z /\ bcd = before \o cd
    OBVIOUS
  <2>3. result' = abc /\ Expansion(content, env).text = result \o bcd
    BY <1>2, <1>3, <1>6 DEF z
  <2> HIDE DEF ab, abc, cd, bcd
  <2>0. result \in Strings /\ before \in Strings /\ value \in Strings
    BY <1>1, <1>3
  <2>4. ab \in Strings
    BY <1>1, <1>3, TwoTexts DEF ab
  <2>5. cd \in Strings
    BY <1>3, <2>1, TwoTexts DEF cd
  <2>6. abc \in Strings
    BY ONLY <2>0, <2>2, <2>4, TwoTexts
  <2>7. (ab \o value) \o z = ab \o (value \o z)
    BY ONLY <2>0, <2>1, <2>4, ThreeTexts
  <2>8. (result \o before) \o cd = result \o (before \o cd)
    BY ONLY <2>0, <2>5, ThreeTexts
  <2>9. abc \o z = result \o bcd
    BY ONLY <2>2, <2>7, <2>8
  <2> QED
    BY <2>3, <2>6, <2>9 DEF z
<1>9. TypeOK'
  <2>1. result' \in Seq(Symbols)
    BY <1>8 DEF Strings
  <2> QED
    BY <1>1, <1>2, <1>7, <2>1 DEF TypeOK
<1>10. ExpandsOnce'
  <2>1. Recordings \cup new \cup Expansion(next, env).unset = Expansion(content, env).unset
    BY <1>3, <1>6
  <2> QED
    BY <1>2, <1>5, <1>8, <2>1 DEF ExpandsOnce
<1>11. Typed'
  BY <1>1, <1>2, <1>5, <1>7, <1>8, <1>9 DEF Typed, EnvTyped
<1>12. Ended' /\ Corrected'
  BY <1>2 DEF Inv, Ended, Corrected
<1> QED
  BY <1>10, <1>11, <1>12 DEF Inv

\* A load scans to the end when no reference is left that is closed.
LEMMA LastInv ==
    ASSUME Inv, pc = "expanding", ~Closed(remaining),
           result' = result \o remaining, remaining' = <<>>,
           content' = content, env' = env, missing' = missing, rounds' = rounds,
           pc' \in {"expanding", Verdict}
    PROVE  Inv'
<1>1. /\ TypeOK /\ content \in Strings /\ remaining \in Strings /\ result \in Strings
      /\ EnvTyped(env) /\ missing \in Seq(Strings)
  BY DEF Inv, Typed
<1>2. Expansion(remaining, env).text = remaining /\ Expansion(remaining, env).unset = {}
  BY <1>1, NothingToExpand
<1>3. <<>> \in Strings /\ Len(<<>>) = 0
  BY EmptySeq DEF Strings
<1>4. Expansion(<<>>, env).text = <<>> /\ Expansion(<<>>, env).unset = {}
  BY NothingLeft
<1>5. result \o remaining \in Strings
  BY <1>1, TwoTexts
<1>6. (result \o remaining) \o <<>> = result \o remaining
  BY <1>5, ConcatEmptySeq DEF Strings
<1>7. /\ result \o remaining = Expansion(content, env).text
      /\ {missing[i] : i \in DOMAIN missing} = Expansion(content, env).unset
  BY <1>2 DEF Inv, ExpandsOnce
<1>8. ExpandsOnce'
  BY <1>4, <1>6, <1>7 DEF ExpandsOnce
<1>9. TypeOK'
  <2>1. Len(content) \in Nat /\ From(content, Len(content) + 1) = <<>>
    BY <1>1, EndsOfAll
  <2>2. Len(content) - 0 + 1 = Len(content) + 1 /\ 0 <= Len(content)
    BY <2>1
  <2>3. /\ Len(remaining') <= Len(content')
        /\ remaining' = From(content', Len(content') - Len(remaining') + 1)
    BY <1>3, <2>1, <2>2
  <2>4. pc' \in {"expanding", "loaded", "refused"}
    BY DEF Verdict
  <2>5. result' \in Seq(Symbols)
    BY <1>5 DEF Strings
  <2> QED
    BY <1>1, <2>3, <2>4, <2>5 DEF TypeOK
<1>10. Typed'
  BY <1>1, <1>3, <1>5, <1>9 DEF Typed, EnvTyped
<1>11. Ended' /\ Corrected'
  BY DEF Inv, Ended, Corrected, Verdict
<1> QED
  BY <1>8, <1>10, <1>11 DEF Inv

\* The user sets the names that the error names.
LEMMA SetMissingInv == Inv /\ SetMissing => Inv'
<1> SUFFICES ASSUME Inv, SetMissing PROVE Inv'
  OBVIOUS
<1>1. /\ TypeOK /\ content \in Strings /\ remaining \in Strings /\ result \in Strings
      /\ EnvTyped(env) /\ missing \in Seq(Strings)
  BY DEF Inv, Typed
<1>2. /\ pc = "refused" /\ pc' = "expanding" /\ remaining' = content /\ content' = content
      /\ result' = <<>> /\ missing' = <<>> /\ rounds' = rounds + 1
  BY DEF SetMissing
<1>3. PICK v \in Values :
        env' = [name \in DOMAIN env \cup Settable |-> IF name \in Settable THEN v ELSE env[name]]
  BY DEF SetMissing
<1>4. DOMAIN env' = DOMAIN env \cup Settable
  BY <1>3
<1>5. EnvTyped(env')
  <2>1. v \in Strings
    BY <1>3, TemplateAssumption DEF Strings
  <2> QED
    BY <1>1, <1>3, <2>1 DEF EnvTyped
<1>6. result' \in Strings /\ missing' \in Seq(Strings) /\ result' \in Seq(Symbols)
  BY <1>2, EmptySeq DEF Strings
<1>7. Len(content) \in Nat /\ From(content, 1) = content
  BY <1>1, EndsOfAll
<1>8. TypeOK'
  <2>1. Len(content) - Len(content) + 1 = 1 /\ Len(content) <= Len(content)
    BY <1>7
  <2>2. /\ Len(remaining') <= Len(content')
        /\ remaining' = From(content', Len(content') - Len(remaining') + 1)
    BY <1>2, <1>7, <2>1
  <2>3. rounds' \in Nat
    BY <1>1, <1>2 DEF TypeOK
  <2> QED
    BY <1>1, <1>2, <1>6, <2>2, <2>3 DEF TypeOK
<1>9. ExpandsOnce'
  <2>1. Expansion(content, env').text \in Strings
    BY <1>1, <1>5, ExpandsToText
  <2>2. <<>> \o Expansion(content, env').text = Expansion(content, env').text
    BY <2>1, ConcatEmptySeq DEF Strings
  <2>3. {missing'[i] : i \in DOMAIN missing'} = {}
    BY <1>2
  <2> QED
    BY <1>2, <2>2, <2>3 DEF ExpandsOnce
<1>10. Corrected'
  <2>1. Expansion(<<>>, env).unset = {}
    BY NothingLeft
  <2>2. remaining = <<>>
    BY <1>2 DEF Inv, Ended
  <2>3. Recordings = Expansion(content, env).unset
    BY <2>1, <2>2 DEF Inv, ExpandsOnce, Recordings
  <2>4. Expansion(content, env').unset \subseteq Expansion(content, env).unset \ DOMAIN env'
    BY <1>1, <1>4, UnsetShrinks
  <2>5. Settable = Recordings \ {<<>>}
    BY DEF Settable, Recordings
  <2> QED
    BY <1>2, <1>4, <2>3, <2>4, <2>5 DEF Corrected
<1>11. Typed'
  BY <1>1, <1>2, <1>5, <1>6, <1>8 DEF Typed
<1>12. Ended'
  BY <1>2 DEF Ended
<1> QED
  BY <1>9, <1>10, <1>11, <1>12 DEF Inv

\* No step of a load or of its user invalidates it.
LEMMA NextInv == Inv /\ [Next]_vars => Inv'
<1> SUFFICES ASSUME Inv, [Next]_vars PROVE Inv'
  OBVIOUS
<1>1. CASE ExpandReference
  BY <1>1, ReferenceInv
<1>2. CASE KeepUnclosed
  <2>1. /\ pc = "expanding" /\ ~Closed(remaining) /\ pc' = pc
        /\ result' = result \o remaining /\ remaining' = <<>>
        /\ content' = content /\ env' = env /\ missing' = missing /\ rounds' = rounds
    BY <1>2 DEF KeepUnclosed, Unclosed
  <2> QED
    BY <2>1, LastInv
<1>3. CASE FinishLoad
  <2>1. /\ pc = "expanding" /\ ~Closed(remaining) /\ pc' = Verdict
        /\ result' = result \o remaining /\ remaining' = <<>>
        /\ content' = content /\ env' = env /\ missing' = missing /\ rounds' = rounds
    BY <1>3 DEF FinishLoad, Closed
  <2> QED
    BY <2>1, LastInv
<1>4. CASE SetMissing
  BY <1>4, SetMissingInv
<1>5. CASE UNCHANGED vars
  BY <1>5 DEF vars, Inv, Typed, TypeOK, EnvTyped, ExpandsOnce, Ended, Corrected, From
<1> QED
  BY <1>1, <1>2, <1>3, <1>4, <1>5 DEF Next

-----------------------------------------------------------------------------
(***************************************************************************)
(* Theorems                                                                *)
(***************************************************************************)

\* The invariant of expand_with's loop and of repeated loads.
THEOREM Invariance == Spec => []Inv
<1>1. Init => Inv
  BY InitInv
<1>2. Inv /\ [Next]_vars => Inv'
  BY NextInv
<1> QED
  BY <1>1, <1>2, PTL DEF Spec

\* Every variable of a load has its type, and what is left to scan is an end
\* of the file, for every file and environment.
THEOREM TypeCorrect == Spec => []TypeOK
<1>1. Inv => TypeOK
  BY DEF Inv, Typed
<1> QED
  BY <1>1, Invariance, PTL

\* The one scan of expand_with is the reference definition, at every turn of
\* its loop: what it produced and what is left expand to what the file does.
THEOREM ScanExpandsOnce == Spec => []ExpandsOnce
<1>1. Inv => ExpandsOnce
  BY DEF Inv
<1> QED
  BY <1>1, Invariance, PTL

\* A file that expand_env_checked lets through has every variable set.
THEOREM NeverSilentlyEmpty == Spec => []NothingSilentlyEmpty
<1>1. Inv => NothingSilentlyEmpty
  <2> SUFFICES ASSUME Inv, pc = "loaded" PROVE Expansion(content, env).unset = {}
    BY DEF NothingSilentlyEmpty
  <2>1. remaining = <<>> /\ missing = <<>>
    BY DEF Inv, Ended
  <2>2. Expansion(remaining, env).unset = {}
    BY <2>1, NothingLeft
  <2>3. {missing[i] : i \in DOMAIN missing} = {}
    BY <2>1
  <2> QED
    BY <2>2, <2>3 DEF Inv, ExpandsOnce
<1> QED
  BY <1>1, Invariance, PTL

\* The error of expand_env_checked names all that can be set: after the user
\* has set it, a load is refused for nothing but the empty name.
THEOREM OneErrorIsEnough == Spec => []OneErrorSuffices
<1>1. Inv => OneErrorSuffices
  <2> SUFFICES ASSUME Inv, pc = "refused", rounds > 0 PROVE Settable = {}
    BY DEF OneErrorSuffices
  <2>1. Expansion(content, env).unset \subseteq {<<>>}
    BY DEF Inv, Corrected
  <2>2. {missing[i] : i \in DOMAIN missing} \subseteq Expansion(content, env).unset
    BY DEF Inv, ExpandsOnce
  <2> QED
    BY <2>1, <2>2 DEF Settable
<1> QED
  BY <1>1, Invariance, PTL
=============================================================================
