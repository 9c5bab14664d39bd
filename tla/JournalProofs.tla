--------------------------- MODULE JournalProofs ---------------------------
(***************************************************************************)
(* The four pieces of code that write and read journals agree, for fields  *)
(* of any widths and any number of values of a byte.                       *)
(*                                                                         *)
(* Every writer and every reader is brought to one description, Layout:    *)
(* which bytes stand at which place of the journal of a commitment.  The   *)
(* numbers in it rest on the big-endian conversions being each other's     *)
(* inverse, which is an induction over the bytes.                          *)
(***************************************************************************)
EXTENDS Journal, SequenceTheorems, TLAPS

(***************************************************************************)
(* The two recursive functions exist                                       *)
(***************************************************************************)
Itself == [k \in Nat |-> k]

ShiftStep(n, f, k) == IF k = 0 THEN n ELSE f[k - 1] \div ByteValues
Shifting == INSTANCE Recursion WITH D <- Nat, Height <- Itself, Step <- ShiftStep

SpellStep(b, f, k) == IF k = 0 THEN 0 ELSE f[k - 1] * ByteValues + b[k]
Spelling == INSTANCE Recursion WITH D <- Nat, Height <- Itself, Step <- SpellStep

\* Shifting by one byte more is a division by the number of byte values.
LEMMA ShiftedSolved ==
    ASSUME NEW n
    PROVE  Shifted(n) = [k \in Nat |-> ShiftStep(n, Shifted(n), k)]
<1>1. Shifting!Ranked
  BY DEF Shifting!Ranked, Itself
<1>2. Shifting!Local(n)
  BY DEF Shifting!Local, ShiftStep, Itself
<1>3. Shifting!Defined(n) = [k \in Nat |-> ShiftStep(n, Shifting!Defined(n), k)]
  BY <1>1, <1>2, Shifting!RecursionSolved
<1>4. Shifted(n) = Shifting!Defined(n)
  BY DEF Shifted, Shifting!Defined, ShiftStep
<1> QED
  BY ONLY <1>3, <1>4

\* Shifted starts at its number and divides it once more at each place.
LEMMA ShiftedNext ==
    ASSUME NEW n
    PROVE  /\ Shifted(n)[0] = n
           /\ \A k \in Nat : Shifted(n)[k + 1] = Shifted(n)[k] \div ByteValues
<1>1. ASSUME NEW k \in Nat PROVE Shifted(n)[k] = ShiftStep(n, Shifted(n), k)
  BY ONLY ShiftedSolved, k \in Nat
<1>2. Shifted(n)[0] = n
  BY ONLY <1>1 DEF ShiftStep
<1>3. ASSUME NEW k \in Nat PROVE Shifted(n)[k + 1] = Shifted(n)[k] \div ByteValues
  <2>1. k + 1 \in Nat /\ k + 1 # 0 /\ (k + 1) - 1 = k
    OBVIOUS
  <2> QED
    BY ONLY <1>1, <2>1 DEF ShiftStep
<1> QED
  BY ONLY <1>2, <1>3

\* A byte more is worth the number read so far times the byte values.
LEMMA SpelledSolved ==
    ASSUME NEW b
    PROVE  Spelled(b) = [k \in Nat |-> SpellStep(b, Spelled(b), k)]
<1>1. Spelling!Ranked
  BY DEF Spelling!Ranked, Itself
<1>2. Spelling!Local(b)
  BY DEF Spelling!Local, SpellStep, Itself
<1>3. Spelling!Defined(b) = [k \in Nat |-> SpellStep(b, Spelling!Defined(b), k)]
  BY <1>1, <1>2, Spelling!RecursionSolved
<1>4. Spelled(b) = Spelling!Defined(b)
  BY DEF Spelled, Spelling!Defined, SpellStep
<1> QED
  BY ONLY <1>3, <1>4

\* Spelled starts at zero and takes in one byte more at each place.
LEMMA SpelledNext ==
    ASSUME NEW b
    PROVE  /\ Spelled(b)[0] = 0
           /\ \A k \in Nat : Spelled(b)[k + 1] = Spelled(b)[k] * ByteValues + b[k + 1]
<1>1. ASSUME NEW k \in Nat PROVE Spelled(b)[k] = SpellStep(b, Spelled(b), k)
  BY ONLY SpelledSolved, k \in Nat
<1>2. Spelled(b)[0] = 0
  BY ONLY <1>1 DEF SpellStep
<1>3. ASSUME NEW k \in Nat
      PROVE  Spelled(b)[k + 1] = Spelled(b)[k] * ByteValues + b[k + 1]
  <2>1. k + 1 \in Nat /\ k + 1 # 0 /\ (k + 1) - 1 = k
    OBVIOUS
  <2> QED
    BY ONLY <1>1, <2>1 DEF SpellStep
<1> QED
  BY ONLY <1>2, <1>3

(***************************************************************************)
(* Big-endian numbers                                                      *)
(***************************************************************************)

\* Division by the number of byte values, and what is left.
LEMMA Division ==
    ASSUME NEW n \in Nat
    PROVE  /\ n \div ByteValues \in Nat
           /\ n % ByteValues \in Byte
           /\ n = (n \div ByteValues) * ByteValues + (n % ByteValues)
<1>1. ByteValues \in Nat /\ ByteValues > 0
  BY WidthAssumption
<1>2. /\ n \div ByteValues \in Nat
      /\ n % ByteValues \in 0 .. ByteValues - 1
  BY ONLY <1>1, n \in Nat
<1>3. n = (n \div ByteValues) * ByteValues + (n % ByteValues)
  BY ONLY <1>1, n \in Nat
<1> QED
  BY <1>2, <1>3 DEF Byte

\* Appending a digit is undone by dividing.
LEMMA Appending ==
    ASSUME NEW m \in Nat, NEW r \in Byte
    PROVE  /\ m * ByteValues + r \in Nat
           /\ (m * ByteValues + r) \div ByteValues = m
           /\ (m * ByteValues + r) % ByteValues = r
<1>1. ByteValues \in Nat /\ ByteValues > 0
  BY WidthAssumption
<1>2. r \in 0 .. ByteValues - 1
  BY DEF Byte
<1> QED
  BY ONLY <1>1, <1>2, m \in Nat

\* Shifting a number gives numbers.
LEMMA ShiftedType ==
    ASSUME NEW n \in Nat, NEW k \in Nat
    PROVE  Shifted(n)[k] \in Nat
<1> DEFINE Bad == {j \in Nat : Shifted(n)[j] \notin Nat}
<1> SUFFICES ASSUME Bad # {} PROVE FALSE
  OBVIOUS
<1>1. PICK j \in Bad : \A i \in Bad : j <= i
  <2>1. Bad \in SUBSET Nat
    OBVIOUS
  <2> HIDE DEF Bad
  <2> QED
    BY ONLY <2>1, Bad # {}, Shifting!Least
<1>2. j # 0
  BY ONLY <1>1, ShiftedNext, n \in Nat
<1>3. j - 1 \in Nat /\ Shifted(n)[j - 1] \in Nat
  BY ONLY <1>1, <1>2
<1>4. Shifted(n)[(j - 1) + 1] = Shifted(n)[j - 1] \div ByteValues
  BY ONLY <1>3, ShiftedNext
<1>5. Shifted(n)[j - 1] \div ByteValues \in Nat
  BY ONLY <1>3, Division
<1>6. (j - 1) + 1 = j
  BY ONLY <1>1
<1> QED
  BY ONLY <1>1, <1>4, <1>5, <1>6

\* Once nothing is left of a number nothing ever is.
LEMMA ShiftedOut ==
    ASSUME NEW n \in Nat, NEW w \in Nat, Fits(n, w), NEW k \in Nat, w <= k
    PROVE  Fits(n, k)
<1> DEFINE Bad == {j \in Nat : w <= j /\ Shifted(n)[j] # 0}
<1> SUFFICES ASSUME Bad # {} PROVE FALSE
  BY DEF Fits
<1>1. PICK j \in Bad : \A i \in Bad : j <= i
  <2>1. Bad \in SUBSET Nat
    OBVIOUS
  <2> HIDE DEF Bad
  <2> QED
    BY ONLY <2>1, Bad # {}, Shifting!Least
<1>2. j # w
  BY <1>1 DEF Fits
<1>3. j - 1 \in Nat /\ w <= j - 1 /\ Shifted(n)[j - 1] = 0
  BY ONLY <1>1, <1>2, w \in Nat
<1>4. Shifted(n)[(j - 1) + 1] = Shifted(n)[j - 1] \div ByteValues
  BY ONLY <1>3, ShiftedNext
<1>5. 0 \div ByteValues = 0
  BY WidthAssumption
<1>6. (j - 1) + 1 = j
  BY ONLY <1>1
<1> QED
  BY ONLY <1>1, <1>3, <1>4, <1>5, <1>6

\* A number is written in as many bytes as are asked for.
LEMMA BigEndianType ==
    ASSUME NEW n \in Nat, NEW w \in Nat
    PROVE  /\ BigEndian(n, w) \in Bytes
           /\ Len(BigEndian(n, w)) = w
           /\ \A i \in 1 .. w : BigEndian(n, w)[i] = Shifted(n)[w - i] % ByteValues
<1>1. ASSUME NEW i \in 1 .. w PROVE Shifted(n)[w - i] % ByteValues \in Byte
  <2>1. w - i \in Nat
    OBVIOUS
  <2> QED
    BY ONLY <2>1, ShiftedType, Division, n \in Nat
<1>2. BigEndian(n, w) \in [1 .. w -> Byte]
  BY <1>1 DEF BigEndian
<1>3. BigEndian(n, w) \in Bytes /\ Len(BigEndian(n, w)) = w
  BY <1>2 DEF Bytes
<1> QED
  BY <1>3 DEF BigEndian

\* What has been read of a number that was written is the number without
\* the bytes that are yet to be read.
LEMMA ReadWhatWasWritten ==
    ASSUME NEW n \in Nat, NEW w \in Nat, Fits(n, w), NEW k \in 0 .. w
    PROVE  Spelled(BigEndian(n, w))[k] = Shifted(n)[w - k]
<1> DEFINE b == BigEndian(n, w)
           Bad == {j \in 0 .. w : Spelled(b)[j] # Shifted(n)[w - j]}
<1>0. \A i \in 1 .. w : b[i] = Shifted(n)[w - i] % ByteValues
  BY BigEndianType
<1> HIDE DEF b
<1> SUFFICES ASSUME Bad # {} PROVE FALSE
  BY DEF b
<1>1. PICK j \in Bad : \A i \in Bad : j <= i
  <2>1. Bad \in SUBSET Nat
    OBVIOUS
  <2> HIDE DEF Bad
  <2> QED
    BY ONLY <2>1, Bad # {}, Shifting!Least
<1>2. j # 0
  <2>1. Spelled(b)[0] = 0 /\ Shifted(n)[w] = 0 /\ w - 0 = w
    BY SpelledNext DEF Fits
  <2> QED
    BY ONLY <1>1, <2>1
<1> DEFINE i == j - 1
<1>3. i \in Nat /\ j \in 1 .. w /\ i + 1 = j /\ (w - j) + 1 = w - i /\ w - j \in Nat
  BY ONLY <1>1, <1>2, w \in Nat
<1>4. Spelled(b)[i] = Shifted(n)[w - i]
  BY ONLY <1>1, <1>3, w \in Nat
<1> HIDE DEF i
<1>5. Spelled(b)[j] = Spelled(b)[i] * ByteValues + b[j]
  <2>1. Spelled(b)[i + 1] = Spelled(b)[i] * ByteValues + b[i + 1]
    BY ONLY <1>3, SpelledNext
  <2> QED
    BY ONLY <1>3, <2>1
<1>6. b[j] = Shifted(n)[w - j] % ByteValues
  BY ONLY <1>0, <1>3
<1>7. Shifted(n)[w - i] = Shifted(n)[w - j] \div ByteValues
  <2>1. Shifted(n)[(w - j) + 1] = Shifted(n)[w - j] \div ByteValues
    BY ONLY <1>3, ShiftedNext
  <2> QED
    BY ONLY <1>3, <2>1
<1>8. Shifted(n)[w - j] = (Shifted(n)[w - j] \div ByteValues) * ByteValues
                              + (Shifted(n)[w - j] % ByteValues)
  BY ONLY <1>3, ShiftedType, Division, n \in Nat
<1>9. Spelled(b)[j] = Shifted(n)[w - j]
  <2>1. Spelled(b)[i] = Shifted(n)[w - j] \div ByteValues
    BY ONLY <1>4, <1>7
  <2>2. Spelled(b)[j] = (Shifted(n)[w - j] \div ByteValues) * ByteValues
                            + (Shifted(n)[w - j] % ByteValues)
    BY ONLY <1>5, <1>6, <2>1
  <2> QED
    BY ONLY <1>8, <2>2
<1> QED
  BY ONLY <1>1, <1>9

\* What bytes spell is a number, byte by byte.
LEMMA SpelledType ==
    ASSUME NEW b \in Bytes, NEW k \in 0 .. Len(b)
    PROVE  Spelled(b)[k] \in Nat
<1> DEFINE Bad == {j \in 0 .. Len(b) : Spelled(b)[j] \notin Nat}
<1> SUFFICES ASSUME Bad # {} PROVE FALSE
  OBVIOUS
<1>0. Len(b) \in Nat /\ \A i \in 1 .. Len(b) : b[i] \in Byte
  BY DEF Bytes
<1>1. PICK j \in Bad : \A i \in Bad : j <= i
  <2>1. Bad \in SUBSET Nat
    BY <1>0
  <2> HIDE DEF Bad
  <2> QED
    BY ONLY <2>1, Bad # {}, Shifting!Least
<1>2. j # 0
  <2>1. Spelled(b)[0] = 0
    BY SpelledNext
  <2> QED
    BY ONLY <1>1, <2>1
<1>3. j - 1 \in Nat /\ Spelled(b)[j - 1] \in Nat /\ b[j] \in Byte /\ (j - 1) + 1 = j
  BY ONLY <1>0, <1>1, <1>2
<1>4. Spelled(b)[(j - 1) + 1] = Spelled(b)[j - 1] * ByteValues + b[(j - 1) + 1]
  BY ONLY <1>3, SpelledNext
<1>5. Spelled(b)[j - 1] * ByteValues + b[j] \in Nat
  BY ONLY <1>3, Appending
<1> QED
  BY ONLY <1>1, <1>3, <1>4, <1>5

\* What bytes spell is a natural number.
LEMMA FromBigEndianType ==
    ASSUME NEW b \in Bytes
    PROVE  FromBigEndian(b) \in Nat
<1>1. Len(b) \in 0 .. Len(b)
  BY DEF Bytes
<1> QED
  BY ONLY <1>1, SpelledType, b \in Bytes DEF FromBigEndian

\* What is left, shifted, of a number that was read is what had been read
\* of it that many bytes earlier.
LEMMA WriteWhatWasRead ==
    ASSUME NEW b \in Bytes, NEW k \in 0 .. Len(b)
    PROVE  Shifted(FromBigEndian(b))[k] = Spelled(b)[Len(b) - k]
<1> DEFINE w == Len(b)
           n == FromBigEndian(b)
           Bad == {j \in 0 .. w : Shifted(n)[j] # Spelled(b)[w - j]}
<1>0. w \in Nat /\ n = Spelled(b)[w] /\ \A i \in 1 .. w : b[i] \in Byte
  BY DEF Bytes, FromBigEndian
<1>00. \A i \in 0 .. w : Spelled(b)[i] \in Nat
  BY SpelledType
<1> HIDE DEF w, n
<1> SUFFICES ASSUME Bad # {} PROVE FALSE
  BY DEF w, n
<1>1. PICK j \in Bad : \A i \in Bad : j <= i
  <2>1. Bad \in SUBSET Nat
    BY <1>0
  <2> HIDE DEF Bad
  <2> QED
    BY ONLY <2>1, Bad # {}, Shifting!Least
<1>2. j # 0
  <2>1. Shifted(n)[0] = n
    BY ShiftedNext
  <2>2. w - 0 = w
    BY ONLY <1>0
  <2> QED
    BY ONLY <1>0, <1>1, <2>1, <2>2
<1> DEFINE i == j - 1
<1>3. i \in Nat /\ i + 1 = j /\ (w - j) + 1 = w - i /\ w - j \in Nat
        /\ w - i \in 1 .. w /\ w - j \in 0 .. w
  BY ONLY <1>0, <1>1, <1>2
<1>4. Shifted(n)[i] = Spelled(b)[w - i]
  BY ONLY <1>0, <1>1, <1>3
<1> HIDE DEF i
<1>5. Shifted(n)[j] = Shifted(n)[i] \div ByteValues
  <2>1. Shifted(n)[i + 1] = Shifted(n)[i] \div ByteValues
    BY ONLY <1>3, ShiftedNext
  <2> QED
    BY ONLY <1>3, <2>1
<1>6. Spelled(b)[w - i] = Spelled(b)[w - j] * ByteValues + b[w - i]
  <2>1. Spelled(b)[(w - j) + 1] = Spelled(b)[w - j] * ByteValues + b[(w - j) + 1]
    BY ONLY <1>3, SpelledNext
  <2> QED
    BY ONLY <1>3, <2>1
<1>7. (Spelled(b)[w - j] * ByteValues + b[w - i]) \div ByteValues = Spelled(b)[w - j]
  <2>1. Spelled(b)[w - j] \in Nat /\ b[w - i] \in Byte
    BY ONLY <1>0, <1>00, <1>3
  <2> QED
    BY ONLY <2>1, Appending
<1>8. Shifted(n)[j] = Spelled(b)[w - j]
  BY ONLY <1>4, <1>5, <1>6, <1>7
<1> QED
  BY ONLY <1>1, <1>8

\* Bytes spell a number exactly when they are that number, written in as
\* many bytes: to_be_bytes, from_be_bytes, BigUint and _readBE agree, and a
\* number of a given width has one spelling.
THEOREM BigEndianInverse ==
    ASSUME NEW b \in Bytes, NEW n \in Nat
    PROVE  FromBigEndian(b) = n <=> Fits(n, Len(b)) /\ b = BigEndian(n, Len(b))
<1> DEFINE w == Len(b)
<1>1. w \in Nat
  BY DEF Bytes
<1>2. ASSUME Fits(n, w), b = BigEndian(n, w) PROVE FromBigEndian(b) = n
  <2>1. w \in 0 .. w /\ w - w = 0
    BY <1>1
  <2>2. Spelled(BigEndian(n, w))[w] = Shifted(n)[w - w]
    BY ONLY <1>1, <1>2, <2>1, ReadWhatWasWritten, n \in Nat
  <2>3. Shifted(n)[0] = n
    BY ShiftedNext
  <2> QED
    BY <1>2, <2>1, <2>2, <2>3 DEF FromBigEndian
<1>3. ASSUME FromBigEndian(b) = n PROVE Fits(n, w) /\ b = BigEndian(n, w)
  <2>1. \A k \in 0 .. w : Shifted(n)[k] = Spelled(b)[w - k]
    BY <1>3, WriteWhatWasRead
  <2>2. Fits(n, w)
    <3>1. Shifted(n)[w] = Spelled(b)[w - w]
      BY <1>1, <2>1
    <3>2. Spelled(b)[0] = 0 /\ w - w = 0
      BY <1>1, SpelledNext
    <3> QED
      BY <3>1, <3>2 DEF Fits
  <2>3. ASSUME NEW i \in 1 .. w PROVE b[i] = BigEndian(n, w)[i]
    <3> HIDE DEF w
    <3>1. w - i \in 0 .. w /\ w - (w - i) = i /\ i - 1 \in Nat /\ (i - 1) + 1 = i
      BY <1>1
    <3>2. Shifted(n)[w - i] = Spelled(b)[i]
      BY ONLY <2>1, <3>1
    <3>3. Spelled(b)[i] = Spelled(b)[i - 1] * ByteValues + b[i]
      <4>1. Spelled(b)[(i - 1) + 1] = Spelled(b)[i - 1] * ByteValues + b[(i - 1) + 1]
        BY ONLY <3>1, SpelledNext
      <4> QED
        BY ONLY <3>1, <4>1
    <3>4. Spelled(b)[i - 1] \in Nat /\ b[i] \in Byte
      <4>1. i - 1 \in 0 .. Len(b) /\ i \in 1 .. Len(b)
        BY <1>1 DEF w
      <4>2. b[i] \in Byte
        BY ONLY <4>1, b \in Bytes DEF Bytes
      <4> QED
        BY ONLY <4>1, <4>2, SpelledType, b \in Bytes
    <3>5. (Spelled(b)[i - 1] * ByteValues + b[i]) % ByteValues = b[i]
      BY ONLY <3>4, Appending
    <3>6. BigEndian(n, w)[i] = Shifted(n)[w - i] % ByteValues
      BY ONLY <1>1, BigEndianType, n \in Nat, i \in 1 .. w
    <3> QED
      BY ONLY <3>2, <3>3, <3>5, <3>6
  <2>4. BigEndian(n, w) \in Bytes /\ Len(BigEndian(n, w)) = w
    BY ONLY <1>1, BigEndianType, n \in Nat
  <2>5. b = BigEndian(n, w)
    <3> DEFINE s == BigEndian(n, w)
    <3> HIDE DEF s
    <3>1. s \in Seq(Byte) /\ b \in Seq(Byte) /\ Len(s) = Len(b) /\ \A i \in 1 .. Len(b) : b[i] = s[i]
      BY <2>3, <2>4 DEF s, Bytes
    <3>2. b = s
      BY ONLY <3>1, SeqEqual
    <3> QED
      BY <3>2 DEF s
  <2> QED
    BY <2>2, <2>5
<1> QED
  BY <1>2, <1>3

(***************************************************************************)
(* Bytes at a place                                                        *)
(***************************************************************************)

\* The bytes of b behind the first `offset' ones begin with s.
At(b, offset, s) ==
    /\ offset + Len(s) <= Len(b)
    /\ \A i \in 1 .. Len(s) : b[offset + i] = s[i]

\* The cursor's slice of b.
LEMMA Slice ==
    ASSUME NEW b \in Bytes, NEW offset \in Nat, NEW w \in Nat, offset + w <= Len(b)
    PROVE  /\ SubSeq(b, offset + 1, offset + w) \in Bytes
           /\ Len(SubSeq(b, offset + 1, offset + w)) = w
           /\ \A i \in 1 .. w : SubSeq(b, offset + 1, offset + w)[i] = b[offset + i]
BY DEF Bytes

\* Two byte strings of one length with the same bytes are the same.
LEMMA SameBytes ==
    ASSUME NEW s \in Bytes, NEW t \in Bytes, Len(s) = Len(t),
           \A i \in 1 .. Len(s) : s[i] = t[i]
    PROVE  s = t
BY SeqEqual DEF Bytes

\* What is taken at a place is there.
LEMMA TakeReads ==
    ASSUME NEW b \in Bytes, NEW offset \in Nat, NEW w \in Nat, NEW s \in Bytes
    PROVE  Take(b, offset, w) = s <=> Len(s) = w /\ At(b, offset, s)
<1>1. Error \notin Bytes
  BY ErrorAssumption
<1>2. CASE offset + w <= Len(b)
  <2> DEFINE t == SubSeq(b, offset + 1, offset + w)
  <2>1. Take(b, offset, w) = t
    BY <1>2 DEF Take
  <2>2. t \in Bytes /\ Len(t) = w /\ \A i \in 1 .. w : t[i] = b[offset + i]
    BY <1>2, Slice
  <2> HIDE DEF t
  <2>3. ASSUME t = s PROVE Len(s) = w /\ At(b, offset, s)
    BY ONLY <1>2, <2>2, <2>3 DEF At
  <2>4. ASSUME Len(s) = w, At(b, offset, s) PROVE t = s
    <3>1. Len(t) = Len(s) /\ \A i \in 1 .. Len(t) : t[i] = s[i]
      BY ONLY <2>2, <2>4 DEF At
    <3> QED
      BY ONLY <2>2, <3>1, SameBytes, s \in Bytes
  <2> QED
    BY ONLY <2>1, <2>3, <2>4
<1>3. CASE ~ (offset + w <= Len(b))
  BY ONLY <1>1, <1>3, s \in Bytes DEF Take, At
<1> QED
  BY <1>2, <1>3

\* What is taken, if it is not an error, is as many bytes as were asked for.
LEMMA TakeType ==
    ASSUME NEW b \in Bytes, NEW offset \in Nat, NEW w \in Nat, Take(b, offset, w) # Error
    PROVE  Take(b, offset, w) \in Bytes /\ Len(Take(b, offset, w)) = w
<1>1. offset + w <= Len(b) /\ Take(b, offset, w) = SubSeq(b, offset + 1, offset + w)
  BY DEF Take
<1>2. /\ SubSeq(b, offset + 1, offset + w) \in Bytes
      /\ Len(SubSeq(b, offset + 1, offset + w)) = w
  BY ONLY <1>1, Slice, b \in Bytes, offset \in Nat, w \in Nat
<1> QED
  BY ONLY <1>1, <1>2

\* A number is read at a place exactly when it fits and is written there.
LEMMA NumberReads ==
    ASSUME NEW b \in Bytes, NEW offset \in Nat, NEW w \in Nat, NEW n \in Nat
    PROVE  Take(b, offset, w) # Error /\ FromBigEndian(Take(b, offset, w)) = n
               <=> Fits(n, w) /\ At(b, offset, BigEndian(n, w))
<1> DEFINE t == Take(b, offset, w)
           s == BigEndian(n, w)
<1>1. s \in Bytes /\ Len(s) = w
  BY BigEndianType
<1>2. t = s <=> At(b, offset, s)
  BY ONLY <1>1, TakeReads, b \in Bytes, offset \in Nat, w \in Nat
<1>3. Error \notin Bytes
  BY ErrorAssumption
<1>4. t # Error => t \in Bytes /\ Len(t) = w
  BY TakeType
<1>5. \A u \in Bytes : FromBigEndian(u) = n <=> Fits(n, Len(u)) /\ u = BigEndian(n, Len(u))
  BY BigEndianInverse
<1> HIDE DEF t
<1>6. t # Error /\ FromBigEndian(t) = n <=> t # Error /\ Fits(n, w) /\ t = s
  BY ONLY <1>4, <1>5
<1> QED
  BY ONLY <1>1, <1>2, <1>3, <1>6 DEF t

\* A byte and the offset behind it.
LEMMA TagReads ==
    ASSUME NEW b \in Bytes, NEW offset \in Nat, NEW tags \in SUBSET Byte
    PROVE  TagIn(b, offset, tags) <=> offset + 1 <= Len(b) /\ b[offset + 1] \in tags
<1> DEFINE t == Take(b, offset, 1)
<1>1. Error \notin Bytes
  BY ErrorAssumption
<1>2. TagIn(b, offset, tags) <=> \E x \in tags : t = <<x>>
  BY DEF TagIn
<1>3. CASE offset + 1 <= Len(b)
  <2>1. t = SubSeq(b, offset + 1, offset + 1)
    BY <1>3 DEF Take
  <2>2. t \in Bytes /\ Len(t) = 1 /\ t[1] = b[offset + 1]
    <3> DEFINE u == SubSeq(b, offset + 1, offset + 1)
    <3>1. u \in Bytes /\ Len(u) = 1 /\ \A i \in 1 .. 1 : u[i] = b[offset + i]
      BY ONLY <1>3, Slice, b \in Bytes, offset \in Nat, 1 \in Nat
    <3> HIDE DEF u
    <3>2. u \in Bytes /\ Len(u) = 1 /\ u[1] = b[offset + 1]
      BY ONLY <3>1
    <3> QED
      BY <2>1, <3>2 DEF u
  <2> HIDE DEF t
  <2>3. t = <<b[offset + 1]>>
    <3>1. <<b[offset + 1]>> \in Bytes /\ Len(<<b[offset + 1]>>) = 1
      BY ONLY <1>3, b \in Bytes, offset \in Nat DEF Bytes
    <3>2. \A i \in 1 .. Len(t) : t[i] = <<b[offset + 1]>>[i]
      BY ONLY <2>2
    <3> QED
      BY ONLY <2>2, <3>1, <3>2, SameBytes
  <2>4. (\E x \in tags : t = <<x>>) <=> b[offset + 1] \in tags
    BY ONLY <2>3
  <2> QED
    BY ONLY <1>2, <1>3, <2>4
<1>4. CASE ~ (offset + 1 <= Len(b))
  <2>1. t = Error
    BY <1>4 DEF Take
  <2> QED
    <3>1. \A x \in tags : <<x>> \in Bytes
      BY DEF Bytes
    <3> QED
      BY ONLY <1>1, <1>2, <1>4, <2>1, <3>1
<1> QED
  BY <1>3, <1>4

\* One string behind another.
LEMMA Joined ==
    ASSUME NEW s \in Bytes, NEW t \in Bytes
    PROVE  /\ s \o t \in Bytes
           /\ Len(s \o t) = Len(s) + Len(t)
           /\ \A i \in 1 .. Len(s) : (s \o t)[i] = s[i]
           /\ \A i \in 1 .. Len(t) : (s \o t)[Len(s) + i] = t[i]
<1>1. s \in Seq(Byte) /\ t \in Seq(Byte)
  BY DEF Bytes
<1>2. s \o t \in Seq(Byte) /\ Len(s \o t) = Len(s) + Len(t)
  BY ONLY <1>1, ConcatProperties
<1>3. \A i \in 1 .. Len(s) + Len(t) : (s \o t)[i] = IF i <= Len(s) THEN s[i] ELSE t[i - Len(s)]
  BY ONLY <1>1, ConcatProperties
<1>4. Len(s) \in Nat /\ Len(t) \in Nat
  BY ONLY <1>1
<1>5. ASSUME NEW i \in 1 .. Len(s) PROVE (s \o t)[i] = s[i]
  BY ONLY <1>3, <1>4, i \in 1 .. Len(s)
<1>6. ASSUME NEW i \in 1 .. Len(t) PROVE (s \o t)[Len(s) + i] = t[i]
  <2>1. Len(s) + i \in 1 .. Len(s) + Len(t) /\ ~ (Len(s) + i <= Len(s)) /\ (Len(s) + i) - Len(s) = i
    BY ONLY <1>4, i \in 1 .. Len(t)
  <2> QED
    BY ONLY <1>3, <2>1
<1> QED
  BY <1>2, <1>5, <1>6 DEF Bytes

\* It stands at a place when the one does and the other stands behind it.
LEMMA AtJoined ==
    ASSUME NEW b \in Bytes, NEW offset \in Nat, NEW s \in Bytes, NEW t \in Bytes
    PROVE  At(b, offset, s \o t) <=> At(b, offset, s) /\ At(b, offset + Len(s), t)
<1> DEFINE u == s \o t
<1>1. /\ Len(u) = Len(s) + Len(t)
      /\ \A i \in 1 .. Len(s) : u[i] = s[i]
      /\ \A i \in 1 .. Len(t) : u[Len(s) + i] = t[i]
  BY Joined
<1>2. Len(s) \in Nat /\ Len(t) \in Nat /\ Len(b) \in Nat
  BY DEF Bytes
<1> HIDE DEF u
<1>3. ASSUME At(b, offset, u) PROVE At(b, offset, s) /\ At(b, offset + Len(s), t)
  <2>1. \A i \in 1 .. Len(u) : b[offset + i] = u[i]
    BY ONLY <1>3 DEF At
  <2>2. ASSUME NEW i \in 1 .. Len(s) PROVE b[offset + i] = s[i]
    BY ONLY <1>1, <1>2, <2>1, i \in 1 .. Len(s)
  <2>3. ASSUME NEW i \in 1 .. Len(t) PROVE b[offset + Len(s) + i] = t[i]
    <3>1. Len(s) + i \in 1 .. Len(u) /\ offset + (Len(s) + i) = offset + Len(s) + i
      BY ONLY <1>1, <1>2, i \in 1 .. Len(t), offset \in Nat
    <3>2. b[offset + (Len(s) + i)] = u[Len(s) + i]
      BY ONLY <2>1, <3>1
    <3> QED
      BY ONLY <1>1, <3>1, <3>2, i \in 1 .. Len(t)
  <2>4. offset + Len(s) <= Len(b) /\ offset + Len(s) + Len(t) <= Len(b)
    BY ONLY <1>1, <1>2, <1>3, offset \in Nat DEF At
  <2> QED
    BY ONLY <2>2, <2>3, <2>4 DEF At
<1>4. ASSUME At(b, offset, s), At(b, offset + Len(s), t) PROVE At(b, offset, u)
  <2>1. ASSUME NEW i \in 1 .. Len(u) PROVE b[offset + i] = u[i]
    <3>1. CASE i <= Len(s)
      BY ONLY <1>1, <1>2, <1>4, <3>1, i \in 1 .. Len(u) DEF At
    <3>2. CASE ~ (i <= Len(s))
      <4> DEFINE j == i - Len(s)
      <4>1. j \in 1 .. Len(t) /\ Len(s) + j = i /\ offset + Len(s) + j = offset + i
        BY ONLY <1>1, <1>2, <3>2, i \in 1 .. Len(u), offset \in Nat
      <4> HIDE DEF j
      <4>2. b[offset + Len(s) + j] = t[j]
        BY ONLY <1>4, <4>1 DEF At
      <4> QED
        BY ONLY <1>1, <4>1, <4>2
    <3> QED
      BY <3>1, <3>2
  <2>2. offset + Len(u) <= Len(b)
    BY ONLY <1>1, <1>2, <1>4, offset \in Nat DEF At
  <2> QED
    BY ONLY <2>1, <2>2 DEF At
<1>5. At(b, offset, u) <=> At(b, offset, s) /\ At(b, offset + Len(s), t)
  BY ONLY <1>3, <1>4
<1> QED
  BY ONLY <1>5 DEF u

\* A string is another when it has it at its start and is no longer.
LEMMA Whole ==
    ASSUME NEW b \in Bytes, NEW s \in Bytes
    PROVE  b = s <=> At(b, 0, s) /\ Len(b) = Len(s)
<1>1. ASSUME At(b, 0, s), Len(b) = Len(s) PROVE b = s
  <2>1. \A i \in 1 .. Len(b) : b[i] = s[i]
    BY ONLY <1>1 DEF At
  <2> QED
    BY ONLY <1>1, <2>1, SameBytes, b \in Bytes, s \in Bytes
<1>2. ASSUME b = s PROVE At(b, 0, s)
  <2>1. Len(s) \in Nat
    BY DEF Bytes
  <2> QED
    BY <1>2, <2>1 DEF At
<1> QED
  BY <1>1, <1>2

\* A field behind its length.
LEMMA PrefixedType ==
    ASSUME NEW f \in Bytes
    PROVE  /\ push_bytes(f) \in Bytes
           /\ Len(push_bytes(f)) = LenWidth + Len(f)
<1> DEFINE s == BigEndian(Len(f), LenWidth)
<1>1. LenWidth \in Nat /\ Len(f) \in Nat
  BY WidthAssumption DEF Bytes
<1>2. s \in Bytes /\ Len(s) = LenWidth
  BY ONLY <1>1, BigEndianType
<1>3. push_bytes(f) = s \o f
  BY DEF push_bytes
<1> HIDE DEF s
<1> QED
  BY ONLY <1>2, <1>3, Joined, f \in Bytes

\* A field as push_bytes writes it stands where its length stands and the
\* field behind that.
LEMMA AtPrefixed ==
    ASSUME NEW b \in Bytes, NEW offset \in Nat, NEW f \in Bytes
    PROVE  At(b, offset, push_bytes(f))
               <=> /\ At(b, offset, BigEndian(Len(f), LenWidth))
                   /\ At(b, offset + LenWidth, f)
<1> DEFINE s == BigEndian(Len(f), LenWidth)
<1>1. LenWidth \in Nat /\ Len(f) \in Nat
  BY WidthAssumption DEF Bytes
<1>2. s \in Bytes /\ Len(s) = LenWidth
  BY ONLY <1>1, BigEndianType
<1>3. push_bytes(f) = s \o f
  BY DEF push_bytes
<1> HIDE DEF s
<1>4. At(b, offset, s \o f) <=> At(b, offset, s) /\ At(b, offset + Len(s), f)
  BY ONLY <1>2, AtJoined, b \in Bytes, offset \in Nat, f \in Bytes
<1>5. At(b, offset, push_bytes(f)) <=> At(b, offset, s) /\ At(b, offset + LenWidth, f)
  BY ONLY <1>2, <1>3, <1>4
<1> QED
  BY ONLY <1>5 DEF s

\* What length_prefixed reads at a place is what push_bytes put there.
LEMMA PrefixedReads ==
    ASSUME NEW b \in Bytes, NEW offset \in Nat, NEW f \in Bytes
    PROVE  length_prefixed(b, offset) = f
               <=> FitsPrefix(f) /\ At(b, offset, push_bytes(f))
<1> DEFINE len == Take(b, offset, LenWidth)
           m == FromBigEndian(len)
           behind == offset + LenWidth
<1>1. LenWidth \in Nat /\ Len(f) \in Nat /\ behind \in Nat
  BY WidthAssumption DEF Bytes
<1>2. f # Error
  BY ErrorAssumption
<1>3. len # Error /\ m = Len(f) <=> FitsPrefix(f) /\ At(b, offset, BigEndian(Len(f), LenWidth))
  BY ONLY <1>1, NumberReads, b \in Bytes, offset \in Nat DEF FitsPrefix
<1>4. At(b, offset, push_bytes(f))
        <=> At(b, offset, BigEndian(Len(f), LenWidth)) /\ At(b, behind, f)
  BY AtPrefixed
<1>5. length_prefixed(b, offset) = IF len = Error THEN Error ELSE Take(b, behind, m)
  BY DEF length_prefixed
<1>6. len # Error => m \in Nat
  <2>1. ASSUME len # Error PROVE m \in Nat
    <3>1. len \in Bytes
      BY ONLY <2>1, <1>1, TakeType, b \in Bytes, offset \in Nat
    <3> QED
      BY ONLY <3>1, FromBigEndianType
  <2> QED
    BY <2>1
<1> HIDE DEF len, m, behind
<1>7. m \in Nat => (Take(b, behind, m) = f <=> Len(f) = m /\ At(b, behind, f))
  BY ONLY <1>1, TakeReads, b \in Bytes, f \in Bytes
<1> QED
  BY ONLY <1>2, <1>3, <1>4, <1>5, <1>6, <1>7

\* What Reader::length_prefixed returns is a field of bytes.
LEMMA PrefixedReadType ==
    ASSUME NEW b \in Bytes, NEW offset \in Nat, length_prefixed(b, offset) # Error
    PROVE  length_prefixed(b, offset) \in Bytes
<1> DEFINE len == Take(b, offset, LenWidth)
           m == FromBigEndian(len)
           behind == offset + LenWidth
<1>1. LenWidth \in Nat /\ behind \in Nat
  BY WidthAssumption
<1>2. length_prefixed(b, offset) = IF len = Error THEN Error ELSE Take(b, behind, m)
  BY DEF length_prefixed
<1>3. len # Error
  BY <1>2
<1>4. len \in Bytes
  BY ONLY <1>3, <1>1, TakeType, b \in Bytes, offset \in Nat
<1>5. m \in Nat
  BY ONLY <1>4, FromBigEndianType
<1> HIDE DEF len, m, behind
<1>6. Take(b, behind, m) # Error /\ length_prefixed(b, offset) = Take(b, behind, m)
  BY <1>2, <1>3
<1>7. Take(b, behind, m) \in Bytes
  BY ONLY <1>1, <1>5, <1>6, TakeType, b \in Bytes
<1> QED
  BY ONLY <1>6, <1>7

(***************************************************************************)
(* The layout of a journal                                                 *)
(***************************************************************************)
AgentAt(c) == 2 + Len(OutcomeBytes(c.outcome))
IdAt(c) == AgentAt(c) + LenWidth + Len(c.agent_id)
SenderAt(c) == IdAt(c) + IdWidth
RecipientAt(c) == SenderAt(c) + LenWidth + Len(c.sender)
KindAt(c) == RecipientAt(c) + LenWidth + Len(c.recipient)
TokenAt(c) == KindAt(c) + 1
AmountAt(c) == TokenAt(c) + LenWidth + Len(c.asset_token)
ConditionAt(c) == AmountAt(c) + AmountWidth

\* The part that is read from the agent's id on.
Body(b, c) ==
    /\ At(b, AgentAt(c), push_bytes(c.agent_id))
    /\ At(b, IdAt(c), BigEndian(c.escrow_id, IdWidth))
    /\ At(b, SenderAt(c), push_bytes(c.sender))
    /\ At(b, RecipientAt(c), push_bytes(c.recipient))
    /\ At(b, KindAt(c), <<asset_kind_tag(c.asset_kind)>>)
    /\ At(b, TokenAt(c), push_bytes(c.asset_token))
    /\ At(b, AmountAt(c), BigEndian(c.amount, AmountWidth))
    /\ At(b, ConditionAt(c), <<c.condition>>)
    /\ Len(b) = ConditionAt(c) + 1

Layout(b, c) ==
    /\ At(b, 0, <<1, chain_tag(c.chain)>>)
    /\ At(b, 2, OutcomeBytes(c.outcome))
    /\ Body(b, c)

\* What to_journal_bytes refuses to truncate.
Encodable(c) ==
    /\ FitsPrefix(c.agent_id) /\ FitsPrefix(c.sender)
    /\ FitsPrefix(c.recipient) /\ FitsPrefix(c.asset_token)
    /\ Fits(c.amount, AmountWidth)

\* The fields of a commitment, and the places they start at.
LEMMA FieldTypes ==
    ASSUME NEW c \in Commitment(Nat)
    PROVE  /\ c.agent_id \in Bytes /\ c.sender \in Bytes
           /\ c.recipient \in Bytes /\ c.asset_token \in Bytes
           /\ c.escrow_id \in Nat /\ c.amount \in Nat /\ c.condition \in Byte
           /\ asset_kind_tag(c.asset_kind) \in Byte
           /\ OutcomeBytes(c.outcome) \in Bytes
           /\ Len(OutcomeBytes(c.outcome)) \in {1, 2}
           /\ <<1, chain_tag(c.chain)>> \in Bytes
<1>1. 0 \in Byte /\ 1 \in Byte /\ 2 \in Byte
  BY WidthAssumption DEF Byte
<1>2. /\ c.agent_id \in Bytes /\ c.sender \in Bytes
      /\ c.recipient \in Bytes /\ c.asset_token \in Bytes
      /\ c.escrow_id \in Nat /\ c.amount \in Nat /\ c.condition \in Byte
      /\ c.outcome \in States \cup {"Failure"}
  BY DEF Commitment
<1>3. asset_kind_tag(c.asset_kind) \in Byte /\ chain_tag(c.chain) \in Byte
  BY <1>1 DEF asset_kind_tag, chain_tag
<1>4. <<1, chain_tag(c.chain)>> \in Bytes
  BY ONLY <1>1, <1>3 DEF Bytes
<1>5. CASE c.outcome = "Failure"
  <2>1. OutcomeBytes(c.outcome) = <<0>>
    BY <1>5 DEF OutcomeBytes
  <2>2. <<0>> \in Bytes /\ Len(<<0>>) = 1
    BY ONLY <1>1 DEF Bytes
  <2> QED
    BY ONLY <1>2, <1>3, <1>4, <2>1, <2>2
<1>6. CASE c.outcome # "Failure"
  <2>1. OutcomeBytes(c.outcome) = <<1, state_tag(c.outcome)>>
    BY <1>6 DEF OutcomeBytes
  <2>2. state_tag(c.outcome) \in Byte
    BY ONLY <1>1, <1>2, <1>6 DEF state_tag, States
  <2>3. <<1, state_tag(c.outcome)>> \in Bytes /\ Len(<<1, state_tag(c.outcome)>>) = 2
    BY ONLY <1>1, <2>2 DEF Bytes
  <2> QED
    BY ONLY <1>2, <1>3, <1>4, <2>1, <2>3
<1> QED
  BY <1>5, <1>6

\* The places of a commitment's fields are natural numbers.
LEMMA PlaceTypes ==
    ASSUME NEW c \in Commitment(Nat)
    PROVE  /\ AgentAt(c) \in Nat /\ IdAt(c) \in Nat /\ SenderAt(c) \in Nat
           /\ RecipientAt(c) \in Nat /\ KindAt(c) \in Nat /\ TokenAt(c) \in Nat
           /\ AmountAt(c) \in Nat /\ ConditionAt(c) \in Nat
<1>1. /\ Len(c.agent_id) \in Nat /\ Len(c.sender) \in Nat
      /\ Len(c.recipient) \in Nat /\ Len(c.asset_token) \in Nat
      /\ Len(OutcomeBytes(c.outcome)) \in Nat
  <2>1. /\ c.agent_id \in Bytes /\ c.sender \in Bytes
        /\ c.recipient \in Bytes /\ c.asset_token \in Bytes
        /\ Len(OutcomeBytes(c.outcome)) \in {1, 2}
    BY FieldTypes
  <2> QED
    BY ONLY <2>1 DEF Bytes
<1>2. LenWidth \in Nat /\ IdWidth \in Nat /\ AmountWidth \in Nat
  BY WidthAssumption
<1>3. AgentAt(c) \in Nat
  BY ONLY <1>1 DEF AgentAt
<1>4. IdAt(c) \in Nat
  BY ONLY <1>1, <1>2, <1>3 DEF IdAt
<1>5. SenderAt(c) \in Nat
  BY ONLY <1>2, <1>4 DEF SenderAt
<1>6. RecipientAt(c) \in Nat
  BY ONLY <1>1, <1>2, <1>5 DEF RecipientAt
<1>7. KindAt(c) \in Nat
  BY ONLY <1>1, <1>2, <1>6 DEF KindAt
<1>8. TokenAt(c) \in Nat
  BY ONLY <1>7 DEF TokenAt
<1>9. AmountAt(c) \in Nat
  BY ONLY <1>1, <1>2, <1>8 DEF AmountAt
<1>10. ConditionAt(c) \in Nat
  BY ONLY <1>2, <1>9 DEF ConditionAt
<1> QED
  BY ONLY <1>3, <1>4, <1>5, <1>6, <1>7, <1>8, <1>9, <1>10

\* A single byte at a place.
LEMMA AtByte ==
    ASSUME NEW b \in Bytes, NEW offset \in Nat, NEW x \in Byte
    PROVE  /\ <<x>> \in Bytes /\ Len(<<x>>) = 1
           /\ At(b, offset, <<x>>) <=> offset + 1 <= Len(b) /\ b[offset + 1] = x
<1>1. <<x>> \in Bytes /\ Len(<<x>>) = 1
  BY DEF Bytes
<1>2. <<x>>[1] = x
  OBVIOUS
<1> DEFINE s == <<x>>
<1> HIDE DEF s
<1>3. Len(s) = 1 /\ s[1] = x
  BY <1>1, <1>2 DEF s
<1>4. At(b, offset, s) <=> offset + 1 <= Len(b) /\ b[offset + 1] = x
  BY ONLY <1>3 DEF At
<1> QED
  BY <1>1, <1>4 DEF s

\* A string grows at its end.
LEMMA Appended ==
    ASSUME NEW b \in Bytes, NEW s \in Bytes, NEW t \in Bytes
    PROVE  /\ s \o t \in Bytes
           /\ Len(s \o t) = Len(s) + Len(t)
           /\ At(b, 0, s \o t) <=> At(b, 0, s) /\ At(b, Len(s), t)
<1>1. s \o t \in Bytes /\ Len(s \o t) = Len(s) + Len(t)
  BY Joined
<1>2. At(b, 0, s \o t) <=> At(b, 0, s) /\ At(b, 0 + Len(s), t)
  BY AtJoined
<1>3. 0 + Len(s) = Len(s)
  BY DEF Bytes
<1> QED
  BY <1>1, <1>2, <1>3

(***************************************************************************)
(* The encoder writes the layout                                           *)
(***************************************************************************)
Encoding(c) ==
    <<1, chain_tag(c.chain)>> \o OutcomeBytes(c.outcome)
        \o push_bytes(c.agent_id) \o BigEndian(c.escrow_id, IdWidth)
        \o push_bytes(c.sender) \o push_bytes(c.recipient)
        \o <<asset_kind_tag(c.asset_kind)>> \o push_bytes(c.asset_token)
        \o BigEndian(c.amount, AmountWidth) \o <<c.condition>>

\* Bytes are the concatenation to_journal_bytes makes exactly when each
\* field stands at its place and nothing follows.
LEMMA EncodingReads ==
    ASSUME NEW c \in Commitment(Nat), NEW b \in Bytes
    PROVE  /\ Encoding(c) \in Bytes
           /\ b = Encoding(c) <=> Layout(b, c)
<1> DEFINE t0 == <<1, chain_tag(c.chain)>>
           t1 == OutcomeBytes(c.outcome)
           t2 == push_bytes(c.agent_id)
           t3 == BigEndian(c.escrow_id, IdWidth)
           t4 == push_bytes(c.sender)
           t5 == push_bytes(c.recipient)
           t6 == <<asset_kind_tag(c.asset_kind)>>
           t7 == push_bytes(c.asset_token)
           t8 == BigEndian(c.amount, AmountWidth)
           t9 == <<c.condition>>
           s1 == t0 \o t1
           s2 == s1 \o t2
           s3 == s2 \o t3
           s4 == s3 \o t4
           s5 == s4 \o t5
           s6 == s5 \o t6
           s7 == s6 \o t7
           s8 == s7 \o t8
           s9 == s8 \o t9
<1>1. Encoding(c) = s9
  BY DEF Encoding
<1>2. IdWidth \in Nat /\ AmountWidth \in Nat
  BY WidthAssumption
<1>3. t0 \in Bytes /\ t1 \in Bytes /\ Len(t0) = 2
  <2>1. t0 \in Bytes /\ t1 \in Bytes
    BY FieldTypes
  <2> QED
    BY <2>1
<1>4. t2 \in Bytes /\ Len(t2) = LenWidth + Len(c.agent_id)
  BY FieldTypes, PrefixedType
<1>5. t3 \in Bytes /\ Len(t3) = IdWidth
  BY <1>2, FieldTypes, BigEndianType
<1>6. t4 \in Bytes /\ Len(t4) = LenWidth + Len(c.sender)
  BY FieldTypes, PrefixedType
<1>7. t5 \in Bytes /\ Len(t5) = LenWidth + Len(c.recipient)
  BY FieldTypes, PrefixedType
<1>8. t6 \in Bytes /\ Len(t6) = 1
  <2>1. asset_kind_tag(c.asset_kind) \in Byte
    BY FieldTypes
  <2> QED
    BY ONLY <2>1 DEF Bytes
<1>9. t7 \in Bytes /\ Len(t7) = LenWidth + Len(c.asset_token)
  BY FieldTypes, PrefixedType
<1>10. t8 \in Bytes /\ Len(t8) = AmountWidth
  BY <1>2, FieldTypes, BigEndianType
<1>11. t9 \in Bytes /\ Len(t9) = 1
  <2>1. c.condition \in Byte
    BY FieldTypes
  <2> QED
    BY ONLY <2>1 DEF Bytes
<1>12. Layout(b, c) <=>
          /\ At(b, 0, t0) /\ At(b, 2, t1)
          /\ At(b, AgentAt(c), t2) /\ At(b, IdAt(c), t3)
          /\ At(b, SenderAt(c), t4) /\ At(b, RecipientAt(c), t5)
          /\ At(b, KindAt(c), t6) /\ At(b, TokenAt(c), t7)
          /\ At(b, AmountAt(c), t8) /\ At(b, ConditionAt(c), t9)
          /\ Len(b) = ConditionAt(c) + 1
  BY DEF Layout, Body
<1>13. /\ LenWidth \in Nat
       /\ Len(c.agent_id) \in Nat /\ Len(c.sender) \in Nat
       /\ Len(c.recipient) \in Nat /\ Len(c.asset_token) \in Nat
  <2>1. /\ c.agent_id \in Bytes /\ c.sender \in Bytes
        /\ c.recipient \in Bytes /\ c.asset_token \in Bytes
    BY FieldTypes
  <2> QED
    BY <2>1, WidthAssumption DEF Bytes
<1>14. AgentAt(c) = 2 + Len(t1)
  BY DEF AgentAt
<1> HIDE DEF t0, t1, t2, t3, t4, t5, t6, t7, t8, t9
<1>21. s1 \in Bytes /\ Len(s1) = AgentAt(c) /\ (At(b, 0, s1) <=> At(b, 0, t0) /\ At(b, 2, t1))
  <2>1. s1 \in Bytes /\ Len(s1) = Len(t0) + Len(t1)
          /\ (At(b, 0, s1) <=> At(b, 0, t0) /\ At(b, Len(t0), t1))
    BY ONLY <1>3, Appended, b \in Bytes
  <2> HIDE DEF s1
  <2> QED
    BY ONLY <1>3, <1>14, <2>1
<1> HIDE DEF s1
<1>22. s2 \in Bytes /\ Len(s2) = IdAt(c)
         /\ (At(b, 0, s2) <=> At(b, 0, s1) /\ At(b, AgentAt(c), t2))
  <2>1. s2 \in Bytes /\ Len(s2) = Len(s1) + Len(t2)
          /\ (At(b, 0, s2) <=> At(b, 0, s1) /\ At(b, Len(s1), t2))
    BY ONLY <1>4, <1>21, Appended, b \in Bytes
  <2>2. AgentAt(c) \in Nat /\ IdAt(c) = AgentAt(c) + LenWidth + Len(c.agent_id)
    BY PlaceTypes DEF IdAt
  <2> HIDE DEF s2
  <2> QED
    BY ONLY <1>4, <1>13, <1>21, <2>1, <2>2
<1> HIDE DEF s2
<1>23. s3 \in Bytes /\ Len(s3) = SenderAt(c)
         /\ (At(b, 0, s3) <=> At(b, 0, s2) /\ At(b, IdAt(c), t3))
  <2>1. s3 \in Bytes /\ Len(s3) = Len(s2) + Len(t3)
          /\ (At(b, 0, s3) <=> At(b, 0, s2) /\ At(b, Len(s2), t3))
    BY ONLY <1>5, <1>22, Appended, b \in Bytes
  <2> HIDE DEF s3
  <2> QED
    BY ONLY <1>5, <1>22, <2>1 DEF SenderAt
<1> HIDE DEF s3
<1>24. s4 \in Bytes /\ Len(s4) = RecipientAt(c)
         /\ (At(b, 0, s4) <=> At(b, 0, s3) /\ At(b, SenderAt(c), t4))
  <2>1. s4 \in Bytes /\ Len(s4) = Len(s3) + Len(t4)
          /\ (At(b, 0, s4) <=> At(b, 0, s3) /\ At(b, Len(s3), t4))
    BY ONLY <1>6, <1>23, Appended, b \in Bytes
  <2>2. SenderAt(c) \in Nat /\ RecipientAt(c) = SenderAt(c) + LenWidth + Len(c.sender)
    BY PlaceTypes DEF RecipientAt
  <2> HIDE DEF s4
  <2> QED
    BY ONLY <1>6, <1>13, <1>23, <2>1, <2>2
<1> HIDE DEF s4
<1>25. s5 \in Bytes /\ Len(s5) = KindAt(c)
         /\ (At(b, 0, s5) <=> At(b, 0, s4) /\ At(b, RecipientAt(c), t5))
  <2>1. s5 \in Bytes /\ Len(s5) = Len(s4) + Len(t5)
          /\ (At(b, 0, s5) <=> At(b, 0, s4) /\ At(b, Len(s4), t5))
    BY ONLY <1>7, <1>24, Appended, b \in Bytes
  <2>2. RecipientAt(c) \in Nat /\ KindAt(c) = RecipientAt(c) + LenWidth + Len(c.recipient)
    BY PlaceTypes DEF KindAt
  <2> HIDE DEF s5
  <2> QED
    BY ONLY <1>7, <1>13, <1>24, <2>1, <2>2
<1> HIDE DEF s5
<1>26. s6 \in Bytes /\ Len(s6) = TokenAt(c)
         /\ (At(b, 0, s6) <=> At(b, 0, s5) /\ At(b, KindAt(c), t6))
  <2>1. s6 \in Bytes /\ Len(s6) = Len(s5) + Len(t6)
          /\ (At(b, 0, s6) <=> At(b, 0, s5) /\ At(b, Len(s5), t6))
    BY ONLY <1>8, <1>25, Appended, b \in Bytes
  <2> HIDE DEF s6
  <2> QED
    BY ONLY <1>8, <1>25, <2>1 DEF TokenAt
<1> HIDE DEF s6
<1>27. s7 \in Bytes /\ Len(s7) = AmountAt(c)
         /\ (At(b, 0, s7) <=> At(b, 0, s6) /\ At(b, TokenAt(c), t7))
  <2>1. s7 \in Bytes /\ Len(s7) = Len(s6) + Len(t7)
          /\ (At(b, 0, s7) <=> At(b, 0, s6) /\ At(b, Len(s6), t7))
    BY ONLY <1>9, <1>26, Appended, b \in Bytes
  <2>2. TokenAt(c) \in Nat /\ AmountAt(c) = TokenAt(c) + LenWidth + Len(c.asset_token)
    BY PlaceTypes DEF AmountAt
  <2> HIDE DEF s7
  <2> QED
    BY ONLY <1>9, <1>13, <1>26, <2>1, <2>2
<1> HIDE DEF s7
<1>28. s8 \in Bytes /\ Len(s8) = ConditionAt(c)
         /\ (At(b, 0, s8) <=> At(b, 0, s7) /\ At(b, AmountAt(c), t8))
  <2>1. s8 \in Bytes /\ Len(s8) = Len(s7) + Len(t8)
          /\ (At(b, 0, s8) <=> At(b, 0, s7) /\ At(b, Len(s7), t8))
    BY ONLY <1>10, <1>27, Appended, b \in Bytes
  <2> HIDE DEF s8
  <2> QED
    BY ONLY <1>10, <1>27, <2>1 DEF ConditionAt
<1> HIDE DEF s8
<1>29. s9 \in Bytes /\ Len(s9) = ConditionAt(c) + 1
         /\ (At(b, 0, s9) <=> At(b, 0, s8) /\ At(b, ConditionAt(c), t9))
  <2>1. s9 \in Bytes /\ Len(s9) = Len(s8) + Len(t9)
          /\ (At(b, 0, s9) <=> At(b, 0, s8) /\ At(b, Len(s8), t9))
    BY ONLY <1>11, <1>28, Appended, b \in Bytes
  <2> HIDE DEF s9
  <2> QED
    BY ONLY <1>11, <1>28, <2>1
<1> HIDE DEF s9
<1>30. b = s9 <=> At(b, 0, s9) /\ Len(b) = Len(s9)
  BY ONLY <1>29, Whole, b \in Bytes
<1>31. b = s9 <=> Layout(b, c)
  BY ONLY <1>12, <1>21, <1>22, <1>23, <1>24, <1>25, <1>26, <1>27, <1>28, <1>29, <1>30
<1> QED
  BY ONLY <1>1, <1>29, <1>31

\* The journal of a commitment is its layout, or there is none.
LEMMA Encodes ==
    ASSUME NEW c \in Commitment(Nat), NEW b \in Bytes
    PROVE  /\ to_journal_bytes(c) \in Bytes \cup {Error}
           /\ to_journal_bytes(c) # Error <=> Encodable(c)
           /\ to_journal_bytes(c) = b <=> Encodable(c) /\ Layout(b, c)
<1>1. to_journal_bytes(c) = IF Encodable(c) THEN Encoding(c) ELSE Error
  <2>1. (/\ \A field \in {c.agent_id, c.sender, c.recipient, c.asset_token} : FitsPrefix(field)
         /\ Fits(c.amount, AmountWidth)) <=> Encodable(c)
    BY ONLY DEF Encodable
  <2>2. CASE Encodable(c)
    <3>1. to_journal_bytes(c) = Encoding(c)
      BY ONLY <2>1, <2>2 DEF to_journal_bytes, Encoding
    <3> QED
      BY ONLY <2>2, <3>1
  <2>3. CASE ~ Encodable(c)
    <3>1. to_journal_bytes(c) = Error
      BY ONLY <2>1, <2>3 DEF to_journal_bytes
    <3> QED
      BY ONLY <2>3, <3>1
  <2> QED
    BY ONLY <2>2, <2>3
<1>2. Encoding(c) \in Bytes /\ (b = Encoding(c) <=> Layout(b, c))
  BY EncodingReads
<1>3. Error \notin Bytes
  BY ErrorAssumption
<1> QED
  BY ONLY <1>1, <1>2, <1>3, b \in Bytes

(***************************************************************************)
(* The decoder reads the layout                                            *)
(***************************************************************************)

\* The byte of the asset's kind and the last byte, as the decoder reads them.
LEMMA KindReads ==
    ASSUME NEW b \in Bytes, NEW offset \in Nat, NEW kind \in {"Native", "Token"}
    PROVE  /\ TagIn(b, offset, {0, 1})
           /\ (IF b[offset + 1] = 0 THEN "Native" ELSE "Token") = kind
           <=> At(b, offset, <<asset_kind_tag(kind)>>)
<1>1. {0, 1} \in SUBSET Byte
  BY WidthAssumption DEF Byte
<1>2. TagIn(b, offset, {0, 1}) <=> offset + 1 <= Len(b) /\ b[offset + 1] \in {0, 1}
  BY ONLY <1>1, TagReads, b \in Bytes, offset \in Nat
<1>3. asset_kind_tag(kind) = IF kind = "Native" THEN 0 ELSE 1
  BY DEF asset_kind_tag
<1>4. asset_kind_tag(kind) \in Byte
  BY ONLY <1>1, <1>3
<1>5. At(b, offset, <<asset_kind_tag(kind)>>)
        <=> offset + 1 <= Len(b) /\ b[offset + 1] = asset_kind_tag(kind)
  BY ONLY <1>4, AtByte, b \in Bytes, offset \in Nat
<1> QED
  BY ONLY <1>2, <1>3, <1>5, kind \in {"Native", "Token"}

\* The decoder's last read, the condition, and finish succeed exactly when
\* its byte is the last of the journal.
LEMMA LastReads ==
    ASSUME NEW b \in Bytes, NEW offset \in Nat, NEW x \in Byte
    PROVE  Take(b, offset, 1) # Error /\ finish(b, offset + 1) /\ b[offset + 1] = x
             <=> At(b, offset, <<x>>) /\ Len(b) = offset + 1
<1>1. At(b, offset, <<x>>) <=> offset + 1 <= Len(b) /\ b[offset + 1] = x
  BY AtByte
<1>2. offset + 1 <= Len(b) => Take(b, offset, 1) # Error
  <2>1. ASSUME offset + 1 <= Len(b) PROVE Take(b, offset, 1) # Error
    <3>1. Take(b, offset, 1) = SubSeq(b, offset + 1, offset + 1)
      BY <2>1 DEF Take
    <3>2. SubSeq(b, offset + 1, offset + 1) \in Bytes
      BY ONLY <2>1, Slice, b \in Bytes, offset \in Nat, 1 \in Nat
    <3> QED
      BY ONLY <3>1, <3>2, ErrorAssumption
  <2> QED
    BY <2>1
<1>3. Len(b) \in Nat
  BY DEF Bytes
<1> QED
  BY ONLY <1>1, <1>2, <1>3, offset \in Nat DEF finish

\* DecodedFrom returns a commitment exactly when the commitment has its
\* layout behind the outcome byte it is called for.
LEMMA DecodedReads ==
    ASSUME NEW b \in Bytes, NEW c \in PublicCommitment, NEW chain, NEW outcome
    PROVE  DecodedFrom(b, AgentAt(c), chain, outcome) = c
             <=> chain = c.chain /\ outcome = c.outcome /\ Encodable(c) /\ Body(b, c)
<1> DEFINE agent     == length_prefixed(b, AgentAt(c))
           id_at     == AgentAt(c) + LenWidth + Len(agent)
           id        == Take(b, id_at, IdWidth)
           sender_at == id_at + IdWidth
           sender    == length_prefixed(b, sender_at)
           recip_at  == sender_at + LenWidth + Len(sender)
           recip     == length_prefixed(b, recip_at)
           kind_at   == recip_at + LenWidth + Len(recip)
           token     == length_prefixed(b, kind_at + 1)
           amount_at == kind_at + 1 + LenWidth + Len(token)
           amount    == Take(b, amount_at, AmountWidth)
           cond_at   == amount_at + AmountWidth
           kind      == IF b[kind_at + 1] = 0 THEN "Native" ELSE "Token"
           Read      == /\ agent # Error /\ id # Error /\ sender # Error /\ recip # Error
                        /\ TagIn(b, kind_at, {0, 1}) /\ token # Error /\ amount # Error
                        /\ Take(b, cond_at, 1) # Error /\ finish(b, cond_at + 1)
           value     == [chain |-> chain, outcome |-> outcome, agent_id |-> agent,
                         escrow_id |-> FromBigEndian(id), sender |-> sender,
                         recipient |-> recip, asset_kind |-> kind,
                         asset_token |-> token, amount |-> FromBigEndian(amount),
                         condition |-> b[cond_at + 1]]
<1>1. DecodedFrom(b, AgentAt(c), chain, outcome) = IF Read THEN value ELSE Error
  BY DEF DecodedFrom
<1>2. c \in Commitment(Nat) /\ Fits(c.escrow_id, IdWidth)
  BY DEF PublicCommitment, Commitment, Numbers
<1>3. /\ c.agent_id \in Bytes /\ c.sender \in Bytes
      /\ c.recipient \in Bytes /\ c.asset_token \in Bytes
      /\ c.escrow_id \in Nat /\ c.amount \in Nat /\ c.condition \in Byte
  BY ONLY <1>2, FieldTypes
<1>4. c.asset_kind \in {"Native", "Token"}
  BY ONLY <1>2 DEF Commitment
<1>5. /\ AgentAt(c) \in Nat /\ IdAt(c) \in Nat /\ SenderAt(c) \in Nat
      /\ RecipientAt(c) \in Nat /\ KindAt(c) \in Nat /\ TokenAt(c) \in Nat
      /\ AmountAt(c) \in Nat /\ ConditionAt(c) \in Nat
  BY ONLY <1>2, PlaceTypes
<1>6. IdWidth \in Nat /\ AmountWidth \in Nat
  BY WidthAssumption
<1>7. Error # c /\ Error \notin Bytes
  BY ONLY <1>2, ErrorAssumption
<1>8. value = c <=> /\ chain = c.chain /\ outcome = c.outcome
                    /\ agent = c.agent_id /\ FromBigEndian(id) = c.escrow_id
                    /\ sender = c.sender /\ recip = c.recipient
                    /\ kind = c.asset_kind /\ token = c.asset_token
                    /\ FromBigEndian(amount) = c.amount
                    /\ b[cond_at + 1] = c.condition
  <2> HIDE DEF agent, id, sender, recip, kind, token, amount, cond_at
  <2> QED
    BY ONLY <1>2 DEF Commitment
<1> HIDE DEF value
\* One field after the other: those before it say where it is.
<1>11. agent = c.agent_id <=> FitsPrefix(c.agent_id) /\ At(b, AgentAt(c), push_bytes(c.agent_id))
  BY ONLY <1>3, <1>5, PrefixedReads, b \in Bytes
<1>12. agent = c.agent_id => id_at = IdAt(c) /\ sender_at = SenderAt(c)
  <2> HIDE DEF agent
  <2> QED
    BY ONLY DEF IdAt, SenderAt
<1> HIDE DEF agent, id_at, sender_at
<1>13. agent = c.agent_id =>
          (id # Error /\ FromBigEndian(id) = c.escrow_id
             <=> At(b, IdAt(c), BigEndian(c.escrow_id, IdWidth)))
  <2> DEFINE there == Take(b, IdAt(c), IdWidth)
  <2>1. there # Error /\ FromBigEndian(there) = c.escrow_id
          <=> Fits(c.escrow_id, IdWidth) /\ At(b, IdAt(c), BigEndian(c.escrow_id, IdWidth))
    BY ONLY <1>3, <1>5, <1>6, NumberReads, b \in Bytes
  <2>2. agent = c.agent_id => id = there
    BY ONLY <1>12
  <2> HIDE DEF there, id
  <2> QED
    BY ONLY <1>2, <2>1, <2>2
<1>14. agent = c.agent_id =>
          (sender = c.sender
             <=> FitsPrefix(c.sender) /\ At(b, SenderAt(c), push_bytes(c.sender)))
  <2>1. length_prefixed(b, SenderAt(c)) = c.sender
          <=> FitsPrefix(c.sender) /\ At(b, SenderAt(c), push_bytes(c.sender))
    BY ONLY <1>3, <1>5, PrefixedReads, b \in Bytes
  <2> QED
    BY ONLY <1>12, <2>1
<1>15. agent = c.agent_id /\ sender = c.sender => recip_at = RecipientAt(c)
  <2> HIDE DEF sender
  <2> QED
    BY ONLY <1>12 DEF RecipientAt
<1> HIDE DEF id, sender, recip_at
<1>16. agent = c.agent_id /\ sender = c.sender =>
          (recip = c.recipient
             <=> FitsPrefix(c.recipient) /\ At(b, RecipientAt(c), push_bytes(c.recipient)))
  <2>1. length_prefixed(b, RecipientAt(c)) = c.recipient
          <=> FitsPrefix(c.recipient) /\ At(b, RecipientAt(c), push_bytes(c.recipient))
    BY ONLY <1>3, <1>5, PrefixedReads, b \in Bytes
  <2> QED
    BY ONLY <1>15, <2>1
<1>17. agent = c.agent_id /\ sender = c.sender /\ recip = c.recipient
          => kind_at = KindAt(c) /\ kind_at + 1 = TokenAt(c)
  <2> HIDE DEF recip
  <2> QED
    BY ONLY <1>15 DEF KindAt, TokenAt
<1> HIDE DEF recip, kind_at
<1>18. agent = c.agent_id /\ sender = c.sender /\ recip = c.recipient =>
          (TagIn(b, kind_at, {0, 1}) /\ kind = c.asset_kind
             <=> At(b, KindAt(c), <<asset_kind_tag(c.asset_kind)>>))
  <2>1. TagIn(b, KindAt(c), {0, 1})
          /\ (IF b[KindAt(c) + 1] = 0 THEN "Native" ELSE "Token") = c.asset_kind
          <=> At(b, KindAt(c), <<asset_kind_tag(c.asset_kind)>>)
    BY ONLY <1>4, <1>5, KindReads, b \in Bytes
  <2> QED
    BY ONLY <1>17, <2>1
<1>19. agent = c.agent_id /\ sender = c.sender /\ recip = c.recipient =>
          (token = c.asset_token
             <=> FitsPrefix(c.asset_token) /\ At(b, TokenAt(c), push_bytes(c.asset_token)))
  <2>1. length_prefixed(b, TokenAt(c)) = c.asset_token
          <=> FitsPrefix(c.asset_token) /\ At(b, TokenAt(c), push_bytes(c.asset_token))
    BY ONLY <1>3, <1>5, PrefixedReads, b \in Bytes
  <2> QED
    BY ONLY <1>17, <2>1
<1> DEFINE Before == /\ agent = c.agent_id /\ sender = c.sender
                     /\ recip = c.recipient /\ token = c.asset_token
<1>20. Before => amount_at = AmountAt(c) /\ cond_at = ConditionAt(c)
  <2> HIDE DEF token
  <2> QED
    BY ONLY <1>17 DEF AmountAt, ConditionAt, TokenAt
<1> HIDE DEF kind, token, amount_at, cond_at
<1>21. Before =>
          (amount # Error /\ FromBigEndian(amount) = c.amount
             <=> Fits(c.amount, AmountWidth)
                   /\ At(b, AmountAt(c), BigEndian(c.amount, AmountWidth)))
  <2> DEFINE there == Take(b, AmountAt(c), AmountWidth)
  <2>1. there # Error /\ FromBigEndian(there) = c.amount
          <=> Fits(c.amount, AmountWidth) /\ At(b, AmountAt(c), BigEndian(c.amount, AmountWidth))
    BY ONLY <1>3, <1>5, <1>6, NumberReads, b \in Bytes
  <2>2. Before => amount = there
    BY ONLY <1>20
  <2> HIDE DEF there, amount
  <2> QED
    BY ONLY <2>1, <2>2
<1>22. Before =>
          (Take(b, cond_at, 1) # Error /\ finish(b, cond_at + 1) /\ b[cond_at + 1] = c.condition
             <=> At(b, ConditionAt(c), <<c.condition>>) /\ Len(b) = ConditionAt(c) + 1)
  <2>1. Take(b, ConditionAt(c), 1) # Error /\ finish(b, ConditionAt(c) + 1)
          /\ b[ConditionAt(c) + 1] = c.condition
          <=> At(b, ConditionAt(c), <<c.condition>>) /\ Len(b) = ConditionAt(c) + 1
    BY ONLY <1>3, <1>5, LastReads, b \in Bytes
  <2> HIDE DEF Before
  <2> QED
    BY ONLY <1>20, <2>1
<1> HIDE DEF amount
<1>23. Before => agent # Error /\ sender # Error /\ recip # Error /\ token # Error
  BY ONLY <1>3, <1>7
<1>24. DecodedFrom(b, AgentAt(c), chain, outcome) = c <=> Read /\ value = c
  <2> HIDE DEF Read
  <2> QED
    BY ONLY <1>1, <1>7
<1>25. Read /\ value = c => chain = c.chain /\ outcome = c.outcome /\ Encodable(c) /\ Body(b, c)
  <2> SUFFICES ASSUME Read, value = c
               PROVE  chain = c.chain /\ outcome = c.outcome /\ Encodable(c) /\ Body(b, c)
    OBVIOUS
  <2>1. Before /\ chain = c.chain /\ outcome = c.outcome
    BY ONLY <1>8, value = c
  <2>2. Encodable(c)
    BY ONLY <2>1, <1>8, <1>11, <1>14, <1>16, <1>19, <1>21, Read, value = c DEF Encodable
  <2>3. Body(b, c)
    BY ONLY <2>1, <1>8, <1>11, <1>13, <1>14, <1>16, <1>18, <1>19, <1>21, <1>22, Read, value = c
       DEF Body
  <2> QED
    BY ONLY <2>1, <2>2, <2>3
<1>26. chain = c.chain /\ outcome = c.outcome /\ Encodable(c) /\ Body(b, c) => Read /\ value = c
  <2> SUFFICES ASSUME chain = c.chain, outcome = c.outcome, Encodable(c), Body(b, c)
               PROVE  Read /\ value = c
    OBVIOUS
  <2>1. agent = c.agent_id
    BY ONLY <1>11, Encodable(c), Body(b, c) DEF Encodable, Body
  <2>2. sender = c.sender
    BY ONLY <2>1, <1>14, Encodable(c), Body(b, c) DEF Encodable, Body
  <2>3. recip = c.recipient
    BY ONLY <2>1, <2>2, <1>16, Encodable(c), Body(b, c) DEF Encodable, Body
  <2>4. token = c.asset_token
    BY ONLY <2>1, <2>2, <2>3, <1>19, Encodable(c), Body(b, c) DEF Encodable, Body
  <2>5. id # Error /\ FromBigEndian(id) = c.escrow_id
    BY ONLY <2>1, <1>13, Body(b, c) DEF Body
  <2>6. TagIn(b, kind_at, {0, 1}) /\ kind = c.asset_kind
    BY ONLY <2>1, <2>2, <2>3, <1>18, Body(b, c) DEF Body
  <2>7. Before
    BY ONLY <2>1, <2>2, <2>3, <2>4
  <2>8. amount # Error /\ FromBigEndian(amount) = c.amount
    BY ONLY <2>7, <1>21, Encodable(c), Body(b, c) DEF Encodable, Body
  <2>9. Take(b, cond_at, 1) # Error /\ finish(b, cond_at + 1) /\ b[cond_at + 1] = c.condition
    BY ONLY <2>7, <1>22, Body(b, c) DEF Body
  <2>10. Read
    BY ONLY <1>23, <2>5, <2>6, <2>7, <2>8, <2>9
  <2>11. value = c
    BY ONLY <1>8, <2>1, <2>2, <2>3, <2>4, <2>5, <2>6, <2>8, <2>9, chain = c.chain, outcome = c.outcome
  <2> QED
    BY ONLY <2>10, <2>11
<1> HIDE DEF Read, Before
<1> QED
  BY ONLY <1>24, <1>25, <1>26

\* What DecodedFrom returns is a commitment, of the chain and the outcome
\* it is called for.
LEMMA DecodedType ==
    ASSUME NEW b \in Bytes, NEW offset \in Nat,
           NEW chain \in {"Ethereum", "Solana"}, NEW outcome \in States \cup {"Failure"},
           DecodedFrom(b, offset, chain, outcome) # Error
    PROVE  /\ DecodedFrom(b, offset, chain, outcome) \in PublicCommitment
           /\ DecodedFrom(b, offset, chain, outcome).chain = chain
           /\ DecodedFrom(b, offset, chain, outcome).outcome = outcome
<1> DEFINE agent     == length_prefixed(b, offset)
           id_at     == offset + LenWidth + Len(agent)
           id        == Take(b, id_at, IdWidth)
           sender_at == id_at + IdWidth
           sender    == length_prefixed(b, sender_at)
           recip_at  == sender_at + LenWidth + Len(sender)
           recip     == length_prefixed(b, recip_at)
           kind_at   == recip_at + LenWidth + Len(recip)
           token     == length_prefixed(b, kind_at + 1)
           amount_at == kind_at + 1 + LenWidth + Len(token)
           amount    == Take(b, amount_at, AmountWidth)
           cond_at   == amount_at + AmountWidth
           kind      == IF b[kind_at + 1] = 0 THEN "Native" ELSE "Token"
           Read      == /\ agent # Error /\ id # Error /\ sender # Error /\ recip # Error
                        /\ TagIn(b, kind_at, {0, 1}) /\ token # Error /\ amount # Error
                        /\ Take(b, cond_at, 1) # Error /\ finish(b, cond_at + 1)
           value     == [chain |-> chain, outcome |-> outcome, agent_id |-> agent,
                         escrow_id |-> FromBigEndian(id), sender |-> sender,
                         recipient |-> recip, asset_kind |-> kind,
                         asset_token |-> token, amount |-> FromBigEndian(amount),
                         condition |-> b[cond_at + 1]]
<1>1. DecodedFrom(b, offset, chain, outcome) = IF Read THEN value ELSE Error
  BY DEF DecodedFrom
<1>2. Read /\ DecodedFrom(b, offset, chain, outcome) = value
  <2> HIDE DEF Read, value
  <2> QED
    BY <1>1
<1>3. LenWidth \in Nat /\ IdWidth \in Nat /\ AmountWidth \in Nat
  BY WidthAssumption
<1>4. \A s \in Bytes : Len(s) \in Nat
  BY DEF Bytes
<1>5. agent \in Bytes
  BY ONLY <1>2, PrefixedReadType, b \in Bytes, offset \in Nat
<1> HIDE DEF agent
<1>6. id_at \in Nat /\ sender_at \in Nat
  <2>1. Len(agent) \in Nat
    BY ONLY <1>4, <1>5
  <2> QED
    BY ONLY <1>3, <2>1, offset \in Nat
<1> HIDE DEF id_at, sender_at
<1>7. id \in Bytes /\ Len(id) = IdWidth
  BY ONLY <1>2, <1>3, <1>6, TakeType, b \in Bytes
<1>8. sender \in Bytes
  BY ONLY <1>2, <1>6, PrefixedReadType, b \in Bytes
<1> HIDE DEF id, sender
<1>9. FromBigEndian(id) \in Numbers(IdWidth)
  <2>1. FromBigEndian(id) \in Nat
    BY ONLY <1>7, FromBigEndianType
  <2>2. Fits(FromBigEndian(id), Len(id))
    BY ONLY <1>7, <2>1, BigEndianInverse
  <2> QED
    BY ONLY <1>7, <2>1, <2>2 DEF Numbers
<1>10. recip_at \in Nat
  <2>1. Len(sender) \in Nat
    BY ONLY <1>4, <1>8
  <2> QED
    BY ONLY <1>3, <1>6, <2>1
<1> HIDE DEF recip_at
<1>11. recip \in Bytes
  BY ONLY <1>2, <1>10, PrefixedReadType, b \in Bytes
<1> HIDE DEF recip
<1>12. kind_at \in Nat /\ kind_at + 1 \in Nat
  <2>1. Len(recip) \in Nat
    BY ONLY <1>4, <1>11
  <2> QED
    BY ONLY <1>3, <1>10, <2>1
<1> HIDE DEF kind_at
<1>13. token \in Bytes
  BY ONLY <1>2, <1>12, PrefixedReadType, b \in Bytes
<1> HIDE DEF token
<1>14. amount_at \in Nat /\ cond_at \in Nat
  <2>1. Len(token) \in Nat
    BY ONLY <1>4, <1>13
  <2> QED
    BY ONLY <1>3, <1>12, <2>1
<1> HIDE DEF amount_at, cond_at
<1>15. amount \in Bytes
  BY ONLY <1>2, <1>3, <1>14, TakeType, b \in Bytes
<1> HIDE DEF amount
<1>16. FromBigEndian(amount) \in Nat
  BY ONLY <1>15, FromBigEndianType
<1>17. b[cond_at + 1] \in Byte
  <2>1. cond_at + 1 <= Len(b)
    BY ONLY <1>2 DEF Take
  <2> QED
    BY ONLY <1>14, <2>1, b \in Bytes DEF Bytes
<1>18. kind \in {"Native", "Token"}
  OBVIOUS
<1> HIDE DEF kind
<1>19. value \in PublicCommitment
  BY ONLY <1>5, <1>8, <1>9, <1>11, <1>13, <1>16, <1>17, <1>18,
          chain \in {"Ethereum", "Solana"}, outcome \in States \cup {"Failure"}
     DEF PublicCommitment, Commitment
<1>20. value.chain = chain /\ value.outcome = outcome
  BY ONLY TRUE
<1> HIDE DEF value
<1> QED
  BY ONLY <1>2, <1>19, <1>20

\* Two bytes at a place.
LEMMA AtBytes ==
    ASSUME NEW b \in Bytes, NEW offset \in Nat, NEW x \in Byte, NEW y \in Byte
    PROVE  At(b, offset, <<x, y>>)
             <=> offset + 2 <= Len(b) /\ b[offset + 1] = x /\ b[offset + 2] = y
<1> DEFINE s == <<x, y>>
<1>1. Len(s) = 2 /\ s[1] = x /\ s[2] = y
  OBVIOUS
<1> HIDE DEF s
<1>2. At(b, offset, s) <=> offset + 2 <= Len(b) /\ b[offset + 1] = x /\ b[offset + 2] = y
  BY ONLY <1>1 DEF At
<1> QED
  BY ONLY <1>2 DEF s

\* The tags of chains and of states name them.
LEMMA Tags ==
    /\ {0, 1, 2} \subseteq Byte
    /\ \A chain \in {"Ethereum", "Solana"} :
          \A tag \in {0, 1} :
             (IF tag = 0 THEN "Ethereum" ELSE "Solana") = chain <=> tag = chain_tag(chain)
    /\ \A state \in States :
          /\ state_tag(state) \in {0, 1, 2}
          /\ \A tag \in {0, 1, 2} :
                (CHOOSE s \in States : state_tag(s) = tag) = state <=> tag = state_tag(state)
    /\ \A tag \in {0, 1, 2} : (CHOOSE s \in States : state_tag(s) = tag) \in States
<1>1. {0, 1, 2} \subseteq Byte
  BY WidthAssumption DEF Byte
<1>2. ASSUME NEW chain \in {"Ethereum", "Solana"}, NEW tag \in {0, 1}
      PROVE  (IF tag = 0 THEN "Ethereum" ELSE "Solana") = chain <=> tag = chain_tag(chain)
  BY ONLY chain \in {"Ethereum", "Solana"}, tag \in {0, 1} DEF chain_tag
<1>3. /\ state_tag("Initialized") = 0 /\ state_tag("Funded") = 1
      /\ state_tag("ConditionsMet") = 2
  BY ONLY DEF state_tag
<1>4. \A state \in States : state_tag(state) \in {0, 1, 2}
  BY ONLY <1>3 DEF States
<1>5. \A s, t \in States : state_tag(s) = state_tag(t) => s = t
  BY ONLY <1>3 DEF States
<1>6. \A tag \in {0, 1, 2} : \E s \in States : state_tag(s) = tag
  BY ONLY <1>3 DEF States
<1>7. ASSUME NEW tag \in {0, 1, 2}
      PROVE  /\ (CHOOSE s \in States : state_tag(s) = tag) \in States
             /\ state_tag(CHOOSE s \in States : state_tag(s) = tag) = tag
  BY ONLY <1>6, tag \in {0, 1, 2}
<1> QED
  BY ONLY <1>1, <1>2, <1>4, <1>5, <1>7

\* The decoder by the first bytes.
ChainOf(b) == IF b[2] = 0 THEN "Ethereum" ELSE "Solana"
StateOf(b) == CHOOSE s \in States : state_tag(s) = b[4]
Opens(b) == 3 <= Len(b) /\ b[1] = 1 /\ b[2] \in {0, 1} /\ b[3] \in {0, 1}
Succeeds(b) == Opens(b) /\ b[3] = 1 /\ 4 <= Len(b) /\ b[4] \in {0, 1, 2}
Fails(b) == Opens(b) /\ b[3] = 0

\* from_journal_bytes reads a failure, a success, or nothing, by the tags at
\* the head of the journal.
LEMMA DecoderCases ==
    ASSUME NEW b \in Bytes
    PROVE  /\ Fails(b) => from_journal_bytes(b) = DecodedFrom(b, 3, ChainOf(b), "Failure")
           /\ Succeeds(b) => from_journal_bytes(b) = DecodedFrom(b, 4, ChainOf(b), StateOf(b))
           /\ ~ Fails(b) /\ ~ Succeeds(b) => from_journal_bytes(b) = Error
<1>1. {1} \in SUBSET Byte /\ {0, 1} \in SUBSET Byte /\ {0, 1, 2} \in SUBSET Byte
  BY Tags
<1>2. Len(b) \in Nat
  BY DEF Bytes
<1>3. TagIn(b, 0, {1}) <=> 1 <= Len(b) /\ b[1] = 1
  <2>1. TagIn(b, 0, {1}) <=> 0 + 1 <= Len(b) /\ b[0 + 1] \in {1}
    BY ONLY <1>1, TagReads, b \in Bytes, 0 \in Nat
  <2> QED
    BY ONLY <2>1
<1>4. TagIn(b, 1, {0, 1}) <=> 2 <= Len(b) /\ b[2] \in {0, 1}
  <2>1. TagIn(b, 1, {0, 1}) <=> 1 + 1 <= Len(b) /\ b[1 + 1] \in {0, 1}
    BY ONLY <1>1, TagReads, b \in Bytes, 1 \in Nat
  <2> QED
    BY ONLY <2>1
<1>5. TagIn(b, 2, {0, 1}) <=> 3 <= Len(b) /\ b[3] \in {0, 1}
  <2>1. TagIn(b, 2, {0, 1}) <=> 2 + 1 <= Len(b) /\ b[2 + 1] \in {0, 1}
    BY ONLY <1>1, TagReads, b \in Bytes, 2 \in Nat
  <2> QED
    BY ONLY <2>1
<1>6. TagIn(b, 3, {0, 1, 2}) <=> 4 <= Len(b) /\ b[4] \in {0, 1, 2}
  <2>1. TagIn(b, 3, {0, 1, 2}) <=> 3 + 1 <= Len(b) /\ b[3 + 1] \in {0, 1, 2}
    BY ONLY <1>1, TagReads, b \in Bytes, 3 \in Nat
  <2> QED
    BY ONLY <2>1
<1>7. Opens(b) <=> TagIn(b, 0, {1}) /\ TagIn(b, 1, {0, 1}) /\ TagIn(b, 2, {0, 1})
  BY ONLY <1>2, <1>3, <1>4, <1>5 DEF Opens
<1>8. from_journal_bytes(b) =
        IF Opens(b)
        THEN IF b[3] = 0 THEN DecodedFrom(b, 3, ChainOf(b), "Failure")
             ELSE IF TagIn(b, 3, {0, 1, 2})
                  THEN DecodedFrom(b, 4, ChainOf(b), StateOf(b)) ELSE Error
        ELSE Error
  BY ONLY <1>7 DEF from_journal_bytes, ChainOf, StateOf
<1>9. Opens(b) => b[3] = 0 \/ b[3] = 1
  BY ONLY DEF Opens
<1> QED
  BY ONLY <1>6, <1>8, <1>9 DEF Fails, Succeeds

\* The bytes before the agent's id say whose commitment it can be.
LEMMA HeadReads ==
    ASSUME NEW b \in Bytes, NEW c \in Commitment(Nat)
    PROVE  At(b, 0, <<1, chain_tag(c.chain)>>) /\ At(b, 2, OutcomeBytes(c.outcome))
             <=> \/ /\ Fails(b) /\ ChainOf(b) = c.chain
                    /\ c.outcome = "Failure" /\ AgentAt(c) = 3
                 \/ /\ Succeeds(b) /\ ChainOf(b) = c.chain
                    /\ c.outcome = StateOf(b) /\ AgentAt(c) = 4
<1>1. c.chain \in {"Ethereum", "Solana"} /\ c.outcome \in States \cup {"Failure"}
  BY DEF Commitment
<1>2. chain_tag(c.chain) \in {0, 1}
  BY ONLY DEF chain_tag
<1>3. 0 \in Byte /\ 1 \in Byte /\ {0, 1, 2} \subseteq Byte
  BY Tags
<1>4. Len(b) \in Nat
  BY DEF Bytes
<1>5. At(b, 0, <<1, chain_tag(c.chain)>>)
        <=> 2 <= Len(b) /\ b[1] = 1 /\ b[2] = chain_tag(c.chain)
  <2>1. chain_tag(c.chain) \in Byte
    BY ONLY <1>2, <1>3
  <2>2. At(b, 0, <<1, chain_tag(c.chain)>>)
          <=> 0 + 2 <= Len(b) /\ b[0 + 1] = 1 /\ b[0 + 2] = chain_tag(c.chain)
    BY ONLY <1>3, <2>1, AtBytes, b \in Bytes, 0 \in Nat
  <2> QED
    BY ONLY <2>2
<1>6. b[2] \in {0, 1} => (ChainOf(b) = c.chain <=> b[2] = chain_tag(c.chain))
  BY ONLY <1>1, Tags DEF ChainOf
<1>7. CASE c.outcome = "Failure"
  <2>1. OutcomeBytes(c.outcome) = <<0>>
    BY ONLY <1>7 DEF OutcomeBytes
  <2>2. AgentAt(c) = 3
    BY <2>1 DEF AgentAt
  <2>3. At(b, 2, <<0>>) <=> 3 <= Len(b) /\ b[3] = 0
    <3>1. At(b, 2, <<0>>) <=> 2 + 1 <= Len(b) /\ b[2 + 1] = 0
      BY ONLY <1>3, AtByte, b \in Bytes, 2 \in Nat
    <3> QED
      BY ONLY <3>1
  <2>4. Succeeds(b) => StateOf(b) # "Failure"
    <3>1. Succeeds(b) => StateOf(b) \in States
      BY ONLY Tags DEF Succeeds, StateOf
    <3> QED
      BY ONLY <3>1 DEF States
  <2>5. Fails(b) <=> 3 <= Len(b) /\ b[1] = 1 /\ b[2] \in {0, 1} /\ b[3] = 0
    BY ONLY DEF Fails, Opens
  <2> QED
    BY ONLY <1>2, <1>4, <1>5, <1>6, <1>7, <2>1, <2>2, <2>3, <2>4, <2>5
<1>8. CASE c.outcome # "Failure"
  <2>1. OutcomeBytes(c.outcome) = <<1, state_tag(c.outcome)>>
    BY ONLY <1>8 DEF OutcomeBytes
  <2>2. AgentAt(c) = 4
    BY <2>1 DEF AgentAt
  <2>3. c.outcome \in States
    BY ONLY <1>1, <1>8
  <2>4. state_tag(c.outcome) \in {0, 1, 2}
    BY ONLY <2>3, Tags
  <2>5. At(b, 2, <<1, state_tag(c.outcome)>>)
          <=> 4 <= Len(b) /\ b[3] = 1 /\ b[4] = state_tag(c.outcome)
    <3>1. state_tag(c.outcome) \in Byte
      BY ONLY <1>3, <2>4
    <3>2. At(b, 2, <<1, state_tag(c.outcome)>>)
            <=> 2 + 2 <= Len(b) /\ b[2 + 1] = 1 /\ b[2 + 2] = state_tag(c.outcome)
      BY ONLY <1>3, <3>1, AtBytes, b \in Bytes, 2 \in Nat
    <3> QED
      BY ONLY <3>2
  <2>6. b[4] \in {0, 1, 2} => (StateOf(b) = c.outcome <=> b[4] = state_tag(c.outcome))
    BY ONLY <2>3, Tags DEF StateOf
  <2>7. Succeeds(b) <=> /\ 4 <= Len(b) /\ b[1] = 1 /\ b[2] \in {0, 1}
                        /\ b[3] = 1 /\ b[4] \in {0, 1, 2}
    BY ONLY <1>4 DEF Succeeds, Opens
  <2> QED
    BY ONLY <1>2, <1>4, <1>5, <1>6, <1>8, <2>1, <2>2, <2>4, <2>5, <2>6, <2>7
<1> QED
  BY <1>7, <1>8

\* Bytes decode to a commitment exactly when they are its layout.
LEMMA Decodes ==
    ASSUME NEW b \in Bytes, NEW c \in PublicCommitment
    PROVE  from_journal_bytes(b) = c <=> Encodable(c) /\ Layout(b, c)
<1>1. c \in Commitment(Nat) /\ c # Error
  BY ErrorAssumption DEF PublicCommitment, Commitment, Numbers
<1>2. Layout(b, c) <=>
        /\ \/ /\ Fails(b) /\ ChainOf(b) = c.chain
              /\ c.outcome = "Failure" /\ AgentAt(c) = 3
           \/ /\ Succeeds(b) /\ ChainOf(b) = c.chain
              /\ c.outcome = StateOf(b) /\ AgentAt(c) = 4
        /\ Body(b, c)
  BY ONLY <1>1, HeadReads, b \in Bytes DEF Layout
<1>3. /\ ChainOf(b) \in {"Ethereum", "Solana"}
      /\ "Failure" \in States \cup {"Failure"}
      /\ Succeeds(b) => StateOf(b) \in States \cup {"Failure"}
  BY ONLY Tags DEF ChainOf, Succeeds, StateOf
<1>4. \A outcome \in States \cup {"Failure"}, offset \in Nat :
        DecodedFrom(b, offset, ChainOf(b), outcome) = c
          => ChainOf(b) = c.chain /\ outcome = c.outcome
  BY ONLY <1>1, <1>3, DecodedType, b \in Bytes
<1>5. c.outcome = "Failure" => AgentAt(c) = 3
  BY DEF AgentAt, OutcomeBytes
<1>6. c.outcome # "Failure" => AgentAt(c) = 4
  BY DEF AgentAt, OutcomeBytes
<1>7. StateOf(b) \in States => StateOf(b) # "Failure"
  BY ONLY DEF States
<1>8. ~ (Fails(b) /\ Succeeds(b))
  BY ONLY DEF Fails, Succeeds
<1>9. CASE Fails(b)
  <2>1. from_journal_bytes(b) = DecodedFrom(b, 3, ChainOf(b), "Failure")
    BY ONLY <1>9, DecoderCases, b \in Bytes
  <2>2. from_journal_bytes(b) = c => ChainOf(b) = c.chain /\ c.outcome = "Failure"
    BY ONLY <1>3, <1>4, <2>1, 3 \in Nat
  <2>3. AgentAt(c) = 3 =>
          (DecodedFrom(b, 3, ChainOf(b), "Failure") = c
             <=> ChainOf(b) = c.chain /\ "Failure" = c.outcome /\ Encodable(c) /\ Body(b, c))
    BY ONLY DecodedReads, b \in Bytes, c \in PublicCommitment
  <2> QED
    BY ONLY <1>2, <1>5, <1>8, <1>9, <2>1, <2>2, <2>3
<1>10. CASE Succeeds(b)
  <2>1. from_journal_bytes(b) = DecodedFrom(b, 4, ChainOf(b), StateOf(b))
    BY ONLY <1>10, DecoderCases, b \in Bytes
  <2>2. StateOf(b) \in States
    BY ONLY <1>10, Tags DEF Succeeds, StateOf
  <2>3. from_journal_bytes(b) = c => ChainOf(b) = c.chain /\ c.outcome = StateOf(b)
    BY ONLY <1>4, <2>1, <2>2, 4 \in Nat
  <2>4. AgentAt(c) = 4 =>
          (DecodedFrom(b, 4, ChainOf(b), StateOf(b)) = c
             <=> ChainOf(b) = c.chain /\ StateOf(b) = c.outcome /\ Encodable(c) /\ Body(b, c))
    BY ONLY DecodedReads, b \in Bytes, c \in PublicCommitment
  <2> QED
    BY ONLY <1>2, <1>6, <1>7, <1>8, <1>10, <2>1, <2>2, <2>3, <2>4
<1>11. CASE ~ Fails(b) /\ ~ Succeeds(b)
  <2>1. from_journal_bytes(b) = Error
    BY ONLY <1>11, DecoderCases, b \in Bytes
  <2> QED
    BY ONLY <1>1, <1>2, <1>11, <2>1
<1> QED
  BY <1>9, <1>10, <1>11

\* Whatever the decoder returns is a commitment.
LEMMA DecoderType ==
    ASSUME NEW b \in Bytes
    PROVE  from_journal_bytes(b) \in PublicCommitment \cup {Error}
<1>1. /\ ChainOf(b) \in {"Ethereum", "Solana"}
      /\ Succeeds(b) => StateOf(b) \in States
  BY ONLY Tags DEF ChainOf, Succeeds, StateOf
<1>2. \A outcome \in States \cup {"Failure"}, offset \in Nat :
        DecodedFrom(b, offset, ChainOf(b), outcome) \in PublicCommitment \cup {Error}
  BY ONLY <1>1, DecodedType, b \in Bytes
<1> QED
  BY ONLY <1>1, <1>2, DecoderCases, b \in Bytes, 3 \in Nat, 4 \in Nat

\* The guest's encoder and the prover's decoder are each other's inverse: a
\* commitment has the journal b exactly when b decodes to the commitment.
THEOREM CodecsAgree ==
    ASSUME NEW b \in Bytes, NEW c \in PublicCommitment
    PROVE  to_journal_bytes(c) = b <=> from_journal_bytes(b) = c
<1>1. c \in Commitment(Nat)
  BY DEF PublicCommitment, Commitment, Numbers
<1>2. to_journal_bytes(c) = b <=> Encodable(c) /\ Layout(b, c)
  BY ONLY <1>1, Encodes, b \in Bytes
<1> QED
  BY ONLY <1>2, Decodes, b \in Bytes, c \in PublicCommitment

\* Two commitments have different journals, or one has none: a digest that is
\* checked against a journal is checked against a commitment.
THEOREM JournalsDiffer ==
    ASSUME NEW c \in PublicCommitment, NEW d \in PublicCommitment,
           to_journal_bytes(c) = to_journal_bytes(d)
    PROVE  c = d \/ to_journal_bytes(c) = Error
<1> DEFINE b == to_journal_bytes(c)
<1>1. b \in Bytes \cup {Error}
  <2>1. c \in Commitment(Nat)
    BY DEF PublicCommitment, Commitment, Numbers
  <2>2. <<>> \in Bytes
    BY DEF Bytes
  <2> QED
    BY ONLY <2>1, <2>2, Encodes
<1>2. CASE b \in Bytes
  <2>1. from_journal_bytes(b) = c
    BY ONLY <1>2, CodecsAgree, c \in PublicCommitment
  <2>2. to_journal_bytes(d) = b
    OBVIOUS
  <2>3. from_journal_bytes(b) = d
    BY ONLY <1>2, <2>2, CodecsAgree, d \in PublicCommitment
  <2> QED
    BY ONLY <2>1, <2>3
<1> QED
  BY <1>1, <1>2

(***************************************************************************)
(* The Ethereum agent reads the layout                                     *)
(***************************************************************************)

\* Zero fits anywhere, and a byte fits a byte.
LEMMA SmallNumbers ==
    /\ \A w \in Nat : Fits(0, w)
    /\ \A x \in Byte : Fits(x, 1) /\ BigEndian(x, 1) = <<x>>
<1>1. ASSUME NEW w \in Nat PROVE Fits(0, w)
  <2>1. Fits(0, 0)
    BY ONLY ShiftedNext DEF Fits
  <2> QED
    BY ONLY <2>1, ShiftedOut, w \in Nat, 0 \in Nat, 0 <= w
<1>2. ASSUME NEW x \in Byte PROVE Fits(x, 1) /\ BigEndian(x, 1) = <<x>>
  <2>1. ByteValues \in Nat /\ ByteValues > 0
    BY WidthAssumption
  <2>2. x \in 0 .. ByteValues - 1
    BY DEF Byte
  <2>3. x \div ByteValues = 0 /\ x % ByteValues = x
    BY ONLY <2>1, <2>2
  <2>4. Shifted(x)[0] = x /\ Shifted(x)[0 + 1] = Shifted(x)[0] \div ByteValues
    BY ONLY ShiftedNext, 0 \in Nat
  <2>5. Shifted(x)[1] = 0
    BY ONLY <2>3, <2>4
  <2>6. BigEndian(x, 1) \in Bytes /\ Len(BigEndian(x, 1)) = 1
          /\ BigEndian(x, 1)[1] = Shifted(x)[1 - 1] % ByteValues
    <3>1. x \in Nat
      BY ONLY <2>1, <2>2
    <3> QED
      BY ONLY <3>1, BigEndianType, 1 \in Nat, 1 \in 1 .. 1
  <2>7. BigEndian(x, 1)[1] = x
    BY ONLY <2>3, <2>4, <2>6
  <2>8. BigEndian(x, 1) = <<x>>
    BY ONLY <2>6, <2>7 DEF Bytes
  <2> QED
    BY ONLY <2>5, <2>8 DEF Fits
<1> QED
  BY <1>1, <1>2

\* _readBE returns a number exactly when the number is written there.
LEMMA ReadsNumber ==
    ASSUME NEW b \in Bytes, NEW offset \in Nat, NEW w \in Nat, NEW n \in Nat
    PROVE  ReadsBE(b, offset, w, n) <=> Fits(n, w) /\ At(b, offset, BigEndian(n, w))
<1> DEFINE t == SubSeq(b, offset + 1, offset + w)
<1>1. ReadsBE(b, offset, w, n) <=> offset + w <= Len(b) /\ FromBigEndian(t) = n
  BY DEF ReadsBE
<1>2. Take(b, offset, w) = IF offset + w <= Len(b) THEN t ELSE Error
  BY DEF Take
<1>3. offset + w <= Len(b) => t # Error
  <2>1. ASSUME offset + w <= Len(b) PROVE t \in Bytes
    BY ONLY <2>1, Slice, b \in Bytes, offset \in Nat, w \in Nat
  <2> QED
    BY <2>1, ErrorAssumption
<1>4. Take(b, offset, w) # Error /\ FromBigEndian(Take(b, offset, w)) = n
        <=> Fits(n, w) /\ At(b, offset, BigEndian(n, w))
  BY ONLY NumberReads, b \in Bytes, offset \in Nat, w \in Nat, n \in Nat
<1> HIDE DEF t
<1> QED
  BY ONLY <1>1, <1>2, <1>3, <1>4

\* _checkJournalBinding's check of one byte asks for that byte at its place.
LEMMA ReadsByte ==
    ASSUME NEW b \in Bytes, NEW offset \in Nat, NEW x \in Byte
    PROVE  /\ ReadsBE(b, offset, 1, x) <=> At(b, offset, <<x>>)
           /\ ReadsBE(b, offset, 1, x) <=> offset + 1 <= Len(b) /\ b[offset + 1] = x
<1>1. x \in Nat
  BY WidthAssumption DEF Byte
<1>2. ReadsBE(b, offset, 1, x) <=> Fits(x, 1) /\ At(b, offset, BigEndian(x, 1))
  BY ONLY <1>1, ReadsNumber, b \in Bytes, offset \in Nat, 1 \in Nat
<1>3. Fits(x, 1) /\ BigEndian(x, 1) = <<x>>
  BY ONLY SmallNumbers, x \in Byte
<1>4. At(b, offset, <<x>>) <=> offset + 1 <= Len(b) /\ b[offset + 1] = x
  BY AtByte
<1> QED
  BY ONLY <1>2, <1>3, <1>4

\* An address is a byte string that fits its prefix.
LEMMA ReadsField ==
    ASSUME NEW b \in Bytes, NEW offset \in Nat, NEW address \in Bytes,
           Len(address) = AddressLen
    PROVE  /\ FitsPrefix(address)
           /\ ReadsAddress(b, offset, address) <=> At(b, offset, push_bytes(address))
<1>1. LenWidth \in Nat /\ AddressLen \in Nat /\ Fits(AddressLen, LenWidth)
  BY WidthAssumption
<1>2. ReadsBE(b, offset, LenWidth, AddressLen)
        <=> At(b, offset, BigEndian(Len(address), LenWidth))
  <2>1. ReadsBE(b, offset, LenWidth, AddressLen)
          <=> Fits(AddressLen, LenWidth) /\ At(b, offset, BigEndian(AddressLen, LenWidth))
    BY ONLY <1>1, ReadsNumber, b \in Bytes, offset \in Nat
  <2> QED
    BY ONLY <1>1, <2>1, Len(address) = AddressLen
<1> DEFINE behind == offset + LenWidth
           t == SubSeq(b, behind + 1, behind + AddressLen)
<1>3. behind \in Nat
  BY <1>1
<1>4. ReadsAddress(b, offset, address)
        <=> /\ ReadsBE(b, offset, LenWidth, AddressLen)
            /\ behind + AddressLen <= Len(b) /\ t = address
  BY DEF ReadsAddress
<1> HIDE DEF behind
<1>5. Take(b, behind, AddressLen) = address <=> Len(address) = AddressLen /\ At(b, behind, address)
  BY ONLY <1>1, <1>3, TakeReads, b \in Bytes, address \in Bytes
<1>6. Take(b, behind, AddressLen) = IF behind + AddressLen <= Len(b) THEN t ELSE Error
  BY DEF Take
<1>7. address # Error
  BY ErrorAssumption
<1>8. At(b, offset, push_bytes(address))
        <=> /\ At(b, offset, BigEndian(Len(address), LenWidth))
            /\ At(b, behind, address)
  BY AtPrefixed DEF behind
<1> HIDE DEF t
<1>9. FitsPrefix(address)
  BY ONLY <1>1, Len(address) = AddressLen DEF FitsPrefix
<1> QED
  BY ONLY <1>2, <1>4, <1>5, <1>6, <1>7, <1>8, <1>9, Len(address) = AddressLen

\* The empty token field is a length of zero.
LEMMA EmptyField ==
    /\ <<>> \in Bytes /\ Len(<<>>) = 0 /\ FitsPrefix(<<>>)
    /\ push_bytes(<<>>) = BigEndian(0, LenWidth)
<1>1. <<>> \in Bytes /\ Len(<<>>) = 0
  BY DEF Bytes
<1>2. LenWidth \in Nat
  BY WidthAssumption
<1>3. FitsPrefix(<<>>)
  BY ONLY <1>1, <1>2, SmallNumbers DEF FitsPrefix
<1> DEFINE s == BigEndian(0, LenWidth)
<1>4. s \in Bytes
  BY ONLY <1>2, BigEndianType, 0 \in Nat
<1>5. push_bytes(<<>>) = s \o <<>>
  BY ONLY <1>1 DEF push_bytes
<1> HIDE DEF s
<1>6. s \o <<>> = s
  BY ONLY <1>4, ConcatEmptySeq DEF Bytes
<1> QED
  BY <1>1, <1>3, <1>5, <1>6 DEF s

\* An escrow's release, before its id is known to fit a journal.
LEMMA ReleaseType ==
    ASSUME NEW chain \in {"Ethereum", "Solana"}, NEW len \in Nat,
           NEW e \in Held(chain, len, Nat, Nat)
    PROVE  /\ Release(e) \in Commitment(Nat)
           /\ e.agent \in Bytes /\ Len(e.agent) = len
           /\ e.sender \in Bytes /\ Len(e.sender) = len
           /\ e.recipient \in Bytes /\ Len(e.recipient) = len
           /\ e.id \in Nat /\ e.amount \in Nat /\ e.condition \in Byte /\ e.chain = chain
<1>1. /\ e.agent \in [1 .. len -> Byte] /\ e.sender \in [1 .. len -> Byte]
      /\ e.recipient \in [1 .. len -> Byte]
      /\ e.id \in Nat /\ e.amount \in Nat /\ e.condition \in Byte /\ e.chain = chain
  BY DEF Held
<1>2. \A s \in [1 .. len -> Byte] : s \in Bytes /\ Len(s) = len
  BY ONLY len \in Nat DEF Bytes
<1>3. <<>> \in Bytes
  BY EmptyField
<1>4. Release(e) \in Commitment(Nat)
  BY ONLY <1>1, <1>2, <1>3, chain \in {"Ethereum", "Solana"} DEF Release, Commitment, States
<1> QED
  BY ONLY <1>1, <1>2, <1>4

\* _checkJournalBinding accepts the layout of the escrow's release, of which
\* the id must fit the journal's.
LEMMA BindsLayout ==
    ASSUME NEW b \in Bytes, NEW e \in Held("Ethereum", AddressLen, Nat, Nat)
    PROVE  BindsOnEthereum(b, e)
             <=> /\ Fits(e.id, IdWidth) /\ Encodable(Release(e))
                 /\ Layout(b, Release(e))
<1> DEFINE c == Release(e)
           field     == LenWidth + AddressLen
           id_at     == 4 + field
           sender_at == id_at + IdWidth
           recip_at  == sender_at + field
           asset_at  == sender_at + 2 * field
           amount_at == asset_at + 1 + LenWidth
           cond_at   == amount_at + AmountWidth
<1>1. BindsOnEthereum(b, e) <=>
        /\ ReadsBE(b, 0, 1, 1) /\ ReadsBE(b, 1, 1, 0)
        /\ ReadsBE(b, 2, 1, 1) /\ ReadsBE(b, 3, 1, 2)
        /\ ReadsAddress(b, 4, e.agent)
        /\ ReadsBE(b, id_at, IdWidth, e.id)
        /\ ReadsAddress(b, sender_at, e.sender)
        /\ ReadsAddress(b, recip_at, e.recipient)
        /\ ReadsBE(b, asset_at, 1, 0) /\ ReadsBE(b, asset_at + 1, LenWidth, 0)
        /\ ReadsBE(b, amount_at, AmountWidth, e.amount)
        /\ ReadsBE(b, cond_at, 1, e.condition)
        /\ Len(b) = cond_at + 1
  BY DEF BindsOnEthereum
<1>2. /\ LenWidth \in Nat /\ IdWidth \in Nat /\ AmountWidth \in Nat /\ AddressLen \in Nat
  BY WidthAssumption
<1>3. /\ e.agent \in Bytes /\ Len(e.agent) = AddressLen
      /\ e.sender \in Bytes /\ Len(e.sender) = AddressLen
      /\ e.recipient \in Bytes /\ Len(e.recipient) = AddressLen
      /\ e.id \in Nat /\ e.amount \in Nat /\ e.condition \in Byte
      /\ e.chain = "Ethereum"
  BY ONLY <1>2, ReleaseType, e \in Held("Ethereum", AddressLen, Nat, Nat)
<1>4. /\ c.agent_id = e.agent /\ c.escrow_id = e.id /\ c.sender = e.sender
      /\ c.recipient = e.recipient /\ c.asset_kind = "Native" /\ c.asset_token = <<>>
      /\ c.amount = e.amount /\ c.condition = e.condition
      /\ c.chain = "Ethereum" /\ c.outcome = "ConditionsMet"
  BY ONLY <1>3 DEF Release
<1> HIDE DEF c
<1>5. OutcomeBytes("ConditionsMet") = <<1, 2>> /\ chain_tag("Ethereum") = 0
        /\ asset_kind_tag("Native") = 0 /\ Len(<<1, 2>>) = 2
  BY ONLY DEF OutcomeBytes, state_tag, chain_tag, asset_kind_tag
<1>6. <<>> \in Bytes /\ Len(<<>>) = 0 /\ FitsPrefix(<<>>)
        /\ push_bytes(<<>>) = BigEndian(0, LenWidth)
  BY EmptyField
<1>7. /\ id_at \in Nat /\ sender_at \in Nat /\ recip_at \in Nat /\ asset_at \in Nat
      /\ asset_at + 1 \in Nat /\ amount_at \in Nat /\ cond_at \in Nat
  BY ONLY <1>2
<1>8. recip_at = sender_at + LenWidth + AddressLen /\ asset_at = recip_at + LenWidth + AddressLen
  BY ONLY <1>2
<1> HIDE DEF sender_at, recip_at, asset_at
<1>9. /\ AgentAt(c) = 4
      /\ IdAt(c) = id_at /\ SenderAt(c) = sender_at
      /\ RecipientAt(c) = recip_at /\ KindAt(c) = asset_at /\ TokenAt(c) = asset_at + 1
      /\ AmountAt(c) = amount_at /\ ConditionAt(c) = cond_at
  <2>1. AgentAt(c) = 4
    <3>1. OutcomeBytes(c.outcome) = <<1, 2>>
      BY ONLY <1>4, <1>5
    <3>2. AgentAt(c) = 2 + Len(<<1, 2>>)
      BY ONLY <3>1 DEF AgentAt
    <3> QED
      BY ONLY <1>5, <3>2
  <2>2. IdAt(c) = id_at
    BY ONLY <1>2, <1>3, <1>4, <2>1 DEF IdAt
  <2>3. SenderAt(c) = sender_at
    BY ONLY <2>2 DEF SenderAt, sender_at
  <2>4. RecipientAt(c) = recip_at
    BY ONLY <1>3, <1>4, <1>8, <2>3 DEF RecipientAt
  <2>5. KindAt(c) = asset_at
    BY ONLY <1>3, <1>4, <1>8, <2>4 DEF KindAt
  <2>6. TokenAt(c) = asset_at + 1
    BY ONLY <2>5 DEF TokenAt
  <2>7. AmountAt(c) = amount_at
    <3>1. Len(c.asset_token) = 0
      BY ONLY <1>4, <1>6
    <3>2. AmountAt(c) = TokenAt(c) + LenWidth + Len(c.asset_token)
      BY ONLY DEF AmountAt
    <3> QED
      BY ONLY <1>2, <1>7, <2>6, <3>1, <3>2
  <2>8. ConditionAt(c) = cond_at
    BY ONLY <2>7 DEF ConditionAt
  <2> QED
    BY ONLY <2>1, <2>2, <2>3, <2>4, <2>5, <2>6, <2>7, <2>8
<1> HIDE DEF id_at, sender_at, recip_at, asset_at, amount_at, cond_at
<1>10. 0 \in Byte /\ 1 \in Byte /\ 2 \in Byte
  BY Tags
<1>10a. \A o \in Nat, x \in Byte : ReadsBE(b, o, 1, x) <=> o + 1 <= Len(b) /\ b[o + 1] = x
  BY ONLY ReadsByte, b \in Bytes
<1>11. ReadsBE(b, 0, 1, 1) /\ ReadsBE(b, 1, 1, 0) <=> At(b, 0, <<1, 0>>)
  <2>1. ReadsBE(b, 0, 1, 1) <=> 0 + 1 <= Len(b) /\ b[0 + 1] = 1
    BY ONLY <1>10, <1>10a
  <2>2. ReadsBE(b, 1, 1, 0) <=> 1 + 1 <= Len(b) /\ b[1 + 1] = 0
    BY ONLY <1>10, <1>10a
  <2>3. At(b, 0, <<1, 0>>) <=> 0 + 2 <= Len(b) /\ b[0 + 1] = 1 /\ b[0 + 2] = 0
    BY ONLY <1>10, AtBytes, b \in Bytes, 0 \in Nat
  <2>4. Len(b) \in Nat
    BY DEF Bytes
  <2> QED
    BY ONLY <2>1, <2>2, <2>3, <2>4
<1>12. ReadsBE(b, 2, 1, 1) /\ ReadsBE(b, 3, 1, 2) <=> At(b, 2, <<1, 2>>)
  <2>1. ReadsBE(b, 2, 1, 1) <=> 2 + 1 <= Len(b) /\ b[2 + 1] = 1
    BY ONLY <1>10, <1>10a
  <2>2. ReadsBE(b, 3, 1, 2) <=> 3 + 1 <= Len(b) /\ b[3 + 1] = 2
    BY ONLY <1>10, <1>10a
  <2>3. At(b, 2, <<1, 2>>) <=> 2 + 2 <= Len(b) /\ b[2 + 1] = 1 /\ b[2 + 2] = 2
    BY ONLY <1>10, AtBytes, b \in Bytes, 2 \in Nat
  <2>4. Len(b) \in Nat
    BY DEF Bytes
  <2> QED
    BY ONLY <2>1, <2>2, <2>3, <2>4
<1>13. ReadsAddress(b, 4, e.agent) <=> At(b, 4, push_bytes(e.agent))
  BY ONLY <1>3, ReadsField, b \in Bytes, 4 \in Nat
<1>14. ReadsAddress(b, sender_at, e.sender) <=> At(b, sender_at, push_bytes(e.sender))
  BY ONLY <1>3, <1>7, ReadsField, b \in Bytes
<1>15. ReadsAddress(b, recip_at, e.recipient) <=> At(b, recip_at, push_bytes(e.recipient))
  BY ONLY <1>3, <1>7, ReadsField, b \in Bytes
<1>16. FitsPrefix(e.agent) /\ FitsPrefix(e.sender) /\ FitsPrefix(e.recipient)
  BY ONLY <1>3, ReadsField, b \in Bytes, 4 \in Nat
<1>17. ReadsBE(b, id_at, IdWidth, e.id)
         <=> Fits(e.id, IdWidth) /\ At(b, id_at, BigEndian(e.id, IdWidth))
  BY ONLY <1>2, <1>3, <1>7, ReadsNumber, b \in Bytes
<1>18. ReadsBE(b, asset_at, 1, 0) <=> At(b, asset_at, <<0>>)
  BY ONLY <1>7, <1>10, ReadsByte, b \in Bytes
<1>19. ReadsBE(b, asset_at + 1, LenWidth, 0) <=> At(b, asset_at + 1, push_bytes(<<>>))
  <2>1. ReadsBE(b, asset_at + 1, LenWidth, 0)
          <=> Fits(0, LenWidth) /\ At(b, asset_at + 1, BigEndian(0, LenWidth))
    BY ONLY <1>2, <1>7, ReadsNumber, b \in Bytes, 0 \in Nat
  <2>2. Fits(0, LenWidth)
    BY ONLY <1>2, SmallNumbers
  <2> QED
    BY ONLY <1>6, <2>1, <2>2
<1>20. ReadsBE(b, amount_at, AmountWidth, e.amount)
         <=> Fits(e.amount, AmountWidth) /\ At(b, amount_at, BigEndian(e.amount, AmountWidth))
  BY ONLY <1>2, <1>3, <1>7, ReadsNumber, b \in Bytes
<1>21. ReadsBE(b, cond_at, 1, e.condition) <=> At(b, cond_at, <<e.condition>>)
  BY ONLY <1>3, <1>7, ReadsByte, b \in Bytes
<1>22. Encodable(c) <=> Fits(e.amount, AmountWidth)
  BY ONLY <1>4, <1>6, <1>16 DEF Encodable
<1>23. Layout(b, c) <=>
         /\ At(b, 0, <<1, 0>>) /\ At(b, 2, <<1, 2>>)
         /\ At(b, 4, push_bytes(e.agent)) /\ At(b, id_at, BigEndian(e.id, IdWidth))
         /\ At(b, sender_at, push_bytes(e.sender)) /\ At(b, recip_at, push_bytes(e.recipient))
         /\ At(b, asset_at, <<0>>) /\ At(b, asset_at + 1, push_bytes(<<>>))
         /\ At(b, amount_at, BigEndian(e.amount, AmountWidth))
         /\ At(b, cond_at, <<e.condition>>) /\ Len(b) = cond_at + 1
  BY ONLY <1>4, <1>5, <1>9 DEF Layout, Body
<1>24. BindsOnEthereum(b, e) <=> Fits(e.id, IdWidth) /\ Encodable(c) /\ Layout(b, c)
  BY ONLY <1>1, <1>11, <1>12, <1>13, <1>14, <1>15, <1>17, <1>18, <1>19, <1>20, <1>21, <1>22, <1>23
<1> QED
  BY ONLY <1>24 DEF c

\* The Ethereum agent's parser accepts for an escrow exactly the bytes that
\* the prover's decoder takes for that escrow's release.
THEOREM EthereumParserAgrees ==
    ASSUME NEW b \in Bytes, NEW e \in Held("Ethereum", AddressLen, Nat, Nat)
    PROVE  BindsOnEthereum(b, e) <=> from_journal_bytes(b) = Release(e)
<1> DEFINE c == Release(e)
<1>1. c \in Commitment(Nat)
  <2>1. AddressLen \in Nat
    BY WidthAssumption
  <2> QED
    BY ONLY <2>1, ReleaseType, e \in Held("Ethereum", AddressLen, Nat, Nat)
<1>2. c.escrow_id = e.id
  BY DEF Release
<1>3. BindsOnEthereum(b, e) <=> Fits(e.id, IdWidth) /\ Encodable(c) /\ Layout(b, c)
  BY BindsLayout
<1> HIDE DEF c
<1>4. c \in PublicCommitment <=> Fits(e.id, IdWidth)
  BY ONLY <1>1, <1>2 DEF PublicCommitment, Commitment, Numbers
<1>5. CASE Fits(e.id, IdWidth)
  <2>1. from_journal_bytes(b) = c <=> Encodable(c) /\ Layout(b, c)
    BY ONLY <1>4, <1>5, Decodes, b \in Bytes
  <2> QED
    BY ONLY <1>3, <1>5, <2>1 DEF c
<1>6. CASE ~ Fits(e.id, IdWidth)
  <2>1. c # Error
    BY ONLY <1>1, ErrorAssumption
  <2>2. from_journal_bytes(b) # c
    BY ONLY <1>4, <1>6, <2>1, DecoderType, b \in Bytes
  <2> QED
    BY ONLY <1>3, <1>6, <2>2 DEF c
<1> QED
  BY <1>5, <1>6

(***************************************************************************)
(* The Solana agent writes the journal                                     *)
(***************************************************************************)
LEMMA Regrouped ==
    ASSUME NEW s \in Bytes, NEW t \in Bytes, NEW u \in Bytes
    PROVE  s \o (t \o u) = (s \o t) \o u
BY ConcatAssociative DEF Bytes

\* The four leading bytes of a release's journal.
LEMMA FirstFour == <<1, 1>> \o <<1, 2>> = <<1, 1, 1, 2>>
<1> DEFINE x == <<1, 1>>
           y == <<1, 2>>
           z == <<1, 1, 1, 2>>
<1>1. x \in Bytes /\ y \in Bytes /\ z \in Bytes
  BY Tags DEF Bytes
<1>2. /\ Len(x) = 2 /\ x[1] = 1 /\ x[2] = 1
      /\ Len(y) = 2 /\ y[1] = 1 /\ y[2] = 2
      /\ Len(z) = 4 /\ z[1] = 1 /\ z[2] = 1 /\ z[3] = 1 /\ z[4] = 2
  OBVIOUS
<1> HIDE DEF x, y, z
<1> DEFINE u == x \o y
<1>3. /\ u \in Bytes /\ Len(u) = Len(x) + Len(y)
      /\ \A i \in 1 .. Len(x) : u[i] = x[i]
      /\ \A i \in 1 .. Len(y) : u[Len(x) + i] = y[i]
  BY ONLY <1>1, Joined
<1> HIDE DEF u
<1>4. Len(u) = 4 /\ u[1] = 1 /\ u[2] = 1
  BY ONLY <1>2, <1>3
<1>5. u[2 + 1] = 1 /\ u[2 + 2] = 2
  BY ONLY <1>2, <1>3
<1>6. u[3] = 1 /\ u[4] = 2
  BY ONLY <1>5
<1>7. \A i \in 1 .. Len(u) : u[i] = z[i]
  BY ONLY <1>2, <1>4, <1>6
<1>8. u = z
  BY ONLY <1>1, <1>2, <1>3, <1>4, <1>7, SameBytes
<1> QED
  BY ONLY <1>8 DEF u, x, y, z

\* An amount of few bytes, widened, is the same number of more bytes.
LEMMA WidenedNumber ==
    ASSUME NEW n \in Nat, Fits(n, LamportWidth)
    PROVE  Fits(n, AmountWidth) /\ Widened(n) = BigEndian(n, AmountWidth)
<1>1. LamportWidth \in Nat /\ AmountWidth \in Nat /\ LamportWidth <= AmountWidth
  BY WidthAssumption
<1>2. \A k \in Nat : LamportWidth <= k => Shifted(n)[k] = 0
  BY ONLY <1>1, ShiftedOut, n \in Nat, Fits(n, LamportWidth) DEF Fits
<1> DEFINE pad == AmountWidth - LamportWidth
           z == BigEndian(0, pad)
           s == BigEndian(n, LamportWidth)
           t == BigEndian(n, AmountWidth)
<1>3. pad \in Nat /\ AmountWidth = pad + LamportWidth
  BY ONLY <1>1
<1>4. /\ z \in Bytes /\ Len(z) = pad
      /\ \A i \in 1 .. pad : z[i] = Shifted(0)[pad - i] % ByteValues
  BY ONLY <1>3, BigEndianType, 0 \in Nat
<1>5. /\ s \in Bytes /\ Len(s) = LamportWidth
      /\ \A i \in 1 .. LamportWidth : s[i] = Shifted(n)[LamportWidth - i] % ByteValues
  BY ONLY <1>1, BigEndianType, n \in Nat
<1>6. /\ t \in Bytes /\ Len(t) = AmountWidth
      /\ \A i \in 1 .. AmountWidth : t[i] = Shifted(n)[AmountWidth - i] % ByteValues
  BY ONLY <1>1, BigEndianType, n \in Nat
<1>7. Widened(n) = z \o s
  BY DEF Widened
<1> HIDE DEF z, s, t, pad
<1> DEFINE u == z \o s
<1>8. /\ u \in Bytes /\ Len(u) = pad + LamportWidth
      /\ \A i \in 1 .. pad : u[i] = z[i]
      /\ \A i \in 1 .. LamportWidth : u[pad + i] = s[i]
  BY ONLY <1>4, <1>5, Joined
<1> HIDE DEF u
<1>9. ASSUME NEW i \in 1 .. Len(u) PROVE u[i] = t[i]
  <2>1. i \in 1 .. pad + LamportWidth
    BY ONLY <1>8, i \in 1 .. Len(u)
  <2>2. t[i] = Shifted(n)[AmountWidth - i] % ByteValues
    BY ONLY <1>3, <1>6, <2>1
  <2>3. CASE i <= pad
    <3>1. i \in 1 .. pad /\ pad - i \in Nat /\ AmountWidth - i \in Nat
            /\ LamportWidth <= AmountWidth - i
      BY ONLY <1>1, <1>3, <2>1, <2>3
    <3>2. Shifted(0)[pad - i] = 0
      BY ONLY <3>1, SmallNumbers DEF Fits
    <3>3. Shifted(n)[AmountWidth - i] = 0
      BY ONLY <1>2, <3>1
    <3> QED
      BY ONLY <1>4, <1>8, <2>2, <3>1, <3>2, <3>3
  <2>4. CASE ~ (i <= pad)
    <3> DEFINE j == i - pad
    <3>1. j \in 1 .. LamportWidth /\ pad + j = i /\ LamportWidth - j = AmountWidth - i
      BY ONLY <1>1, <1>3, <2>1, <2>4
    <3> HIDE DEF j
    <3>2. u[pad + j] = s[j] /\ s[j] = Shifted(n)[LamportWidth - j] % ByteValues
      BY ONLY <1>5, <1>8, <3>1
    <3> QED
      BY ONLY <2>2, <3>1, <3>2
  <2> QED
    BY <2>3, <2>4
<1>10. u = t
  <2>1. Len(u) = Len(t)
    BY ONLY <1>3, <1>6, <1>8
  <2> QED
    BY ONLY <1>6, <1>8, <1>9, <2>1, SameBytes
<1>11. Fits(n, AmountWidth)
  BY ONLY <1>1, <1>2 DEF Fits
<1> QED
  BY <1>7, <1>10, <1>11 DEF u, t

\* The Solana agent's encoder, which has the public keys' lengths and the
\* empty token built in, writes the journal that the guest's encoder writes
\* for the escrow's release.
THEOREM SolanaEncoderAgrees ==
    ASSUME NEW e \in Held("Solana", PubkeyLen, Numbers(IdWidth), Numbers(LamportWidth))
    PROVE  /\ reconstruct_journal(e) = to_journal_bytes(Release(e))
           /\ Release(e) \in PublicCommitment
           /\ reconstruct_journal(e) \in Bytes
<1> DEFINE c == Release(e)
           pubkey == BigEndian(PubkeyLen, LenWidth)
           id == BigEndian(e.id, IdWidth)
           amount == BigEndian(e.amount, AmountWidth)
           zero == BigEndian(0, LenWidth)
           head == <<1, 1, 1, 2>>
           tag == <<0>>
           last == <<e.condition>>
           s1 == head \o pubkey \o e.agent
           s2 == s1 \o id
           s3 == s2 \o pubkey \o e.sender
           s4 == s3 \o pubkey \o e.recipient
<1>1. LenWidth \in Nat /\ IdWidth \in Nat /\ PubkeyLen \in Nat /\ Fits(PubkeyLen, LenWidth)
  BY WidthAssumption
<1>2. /\ e \in Held("Solana", PubkeyLen, Nat, Nat)
      /\ Fits(e.id, IdWidth) /\ Fits(e.amount, LamportWidth)
  BY DEF Held, Numbers
<1>3. /\ c \in Commitment(Nat)
      /\ e.agent \in Bytes /\ Len(e.agent) = PubkeyLen
      /\ e.sender \in Bytes /\ Len(e.sender) = PubkeyLen
      /\ e.recipient \in Bytes /\ Len(e.recipient) = PubkeyLen
      /\ e.id \in Nat /\ e.amount \in Nat /\ e.condition \in Byte
      /\ e.chain = "Solana"
  BY ONLY <1>1, <1>2, ReleaseType
<1>4. /\ c.agent_id = e.agent /\ c.escrow_id = e.id /\ c.sender = e.sender
      /\ c.recipient = e.recipient /\ c.asset_kind = "Native" /\ c.asset_token = <<>>
      /\ c.amount = e.amount /\ c.condition = e.condition
      /\ c.chain = "Solana" /\ c.outcome = "ConditionsMet"
  BY ONLY <1>3 DEF Release
<1> HIDE DEF c
<1>5. c \in PublicCommitment
  BY ONLY <1>2, <1>3, <1>4 DEF PublicCommitment, Commitment, Numbers
<1>6. <<>> \in Bytes /\ FitsPrefix(<<>>) /\ push_bytes(<<>>) = zero
  BY EmptyField
<1>7. Fits(e.amount, AmountWidth) /\ Widened(e.amount) = amount
  BY ONLY <1>2, <1>3, WidenedNumber
<1>8. Encodable(c)
  BY ONLY <1>1, <1>3, <1>4, <1>6, <1>7 DEF Encodable, FitsPrefix
<1>9. pubkey \in Bytes /\ id \in Bytes
  BY ONLY <1>1, <1>3, BigEndianType
<1>10. head \in Bytes
  BY Tags DEF Bytes
<1>11. /\ push_bytes(e.agent) = pubkey \o e.agent
       /\ push_bytes(e.sender) = pubkey \o e.sender
       /\ push_bytes(e.recipient) = pubkey \o e.recipient
  BY ONLY <1>3 DEF push_bytes
<1>12. <<1, chain_tag(c.chain)>> \o OutcomeBytes(c.outcome) = head
  <2>1. chain_tag(c.chain) = 1 /\ OutcomeBytes(c.outcome) = <<1, 2>>
    BY ONLY <1>4 DEF chain_tag, OutcomeBytes, state_tag
  <2>2. <<1, 1>> \o <<1, 2>> = <<1, 1, 1, 2>>
    BY ONLY FirstFour
  <2> QED
    BY ONLY <2>1, <2>2
<1>14. reconstruct_journal(e) = s4 \o tag \o zero \o amount \o last
  BY ONLY <1>7 DEF reconstruct_journal
<1> DEFINE t2 == push_bytes(c.agent_id)
           t3 == BigEndian(c.escrow_id, IdWidth)
           t4 == push_bytes(c.sender)
           t5 == push_bytes(c.recipient)
           t6 == <<asset_kind_tag(c.asset_kind)>>
           t7 == push_bytes(c.asset_token)
           t8 == BigEndian(c.amount, AmountWidth)
           t9 == <<c.condition>>
           r1 == <<1, chain_tag(c.chain)>> \o OutcomeBytes(c.outcome)
           r2 == r1 \o t2
           r3 == r2 \o t3
           r4 == r3 \o t4
           r5 == r4 \o t5
<1>13. Encoding(c) = r5 \o t6 \o t7 \o t8 \o t9
  BY DEF Encoding
<1>20. r1 = head
  BY <1>12
<1>21. /\ t2 = pubkey \o e.agent /\ t3 = id /\ t4 = pubkey \o e.sender
       /\ t5 = pubkey \o e.recipient
  BY ONLY <1>4, <1>11
<1>22. t6 = tag /\ t7 = zero /\ t8 = amount /\ t9 = last
  BY ONLY <1>4, <1>6 DEF asset_kind_tag
<1> HIDE DEF pubkey, id, amount, zero, head, tag, last, t2, t3, t4, t5, t6, t7, t8, t9, r1
<1>15. r2 = s1
  <2>1. head \o (pubkey \o e.agent) = (head \o pubkey) \o e.agent
    BY ONLY <1>3, <1>9, <1>10, Regrouped
  <2>2. r2 = head \o (pubkey \o e.agent)
    BY ONLY <1>20, <1>21
  <2> QED
    BY ONLY <2>1, <2>2
<1> HIDE DEF r2
<1>16. s1 \in Bytes
  <2>1. head \o pubkey \in Bytes
    BY ONLY <1>9, <1>10, Joined
  <2> QED
    BY ONLY <1>3, <2>1, Joined
<1> HIDE DEF s1
<1>17. s2 \in Bytes
  BY ONLY <1>9, <1>16, Joined
<1>23. r3 = s2
  BY ONLY <1>15, <1>21
<1> HIDE DEF s2, r3
<1>18. r4 = s3
  <2>1. s2 \o (pubkey \o e.sender) = (s2 \o pubkey) \o e.sender
    BY ONLY <1>3, <1>9, <1>17, Regrouped
  <2>2. r4 = s2 \o (pubkey \o e.sender)
    BY ONLY <1>21, <1>23
  <2> QED
    BY ONLY <2>1, <2>2
<1>19. s3 \in Bytes
  <2>1. s2 \o pubkey \in Bytes
    BY ONLY <1>9, <1>17, Joined
  <2> QED
    BY ONLY <1>3, <2>1, Joined
<1> HIDE DEF s3, r4
<1>24. r5 = s4
  <2>1. s3 \o (pubkey \o e.recipient) = (s3 \o pubkey) \o e.recipient
    BY ONLY <1>3, <1>9, <1>19, Regrouped
  <2>2. r5 = s3 \o (pubkey \o e.recipient)
    BY ONLY <1>18, <1>21
  <2> QED
    BY ONLY <2>1, <2>2
<1> HIDE DEF s4, r5
<1>25. Encoding(c) = reconstruct_journal(e)
  BY ONLY <1>13, <1>14, <1>22, <1>24
<1>26. Encoding(c) \in Bytes
  BY ONLY <1>3, <1>6, EncodingReads
<1>27. to_journal_bytes(c) = Encoding(c)
  <2>1. Layout(Encoding(c), c)
    BY ONLY <1>3, <1>26, EncodingReads
  <2> QED
    BY ONLY <1>3, <1>8, <1>26, <2>1, Encodes
<1> QED
  BY ONLY <1>5, <1>25, <1>26, <1>27 DEF c

(***************************************************************************)
(* The invariants                                                          *)
(***************************************************************************)

\* Until a byte is edited, the bytes are what the guest committed.  Nothing
\* else is needed: that edited bytes are read alike is true of any bytes.
Unedited == edits = 0 => bytes = to_journal_bytes(committed)
Inv == TypeOK /\ Unedited

\* Inserting, deleting and changing a byte gives bytes.
LEMMA EditedBytes ==
    ASSUME NEW b \in Bytes, NEW x \in Byte
    PROVE  /\ \A i \in 1 .. Len(b) + 1 : InsertAt(b, i, x) \in Bytes
           /\ \A i \in 1 .. Len(b) : RemoveAt(b, i) \in Bytes
           /\ \A i \in 1 .. Len(b) : ReplaceAt(b, i, x) \in Bytes
<1>1. Len(b) \in Nat
  BY DEF Bytes
<1>2. \A m \in Nat, n \in Nat : m <= Len(b) + 1 /\ m >= 1 /\ n <= Len(b) => SubSeq(b, m, n) \in Bytes
  BY DEF Bytes
<1>3. <<x>> \in Bytes
  BY DEF Bytes
<1>4. ASSUME NEW i \in 1 .. Len(b) + 1 PROVE InsertAt(b, i, x) \in Bytes
  <2>1. SubSeq(b, 1, i - 1) \in Bytes
    BY ONLY <1>1, <1>2, i \in 1 .. Len(b) + 1
  <2>2. SubSeq(b, i, Len(b)) \in Bytes
    BY ONLY <1>1, <1>2, i \in 1 .. Len(b) + 1
  <2>3. SubSeq(b, 1, i - 1) \o <<x>> \in Bytes
    BY ONLY <1>3, <2>1, Joined
  <2>4. (SubSeq(b, 1, i - 1) \o <<x>>) \o SubSeq(b, i, Len(b)) \in Bytes
    BY ONLY <2>2, <2>3, Joined
  <2> QED
    BY ONLY <2>4 DEF InsertAt
<1>5. ASSUME NEW i \in 1 .. Len(b) PROVE RemoveAt(b, i) \in Bytes
  <2>1. SubSeq(b, 1, i - 1) \in Bytes
    BY ONLY <1>1, <1>2, i \in 1 .. Len(b)
  <2>2. SubSeq(b, i + 1, Len(b)) \in Bytes
    BY ONLY <1>1, <1>2, i \in 1 .. Len(b)
  <2>3. SubSeq(b, 1, i - 1) \o SubSeq(b, i + 1, Len(b)) \in Bytes
    BY ONLY <2>1, <2>2, Joined
  <2> QED
    BY ONLY <2>3 DEF RemoveAt
<1>6. ASSUME NEW i \in 1 .. Len(b) PROVE ReplaceAt(b, i, x) \in Bytes
  BY DEF ReplaceAt, Bytes
<1> QED
  BY <1>4, <1>5, <1>6

\* What the guest commits satisfies the invariant.
LEMMA InitInv == Init => Inv
<1> SUFFICES ASSUME Init PROVE Inv
  OBVIOUS
<1>1. committed \in PublicCommitment
  BY DataAssumption DEF Init
<1>2. committed \in Commitment(Nat)
  BY <1>1 DEF PublicCommitment, Commitment, Numbers
<1>3. to_journal_bytes(committed) \in Bytes \cup {Error}
  <2>1. <<>> \in Bytes
    BY EmptyField
  <2> QED
    BY ONLY <1>2, <2>1, Encodes
<1>4. 0 \in 0 .. MaxEdits
  BY WidthAssumption
<1> QED
  BY <1>1, <1>3, <1>4 DEF Init, Inv, TypeOK, Unedited, Bytes

\* Submitting other bytes keeps the invariant.
LEMMA EditInv ==
    ASSUME Inv, NEW b \in Bytes, Edit(b)
    PROVE  Inv'
<1>1. MaxEdits \in Nat
  BY WidthAssumption
<1>2. /\ committed' = committed /\ escrow' = escrow
      /\ bytes' = b /\ edits' = edits + 1 /\ edits < MaxEdits
  BY DEF Edit
<1>3. edits \in 0 .. MaxEdits /\ committed \in PublicCommitment /\ escrow \in Escrows
  BY DEF Inv, TypeOK
<1>4. edits' \in 0 .. MaxEdits /\ edits' # 0
  BY ONLY <1>1, <1>2, <1>3
<1>5. TypeOK'
  BY <1>2, <1>3, <1>4 DEF TypeOK, Bytes
<1>6. Unedited'
  BY <1>4 DEF Unedited
<1> QED
  BY <1>5, <1>6 DEF Inv

\* Every edit yields bytes again, and counts.
LEMMA NextInv == Inv /\ [Next]_vars => Inv'
<1> SUFFICES ASSUME Inv, [Next]_vars PROVE Inv'
  OBVIOUS
<1>1. bytes # Error => bytes \in Bytes
  BY DEF Inv, TypeOK, Bytes
<1>2. CASE Insert
  <2>1. PICK i \in 1 .. Len(bytes) + 1, x \in Byte : Edit(InsertAt(bytes, i, x))
    BY <1>2 DEF Insert
  <2>2. InsertAt(bytes, i, x) \in Bytes
    BY <1>1, <1>2, <2>1, EditedBytes DEF Insert
  <2> QED
    BY <2>1, <2>2, EditInv
<1>3. CASE Delete
  <2>1. PICK i \in 1 .. Len(bytes) : Edit(RemoveAt(bytes, i))
    BY <1>3 DEF Delete
  <2>2. 0 \in Byte
    BY Tags
  <2>3. RemoveAt(bytes, i) \in Bytes
    BY <1>1, <1>3, <2>1, <2>2, EditedBytes DEF Delete
  <2> QED
    BY <2>1, <2>3, EditInv
<1>4. CASE Change
  <2>1. PICK i \in 1 .. Len(bytes), x \in Byte : Edit(ReplaceAt(bytes, i, x))
    BY <1>4 DEF Change
  <2>2. ReplaceAt(bytes, i, x) \in Bytes
    BY <1>1, <1>4, <2>1, EditedBytes DEF Change
  <2> QED
    BY <2>1, <2>2, EditInv
<1>5. CASE UNCHANGED vars
  BY <1>5 DEF vars, Inv, TypeOK, Unedited
<1> QED
  BY <1>2, <1>3, <1>4, <1>5 DEF Next

\* The inductive invariant: types, and bytes nobody edited are the journal of
\* the commitment.
THEOREM Invariance == Spec => []Inv
BY InitInv, NextInv, PTL DEF Spec

\* Every value is of its type; in particular what the guest commits, and any
\* edit of it, are bytes.
THEOREM TypeCorrect == Spec => []TypeOK
<1>1. Inv => TypeOK
  BY DEF Inv
<1> QED
  BY <1>1, Invariance, PTL

\* The prover reads back what the guest committed.
THEOREM RoundTrips == Spec => []RoundTrip
<1>1. Inv => RoundTrip
  <2> SUFFICES ASSUME Inv, edits = 0, bytes # Error
               PROVE  from_journal_bytes(bytes) = committed
    BY DEF RoundTrip
  <2>1. bytes \in Bytes /\ committed \in PublicCommitment
    BY DEF Inv, TypeOK, Bytes
  <2>2. to_journal_bytes(committed) = bytes
    BY DEF Inv, Unedited
  <2> QED
    BY ONLY <2>1, <2>2, CodecsAgree
<1> QED
  BY <1>1, Invariance, PTL

\* A commitment has one journal, whatever bytes are submitted.
THEOREM CanonicalBytes == Spec => []Canonical
<1>1. Inv => Canonical
  <2> DEFINE decoded == from_journal_bytes(bytes)
  <2> SUFFICES ASSUME Inv, bytes # Error, decoded # Error
               PROVE  to_journal_bytes(decoded) = bytes
    BY DEF Canonical
  <2>1. bytes \in Bytes
    BY DEF Inv, TypeOK, Bytes
  <2>2. decoded \in PublicCommitment
    BY <2>1, DecoderType
  <2> QED
    BY ONLY <2>1, <2>2, CodecsAgree
<1> QED
  BY <1>1, Invariance, PTL

\* The Ethereum agent takes the release of its escrow and nothing else.
THEOREM EthereumTakes == Spec => []EthereumTakesReleaseOnly
<1>1. Inv => EthereumTakesReleaseOnly
  <2> SUFFICES ASSUME Inv, escrow.chain = "Ethereum", bytes # Error
               PROVE  BindsOnEthereum(bytes, escrow) <=> from_journal_bytes(bytes) = Release(escrow)
    BY DEF EthereumTakesReleaseOnly
  <2>1. bytes \in Bytes /\ escrow \in Escrows
    BY DEF Inv, TypeOK, Bytes
  <2>2. escrow \notin Held("Solana", PubkeyLen, Numbers(IdWidth), Numbers(LamportWidth))
    BY DEF Held
  <2>3. escrow \in Held("Ethereum", AddressLen, Numbers(AmountWidth), Numbers(AmountWidth))
    BY <2>1, <2>2, DataAssumption
  <2>4. escrow \in Held("Ethereum", AddressLen, Nat, Nat)
    BY ONLY <2>3 DEF Held, Numbers
  <2> QED
    BY ONLY <2>1, <2>4, EthereumParserAgrees
<1> QED
  BY <1>1, Invariance, PTL

\* The Solana agent takes the release of its escrow and nothing else.
THEOREM SolanaTakes == Spec => []SolanaTakesReleaseOnly
<1>1. Inv => SolanaTakesReleaseOnly
  <2> SUFFICES ASSUME Inv, escrow.chain = "Solana", bytes # Error
               PROVE  bytes = reconstruct_journal(escrow) <=> from_journal_bytes(bytes) = Release(escrow)
    BY DEF SolanaTakesReleaseOnly
  <2>1. bytes \in Bytes /\ escrow \in Escrows
    BY DEF Inv, TypeOK, Bytes
  <2>2. escrow \notin Held("Ethereum", AddressLen, Numbers(AmountWidth), Numbers(AmountWidth))
    BY DEF Held
  <2>3. escrow \in Held("Solana", PubkeyLen, Numbers(IdWidth), Numbers(LamportWidth))
    BY <2>1, <2>2, DataAssumption
  <2>4. /\ reconstruct_journal(escrow) = to_journal_bytes(Release(escrow))
        /\ Release(escrow) \in PublicCommitment
    BY ONLY <2>3, SolanaEncoderAgrees
  <2>5. to_journal_bytes(Release(escrow)) = bytes <=> from_journal_bytes(bytes) = Release(escrow)
    BY ONLY <2>1, <2>4, CodecsAgree
  <2> QED
    BY ONLY <2>4, <2>5
<1> QED
  BY <1>1, Invariance, PTL
=============================================================================
