-------------------------- MODULE BitFieldsProofs --------------------------
(***************************************************************************)
(* What the calls of the bit writer append and what the calls of the bit   *)
(* reader take, for every width: a field read where it was written gives   *)
(* the value back and ends where the field ends.  One lemma per call, each *)
(* resting on the ones it makes.                                           *)
(***************************************************************************)
EXTENDS BitFields, NaturalSets, SequenceTheorems, SequencesExt

-----------------------------------------------------------------------------
(* Bits and numbers. *)

(* The number a sequence of bits spells is reached by doubling. *)
LEMMA BitsToNatValues ==
  ASSUME NEW b \in Seq(Bit)
  PROVE  \E val : /\ val[0] = 0
                  /\ \A i \in 0..Len(b) : val[i] \in Nat
                  /\ \A i \in 0..(Len(b) - 1) : val[i + 1] = 2 * val[i] + b[i + 1]
                  /\ BitsToNat(b) = val[Len(b)]
<1> DEFINE N == Len(b)
           eq(f) == [i \in 0..N |-> IF i = 0 THEN 0 ELSE 2 * f[i - 1] + b[i]]
           step == [i \in 1..N |-> [x \in Nat |-> 2 * x + b[i]]]
           val == CHOOSE f : f = eq(f)
<1>1. N \in Nat /\ \A i \in 1..N : b[i] \in Nat
  BY LenProperties, ElementOfSeq DEF Bit
<1>2. PICK f : Unfolds(f, N, 0, step)
  <2> HIDE DEF step
  <2> QED
    BY <1>1, RecursionExists
<1>3. /\ f[0] = 0
      /\ \A i \in 1..N : f[i] = step[i][f[i - 1]]
      /\ \A i \in 0..(N - 1) : f[i + 1] = step[i + 1][f[i]]
  <2> HIDE DEF step
  <2> QED
    BY <1>1, <1>2, UnfoldsValues
<1>4. \A i \in 0..N : f[i] \in Nat
  <2> DEFINE T == {i \in 0..N : f[i] \in Nat}
  <2>1. 0 \in T
    BY <1>1, <1>3
  <2>2. ASSUME NEW i \in 0..(N - 1), i \in T PROVE i + 1 \in T
    <3>1. i + 1 \in 1..N /\ f[i] \in Nat
      BY <1>1, <2>2
    <3>2. step[i + 1][f[i]] = 2 * f[i] + b[i + 1]
      BY <3>1
    <3>3. f[i + 1] = step[i + 1][f[i]]
      BY <1>3
    <3> HIDE DEF step
    <3> QED
      BY <1>1, <3>1, <3>2, <3>3
  <2> HIDE DEF T
  <2>3. \A i \in 0..N : i \in T
    BY <1>1, <2>1, <2>2, UpTo
  <2> QED
    BY <2>3 DEF T
<1>5. f = eq(f)
  <2>1. ASSUME NEW i \in 0..N PROVE f[i] = IF i = 0 THEN 0 ELSE 2 * f[i - 1] + b[i]
    <3>1. CASE i = 0
      BY <1>3, <3>1
    <3>2. CASE i # 0
      <4>1. i \in 1..N /\ f[i - 1] \in Nat
        BY <1>1, <1>4, <3>2
      <4>2. step[i][f[i - 1]] = 2 * f[i - 1] + b[i]
        BY <4>1
      <4> QED
        BY <1>3, <3>2, <4>1, <4>2
    <3> QED
      BY <3>1, <3>2
  <2>2. f = [i \in 0..N |-> f[i]]
    <3> HIDE DEF step
    <3> QED
      BY <1>2 DEF Unfolds
  <2> HIDE DEF step
  <2> QED
    BY <2>1, <2>2
<1>6. val = eq(val)
  <2> HIDE DEF eq
  <2> QED
    BY <1>5, Zenon
<1>7. BitsToNat(b) = val[N]
  BY Zenon DEF BitsToNat
<1> HIDE DEF val
<1>8. val[0] = 0 /\ \A i \in 0..(N - 1) : val[i + 1] = 2 * val[i] + b[i + 1]
  <2>1. val[0] = 0
    BY <1>1, <1>6
  <2>2. ASSUME NEW i \in 0..(N - 1) PROVE val[i + 1] = 2 * val[i] + b[i + 1]
    <3>1. i + 1 \in 0..N /\ i + 1 # 0 /\ (i + 1) - 1 = i
      BY <1>1
    <3>2. val[i + 1] = 2 * val[(i + 1) - 1] + b[i + 1]
      BY <1>6, <3>1
    <3> QED
      BY <3>1, <3>2
  <2> QED
    BY <2>1, <2>2
<1>9. \A i \in 0..N : val[i] \in Nat
  <2> DEFINE T == {i \in 0..N : val[i] \in Nat}
  <2>1. 0 \in T
    BY <1>1, <1>8
  <2>2. ASSUME NEW i \in 0..(N - 1), i \in T PROVE i + 1 \in T
    BY <1>1, <1>8, <2>2
  <2> HIDE DEF T
  <2>3. \A i \in 0..N : i \in T
    BY <1>1, <2>1, <2>2, UpTo
  <2> QED
    BY <2>3 DEF T
<1> QED
  BY <1>7, <1>8, <1>9

(* n bits spell a number below 2^n. *)
LEMMA BitsToNatBound ==
  ASSUME NEW b \in Seq(Bit)
  PROVE  BitsToNat(b) \in 0..(Pow2[Len(b)] - 1)
<1> DEFINE N == Len(b)
<1>1. PICK val : /\ val[0] = 0
                 /\ \A i \in 0..N : val[i] \in Nat
                 /\ \A i \in 0..(N - 1) : val[i + 1] = 2 * val[i] + b[i + 1]
                 /\ BitsToNat(b) = val[N]
  BY BitsToNatValues
<1>2. N \in Nat /\ \A i \in 1..N : b[i] \in 0..1
  BY LenProperties, ElementOfSeq DEF Bit
<1> DEFINE T == {i \in 0..N : val[i] < Pow2[i]}
<1>3. 0 \in T
  BY <1>1, <1>2, Pow2Def, SMTT(30)
<1>4. ASSUME NEW i \in 0..(N - 1), i \in T PROVE i + 1 \in T
  <2>1. i + 1 \in 1..N /\ i \in Nat /\ i \in 0..N
    BY <1>2
  <2>2. Pow2[i + 1] = 2 * Pow2[i] /\ Pow2[i] \in Nat
    BY <2>1, Pow2Def
  <2> QED
    BY <1>1, <1>2, <1>4, <2>1, <2>2, SMTT(30)
<1> HIDE DEF T
<1>5. \A i \in 0..N : i \in T
  BY <1>2, <1>3, <1>4, UpTo
<1> QED
  BY <1>1, <1>2, <1>5, Pow2Type DEF T

LEMMA NatToBitsType ==
  ASSUME NEW v \in Nat, NEW n \in Nat
  PROVE  NatToBits(v, n) \in Seq(Bit) /\ Len(NatToBits(v, n)) = n
<1>1. ASSUME NEW i \in 1..n PROVE (v \div Pow2[n - i]) % 2 \in Bit
  <2>1. Pow2[n - i] \in Nat /\ Pow2[n - i] > 0
    BY Pow2Type
  <2>2. v \div Pow2[n - i] \in Nat
    BY <2>1, DivMod
  <2> QED
    BY <2>2 DEF Bit
<1> QED
  BY <1>1 DEF NatToBits

(* n bits spell the number they were made of. *)
LEMMA BitsToNatOfNatToBits ==
  ASSUME NEW v \in Nat, NEW n \in Nat, v < Pow2[n]
  PROVE  BitsToNat(NatToBits(v, n)) = v
<1> DEFINE b == NatToBits(v, n)
<1>1. b \in Seq(Bit) /\ Len(b) = n
  BY NatToBitsType
<1>2. PICK val : /\ val[0] = 0
                 /\ \A i \in 0..n : val[i] \in Nat
                 /\ \A i \in 0..(n - 1) : val[i + 1] = 2 * val[i] + b[i + 1]
                 /\ BitsToNat(b) = val[n]
  BY <1>1, BitsToNatValues
<1>3. \A i \in 1..n : b[i] = (v \div Pow2[n - i]) % 2
  BY DEF NatToBits
<1> HIDE DEF b
<1> DEFINE T == {i \in 0..n : val[i] = v \div Pow2[n - i]}
<1>4. 0 \in T
  <2>1. Pow2[n] \in Nat /\ Pow2[n] > 0 /\ n - 0 = n
    BY Pow2Type
  <2>2. v \div Pow2[n] = 0
    BY <2>1
  <2> QED
    BY <1>2, <2>1, <2>2
<1>5. ASSUME NEW i \in 0..(n - 1), i \in T PROVE i + 1 \in T
  <2> DEFINE d == Pow2[n - (i + 1)]
  <2>1. n - (i + 1) \in Nat /\ (n - (i + 1)) + 1 = n - i /\ i + 1 \in 1..n
    OBVIOUS
  <2>2. d \in Nat /\ d > 0 /\ Pow2[n - i] = 2 * d
    BY <2>1, Pow2Def
  <2>3. val[i + 1] = 2 * (v \div (2 * d)) + ((v \div d) % 2)
    BY <1>2, <1>3, <1>5, <2>1, <2>2
  <2> HIDE DEF d
  <2>4. v \div d \in Nat /\ (v \div d) \div 2 = v \div (2 * d)
    BY <2>2, DivMod, DivTwice
  <2>5. 2 * ((v \div d) \div 2) + ((v \div d) % 2) = v \div d
    BY <2>4
  <2> QED
    BY <2>1, <2>3, <2>4, <2>5 DEF d
<1> HIDE DEF T
<1>6. \A i \in 0..n : i \in T
  BY <1>4, <1>5, UpTo
<1>7. val[n] = v \div Pow2[n - n]
  BY <1>6 DEF T
<1>8. Pow2[n - n] = 1
  BY Pow2Def
<1> QED
  BY <1>2, <1>7, <1>8 DEF b

-----------------------------------------------------------------------------
(* Streams and fields. *)

(* t is s with more bits behind it. *)
Extends(t, s) == Len(s) <= Len(t) /\ \A i \in 1..Len(s) : t[i] = s[i]

(* The n bits of s behind position p spell v. *)
FieldAt(s, p, v, n) ==
  p + n <= Len(s) /\ \A i \in 1..n : s[p + i] = NatToBits(v, n)[i]

LEMMA ConcatExtends ==
  ASSUME NEW s \in Seq(Bit), NEW x \in Seq(Bit)
  PROVE  /\ s \o x \in Seq(Bit) /\ Len(s \o x) = Len(s) + Len(x)
         /\ Extends(s \o x, s)
         /\ \A i \in 1..Len(x) : (s \o x)[Len(s) + i] = x[i]
BY DEF Extends

LEMMA ExtendsTransitive ==
  ASSUME NEW s \in Seq(Bit), NEW t \in Seq(Bit), NEW u \in Seq(Bit),
         Extends(t, s), Extends(u, t)
  PROVE  Extends(u, s)
BY LenProperties DEF Extends

LEMMA FieldStays ==
  ASSUME NEW s \in Seq(Bit), NEW t \in Seq(Bit), Extends(t, s),
         NEW p \in Nat, NEW v, NEW n \in Nat, FieldAt(s, p, v, n)
  PROVE  FieldAt(t, p, v, n)
<1>1. Len(s) \in Nat /\ Len(t) \in Nat /\ p + n <= Len(t)
  BY LenProperties DEF Extends, FieldAt
<1>2. ASSUME NEW i \in 1..n PROVE t[p + i] = NatToBits(v, n)[i]
  <2>1. p + i \in 1..Len(s)
    BY <1>1 DEF FieldAt
  <2> QED
    BY <2>1 DEF FieldAt, Extends
<1> QED
  BY <1>1, <1>2 DEF FieldAt

(* write_bits: a value that fits is appended, any other changes nothing. *)
LEMMA WriteBitsAppends ==
  ASSUME NEW s \in Seq(Bit), NEW v \in Nat, NEW n \in Nat, n <= WordBits, v < Pow2[n]
  PROVE  \E t \in Seq(Bit) :
           /\ WriteBits([ok |-> TRUE, bits |-> s], v, n) = [ok |-> TRUE, bits |-> t]
           /\ Len(t) = Len(s) + n /\ Extends(t, s) /\ FieldAt(t, Len(s), v, n)
<1> DEFINE x == NatToBits(v, n)
           t == s \o x
<1>1. x \in Seq(Bit) /\ Len(x) = n
  BY NatToBitsType
<1>2. WriteBits([ok |-> TRUE, bits |-> s], v, n) = [ok |-> TRUE, bits |-> t]
  BY DEF WriteBits
<1> HIDE DEF x
<1>3. t \in Seq(Bit) /\ Len(t) = Len(s) + n /\ Extends(t, s)
      /\ \A i \in 1..n : t[Len(s) + i] = x[i]
  BY <1>1, ConcatExtends
<1>4. FieldAt(t, Len(s), v, n)
  BY <1>3 DEF FieldAt, x
<1> QED
  BY <1>2, <1>3, <1>4

LEMMA WriteBitsRefuses ==
  ASSUME NEW s, NEW v \in Nat, NEW n \in Nat, ~(n <= WordBits /\ v < Pow2[n])
  PROVE  WriteBits([ok |-> TRUE, bits |-> s], v, n) = [ok |-> FALSE, bits |-> s]
BY DEF WriteBits, WriteFail

(* A reader of bits, as read_bits returns it, inside bits. *)
Inside(r, bits) ==
  r = [ok |-> r.ok, pos |-> r.pos, val |-> r.val] /\ r.pos \in 0..Len(bits)

(* A reader set down inside the stream. *)
LEMMA ReaderAtInside ==
  ASSUME NEW s, NEW p \in 0..Len(s)
  PROVE  Inside(ReaderAt(p), s) /\ ReaderAt(p).ok = TRUE /\ ReaderAt(p).pos = p
BY DEF Inside, ReaderAt

(* read_bits stays inside the stream, and the value fits the width. *)
LEMMA ReadBitsInside ==
  ASSUME NEW bits \in Seq(Bit), NEW r, Inside(r, bits), NEW n \in Nat
  PROVE  /\ Inside(ReadBits(bits, r, n), bits)
         /\ ReadBits(bits, r, n).val \in 0..(Pow2[n] - 1)
         /\ ReadBits(bits, r, n).ok => /\ r.ok /\ n <= WordBits
                                       /\ ReadBits(bits, r, n).pos = r.pos + n
<1> DEFINE q == ReadBits(bits, r, n)
           b == SubSeq(bits, r.pos + 1, r.pos + n)
<1>1. CASE r.ok /\ n <= WordBits /\ r.pos + n <= Len(bits)
  <2>1. q = [ok |-> TRUE, pos |-> r.pos + n, val |-> BitsToNat(b)]
    BY <1>1 DEF ReadBits
  <2>2. r.pos \in Nat /\ r.pos + n \in 0..Len(bits) /\ Len(bits) \in Nat
    BY <1>1, LenProperties DEF Inside
  <2>3. b \in Seq(Bit) /\ Len(b) = n
    BY <2>2, SubSeqProperties
  <2> HIDE DEF b
  <2>4. BitsToNat(b) \in 0..(Pow2[n] - 1)
    BY <2>3, BitsToNatBound
  <2> QED
    BY <1>1, <2>1, <2>2, <2>4 DEF Inside
<1>2. CASE ~(r.ok /\ n <= WordBits /\ r.pos + n <= Len(bits))
  <2>1. q = [ok |-> FALSE, pos |-> r.pos, val |-> 0]
    BY <1>2 DEF ReadBits, ReadFail
  <2>2. 0 \in 0..(Pow2[n] - 1)
    BY Pow2Type
  <2> QED
    BY <2>1, <2>2 DEF Inside
<1> QED
  BY <1>1, <1>2

(* ... and reads back the field it finds. *)
LEMMA ReadBitsReadsField ==
  ASSUME NEW bits \in Seq(Bit), NEW r, r.ok = TRUE, r.pos \in Nat,
         NEW v \in Nat, NEW n \in Nat, n <= WordBits, v < Pow2[n],
         FieldAt(bits, r.pos, v, n)
  PROVE  ReadBits(bits, r, n) = [ok |-> TRUE, pos |-> r.pos + n, val |-> v]
<1> DEFINE b == SubSeq(bits, r.pos + 1, r.pos + n)
           x == NatToBits(v, n)
<1>1. r.pos + n <= Len(bits) /\ Len(bits) \in Nat
  BY LenProperties DEF FieldAt
<1>2. b \in Seq(Bit) /\ Len(b) = n /\ \A i \in 1..n : b[i] = bits[r.pos + i]
  <2> DEFINE p == r.pos
  <2>1. p + 1 \in Int /\ p + n \in Int /\ \A i \in (p + 1)..(p + n) : bits[i] \in Bit
    BY <1>1, ElementOfSeq
  <2> HIDE DEF p
  <2>2. /\ SubSeq(bits, p + 1, p + n) \in Seq(Bit)
        /\ Len(SubSeq(bits, p + 1, p + n)) = IF p + 1 <= p + n THEN (p + n) - (p + 1) + 1 ELSE 0
        /\ \A i \in 1..((p + n) - (p + 1) + 1) :
              SubSeq(bits, p + 1, p + n)[i] = bits[p + 1 + i - 1]
    BY <2>1, SubSeqProperties, SMTT(30)
  <2>3. p \in Nat
    BY DEF p
  <2>4. ASSUME NEW i \in 1..n PROVE SubSeq(bits, p + 1, p + n)[i] = bits[p + i]
    <3>1. p + 1 + i - 1 = p + i /\ i \in 1..((p + n) - (p + 1) + 1)
      BY <2>3
    <3> QED
      BY <2>2, <3>1
  <2>5. SubSeq(bits, p + 1, p + n) \in Seq(Bit) /\ Len(SubSeq(bits, p + 1, p + n)) = n
    BY <2>2, <2>3
  <2> QED
    BY <2>4, <2>5, Zenon DEF p
<1>3. x \in Seq(Bit) /\ Len(x) = n /\ \A i \in 1..n : bits[r.pos + i] = x[i]
  BY NatToBitsType DEF FieldAt
<1> HIDE DEF b, x
<1>4. b = x
  BY <1>2, <1>3, SeqEqual
<1>5. BitsToNat(b) = v
  BY <1>4, BitsToNatOfNatToBits DEF x
<1> QED
  BY <1>1, <1>5 DEF ReadBits, b

-----------------------------------------------------------------------------
(* Varints. *)

(* The i-th group of a varint of v, with its continuation bit. *)
VarintGroup(v, i) ==
  (IF i < VarintGroups(v) THEN Pow2[GroupBits] ELSE 0)
    + ((v \div Pow2[GroupBits * (i - 1)]) % Pow2[GroupBits])

VarintBits(v) == (GroupBits + 1) * VarintGroups(v)

(* The bits of s behind position p spell v in groups. *)
VarintAt(s, p, v) ==
  \A i \in 1..VarintGroups(v) :
    FieldAt(s, p + (GroupBits + 1) * (i - 1), VarintGroup(v, i), GroupBits + 1)

LEMMA Widths ==
  /\ WordBits \in Nat /\ GroupBits \in Nat /\ MaxGroups \in Nat /\ NibbleBits \in Nat
  /\ WordBits > 0 /\ GroupBits > 0 /\ MaxGroups > 0 /\ NibbleBits > 0
  /\ GroupBits < WordBits /\ NibbleBits <= WordBits
  /\ MaxGroups * GroupBits >= WordBits /\ (MaxGroups - 1) * GroupBits < WordBits
BY BitWidths

(* A u64 fits VARINT_MAX_GROUPS groups, and a shorter varint never has     *)
(* more groups than a longer one would leave room for.                     *)
LEMMA VarintGroupsLeast ==
  ASSUME NEW v \in Nat, v < Pow2[WordBits]
  PROVE  /\ VarintGroups(v) \in 1..MaxGroups
         /\ v < Pow2[GroupBits * VarintGroups(v)]
         /\ \A k \in Nat \ {0} : v < Pow2[GroupBits * k] => VarintGroups(v) <= k
<1> DEFINE fits(n) == v < Pow2[GroupBits * n]
           T == {n \in Nat \ {0} : fits(n)}
           least(n) == fits(n) /\ (n > 1 => v >= Pow2[GroupBits * (n - 1)])
<1>1. \A n \in Nat : GroupBits * n \in Nat
  BY Widths
<1>2. MaxGroups \in T
  <2>1. WordBits <= GroupBits * MaxGroups
    BY Widths
  <2>2. Pow2[WordBits] <= Pow2[GroupBits * MaxGroups]
    BY Widths, <1>1, <2>1, Pow2Monotone
  <2>3. Pow2[WordBits] \in Nat /\ Pow2[GroupBits * MaxGroups] \in Nat
    BY Widths, <1>1, Pow2Type
  <2> QED
    BY Widths, <2>2, <2>3
<1>3. T \in SUBSET Nat /\ T # {}
  BY <1>2
<1>4. PICK m \in T : \A n \in T : ~(n < m)
  <2> HIDE DEF T
  <2> QED
    BY <1>3, LeastElement
<1>5. m \in 1..MaxGroups
  BY <1>2, <1>4, Widths
<1>6. MaxGroups <= WordBits + 1
  <2>1. \A a, b \in Nat : a > 0 /\ b > 0 => (a - 1) * b >= a - 1
    OBVIOUS
  <2>2. (MaxGroups - 1) * GroupBits >= MaxGroups - 1
    BY Widths, <2>1
  <2>3. (MaxGroups - 1) * GroupBits \in Int
    BY Widths
  <2> QED
    BY Widths, <2>2, <2>3
<1>7. least(m)
  <2>1. ASSUME m > 1 PROVE v >= Pow2[GroupBits * (m - 1)]
    <3>1. m - 1 \in Nat \ {0} /\ m - 1 < m
      BY <1>4, <2>1
    <3>2. ~fits(m - 1)
      BY <1>4, <3>1
    <3>3. Pow2[GroupBits * (m - 1)] \in Nat
      BY <3>1, <1>1, Pow2Type
    <3> QED
      BY <3>2, <3>3
  <2> QED
    BY <1>4, <2>1
<1>8. m \in 1..(WordBits + 1)
  BY <1>5, <1>6, Widths
<1> DEFINE g == VarintGroups(v)
<1>9. g \in 1..(WordBits + 1) /\ least(g)
  <2>1. g = CHOOSE n \in 1..(WordBits + 1) : least(n)
    BY Zenon DEF VarintGroups
  <2> HIDE DEF least, g
  <2> QED
    BY <1>7, <1>8, <2>1, Zenon
<1> HIDE DEF g
<1>10. ASSUME NEW k \in Nat \ {0}, v < Pow2[GroupBits * k]
       PROVE  g <= k
  <2>1. SUFFICES ASSUME k < g PROVE FALSE
    BY <1>9, Widths
  <2>2. g > 1 /\ g - 1 \in Nat /\ k <= g - 1
    BY <1>9, <2>1, Widths
  <2>3. GroupBits * k <= GroupBits * (g - 1)
    <3>1. \A a, b, c \in Nat : a <= b => c * a <= c * b
      OBVIOUS
    <3> QED
      BY <2>2, <3>1, Widths
  <2>4. Pow2[GroupBits * k] <= Pow2[GroupBits * (g - 1)]
    BY <1>1, <2>2, <2>3, Pow2Monotone
  <2>5. Pow2[GroupBits * k] \in Nat /\ Pow2[GroupBits * (g - 1)] \in Nat
    BY <1>1, <2>2, Pow2Type
  <2> QED
    BY <1>9, <1>10, <2>2, <2>4, <2>5
<1>11. g <= m
  BY <1>4, <1>10
<1>12. g \in 1..MaxGroups
  BY <1>5, <1>9, <1>11, Widths
<1> QED
  BY <1>9, <1>10, <1>12, Zenon DEF g

(* A group is a number of GroupBits + 1 bits, its lower bits the data.     *)
LEMMA VarintGroupParts ==
  ASSUME NEW v \in Nat, NEW i \in Nat \ {0}
  PROVE  /\ VarintGroup(v, i) \in Nat /\ VarintGroup(v, i) < Pow2[GroupBits + 1]
         /\ VarintGroup(v, i) % Pow2[GroupBits]
              = (v \div Pow2[GroupBits * (i - 1)]) % Pow2[GroupBits]
         /\ (VarintGroup(v, i) \div Pow2[GroupBits] = 1) <=> (i < VarintGroups(v))
<1> DEFINE G == Pow2[GroupBits]
           q == v \div Pow2[GroupBits * (i - 1)]
           data == q % G
           c == IF i < VarintGroups(v) THEN 1 ELSE 0
<1>1. G \in Nat /\ G > 0 /\ Pow2[GroupBits + 1] = 2 * G
  BY Widths, Pow2Def
<1>2. q \in Nat
  <2>1. GroupBits * (i - 1) \in Nat
    BY Widths
  <2>2. Pow2[GroupBits * (i - 1)] \in Nat /\ Pow2[GroupBits * (i - 1)] > 0
    BY <2>1, Pow2Type
  <2> QED
    BY <2>2, DivMod
<1> HIDE DEF q
<1>3. data \in 0..(G - 1)
  BY <1>1, <1>2, DivMod
<1>4. VarintGroup(v, i) = G * c + data
  <2>1. VarintGroup(v, i) = (IF i < VarintGroups(v) THEN G ELSE 0) + data
    BY DEF VarintGroup, q
  <2> HIDE DEF data, G
  <2> QED
    BY <1>1, <1>3, <2>1
<1>5. c \in {0, 1} /\ (c = 1 <=> i < VarintGroups(v))
  OBVIOUS
<1> HIDE DEF data, c, G
<1>6. (G * c + data) \div G = c /\ (G * c + data) % G = data
  BY <1>1, <1>3, <1>5, DivUnique
<1>7. G * c + data \in Nat /\ G * c + data < 2 * G
  BY <1>1, <1>3, <1>5
<1>8. VarintGroup(v, i) % G = data /\ (VarintGroup(v, i) \div G = 1 <=> i < VarintGroups(v))
  BY <1>4, <1>5, <1>6
<1>9. VarintGroup(v, i) \in Nat /\ VarintGroup(v, i) < Pow2[GroupBits + 1]
  BY <1>1, <1>4, <1>7
<1> QED
  BY <1>8, <1>9 DEF data, q, G

(* write_varint never fails for a u64, and appends the groups of the value. *)
LEMMA WriteVarintAppends ==
  ASSUME NEW s \in Seq(Bit), NEW v \in Nat, v < Pow2[WordBits]
  PROVE  \E t \in Seq(Bit) :
           /\ WriteVarint([ok |-> TRUE, bits |-> s], v) = [ok |-> TRUE, bits |-> t]
           /\ Len(t) = Len(s) + VarintBits(v) /\ Extends(t, s) /\ VarintAt(t, Len(s), v)
<1> DEFINE n == VarintGroups(v)
           w == [ok |-> TRUE, bits |-> s]
           next(x, i) == WriteBits(x, VarintGroup(v, i), GroupBits + 1)
           eq(f) == [i \in 0..n |-> IF i = 0 THEN w ELSE next(f[i - 1], i)]
           put == CHOOSE f : f = eq(f)
           wrote(x, i) ==
             /\ x = [ok |-> TRUE, bits |-> x.bits] /\ x.bits \in Seq(Bit)
             /\ Len(x.bits) = Len(s) + (GroupBits + 1) * i /\ Extends(x.bits, s)
             /\ \A j \in 1..i : FieldAt(x.bits, Len(s) + (GroupBits + 1) * (j - 1),
                                        VarintGroup(v, j), GroupBits + 1)
<1>1. n \in 1..MaxGroups /\ n \in Nat
  BY VarintGroupsLeast, Widths
<1>2. WriteVarint(w, v) = put[n]
  <2>1. ~(n > MaxGroups)
    BY <1>1, Widths
  <2> QED
    BY <2>1, Zenon DEF WriteVarint, VarintGroup
<1>3. wrote(w, 0)
  BY LenProperties, Widths DEF Extends
<1>4. ASSUME NEW x, NEW i \in 0..(n - 1), wrote(x, i)
      PROVE  wrote(next(x, i + 1), i + 1)
  <2> DEFINE g == VarintGroup(v, i + 1)
  <2>1. g \in Nat /\ g < Pow2[GroupBits + 1]
    <3>1. i + 1 \in Nat \ {0}
      BY <1>1
    <3> QED
      BY <3>1, VarintGroupParts
  <2>2. GroupBits + 1 \in Nat /\ GroupBits + 1 <= WordBits
    BY Widths
  <2> HIDE DEF g
  <2>3. PICK t \in Seq(Bit) :
          /\ WriteBits([ok |-> TRUE, bits |-> x.bits], g, GroupBits + 1) = [ok |-> TRUE, bits |-> t]
          /\ Len(t) = Len(x.bits) + (GroupBits + 1) /\ Extends(t, x.bits)
          /\ FieldAt(t, Len(x.bits), g, GroupBits + 1)
    BY <1>4, <2>1, <2>2, WriteBitsAppends
  <2>4. next(x, i + 1) = [ok |-> TRUE, bits |-> t]
    BY <1>4, <2>3 DEF g
  <2>5. Len(s) \in Nat /\ (GroupBits + 1) * i \in Nat
        /\ (GroupBits + 1) * (i + 1) = (GroupBits + 1) * i + (GroupBits + 1)
    BY <1>1, LenProperties, Widths
  <2>6. Len(t) = Len(s) + (GroupBits + 1) * (i + 1)
    BY <1>4, <2>2, <2>3, <2>5
  <2>7. Extends(t, s)
    BY <1>4, <2>3, ExtendsTransitive
  <2>8. ASSUME NEW j \in 1..(i + 1)
        PROVE  FieldAt(t, Len(s) + (GroupBits + 1) * (j - 1), VarintGroup(v, j), GroupBits + 1)
    <3>1. CASE j = i + 1
      <4>1. Len(s) + (GroupBits + 1) * (j - 1) = Len(x.bits)
        BY <1>4, <3>1
      <4> QED
        BY <2>3, <3>1, <4>1 DEF g
    <3>2. CASE j # i + 1
      <4>1. j \in 1..i
        BY <3>2
      <4>2. (GroupBits + 1) * (j - 1) \in Nat
        BY Widths
      <4>3. Len(s) + (GroupBits + 1) * (j - 1) \in Nat
        BY <2>5, <4>2
      <4> QED
        BY <1>4, <2>2, <2>3, <4>1, <4>3, FieldStays
    <3> QED
      BY <3>1, <3>2
  <2> DEFINE y == next(x, i + 1)
  <2>9. y = [ok |-> TRUE, bits |-> t]
    BY <2>4, Zenon
  <2> HIDE DEF y
  <2>10. y = [ok |-> TRUE, bits |-> y.bits] /\ y.bits = t
    BY <2>9
  <2>11. wrote(y, i + 1)
    BY <2>6, <2>7, <2>8, <2>10
  <2> QED
    BY <2>11 DEF y
<1> HIDE DEF next, wrote, w
<1>5. \E f : f = eq(f)
  <2> DEFINE chain(f, m) == [i \in 0..m |-> IF i = 0 THEN w ELSE next(f[i - 1], i)]
             T == {m \in Nat : \E f : f = chain(f, m)}
  <2>1. 0 \in T
    <3>1. [i \in 0..0 |-> w] = chain([i \in 0..0 |-> w], 0)
      OBVIOUS
    <3> QED
      BY <3>1
  <2>2. ASSUME NEW m \in T PROVE m + 1 \in T
    <3>1. PICK f : f = chain(f, m)
      OBVIOUS
    <3> DEFINE g == [i \in 0..(m + 1) |-> IF i <= m THEN f[i] ELSE next(f[m], m + 1)]
    <3>2. ASSUME NEW i \in 0..(m + 1)
          PROVE  g[i] = IF i = 0 THEN w ELSE next(g[i - 1], i)
      BY <3>1
    <3>3. g = chain(g, m + 1)
      BY <3>2
    <3> HIDE DEF g, chain
    <3> QED
      BY <3>3
  <2>3. T \in SUBSET Nat
    OBVIOUS
  <2> HIDE DEF T
  <2>4. T = Nat
    BY <2>1, <2>2, <2>3, NatSetInduction
  <2> QED
    BY <1>1, <2>4 DEF T
<1>6. put = eq(put)
  BY <1>5, Zenon
<1> HIDE DEF put
<1>7. wrote(put[n], n)
  <2> DEFINE T == {i \in 0..n : wrote(put[i], i)}
  <2>1. 0 \in T
    BY <1>1, <1>3, <1>6
  <2>2. ASSUME NEW i \in 0..(n - 1), i \in T PROVE i + 1 \in T
    <3>1. i + 1 \in 0..n /\ i + 1 # 0 /\ (i + 1) - 1 = i
      BY <1>1
    <3>2. put[i + 1] = next(put[i], i + 1)
      BY <1>6, <3>1
    <3> QED
      BY <1>4, <2>2, <3>1, <3>2
  <2> HIDE DEF T
  <2>3. \A i \in 0..n : i \in T
    BY <1>1, <2>1, <2>2, UpTo
  <2> QED
    BY <1>1, <2>3 DEF T
<1> QED
  BY <1>2, <1>7 DEF wrote, w, VarintBits, VarintAt

(* What read_varint knows after i groups, of which it has read k: the sum  *)
(* fits the bits read, and a u64 while no read has failed.                 *)
GroupsRead(t, i, p) ==
  \E k \in 0..i : /\ t.sum < Pow2[GroupBits * k]
                  /\ t.more => k = i
                  /\ ~t.more => k > 0
                  /\ t.rd.ok => t.rd.pos = p + (GroupBits + 1) * k

TakenGroups(t, i, bits, p) ==
  /\ Inside(t.rd, bits) /\ t.sum \in Nat
  /\ GroupsRead(t, i, p)
  /\ t.rd.ok => t.sum < Pow2[WordBits]

(* One more group keeps it so. *)
LEMMA OneMoreGroup ==
  ASSUME NEW bits \in Seq(Bit), NEW p \in Nat, NEW t, NEW i \in 0..(MaxGroups - 1),
         TakenGroups(t, i, bits, p), t.more
  PROVE  TakenGroups(AddGroup(t, ReadBits(bits, t.rd, GroupBits + 1), GroupBits * i),
                     i + 1, bits, p)
<1> DEFINE rd == ReadBits(bits, t.rd, GroupBits + 1)
           G == Pow2[GroupBits]
           shift == GroupBits * i
           S == Pow2[shift]
           data == rd.val % G
           fits == shift > 0 => data < Pow2[WordBits - shift]
           u == AddGroup(t, rd, shift)
<1>1. i \in Nat /\ shift \in Nat /\ GroupBits * (i + 1) = shift + GroupBits
      /\ (GroupBits + 1) * (i + 1) = (GroupBits + 1) * i + (GroupBits + 1)
      /\ (GroupBits + 1) * i \in Nat
  BY Widths
<1>2. shift < WordBits
  <2>1. \A a, b, c \in Nat : a <= b => c * a <= b * c
    OBVIOUS
  <2>2. GroupBits * i <= (MaxGroups - 1) * GroupBits
    BY <1>1, <2>1, Widths
  <2>3. (MaxGroups - 1) * GroupBits \in Int
    BY Widths
  <2> QED
    BY <1>1, <2>2, <2>3, Widths
<1>3. /\ Inside(rd, bits) /\ rd.val \in Nat
      /\ rd.ok => t.rd.ok /\ rd.pos = t.rd.pos + (GroupBits + 1)
  <2>1. Inside(t.rd, bits) /\ GroupBits + 1 \in Nat
    BY Widths DEF TakenGroups, GroupsRead
  <2> HIDE DEF data, fits, u, S, G, shift
  <2>2. \A n \in Nat :
          /\ Inside(ReadBits(bits, t.rd, n), bits)
          /\ ReadBits(bits, t.rd, n).val \in 0..(Pow2[n] - 1)
          /\ ReadBits(bits, t.rd, n).ok => /\ t.rd.ok
                                           /\ ReadBits(bits, t.rd, n).pos = t.rd.pos + n
    BY <2>1, ReadBitsInside
  <2>3. /\ Inside(rd, bits) /\ rd.val \in 0..(Pow2[GroupBits + 1] - 1)
        /\ rd.ok => t.rd.ok /\ rd.pos = t.rd.pos + (GroupBits + 1)
    BY <2>1, <2>2, Zenon
  <2> QED
    BY <2>3
<1>4. G \in Nat /\ G > 0 /\ S \in Nat /\ S > 0
      /\ Pow2[WordBits] \in Nat /\ Pow2[WordBits - shift] \in Nat
      /\ Pow2[GroupBits * (i + 1)] = S * G /\ Pow2[WordBits] = S * Pow2[WordBits - shift]
      /\ Pow2[GroupBits] <= Pow2[WordBits]
  <2>1. GroupBits \in Nat /\ WordBits \in Nat /\ WordBits - shift \in Nat
        /\ shift + (WordBits - shift) = WordBits /\ GroupBits <= WordBits
    BY <1>1, <1>2, Widths
  <2>2. Pow2[shift + GroupBits] = S * G
    BY <1>1, <2>1, Pow2Sum
  <2>3. Pow2[shift + (WordBits - shift)] = S * Pow2[WordBits - shift]
    BY <1>1, <2>1, Pow2Sum
  <2>4. Pow2[GroupBits] <= Pow2[WordBits]
    BY <2>1, Pow2Monotone
  <2> QED
    BY <1>1, <2>1, <2>2, <2>3, <2>4, Pow2Type
<1>5. data \in 0..(G - 1)
  BY <1>3, <1>4, DivMod
<1>6. t.sum \in Nat /\ t.sum < S /\ (t.rd.ok => t.rd.pos = p + (GroupBits + 1) * i)
  BY DEF TakenGroups, GroupsRead
<1>7. /\ u.rd = (IF fits THEN rd ELSE ReadFail(rd))
      /\ u.sum = t.sum + data * S
  BY DEF AddGroup
<1> HIDE DEF rd, u, G, S, data, shift
<1>8. Inside(u.rd, bits) /\ (u.rd.ok => fits /\ rd.ok /\ u.rd.pos = rd.pos)
  <2>1. CASE fits
    BY <1>3, <1>7, <2>1
  <2>2. CASE ~fits
    <3>1. u.rd = [ok |-> FALSE, pos |-> rd.pos, val |-> 0]
      BY <1>7, <2>2 DEF ReadFail
    <3> QED
      BY <1>3, <3>1 DEF Inside
  <2> QED
    BY <2>1, <2>2
<1>9. \A a, b, c, d \in Nat : b < c /\ d < a => d + b * a \in Nat /\ d + b * a < a * c
  <2>1. ASSUME NEW a \in Nat, NEW b \in Nat, NEW c \in Nat, NEW d \in Nat, b < c, d < a
        PROVE  d + b * a \in Nat /\ d + b * a < a * c
    <3>1. b + 1 <= c
      BY <2>1
    <3>2. a * (b + 1) <= a * c
      BY <3>1
    <3>3. a * (b + 1) = b * a + a /\ b * a \in Nat /\ a * c \in Nat
      OBVIOUS
    <3> QED
      BY <2>1, <3>2, <3>3
  <2> QED
    BY <2>1
<1>10. data \in Nat /\ data < G
  BY <1>4, <1>5
<1>11. u.sum \in Nat /\ u.sum < Pow2[GroupBits * (i + 1)]
  <2>1. t.sum + data * S \in Nat /\ t.sum + data * S < S * G
    BY <1>4, <1>6, <1>9, <1>10
  <2> QED
    BY <1>4, <1>7, <2>1
<1>12. ASSUME u.rd.ok PROVE u.sum < Pow2[WordBits]
  <2>1. CASE shift > 0
    <3>1. data < Pow2[WordBits - shift]
      BY <1>8, <1>12, <2>1
    <3>2. t.sum + data * S < S * Pow2[WordBits - shift]
      BY <1>4, <1>6, <1>9, <1>10, <3>1
    <3> QED
      BY <1>4, <1>7, <3>2
  <2>2. CASE shift = 0
    <3>1. S = 1
      BY <2>2, Pow2Def DEF S
    <3> QED
      BY <1>4, <1>6, <1>7, <1>10, <3>1 DEF G
  <2> QED
    BY <1>1, <2>1, <2>2
<1>13. ASSUME u.rd.ok PROVE u.rd.pos = p + (GroupBits + 1) * (i + 1)
  BY <1>1, <1>3, <1>6, <1>8, <1>13, Widths, SMTT(30)
<1>14. i + 1 \in 0..(i + 1) /\ i + 1 > 0
  BY <1>1
<1>15. TakenGroups(u, i + 1, bits, p)
  BY <1>7, <1>8, <1>11, <1>12, <1>13, <1>14 DEF TakenGroups, GroupsRead
<1> QED
  BY <1>15 DEF u, rd, shift

(* read_varint takes groups until one of them is the last. *)
LEMMA ReadVarintTakes ==
  ASSUME NEW bits, NEW r
  PROVE  \E take :
           /\ take[0] = [rd |-> r, sum |-> 0, more |-> TRUE]
           /\ \A i \in 0..(MaxGroups - 1) :
                take[i + 1] =
                  IF ~take[i].more THEN take[i]
                  ELSE AddGroup(take[i], ReadBits(bits, take[i].rd, GroupBits + 1), GroupBits * i)
           /\ ReadVarint(bits, r) = EndVarint(take[MaxGroups])
<1> DEFINE first == [rd |-> r, sum |-> 0, more |-> TRUE]
           group(prev, shift) ==
             IF ~prev.more THEN prev
             ELSE AddGroup(prev, ReadBits(bits, prev.rd, GroupBits + 1), shift)
           next(prev, i) == group(prev, GroupBits * (i - 1))
           chain(f, m) == [i \in 0..m |-> IF i = 0 THEN first ELSE next(f[i - 1], i)]
           take == CHOOSE f : f = chain(f, MaxGroups)
<1>1. ReadVarint(bits, r) = EndVarint(take[MaxGroups])
  BY Zenon DEF ReadVarint
<1> HIDE DEF first, next
<1>2. \E f : f = chain(f, MaxGroups)
  <2> DEFINE T == {m \in Nat : \E f : f = chain(f, m)}
  <2>1. 0 \in T
    <3>1. [i \in 0..0 |-> first] = chain([i \in 0..0 |-> first], 0)
      OBVIOUS
    <3> QED
      BY <3>1
  <2>2. ASSUME NEW m \in T PROVE m + 1 \in T
    <3>1. PICK f : f = chain(f, m)
      OBVIOUS
    <3> DEFINE g == [i \in 0..(m + 1) |-> IF i <= m THEN f[i] ELSE next(f[m], m + 1)]
    <3>2. ASSUME NEW i \in 0..(m + 1)
          PROVE  g[i] = IF i = 0 THEN first ELSE next(g[i - 1], i)
      BY <3>1
    <3>3. g = chain(g, m + 1)
      BY <3>2
    <3> HIDE DEF g, chain
    <3> QED
      BY <3>3
  <2>3. T \in SUBSET Nat
    OBVIOUS
  <2> HIDE DEF T
  <2>4. T = Nat
    BY <2>1, <2>2, <2>3, NatSetInduction
  <2> QED
    BY Widths, <2>4 DEF T
<1>3. take = chain(take, MaxGroups)
  BY <1>2, Zenon
<1> HIDE DEF take
<1>4. take[0] = first
  BY <1>3, Widths
<1>5. ASSUME NEW i \in 0..(MaxGroups - 1)
      PROVE  take[i + 1] = group(take[i], GroupBits * i)
  <2>1. i + 1 \in 0..MaxGroups /\ i + 1 # 0 /\ (i + 1) - 1 = i
    BY Widths
  <2>2. take[i + 1] = next(take[i], i + 1)
    BY <1>3, <2>1
  <2> QED
    BY <2>1, <2>2, Zenon DEF next
<1> QED
  BY <1>1, <1>4, <1>5, Zenon DEF first

(* A varint ends inside the stream, however many groups follow; one that   *)
(* is accepted is a u64, and spells it in as many groups as it has read.   *)
LEMMA ReadVarintInside ==
  ASSUME NEW bits \in Seq(Bit), NEW r, Inside(r, bits)
  PROVE  /\ Inside(ReadVarint(bits, r), bits)
         /\ ReadVarint(bits, r).ok =>
              /\ ReadVarint(bits, r).val \in 0..(Pow2[WordBits] - 1)
              /\ \E k \in Nat \ {0} :
                    /\ ReadVarint(bits, r).val < Pow2[GroupBits * k]
                    /\ ReadVarint(bits, r).pos = r.pos + (GroupBits + 1) * k
<1> DEFINE p == r.pos
           v == ReadVarint(bits, r)
<1>1. PICK take :
        /\ take[0] = [rd |-> r, sum |-> 0, more |-> TRUE]
        /\ \A i \in 0..(MaxGroups - 1) :
             take[i + 1] =
               IF ~take[i].more THEN take[i]
               ELSE AddGroup(take[i], ReadBits(bits, take[i].rd, GroupBits + 1), GroupBits * i)
        /\ v = EndVarint(take[MaxGroups])
  BY ReadVarintTakes
<1>2. p \in Nat
  BY DEF Inside
<1> DEFINE T == {i \in 0..MaxGroups : TakenGroups(take[i], i, bits, p)}
<1>3. 0 \in T
  <2>1. GroupBits * 0 = 0 /\ p + (GroupBits + 1) * 0 = p
    BY <1>2, Widths
  <2>2. Pow2[GroupBits * 0] = 1 /\ Pow2[WordBits] > 0 /\ Pow2[WordBits] \in Nat
    <3>1. Pow2[WordBits] > 0 /\ Pow2[WordBits] \in Nat
      BY Widths, Pow2Type
    <3> QED
      BY <2>1, <3>1, Pow2Def
  <2> DEFINE t == take[0]
  <2>3. t.rd = r /\ t.sum = 0 /\ t.more = TRUE
        /\ Inside(t.rd, bits)
    BY <1>1
  <2> HIDE DEF t, p
  <2>4. 0 \in 0..0 /\ 0 \in 0..MaxGroups
    BY Widths
  <2>5. GroupsRead(t, 0, p)
    <3>1. t.rd.pos = p + (GroupBits + 1) * 0
      BY <2>1, <2>3 DEF p
    <3> QED
      BY <2>2, <2>3, <2>4, <3>1 DEF GroupsRead
  <2>6. t.sum \in Nat /\ (t.rd.ok => t.sum < Pow2[WordBits])
    BY <2>2, <2>3
  <2>7. Inside(t.rd, bits)
    BY <2>3
  <2>8. TakenGroups(t, 0, bits, p)
    BY <2>5, <2>6, <2>7, Zenon DEF TakenGroups
  <2> QED
    BY <2>4, <2>8 DEF t
<1>4. ASSUME NEW i \in 0..(MaxGroups - 1), i \in T PROVE i + 1 \in T
  <2>1. i + 1 \in 0..MaxGroups /\ i \in Nat
    BY Widths
  <2>2. CASE take[i].more
    <3>1. TakenGroups(AddGroup(take[i], ReadBits(bits, take[i].rd, GroupBits + 1), GroupBits * i),
                      i + 1, bits, p)
      BY <1>2, <1>4, <2>2, OneMoreGroup
    <3> QED
      BY <1>1, <2>1, <2>2, <3>1
  <2>3. CASE ~take[i].more
    <3>1. take[i + 1] = take[i]
      BY <1>1, <2>3
    <3>2. 0..i \subseteq 0..(i + 1)
      BY <2>1
    <3> QED
      BY <1>4, <2>1, <2>3, <3>1, <3>2 DEF TakenGroups, GroupsRead
  <2> QED
    BY <2>2, <2>3
<1> HIDE DEF T
<1>5. \A i \in 0..MaxGroups : i \in T
  BY <1>3, <1>4, UpTo, Widths
<1> DEFINE last == take[MaxGroups]
<1>6. TakenGroups(last, MaxGroups, bits, p)
  BY <1>5, Widths DEF T
<1> HIDE DEF last, v, p
<1>7. CASE last.more
  <2>1. v = [ok |-> FALSE, pos |-> last.rd.pos, val |-> 0]
    BY <1>1, <1>7 DEF EndVarint, ReadFail, last
  <2>2. Inside(v, bits) /\ ~v.ok
    BY <1>6, <2>1 DEF Inside, TakenGroups
  <2> QED
    BY <2>2 DEF v
<1>8. CASE ~last.more
  <2>1. v = [last.rd EXCEPT !.val = last.sum]
    BY <1>1, <1>8 DEF EndVarint, last
  <2>2. v = [ok |-> last.rd.ok, pos |-> last.rd.pos, val |-> last.sum]
    BY <1>6, <2>1 DEF Inside, TakenGroups
  <2>3. Inside(v, bits)
    BY <1>6, <2>2 DEF Inside, TakenGroups
  <2>4. ASSUME v.ok
        PROVE  /\ v.val \in 0..(Pow2[WordBits] - 1)
               /\ \E k \in Nat \ {0} : v.val < Pow2[GroupBits * k] /\ v.pos = p + (GroupBits + 1) * k
    <3>1. PICK k \in 0..MaxGroups :
            /\ last.sum < Pow2[GroupBits * k] /\ k > 0
            /\ last.rd.pos = p + (GroupBits + 1) * k
      BY <1>6, <1>8, <2>2, <2>4 DEF TakenGroups, GroupsRead
    <3>2. last.sum \in Nat /\ last.sum < Pow2[WordBits] /\ Pow2[WordBits] \in Nat
      BY <1>6, <2>2, <2>4, Pow2Type, Widths DEF TakenGroups, GroupsRead
    <3>3. v.val = last.sum /\ v.pos = last.rd.pos
      BY <2>2
    <3>4. k \in Nat \ {0}
      BY <3>1, Widths
    <3> QED
      BY <3>1, <3>2, <3>3, <3>4
  <2> QED
    BY <2>3, <2>4 DEF v, p
<1> QED
  BY <1>7, <1>8

LEMMA ValueReplaced ==
  ASSUME NEW x, NEW ok, NEW pos, NEW val, x = [ok |-> ok, pos |-> pos, val |-> x.val]
  PROVE  [x EXCEPT !.val = val] = [ok |-> ok, pos |-> pos, val |-> val]
OBVIOUS

(* ... and one written by write_varint is read back. *)
LEMMA ReadVarintReadsGroups ==
  ASSUME NEW bits \in Seq(Bit), NEW r, Inside(r, bits), r.ok = TRUE,
         NEW v \in Nat, v < Pow2[WordBits], VarintAt(bits, r.pos, v)
  PROVE  ReadVarint(bits, r) = [ok |-> TRUE, pos |-> r.pos + VarintBits(v), val |-> v]
<1> DEFINE p == r.pos
           n == VarintGroups(v)
           at(i) == p + (GroupBits + 1) * i
           taken(t, i) ==
             /\ t.rd = [ok |-> TRUE, pos |-> at(i), val |-> t.rd.val]
             /\ t.sum = v % Pow2[GroupBits * i]
             /\ t.more <=> i < n
<1>1. PICK take :
        /\ take[0] = [rd |-> r, sum |-> 0, more |-> TRUE]
        /\ \A i \in 0..(MaxGroups - 1) :
             take[i + 1] =
               IF ~take[i].more THEN take[i]
               ELSE AddGroup(take[i], ReadBits(bits, take[i].rd, GroupBits + 1), GroupBits * i)
        /\ ReadVarint(bits, r) = EndVarint(take[MaxGroups])
  BY ReadVarintTakes
<1>2. n \in 1..MaxGroups /\ n \in Nat /\ v < Pow2[GroupBits * n]
  BY VarintGroupsLeast, Widths
<1> p \in Nat
  BY DEF Inside
<1>3. \A i \in Nat : (GroupBits + 1) * i \in Nat /\ at(i) \in Nat
                   /\ at(i + 1) = at(i) + (GroupBits + 1)
  BY Widths
<1> HIDE DEF n
<1>4. taken(take[0], 0)
  <2>1. GroupBits * 0 = 0 /\ at(0) = p
    BY Widths
  <2>2. v % Pow2[GroupBits * 0] = 0
    <3>1. Pow2[GroupBits * 0] = 1
      BY <2>1, Pow2Def
    <3>2. v % 1 = 0
      OBVIOUS
    <3> QED
      BY <3>1, <3>2
  <2> DEFINE t == take[0]
  <2>3. t.rd = r /\ t.sum = 0 /\ t.more = TRUE
    BY <1>1
  <2> HIDE DEF t, at
  <2>4. t.rd = [ok |-> TRUE, pos |-> at(0), val |-> t.rd.val]
    BY <2>1, <2>3 DEF Inside
  <2> QED
    BY <1>2, <2>2, <2>3, <2>4 DEF t
<1>5. ASSUME NEW i \in 0..(n - 1), NEW t, taken(t, i)
      PROVE  /\ t.more
             /\ taken(AddGroup(t, ReadBits(bits, t.rd, GroupBits + 1), GroupBits * i), i + 1)
  <2> DEFINE rd == ReadBits(bits, t.rd, GroupBits + 1)
             shift == GroupBits * i
             S == Pow2[shift]
             G == Pow2[GroupBits]
             g == VarintGroup(v, i + 1)
             data == (v \div S) % G
             u == AddGroup(t, rd, shift)
  <2>1. i \in Nat /\ i + 1 \in Nat \ {0} /\ (i + 1) - 1 = i /\ i < n /\ i + 1 \in 1..n
        /\ i <= MaxGroups - 1 /\ MaxGroups - 1 \in Nat
    <3>1. MaxGroups \in Nat
      BY Widths
    <3> QED
      BY <1>2, <3>1
  <2>2. shift \in Nat /\ GroupBits * (i + 1) = shift + GroupBits
    BY <2>1, Widths
  <2>3. shift < WordBits
    <3>1. \A a, b, c \in Nat : a <= b => c * a <= b * c
      OBVIOUS
    <3>2. GroupBits * i <= (MaxGroups - 1) * GroupBits
      BY <2>1, <3>1, Widths
    <3>3. (MaxGroups - 1) * GroupBits \in Int
      BY <2>1, Widths
    <3> HIDE DEF n
    <3> QED
      BY <2>2, <3>2, <3>3, Widths
  <2>4. rd = [ok |-> TRUE, pos |-> at(i + 1), val |-> g]
    <3>1. FieldAt(bits, at(i), g, GroupBits + 1)
      <4>1. \A j \in 1..n : FieldAt(bits, p + (GroupBits + 1) * (j - 1), VarintGroup(v, j), GroupBits + 1)
        BY Zenon DEF VarintAt, n
      <4> QED
        BY <2>1, <4>1
    <3>2. g \in Nat /\ g < Pow2[GroupBits + 1]
      BY <2>1, VarintGroupParts
    <3>3. t.rd.ok = TRUE /\ t.rd.pos = at(i)
      BY <1>5
    <3>4. at(i) \in Nat /\ at(i + 1) = at(i) + (GroupBits + 1)
      BY <1>3, <2>1
    <3>5. GroupBits + 1 \in Nat /\ GroupBits + 1 <= WordBits
      BY Widths
    <3> HIDE DEF g, at
    <3>6. ReadBits(bits, t.rd, GroupBits + 1)
            = [ok |-> TRUE, pos |-> t.rd.pos + (GroupBits + 1), val |-> g]
      <4>1. t.rd.ok = TRUE /\ t.rd.pos \in Nat /\ FieldAt(bits, t.rd.pos, g, GroupBits + 1)
        BY <3>1, <3>3, <3>4
      <4> DEFINE x == t.rd
      <4> HIDE DEF taken, p, x
      <4> QED
        BY <3>2, <3>5, <4>1, ReadBitsReadsField, ZenonT(60)
    <3> QED
      BY <3>3, <3>4, <3>6
  <2>5. g % G = data /\ (g \div G = 1 <=> i + 1 < n)
    <3>1. /\ g % Pow2[GroupBits] = (v \div Pow2[GroupBits * ((i + 1) - 1)]) % Pow2[GroupBits]
          /\ g \div Pow2[GroupBits] = 1 <=> i + 1 < n
      BY <2>1, VarintGroupParts DEF n
    <3> QED
      BY <2>1, <3>1
  <2>6. S \in Nat /\ S > 0 /\ G \in Nat /\ G > 0 /\ Pow2[GroupBits * (i + 1)] = S * G
    <3>1. GroupBits \in Nat
      BY Widths
    <3>2. Pow2[shift + GroupBits] = S * G
      <4> HIDE DEF shift
      <4> QED
        BY <2>2, <3>1, Pow2Sum
    <3>3. S \in Nat /\ S > 0 /\ G \in Nat /\ G > 0
      BY <2>2, <3>1, Pow2Type
    <3> QED
      BY <2>2, <3>2, <3>3
  <2>7. shift > 0 => data < Pow2[WordBits - shift]
    <3>1. WordBits - shift \in Nat /\ shift + (WordBits - shift) = WordBits
      <4>1. WordBits \in Nat
        BY Widths
      <4> HIDE DEF shift
      <4> QED
        BY <2>2, <2>3, <4>1
    <3>2. Pow2[WordBits] = S * Pow2[WordBits - shift] /\ Pow2[WordBits - shift] \in Nat
      <4>1. Pow2[shift + (WordBits - shift)] = S * Pow2[WordBits - shift]
        BY <2>2, <3>1, Pow2Sum
      <4> QED
        BY <3>1, <4>1, Pow2Type
    <3> HIDE DEF S, G, shift
    <3>3. v \div S < Pow2[WordBits - shift]
      BY <2>6, <3>2, DivLess
    <3>4. v \div S \in Nat
      BY <2>6, DivMod
    <3>5. data <= v \div S /\ data \in Nat
      <4>1. \A x, y \in Nat : y > 0 => x % y <= x /\ x % y \in Nat
        OBVIOUS
      <4> QED
        BY <2>6, <3>4, <4>1
    <3> QED
      BY <3>2, <3>3, <3>4, <3>5
  <2>8. (v % S) + data * S = v % (S * G)
    <3> HIDE DEF S, G
    <3> QED
      BY <2>6, ModProduct
  <2>9. u = [rd |-> IF shift > 0 => rd.val % G < Pow2[WordBits - shift] THEN rd ELSE ReadFail(rd),
             sum |-> t.sum + (rd.val % G) * S,
             more |-> rd.ok => rd.val \div G = 1]
    BY Zenon DEF AddGroup
  <2> HIDE DEF g, S, G, data, rd, shift, at, u
  <2>10. rd.ok = TRUE /\ rd.val % G = data /\ rd.pos = at(i + 1)
         /\ rd = [ok |-> TRUE, pos |-> at(i + 1), val |-> rd.val]
         /\ (rd.val \div G = 1 <=> i + 1 < n)
    BY <2>4, <2>5
  <2>11. u.rd = rd /\ u.sum = t.sum + data * S /\ (u.more <=> i + 1 < n)
    BY <2>7, <2>9, <2>10
  <2>12. u.sum = v % Pow2[GroupBits * (i + 1)]
    BY <1>5, <2>6, <2>8, <2>11 DEF S, shift
  <2>13. t.more
    BY <1>5, <2>1
  <2>14. taken(u, i + 1)
    BY <2>10, <2>11, <2>12
  <2> QED
    BY <2>13, <2>14 DEF u, rd, shift
<1> DEFINE T == {i \in 0..MaxGroups : taken(take[IF i <= n THEN i ELSE n], IF i <= n THEN i ELSE n)
                                     /\ take[i] = take[IF i <= n THEN i ELSE n]}
<1> HIDE DEF taken
<1>6. 0 \in T
  BY <1>2, <1>4, Widths
<1>7. ASSUME NEW i \in 0..(MaxGroups - 1), i \in T PROVE i + 1 \in T
  <2>1. i \in Nat /\ i + 1 \in 0..MaxGroups
    BY Widths
  <2>2. CASE i < n
    <3>1. i \in 0..(n - 1) /\ i <= n /\ i + 1 <= n
      BY <1>2, <2>1, <2>2
    <3>2. taken(take[i], i)
      BY <1>7, <3>1
    <3>3. /\ take[i].more
          /\ taken(AddGroup(take[i], ReadBits(bits, take[i].rd, GroupBits + 1), GroupBits * i), i + 1)
      BY <1>5, <3>1, <3>2
    <3>4. taken(take[i + 1], i + 1)
      BY <1>1, <3>3
    <3> QED
      BY <2>1, <3>1, <3>4
  <2>3. CASE ~(i < n)
    <3>1. taken(take[n], n) /\ take[i] = take[n] /\ ~(i + 1 <= n)
      BY <1>2, <1>7, <2>1, <2>3
    <3>2. ~take[n].more
      BY <1>2, <3>1 DEF taken
    <3>3. take[i + 1] = take[n]
      BY <1>1, <3>1, <3>2
    <3> QED
      BY <2>1, <3>1, <3>3
  <2> QED
    BY <2>2, <2>3
<1> HIDE DEF T
<1>8. \A i \in 0..MaxGroups : i \in T
  BY <1>6, <1>7, UpTo, Widths
<1>9. taken(take[MaxGroups], n)
  <2>1. MaxGroups \in 0..MaxGroups /\ n <= MaxGroups
    BY <1>2, Widths
  <2>2. CASE MaxGroups = n
    BY <1>8, <2>1, <2>2 DEF T
  <2>3. CASE MaxGroups # n
    <3>1. ~(MaxGroups <= n)
      BY <1>2, <2>1, <2>3
    <3>2. MaxGroups \in T
      BY <1>8, <2>1
    <3> QED
      BY <3>1, <3>2 DEF T
  <2> QED
    BY <2>2, <2>3
<1> DEFINE last == take[MaxGroups]
<1> HIDE DEF last
<1>10. /\ last.rd = [ok |-> TRUE, pos |-> at(n), val |-> last.rd.val]
       /\ last.sum = v /\ ~last.more
  <2>1. v % Pow2[GroupBits * n] = v
    <3>1. Pow2[GroupBits * n] \in Nat /\ Pow2[GroupBits * n] > 0
      <4>1. GroupBits * n \in Nat
        BY <1>2, Widths
      <4> QED
        BY <4>1, Pow2Type
    <3> QED
      BY <1>2, <3>1
  <2> QED
    BY <1>2, <1>9, <2>1 DEF taken, last
<1>11. EndVarint(last) = [ok |-> TRUE, pos |-> at(n), val |-> v]
  <2> DEFINE x == last.rd
  <2>1. EndVarint(last) = [x EXCEPT !.val = last.sum]
    BY <1>10 DEF EndVarint
  <2>2. x = [ok |-> TRUE, pos |-> at(n), val |-> x.val]
    BY <1>10
  <2> HIDE DEF x, at
  <2>3. [x EXCEPT !.val = last.sum] = [ok |-> TRUE, pos |-> at(n), val |-> last.sum]
    BY <2>2, ValueReplaced
  <2> QED
    BY <1>10, <2>1, <2>3
<1>12. at(n) = r.pos + VarintBits(v)
  BY DEF VarintBits, n
<1> HIDE DEF at
<1> QED
  BY <1>1, <1>11, <1>12 DEF last

LEMMA VarintStays ==
  ASSUME NEW s \in Seq(Bit), NEW t \in Seq(Bit), Extends(t, s),
         NEW p \in Nat, NEW v \in Nat, v < Pow2[WordBits], VarintAt(s, p, v)
  PROVE  VarintAt(t, p, v)
<1>1. ASSUME NEW i \in 1..VarintGroups(v)
      PROVE  FieldAt(t, p + (GroupBits + 1) * (i - 1), VarintGroup(v, i), GroupBits + 1)
  <2>1. VarintGroups(v) \in Nat /\ GroupBits + 1 \in Nat
    BY VarintGroupsLeast, Widths
  <2>2. (GroupBits + 1) * (i - 1) \in Nat
    BY <2>1
  <2>3. FieldAt(s, p + (GroupBits + 1) * (i - 1), VarintGroup(v, i), GroupBits + 1)
    BY Zenon DEF VarintAt
  <2> QED
    BY <2>1, <2>2, <2>3, FieldStays
<1> QED
  BY <1>1, Zenon DEF VarintAt

(* A varint that is there is there to its end. *)
LEMMA VarintEnds ==
  ASSUME NEW s \in Seq(Bit), NEW p \in Nat, NEW v \in Nat, v < Pow2[WordBits], VarintAt(s, p, v)
  PROVE  VarintBits(v) \in Nat /\ p + VarintBits(v) <= Len(s)
<1> DEFINE n == VarintGroups(v)
<1>1. n \in Nat /\ n \in 1..n
  BY VarintGroupsLeast, Widths
<1>2. FieldAt(s, p + (GroupBits + 1) * (n - 1), VarintGroup(v, n), GroupBits + 1)
  BY <1>1, Zenon DEF VarintAt
<1>3. p + (GroupBits + 1) * (n - 1) + (GroupBits + 1) <= Len(s)
  BY <1>2 DEF FieldAt
<1> HIDE DEF n
<1>4. (GroupBits + 1) * (n - 1) + (GroupBits + 1) = (GroupBits + 1) * n
      /\ (GroupBits + 1) * n \in Nat /\ (GroupBits + 1) * (n - 1) \in Int
  BY <1>1, Widths
<1>5. VarintBits(v) = (GroupBits + 1) * n
  BY DEF VarintBits, n
<1>6. Len(s) \in Nat
  BY LenProperties
<1> QED
  BY <1>3, <1>4, <1>5, <1>6, Widths

-----------------------------------------------------------------------------
(* Compact counts. *)

CountBits(c) ==
  IF c < CountEscape THEN NibbleBits ELSE NibbleBits + VarintBits(c - CountEscape)

CountAt(s, p, c) ==
  IF c < CountEscape
  THEN FieldAt(s, p, c, NibbleBits)
  ELSE FieldAt(s, p, CountEscape, NibbleBits) /\ VarintAt(s, p + NibbleBits, c - CountEscape)

LEMMA CountEscapeType ==
  CountEscape \in Nat /\ CountEscape < Pow2[NibbleBits] /\ Pow2[NibbleBits] <= Pow2[WordBits]
<1>1. Pow2[NibbleBits] \in Nat /\ Pow2[NibbleBits] > 0
  BY Widths, Pow2Type
<1>2. Pow2[NibbleBits] <= Pow2[WordBits]
  BY Widths, Pow2Monotone
<1> QED
  BY <1>1, <1>2 DEF CountEscape

(* write_compact_count never fails for a usize. *)
LEMMA WriteCompactCountAppends ==
  ASSUME NEW s \in Seq(Bit), NEW c \in Nat, c < Pow2[WordBits]
  PROVE  \E t \in Seq(Bit) :
           /\ WriteCompactCount([ok |-> TRUE, bits |-> s], c) = [ok |-> TRUE, bits |-> t]
           /\ Len(t) = Len(s) + CountBits(c) /\ Extends(t, s) /\ CountAt(t, Len(s), c)
<1> DEFINE w == [ok |-> TRUE, bits |-> s]
<1>1. CASE c < CountEscape
  <2>1. c < Pow2[NibbleBits] /\ NibbleBits \in Nat /\ NibbleBits <= WordBits
    BY <1>1, CountEscapeType, Pow2Type, Widths
  <2>2. PICK t \in Seq(Bit) :
          /\ WriteBits(w, c, NibbleBits) = [ok |-> TRUE, bits |-> t]
          /\ Len(t) = Len(s) + NibbleBits /\ Extends(t, s) /\ FieldAt(t, Len(s), c, NibbleBits)
    BY <2>1, WriteBitsAppends
  <2>3. WriteCompactCount(w, c) = [ok |-> TRUE, bits |-> t]
    BY <1>1, <2>2 DEF WriteCompactCount
  <2> QED
    BY <1>1, <2>2, <2>3 DEF CountBits, CountAt
<1>2. CASE ~(c < CountEscape)
  <2> DEFINE e == CountEscape
             x == c - e
  <2>1. e \in Nat /\ e < Pow2[NibbleBits] /\ x \in Nat /\ x < Pow2[WordBits]
    BY <1>2, CountEscapeType, Pow2Type, Widths
  <2>2. NibbleBits \in Nat /\ NibbleBits <= WordBits
    BY Widths
  <2> HIDE DEF e, x
  <2>3. PICK t \in Seq(Bit) :
          /\ WriteBits(w, e, NibbleBits) = [ok |-> TRUE, bits |-> t]
          /\ Len(t) = Len(s) + NibbleBits /\ Extends(t, s) /\ FieldAt(t, Len(s), e, NibbleBits)
    BY <2>1, <2>2, WriteBitsAppends
  <2>4. PICK u \in Seq(Bit) :
          /\ WriteVarint([ok |-> TRUE, bits |-> t], x) = [ok |-> TRUE, bits |-> u]
          /\ Len(u) = Len(t) + VarintBits(x) /\ Extends(u, t) /\ VarintAt(u, Len(t), x)
    BY <2>1, WriteVarintAppends
  <2>5. WriteCompactCount(w, c) = [ok |-> TRUE, bits |-> u]
    BY <1>2, <2>3, <2>4 DEF WriteCompactCount, e, x
  <2>6. Extends(u, s) /\ FieldAt(u, Len(s), e, NibbleBits)
    BY <2>2, <2>3, <2>4, ExtendsTransitive, FieldStays, LenProperties
  <2>7. VarintBits(x) \in Nat
    BY <2>1, <2>4, VarintEnds, LenProperties
  <2>8. Len(u) = Len(s) + CountBits(c)
    BY <1>2, <2>2, <2>3, <2>4, <2>7, LenProperties DEF CountBits, e, x
  <2>9. CountAt(u, Len(s), c)
    BY <1>2, <2>3, <2>4, <2>6 DEF CountAt, e, x
  <2> QED
    BY <2>5, <2>6, <2>8, <2>9
<1> QED
  BY <1>1, <1>2

(* read_compact_count stays inside the stream and returns a usize. *)
LEMMA ReadCompactCountInside ==
  ASSUME NEW bits \in Seq(Bit), NEW r, Inside(r, bits)
  PROVE  /\ Inside(ReadCompactCount(bits, r), bits)
         /\ ReadCompactCount(bits, r).ok => ReadCompactCount(bits, r).val \in 0..(Pow2[WordBits] - 1)
<1> DEFINE nibble == ReadBits(bits, r, NibbleBits)
           extra  == ReadVarint(bits, nibble)
           c == ReadCompactCount(bits, r)
<1>1. Inside(nibble, bits) /\ nibble.val \in Nat
  <2>1. Inside(nibble, bits) /\ nibble.val \in 0..(Pow2[NibbleBits] - 1)
    BY Widths, ReadBitsInside
  <2> QED
    BY <2>1
<1>2. Inside(extra, bits) /\ (extra.ok => extra.val \in 0..(Pow2[WordBits] - 1))
  BY <1>1, ReadVarintInside
<1>3. c = IF nibble.ok /\ nibble.val < CountEscape THEN nibble ELSE EscapedCount(extra)
  BY Zenon DEF ReadCompactCount
<1> HIDE DEF nibble, extra, c
<1>4. CASE nibble.ok /\ nibble.val < CountEscape
  <2>1. nibble.val \in 0..(Pow2[WordBits] - 1)
    BY <1>1, <1>4, CountEscapeType, Pow2Type, Widths
  <2> QED
    BY <1>1, <1>3, <1>4, <2>1 DEF c
<1>5. CASE ~(nibble.ok /\ nibble.val < CountEscape)
  <2>1. c = EscapedCount(extra)
    BY <1>3, <1>5
  <2>2. CASE extra.ok /\ CountEscape + extra.val < Pow2[WordBits]
    <3>1. c = [extra EXCEPT !.val = CountEscape + extra.val]
      BY <2>1, <2>2 DEF EscapedCount
    <3>2. c = [ok |-> extra.ok, pos |-> extra.pos, val |-> CountEscape + extra.val]
      BY <1>2, <3>1 DEF Inside
    <3>3. CountEscape + extra.val \in 0..(Pow2[WordBits] - 1)
      BY <1>2, <2>2, CountEscapeType, Pow2Type, Widths
    <3>4. Inside(c, bits)
      BY <1>2, <3>2 DEF Inside
    <3> QED
      BY <3>2, <3>3, <3>4 DEF c
  <2>3. CASE ~(extra.ok /\ CountEscape + extra.val < Pow2[WordBits])
    <3>1. c = [ok |-> FALSE, pos |-> extra.pos, val |-> 0]
      BY <2>1, <2>3 DEF EscapedCount, ReadFail
    <3>2. Inside(c, bits) /\ ~c.ok
      BY <1>2, <3>1 DEF Inside
    <3> QED
      BY <3>2 DEF c
  <2> QED
    BY <2>2, <2>3
<1> QED
  BY <1>4, <1>5

(* ... the one that was written. *)
LEMMA ReadCompactCountReads ==
  ASSUME NEW bits \in Seq(Bit), NEW r, Inside(r, bits), r.ok = TRUE,
         NEW c \in Nat, c < Pow2[WordBits], CountAt(bits, r.pos, c)
  PROVE  ReadCompactCount(bits, r) = [ok |-> TRUE, pos |-> r.pos + CountBits(c), val |-> c]
<1> DEFINE nibble == ReadBits(bits, r, NibbleBits)
           extra  == ReadVarint(bits, nibble)
           p == r.pos
<1>1. NibbleBits \in Nat /\ NibbleBits <= WordBits /\ p \in Nat
  BY Widths DEF Inside
<1>2. ReadCompactCount(bits, r)
        = IF nibble.ok /\ nibble.val < CountEscape THEN nibble ELSE EscapedCount(extra)
  BY Zenon DEF ReadCompactCount
<1>3. CASE c < CountEscape
  <2>1. FieldAt(bits, p, c, NibbleBits) /\ c < Pow2[NibbleBits]
    BY <1>3, CountEscapeType, Pow2Type, Widths DEF CountAt
  <2>2. nibble = [ok |-> TRUE, pos |-> p + NibbleBits, val |-> c]
    BY <1>1, <2>1, ReadBitsReadsField
  <2> HIDE DEF nibble, extra
  <2> QED
    BY <1>2, <1>3, <2>2 DEF CountBits
<1>4. CASE ~(c < CountEscape)
  <2> DEFINE e == CountEscape
             x == c - e
  <2>1. e \in Nat /\ e < Pow2[NibbleBits] /\ x \in Nat /\ x < Pow2[WordBits] /\ e + x = c
    BY <1>4, CountEscapeType, Pow2Type, Widths
  <2>2. FieldAt(bits, p, e, NibbleBits) /\ VarintAt(bits, p + NibbleBits, x)
    BY <1>4 DEF CountAt
  <2> HIDE DEF e, x
  <2>3. nibble = [ok |-> TRUE, pos |-> p + NibbleBits, val |-> e]
    BY <1>1, <2>1, <2>2, ReadBitsReadsField, ZenonT(60)
  <2>4. Inside(nibble, bits)
    BY <1>1, ReadBitsInside
  <2> HIDE DEF nibble
  <2>5. extra = [ok |-> TRUE, pos |-> p + NibbleBits + VarintBits(x), val |-> x]
    <3>1. nibble.ok = TRUE /\ nibble.pos = p + NibbleBits
      BY <2>3
    <3> HIDE DEF p
    <3>2. VarintAt(bits, nibble.pos, x)
      BY <2>2, <3>1
    <3>3. extra = [ok |-> TRUE, pos |-> nibble.pos + VarintBits(x), val |-> x]
      BY <2>1, <2>4, <3>1, <3>2, ReadVarintReadsGroups
    <3> QED
      BY <3>1, <3>3
  <2> HIDE DEF extra
  <2>6. EscapedCount(extra) = [ok |-> TRUE, pos |-> p + NibbleBits + VarintBits(x), val |-> c]
    BY <2>1, <2>5 DEF EscapedCount, e
  <2>7. ~(nibble.val < CountEscape)
    BY <2>1, <2>3 DEF e
  <2>8. p + NibbleBits + VarintBits(x) = p + CountBits(c)
    <3>1. VarintBits(x) \in Nat
      BY <1>1, <2>1, <2>2, VarintEnds
    <3> QED
      BY <1>1, <1>4, <3>1 DEF CountBits, x, e
  <2> QED
    BY <1>2, <2>6, <2>7, <2>8
<1> QED
  BY <1>3, <1>4

LEMMA CountStays ==
  ASSUME NEW s \in Seq(Bit), NEW t \in Seq(Bit), Extends(t, s),
         NEW p \in Nat, NEW c \in Nat, c < Pow2[WordBits], CountAt(s, p, c)
  PROVE  CountAt(t, p, c)
<1>1. NibbleBits \in Nat
  BY Widths
<1>2. CASE c < CountEscape
  BY <1>1, <1>2, FieldStays DEF CountAt
<1>3. CASE ~(c < CountEscape)
  <2>1. c - CountEscape \in Nat /\ c - CountEscape < Pow2[WordBits] /\ p + NibbleBits \in Nat
    BY <1>1, <1>3, CountEscapeType, Pow2Type, Widths
  <2>2. FieldAt(s, p, CountEscape, NibbleBits) /\ VarintAt(s, p + NibbleBits, c - CountEscape)
    BY <1>3 DEF CountAt
  <2>3. FieldAt(t, p, CountEscape, NibbleBits) /\ VarintAt(t, p + NibbleBits, c - CountEscape)
    BY <1>1, <2>1, <2>2, FieldStays, VarintStays
  <2> QED
    BY <1>3, <2>3 DEF CountAt
<1> QED
  BY <1>2, <1>3

-----------------------------------------------------------------------------
(* Sequences put together. *)

(* A sequence of pieces put together: joined(k) is the first k of them. *)
Joined(joined, seqs, S) ==
  /\ joined[0] = <<>>
  /\ \A k \in 0..Len(seqs) : joined[k] \in Seq(S)
  /\ \A k \in 0..(Len(seqs) - 1) : joined[k + 1] = joined[k] \o seqs[k + 1]
  /\ FlattenSeq(seqs) = joined[Len(seqs)]

LEMMA FlattenJoins ==
  ASSUME NEW E, NEW seqs \in Seq(Seq(E))
  PROVE  \E joined : Joined(joined, seqs, E)
<1> DEFINE S == Seq(E)
           n == Len(seqs)
           eq(f) == [i \in 1..n |-> IF i = 1 THEN seqs[i] ELSE f[i - 1] \o seqs[i]]
           flatten == CHOOSE f : f = eq(f)
<1>1. n \in Nat /\ \A i \in 1..n : seqs[i] \in S
  BY ElementOfSeq, LenProperties
<1>2. CASE n = 0
  <2>1. seqs = <<>>
    BY <1>2, EmptySeq
  <2> DEFINE none == [k \in 0..0 |-> <<>>]
  <2>2. Joined(none, seqs, E)
    BY <1>2, <2>1, EmptySeq DEF FlattenSeq, Joined
  <2> QED
    BY <2>2
<1>3. CASE n > 0
  <2>1. FlattenSeq(seqs) = flatten[n]
    <3>1. ~(Len(seqs) = 0)
      BY <1>3
    <3> QED
      BY <3>1, Zenon DEF FlattenSeq
  <2> HIDE DEF n
  <2> DEFINE step == [i \in 1..(n - 1) |-> [s \in S |-> s \o seqs[i + 1]]]
             first == seqs[1]
  <2>2. PICK g : Unfolds(g, n - 1, first, step)
    <3> HIDE DEF step, first
    <3>1. n - 1 \in Nat
      BY <1>1, <1>3
    <3> QED
      BY <3>1, RecursionExists
  <2>3. g[0] = first /\ \A i \in 0..(n - 2) : g[i + 1] = step[i + 1][g[i]]
    <3> HIDE DEF step, first
    <3>1. n - 1 \in Nat /\ (n - 1) - 1 = n - 2
      BY <1>1, <1>3
    <3> QED
      BY <2>2, <3>1, UnfoldsValues
  <2>4. \A i \in 0..(n - 1) : g[i] \in S
    <3> DEFINE T == {i \in 0..(n - 1) : g[i] \in S}
    <3>1. 0 \in T
      BY <1>1, <1>3, <2>3
    <3>2. ASSUME NEW i \in 0..(n - 2), i \in T PROVE i + 1 \in T
      <4>1. g[i] \in S /\ seqs[(i + 1) + 1] \in S /\ i + 1 \in 1..(n - 1)
        BY <1>1, <3>2
      <4>2. step[i + 1][g[i]] = g[i] \o seqs[(i + 1) + 1]
        BY <4>1
      <4>3. g[i] \o seqs[(i + 1) + 1] \in S
        BY <4>1, ConcatProperties
      <4>4. g[i + 1] = step[i + 1][g[i]]
        BY <2>3
      <4>5. g[i + 1] \in S /\ i + 1 \in 0..(n - 1)
        <5> HIDE DEF step, S, T
        <5> QED
          BY <1>1, <4>2, <4>3, <4>4
      <4> QED
        BY <4>5
    <3> HIDE DEF T
    <3>3. n - 1 \in Nat /\ (n - 1) - 1 = n - 2
      BY <1>1, <1>3
    <3>4. \A i \in 0..(n - 1) : i \in T
      BY <3>1, <3>2, <3>3, UpTo
    <3> QED
      BY <3>4 DEF T
  <2> DEFINE f == [i \in 1..n |-> g[i - 1]]
  <2>5. f = eq(f)
    <3>1. ASSUME NEW i \in 1..n
          PROVE  g[i - 1] = IF i = 1 THEN seqs[i] ELSE f[i - 1] \o seqs[i]
      <4>1. CASE i = 1
        BY <2>3, <4>1
      <4>2. CASE i # 1
        <5>1. /\ i - 2 \in 0..(n - 2) /\ (i - 2) + 1 = i - 1 /\ i - 1 \in 1..(n - 1)
              /\ i - 1 \in 1..n /\ (i - 1) - 1 = i - 2 /\ i - 2 \in 0..(n - 1)
              /\ (i - 1) + 1 = i
          BY <1>1, <4>2
        <5>2. g[i - 1] = step[i - 1][g[i - 2]] /\ g[i - 2] \in S
          <6> HIDE DEF step
          <6>1. g[(i - 2) + 1] = step[(i - 2) + 1][g[i - 2]]
            BY <2>3, <5>1
          <6> QED
            BY <2>4, <5>1, <6>1
        <5>3. step[i - 1][g[i - 2]] = g[i - 2] \o seqs[i]
          BY <5>1, <5>2
        <5>4. f[i - 1] = g[i - 2]
          BY <5>1
        <5> QED
          BY <4>2, <5>2, <5>3, <5>4
      <4> QED
        BY <4>1, <4>2
    <3> QED
      BY <3>1
  <2>6. flatten = eq(flatten)
    <3> HIDE DEF eq, f
    <3> QED
      BY <2>5, Zenon
  <2> HIDE DEF flatten
  <2>7. flatten[1] = seqs[1]
        /\ \A i \in 1..(n - 1) : flatten[i + 1] = flatten[i] \o seqs[i + 1]
    <3>1. 1 \in 1..n /\ \A i \in 1..(n - 1) : i + 1 \in 1..n /\ i + 1 # 1 /\ (i + 1) - 1 = i
      BY <1>1, <1>3
    <3>2. flatten[1] = seqs[1]
      BY <2>6, <3>1
    <3>3. ASSUME NEW i \in 1..(n - 1) PROVE flatten[i + 1] = flatten[i] \o seqs[i + 1]
      <4>1. i + 1 \in 1..n /\ i + 1 # 1 /\ (i + 1) - 1 = i
        BY <3>1
      <4>2. flatten[i + 1] = flatten[(i + 1) - 1] \o seqs[i + 1]
        BY <2>6, <4>1
      <4> QED
        BY <4>1, <4>2
    <3> QED
      BY <3>2, <3>3
  <2> HIDE DEF eq
  <2>8. \A i \in 0..(n - 1) : flatten[i + 1] \in S
    <3> DEFINE T == {i \in 0..(n - 1) : flatten[i + 1] \in S}
    <3>1. 0 \in T
      BY <1>1, <1>3, <2>7
    <3>2. ASSUME NEW i \in 0..(n - 2), i \in T PROVE i + 1 \in T
      <4>1. i + 1 \in 1..(n - 1) /\ (i + 1) + 1 \in 1..n /\ flatten[i + 1] \in S
        BY <1>1, <3>2
      <4>2. flatten[(i + 1) + 1] = flatten[i + 1] \o seqs[(i + 1) + 1]
        BY <2>7, <4>1
      <4>3. flatten[(i + 1) + 1] \in S
        BY <1>1, <4>1, <4>2, ConcatProperties
      <4> QED
        BY <4>1, <4>3
    <3> HIDE DEF T
    <3>3. n - 1 \in Nat /\ (n - 1) - 1 = n - 2
      BY <1>1, <1>3
    <3>4. \A i \in 0..(n - 1) : i \in T
      BY <3>1, <3>2, <3>3, UpTo
    <3> QED
      BY <3>4 DEF T
  <2> DEFINE joined == [k \in 0..n |-> IF k = 0 THEN <<>> ELSE flatten[k]]
  <2>9. joined[0] = <<>> /\ \A k \in 1..n : joined[k] = flatten[k]
    BY <1>1
  <2>10. ASSUME NEW k \in 0..n PROVE joined[k] \in S
    <3>1. CASE k = 0
      BY <2>9, <3>1, EmptySeq
    <3>2. CASE k # 0
      <4>1. k - 1 \in 0..(n - 1) /\ (k - 1) + 1 = k
        BY <1>1, <3>2
      <4> QED
        BY <2>8, <3>2, <4>1
    <3> QED
      BY <3>1, <3>2
  <2>11. ASSUME NEW k \in 0..(n - 1) PROVE joined[k + 1] = joined[k] \o seqs[k + 1]
    <3>1. CASE k = 0
      <4>1. seqs[1] \in S /\ <<>> \o seqs[1] = seqs[1]
        BY <1>1, <1>3, ConcatEmptySeq
      <4> QED
        BY <1>1, <1>3, <2>7, <3>1, <4>1
    <3>2. CASE k # 0
      <4>1. k \in 1..(n - 1) /\ k \in 0..n /\ k + 1 \in 0..n /\ k + 1 # 0
        BY <1>1, <3>2
      <4> QED
        BY <2>7, <3>2, <4>1
    <3> QED
      BY <3>1, <3>2
  <2>12. FlattenSeq(seqs) = joined[n]
    BY <1>1, <1>3, <2>1
  <2> HIDE DEF joined
  <2>13. Joined(joined, seqs, E)
    BY <2>9, <2>10, <2>11, <2>12 DEF Joined, n
  <2> QED
    BY <2>13
<1> QED
  BY <1>1, <1>2, <1>3

(* Where each piece lies: at[k] elements are behind the first k pieces.    *)
LaidOut(at, seqs, flat) ==
  /\ at[0] = 0
  /\ \A k \in 0..Len(seqs) : at[k] \in 0..Len(flat)
  /\ at[Len(seqs)] = Len(flat)
  /\ \A k \in 0..(Len(seqs) - 1) :
       /\ at[k + 1] = at[k] + Len(seqs[k + 1])
       /\ \A j \in 1..Len(seqs[k + 1]) : flat[at[k] + j] = seqs[k + 1][j]

LEMMA FlattenLaysOut ==
  ASSUME NEW E, NEW seqs \in Seq(Seq(E))
  PROVE  FlattenSeq(seqs) \in Seq(E) /\ \E at : LaidOut(at, seqs, FlattenSeq(seqs))
<1> DEFINE n == Len(seqs)
           flat == FlattenSeq(seqs)
           S == Seq(E)
<1>1. PICK joined : Joined(joined, seqs, E)
  BY FlattenJoins
<1> DEFINE at == [k \in 0..n |-> Len(joined[k])]
<1>2. n \in Nat /\ \A k \in 1..n : seqs[k] \in S
  BY ElementOfSeq, LenProperties
<1>3. /\ joined[0] = <<>> /\ flat = joined[n] /\ \A k \in 0..n : joined[k] \in S
      /\ \A k \in 0..(n - 1) : joined[k + 1] = joined[k] \o seqs[k + 1]
  BY <1>1 DEF Joined
<1>4. \A k \in 0..n : at[k] = Len(joined[k]) /\ at[k] \in Nat
  BY <1>3, LenProperties
<1>5. \A s, t \in S : /\ Len(s \o t) = Len(s) + Len(t) /\ Len(s) \in Nat /\ Len(t) \in Nat
                      /\ \A j \in 1..Len(s) : (s \o t)[j] = s[j]
                      /\ \A j \in 1..Len(t) : (s \o t)[Len(s) + j] = t[j]
  BY ConcatProperties, LenProperties
<1> HIDE DEF n, flat, at, S
<1>6. ASSUME NEW k \in 0..(n - 1)
      PROVE  /\ at[k + 1] = at[k] + Len(seqs[k + 1]) /\ Len(seqs[k + 1]) \in Nat
             /\ \A j \in 1..at[k] : joined[k + 1][j] = joined[k][j]
             /\ \A j \in 1..Len(seqs[k + 1]) : joined[k + 1][at[k] + j] = seqs[k + 1][j]
  <2>1. k \in 0..n /\ k + 1 \in 0..n /\ k + 1 \in 1..n
    BY <1>2
  <2>2. /\ joined[k] \in S /\ seqs[k + 1] \in S /\ joined[k + 1] = joined[k] \o seqs[k + 1]
        /\ at[k] = Len(joined[k]) /\ at[k + 1] = Len(joined[k + 1])
    BY <1>2, <1>3, <1>4, <2>1
  <2> DEFINE s == joined[k]
             t == seqs[k + 1]
  <2>3. s \in S /\ t \in S
    BY <2>2
  <2>4. joined[k + 1] = s \o t /\ at[k] = Len(s) /\ at[k + 1] = Len(s \o t)
    BY <2>2
  <2> HIDE DEF s, t
  <2>5. /\ at[k + 1] = at[k] + Len(t) /\ Len(t) \in Nat
        /\ \A j \in 1..at[k] : joined[k + 1][j] = s[j]
        /\ \A j \in 1..Len(t) : joined[k + 1][at[k] + j] = t[j]
    <3> DEFINE u == s \o t
    <3>1. /\ Len(u) = Len(s) + Len(t) /\ Len(s) \in Nat /\ Len(t) \in Nat
          /\ \A j \in 1..Len(s) : u[j] = s[j]
          /\ \A j \in 1..Len(t) : u[Len(s) + j] = t[j]
      BY <1>5, <2>3
    <3>2. joined[k + 1] = u /\ at[k + 1] = Len(u)
      BY <2>4
    <3> HIDE DEF u
    <3> QED
      BY <2>4, <3>1, <3>2
  <2> QED
    BY <2>5 DEF s, t
<1> DEFINE T == {m \in 0..n : \A k \in 0..m :
                   /\ at[k] <= at[m]
                   /\ \A j \in 1..at[k] : joined[m][j] = joined[k][j]}
<1>7. 0 \in T
  BY <1>2, <1>4
<1>8. ASSUME NEW m \in 0..(n - 1), m \in T PROVE m + 1 \in T
  <2>1. m + 1 \in 0..n /\ m \in 0..n /\ at[m] \in Nat /\ at[m + 1] \in Nat
    BY <1>2, <1>4
  <2>2. at[m] <= at[m + 1] /\ \A j \in 1..at[m] : joined[m + 1][j] = joined[m][j]
    BY <1>6, <2>1
  <2>3. ASSUME NEW k \in 0..(m + 1)
        PROVE  /\ at[k] <= at[m + 1]
               /\ \A j \in 1..at[k] : joined[m + 1][j] = joined[k][j]
    <3>1. CASE k = m + 1
      BY <2>1, <3>1
    <3>2. CASE k # m + 1
      <4>1. k \in 0..m /\ k \in 0..n
        BY <1>2, <3>2
      <4>2. at[k] \in Nat /\ at[k] <= at[m] /\ \A j \in 1..at[k] : joined[m][j] = joined[k][j]
        BY <1>4, <1>8, <4>1
      <4>3. \A j \in 1..at[k] : j \in 1..at[m]
        BY <2>1, <4>2
      <4> QED
        BY <2>1, <2>2, <4>2, <4>3
    <3> QED
      BY <3>1, <3>2
  <2> QED
    BY <2>1, <2>3
<1> HIDE DEF T
<1>9. \A m \in 0..n : m \in T
  BY <1>2, <1>7, <1>8, UpTo
<1>10. n \in T
  BY <1>2, <1>9
<1>11. \A k \in 0..n : at[k] <= at[n] /\ \A j \in 1..at[k] : flat[j] = joined[k][j]
  BY <1>3, <1>10 DEF T
<1>12. at[n] = Len(flat) /\ flat \in S /\ at[0] = 0
  <2>1. n \in 0..n /\ 0 \in 0..n
    BY <1>2
  <2> QED
    BY <1>3, <1>4, <2>1, EmptySeq
<1>13. ASSUME NEW k \in 0..(n - 1)
       PROVE  /\ at[k + 1] = at[k] + Len(seqs[k + 1])
              /\ \A j \in 1..Len(seqs[k + 1]) : flat[at[k] + j] = seqs[k + 1][j]
  <2>1. k \in 0..n /\ k + 1 \in 0..n /\ at[k] \in Nat
    BY <1>2, <1>4
  <2>2. \A j \in 1..at[k + 1] : flat[j] = joined[k + 1][j]
    BY <1>11, <2>1
  <2>3. ASSUME NEW j \in 1..Len(seqs[k + 1]) PROVE flat[at[k] + j] = seqs[k + 1][j]
    <3>1. at[k] + j \in 1..at[k + 1]
      BY <1>6, <2>1
    <3> QED
      BY <1>6, <2>2, <3>1
  <2> QED
    BY <1>6, <2>3
<1>14. \A k \in 0..n : at[k] \in 0..Len(flat)
  BY <1>4, <1>11, <1>12
<1>15. LaidOut(at, seqs, flat)
  BY <1>12, <1>13, <1>14 DEF LaidOut, n
<1> QED
  BY <1>12, <1>15 DEF flat, S

(* Pieces of one length. *)
LEMMA LaidOutEvenly ==
  ASSUME NEW E, NEW seqs \in Seq(Seq(E)), NEW width \in Nat,
         \A k \in 1..Len(seqs) : Len(seqs[k]) = width,
         NEW at, NEW flat, LaidOut(at, seqs, flat)
  PROVE  \A k \in 0..Len(seqs) : at[k] = width * k
<1> DEFINE n == Len(seqs)
           T == {k \in 0..n : at[k] = width * k}
<1>1. n \in Nat /\ width * 0 = 0
  BY LenProperties
<1>2. 0 \in T
  BY <1>1 DEF LaidOut
<1>3. ASSUME NEW k \in 0..(n - 1), k \in T PROVE k + 1 \in T
  <2>1. k + 1 \in 1..n /\ width * (k + 1) = width * k + width
    BY <1>1
  <2>2. at[k + 1] = at[k] + width
    BY <2>1 DEF LaidOut
  <2> QED
    BY <1>1, <1>3, <2>1, <2>2
<1> HIDE DEF T, n
<1>4. \A k \in 0..n : k \in T
  BY <1>1, <1>2, <1>3, UpTo
<1> QED
  BY <1>4 DEF T, n

-----------------------------------------------------------------------------
(* A sequence inside another one, and prefix codes. *)

(* The elements of x lie behind position p. *)
Holds(s, p, x) ==
  p + Len(x) <= Len(s) /\ \A i \in 1..Len(x) : s[p + i] = x[i]

(* What is held at a position is what SubSeq cuts out there.               *)
LEMMA HeldPart ==
  ASSUME NEW S, NEW s \in Seq(S), NEW p \in Nat, NEW x \in Seq(S), Holds(s, p, x)
  PROVE  SubSeq(s, p + 1, p + Len(x)) = x
<1> DEFINE n == Len(x)
           a == p + 1
           b == p + n
           part == SubSeq(s, a, b)
<1>1. n \in Nat /\ Len(s) \in Nat /\ p + n <= Len(s) /\ a \in Int /\ b \in Int
      /\ b - a + 1 = n /\ (a <= b => b - a + 1 = n) /\ (~(a <= b) => n = 0)
  BY LenProperties DEF Holds
<1>2. \A i \in a..b : s[i] \in S
  BY <1>1, ElementOfSeq
<1>3. \A i \in 1..n : s[a + i - 1] = x[i]
  <2>1. ASSUME NEW i \in 1..n PROVE a + i - 1 = p + i
    BY <1>1
  <2> QED
    BY <2>1 DEF Holds
<1> HIDE DEF a, b, n
<1>4. /\ part \in Seq(S) /\ Len(part) = IF a <= b THEN b - a + 1 ELSE 0
      /\ \A i \in 1..(b - a + 1) : part[i] = s[a + i - 1]
  BY <1>1, <1>2, SubSeqProperties
<1> HIDE DEF part
<1>5. Len(part) = n /\ \A i \in 1..n : part[i] = x[i]
  BY <1>1, <1>3, <1>4
<1>6. part = x
  BY <1>4, <1>5, SeqEqual DEF n
<1> QED
  BY <1>6 DEF part, a, b, n

(* A prefix is what stands at position 0.                                  *)
LEMMA PrefixMeans ==
  ASSUME NEW S, NEW x \in Seq(S), NEW s \in Seq(S)
  PROVE  IsPrefix(x, s) <=> Holds(s, 0, x)
<1>1. Len(x) \in Nat /\ Len(s) \in Nat /\ SubSeq(x, 1, Len(x)) = x
  BY LenProperties, SubSeqFull
<1>2. IsPrefix(x, s) <=> Len(x) <= Len(s) /\ x = SubSeq(s, 1, Len(x))
  BY <1>1, Zenon DEF IsPrefix
<1>3. ASSUME Holds(s, 0, x) PROVE SubSeq(s, 1, Len(x)) = x /\ Len(x) <= Len(s)
  <2>1. SubSeq(s, 0 + 1, 0 + Len(x)) = x
    BY <1>3, HeldPart
  <2>2. 0 + 1 = 1 /\ 0 + Len(x) = Len(x)
    BY <1>1
  <2> QED
    BY <1>3, <2>1, <2>2 DEF Holds
<1>4. ASSUME Len(x) <= Len(s), x = SubSeq(s, 1, Len(x)) PROVE Holds(s, 0, x)
  <2> DEFINE n == Len(x)
  <2>1. n \in Int /\ 1 \in Int /\ \A i \in 1..n : s[i] \in S
    BY <1>1, <1>4, ElementOfSeq
  <2> HIDE DEF n
  <2>2. \A i \in 1..(n - 1 + 1) : SubSeq(s, 1, n)[i] = s[1 + i - 1]
    BY <2>1, SubSeqProperties
  <2>3. ASSUME NEW i \in 1..n PROVE s[0 + i] = x[i]
    <3>1. i \in 1..(n - 1 + 1) /\ 1 + i - 1 = i /\ 0 + i = i
      BY <2>1
    <3> QED
      BY <1>4, <2>2, <3>1 DEF n
  <2> QED
    BY <1>1, <1>4, <2>3 DEF Holds, n
<1> QED
  BY <1>2, <1>3, <1>4

(* A prefix of the rest is what stands where the rest begins.              *)
LEMMA PrefixBehind ==
  ASSUME NEW S, NEW x \in Seq(S), NEW s \in Seq(S), NEW p \in 0..Len(s)
  PROVE  IsPrefix(x, SubSeq(s, p + 1, Len(s))) <=> Holds(s, p, x)
<1> DEFINE n == Len(s)
           a == p + 1
           rest == SubSeq(s, a, n)
<1>1. n \in Nat /\ p \in Nat /\ p <= n /\ a \in Int /\ n \in Int /\ n - a + 1 = n - p
      /\ (~(a <= n) => n - p = 0) /\ Len(x) \in Nat
  BY LenProperties
<1>2. \A i \in a..n : s[i] \in S
  <2>1. ASSUME NEW i \in a..n PROVE s[i] \in S
    <3>1. i \in 1..Len(s)
      OBVIOUS
    <3> QED
      BY <3>1, ElementOfSeq
  <2> QED
    BY <2>1
<1>3. ASSUME NEW i \in 1..(n - p) PROVE a + i - 1 = p + i
  <2>1. \A j, q \in Int : q + 1 + j - 1 = q + j
    OBVIOUS
  <2> QED
    BY <2>1
<1> HIDE DEF a, n
<1>4. /\ rest \in Seq(S) /\ Len(rest) = IF a <= n THEN n - a + 1 ELSE 0
      /\ \A i \in 1..(n - a + 1) : rest[i] = s[a + i - 1]
  BY <1>1, <1>2, SubSeqProperties
<1> HIDE DEF rest
<1>5. Len(rest) = n - p /\ \A i \in 1..(n - p) : rest[i] = s[p + i]
  BY <1>1, <1>3, <1>4
<1>6. Holds(rest, 0, x) <=> Holds(s, p, x)
  <2>1. 0 + Len(x) <= Len(rest) <=> p + Len(x) <= Len(s)
    BY <1>1, <1>5 DEF n
  <2>2. ASSUME p + Len(x) <= Len(s), NEW i \in 1..Len(x) PROVE rest[0 + i] = s[p + i]
    <3>1. i \in 1..(n - p) /\ 0 + i = i
      BY <1>1, <2>2 DEF n
    <3> QED
      BY <1>5, <3>1
  <2> QED
    BY <2>1, <2>2 DEF Holds
<1>7. IsPrefix(x, rest) <=> Holds(rest, 0, x)
  BY <1>4, PrefixMeans
<1> QED
  BY <1>6, <1>7 DEF rest, a, n

(* Of two sequences that begin at the same place one begins the other. *)
LEMMA PrefixesCompare ==
  ASSUME NEW S, NEW s \in Seq(S), NEW p \in 0..Len(s), NEW x \in Seq(S), NEW y \in Seq(S),
         Holds(s, p, x), Holds(s, p, y)
  PROVE  IsPrefix(x, y) \/ IsPrefix(y, x)
<1>1. Len(x) \in Nat /\ Len(y) \in Nat /\ p \in Nat
  BY LenProperties
<1>2. ASSUME NEW a \in Seq(S), NEW b \in Seq(S), Holds(s, p, a), Holds(s, p, b),
             Len(a) \in Nat, Len(b) \in Nat, Len(a) <= Len(b)
      PROVE  IsPrefix(a, b)
  <2>1. ASSUME NEW i \in 1..Len(a) PROVE b[0 + i] = a[i]
    <3>1. i \in 1..Len(b) /\ 0 + i = i
      BY <1>2
    <3> QED
      BY <1>2, <3>1 DEF Holds
  <2>2. Holds(b, 0, a)
    BY <1>2, <2>1 DEF Holds
  <2> QED
    BY <2>2, PrefixMeans
<1>3. CASE Len(x) <= Len(y)
  BY <1>1, <1>2, <1>3
<1>4. CASE Len(y) <= Len(x)
  BY <1>1, <1>2, <1>4
<1> QED
  BY <1>1, <1>3, <1>4

PrefixFree(code, chars, S) ==
  \A c, d \in chars : /\ code[c] \in Seq(S)
                      /\ c # d => ~IsPrefix(code[c], code[d])

(* Where the code of a character lies, no other character can be read. *)
LEMMA OneCodeFits ==
  ASSUME NEW S, NEW chars, NEW code, PrefixFree(code, chars, S),
         NEW s \in Seq(S), NEW p \in 0..Len(s), NEW c \in chars, Holds(s, p, code[c])
  PROVE  {d \in chars : IsPrefix(code[d], SubSeq(s, p + 1, Len(s)))} = {c}
<1>1. ASSUME NEW d \in chars
      PROVE  IsPrefix(code[d], SubSeq(s, p + 1, Len(s))) <=> d = c
  <2>1. code[c] \in Seq(S) /\ code[d] \in Seq(S)
        /\ (d # c => ~IsPrefix(code[c], code[d]) /\ ~IsPrefix(code[d], code[c]))
    BY Zenon DEF PrefixFree
  <2>2. IsPrefix(code[d], SubSeq(s, p + 1, Len(s))) <=> Holds(s, p, code[d])
    BY <2>1, PrefixBehind
  <2>3. Holds(s, p, code[d]) => IsPrefix(code[c], code[d]) \/ IsPrefix(code[d], code[c])
    BY <2>1, PrefixesCompare
  <2> QED
    BY <2>1, <2>2, <2>3
<1> QED
  BY <1>1

(* What is laid out end to end is found piece by piece. *)
LEMMA HeldPiece ==
  ASSUME NEW S, NEW s, NEW p \in Nat, NEW seqs \in Seq(Seq(S)), NEW at, NEW flat \in Seq(S),
         LaidOut(at, seqs, flat), Holds(s, p, flat), NEW k \in 1..Len(seqs), Len(s) \in Nat
  PROVE  /\ at[k - 1] \in Nat /\ at[k] = at[k - 1] + Len(seqs[k]) /\ seqs[k] \in Seq(S)
         /\ p + at[k] <= Len(s) /\ Holds(s, p + at[k - 1], seqs[k])
<1> DEFINE n == Len(seqs[k])
           m == Len(flat)
           a == at[k - 1]
           t == seqs[k]
<1>1. k - 1 \in 0..(Len(seqs) - 1) /\ (k - 1) + 1 = k /\ k - 1 \in 0..Len(seqs)
      /\ k \in 0..Len(seqs)
  BY LenProperties
<1>2. t \in Seq(S) /\ n \in Nat /\ m \in Nat
  BY ElementOfSeq, LenProperties
<1>3. /\ a \in 0..m /\ at[k] \in 0..m /\ at[k] = a + n
      /\ \A j \in 1..n : flat[a + j] = t[j]
  BY <1>1 DEF LaidOut
<1>4. p + m <= Len(s) /\ \A i \in 1..m : s[p + i] = flat[i]
  BY DEF Holds
<1>5. \A j \in 1..n : s[(p + a) + j] = t[j]
  <2> HIDE DEF n, m, a, t
  <2>1. ASSUME NEW j \in 1..n PROVE s[(p + a) + j] = t[j]
    <3>1. a \in Nat /\ a + n <= m
      BY <1>2, <1>3
    <3>2. a + j \in 1..m /\ (p + a) + j = p + (a + j)
      BY <1>2, <3>1
    <3> QED
      BY <1>3, <1>4, <3>2
  <2> QED
    BY <2>1
<1>6. p + at[k] <= Len(s) /\ (p + a) + n <= Len(s) /\ a \in Nat
  <2> HIDE DEF n, m, a, t
  <2> QED
    BY <1>2, <1>3, <1>4
<1>7. Holds(s, p + a, t)
  BY <1>5, <1>6 DEF Holds
<1> QED
  BY <1>2, <1>3, <1>6, <1>7

(* into_bytes adds less than a byte of zeros, up to a whole byte. *)
LEMMA IntoBytesPads ==
  ASSUME NEW s \in Seq(Bit)
  PROVE  LET t == IntoBytes([ok |-> TRUE, bits |-> s])
         IN  /\ t \in Seq(Bit) /\ Extends(t, s)
             /\ Len(t) - Len(s) < ByteBits /\ Len(t) % ByteBits = 0
             /\ RestIsZero(t, Len(s))
<1> DEFINE L == Len(s)
           pad == (0 - L) % ByteBits
           zeros == [i \in 1..pad |-> 0]
           t == s \o zeros
<1>1. L \in Nat /\ ByteBits \in Nat /\ ByteBits > 0
  BY BitWidths, LenProperties
<1>2. pad \in 0..(ByteBits - 1) /\ (L + pad) % ByteBits = 0
  <2> HIDE DEF L
  <2> QED
    BY <1>1, NextMultiple
<1>3. IntoBytes([ok |-> TRUE, bits |-> s]) = t
  BY DEF IntoBytes
<1> HIDE DEF pad
<1>4. zeros \in Seq(Bit) /\ Len(zeros) = pad /\ \A i \in 1..pad : zeros[i] = 0
  BY <1>1, <1>2 DEF Bit
<1> HIDE DEF zeros
<1>5. /\ t \in Seq(Bit) /\ Len(t) = L + pad /\ Extends(t, s)
      /\ \A i \in 1..pad : t[L + i] = zeros[i]
  BY <1>4, ConcatExtends
<1> HIDE DEF t
<1>6. RestIsZero(t, L)
  <2>1. ASSUME NEW i \in (L + 1)..Len(t) PROVE t[i] = 0
    <3>1. i - L \in 1..pad /\ L + (i - L) = i
      BY <1>1, <1>2, <1>5
    <3> QED
      BY <1>4, <1>5, <3>1
  <2> QED
    BY <2>1 DEF RestIsZero
<1> QED
  BY <1>1, <1>2, <1>3, <1>5, <1>6

=============================================================================
