-------------------------- MODULE HuffmanCodeProofs -------------------------
(***************************************************************************)
(* The canonical code of a codebook: for every codebook that is accepted   *)
(* its codes fit their lengths and none begins another.                    *)
(*                                                                         *)
(* Symbols take their share of the code space, 2^(M - length) of 2^M codes *)
(* of the greatest length M, one after the other; the code of a symbol is  *)
(* where its share begins, cut to its length.  validate_lengths sees to it *)
(* that the shares fit.  From this follow what the encoder and the decoder *)
(* promise, and that the decoder implements PrefixReader step by step.     *)
(***************************************************************************)
EXTENDS HuffmanCode, BitFieldsProofs

M == MaxCodeLength

LEMMA HuffmanSizes ==
  /\ NumBytes \in Nat /\ NumBytes > 0 /\ M \in Nat /\ M > 0 /\ M < NumBytes
  /\ WordBits = M /\ Word = Pow2[M] /\ Word \in Nat /\ Word > 0
<1>1. NumBytes \in Nat /\ NumBytes > 0 /\ M \in Nat /\ M > 0 /\ M < NumBytes
  BY CodebookBounds DEF M
<1>2. WordBits = M /\ Word = Pow2[M]
  BY CodecInputs DEF M, Word
<1> QED
  BY <1>1, <1>2, Pow2Type

(* A codebook whose lengths are lengths of codes. *)
Measured(cb) == cb \in [Bytes -> Nat] /\ \A b \in Bytes : cb[b] <= M

LEMMA UsedLengths ==
  ASSUME NEW cb, Measured(cb)
  PROVE  /\ IsFiniteSet(UsedBytes(cb)) /\ UsedBytes(cb) \subseteq Nat
         /\ \A s \in UsedBytes(cb) : s \in Bytes /\ cb[s] \in 1..M /\ M - cb[s] \in Nat
<1>1. IsFiniteSet(Bytes) /\ Bytes \subseteq Nat
  BY HuffmanSizes, FS_Interval DEF Bytes
<1>2. UsedBytes(cb) \subseteq Bytes
  BY DEF UsedBytes
<1>3. ASSUME NEW s \in UsedBytes(cb) PROVE s \in Bytes /\ cb[s] \in 1..M /\ M - cb[s] \in Nat
  <2>1. s \in Bytes /\ cb[s] > 0
    BY DEF UsedBytes
  <2>2. cb[s] \in Nat /\ cb[s] <= M
    BY <2>1 DEF Measured
  <2> QED
    BY <2>1, <2>2, HuffmanSizes
<1> QED
  BY <1>1, <1>2, <1>3, FS_Subset

-----------------------------------------------------------------------------
(* The order of the symbols. *)

(* Every symbol with a code once, by length and value. *)
Listed(sq, cb) ==
  /\ sq \in Seq(UsedBytes(cb)) /\ Len(sq) = Cardinality(UsedBytes(cb))
  /\ \A s \in UsedBytes(cb) : \E i \in 1..Len(sq) : sq[i] = s
  /\ \A i, j \in 1..Len(sq) : i < j => ComesBefore(cb, sq[i], sq[j])

LEMMA InCodeOrderLists ==
  ASSUME NEW cb, Measured(cb)
  PROVE  Listed(InCodeOrder(cb), cb)
<1> DEFINE U == UsedBytes(cb)
           K == Cardinality(U)
           rank(s) == Cardinality(Before(cb, s))
           r == [s \in U |-> rank(s)]
           sq == InCodeOrder(cb)
<1>1. IsFiniteSet(U) /\ K \in Nat /\ \A s \in U : s \in Nat /\ cb[s] \in Nat
  BY UsedLengths, FS_CardinalityType
<1> HIDE DEF K, U
<1>2. ASSUME NEW s \in U, NEW t \in U
      PROVE  /\ s # t => ComesBefore(cb, s, t) \/ ComesBefore(cb, t, s)
             /\ ~(ComesBefore(cb, s, t) /\ ComesBefore(cb, t, s))
  BY <1>1 DEF ComesBefore
<1>3. ASSUME NEW s \in U, NEW t \in U, NEW x \in U,
             ComesBefore(cb, x, s), ComesBefore(cb, s, t)
      PROVE  ComesBefore(cb, x, t)
  BY <1>1, <1>3 DEF ComesBefore
<1>4. \A s \in U : Before(cb, s) = {t \in U : ComesBefore(cb, t, s)}
  BY DEF Before, U
<1>5. \A s \in U : IsFiniteSet(Before(cb, s)) /\ rank(s) \in Nat
  <2>1. \A s \in U : Before(cb, s) \in SUBSET U
    BY <1>4
  <2> QED
    BY <1>1, <2>1, FS_Subset, FS_CardinalityType
<1>6. ASSUME NEW s \in U PROVE rank(s) \in 0..(K - 1)
  <2>1. Before(cb, s) \in SUBSET (U \ {s})
    BY <1>2, <1>4
  <2>2. IsFiniteSet(U \ {s}) /\ Cardinality(U \ {s}) = K - 1
    BY <1>1, FS_RemoveElement DEF K
  <2>3. rank(s) <= K - 1
    BY <2>1, <2>2, FS_Subset
  <2> QED
    BY <1>1, <1>5, <2>3
<1>7. ASSUME NEW s \in U, NEW t \in U, ComesBefore(cb, s, t) PROVE rank(s) < rank(t)
  <2> DEFINE B == Before(cb, s)
             C == Before(cb, t)
  <2>1. s \notin B /\ s \in C /\ B \subseteq C
    BY <1>2, <1>3, <1>4, <1>7
  <2>2. IsFiniteSet(B) /\ IsFiniteSet(C) /\ Cardinality(B) \in Nat /\ Cardinality(C) \in Nat
    BY <1>5
  <2> HIDE DEF B, C
  <2>3. B \cup {s} \in SUBSET C
    BY <2>1
  <2>4. Cardinality(B \cup {s}) = Cardinality(B) + 1
    BY <2>1, <2>2, FS_AddElement
  <2>5. Cardinality(B \cup {s}) <= Cardinality(C)
    BY <2>2, <2>3, FS_Subset
  <2>6. Cardinality(B) < Cardinality(C)
    BY <2>2, <2>4, <2>5
  <2> QED
    BY <2>6 DEF B, C
<1> HIDE DEF rank
<1>8. \A s, t \in U : rank(s) = rank(t) => s = t
  BY <1>2, <1>5, <1>7
<1>9. \A i \in 1..K : \E s \in U : rank(s) = i - 1
  <2> DEFINE T == 0..(K - 1)
  <2>1. IsFiniteSet(T) /\ Cardinality(T) = K
    <3>1. 0 \in Int /\ K - 1 \in Int
      BY <1>1
    <3>2. Cardinality(T) = IF 0 > K - 1 THEN 0 ELSE (K - 1) - 0 + 1
      BY <3>1, FS_Interval
    <3> QED
      BY <1>1, <3>1, <3>2, FS_Interval
  <2>2. r \in Injection(U, T)
    <3>1. r \in [U -> T]
      BY <1>6
    <3> HIDE DEF T
    <3>2. \A s, t \in U : r[s] = r[t] => s = t
      BY <1>8
    <3> QED
      BY <3>1, <3>2 DEF Injection, IsInjective
  <2> HIDE DEF T, r
  <2>3. r \in Surjection(U, T)
    BY <1>1, <2>1, <2>2, FS_Injection DEF K
  <2>4. \A i \in T : \E s \in U : r[s] = i
    BY <2>3 DEF Surjection
  <2>5. \A i \in 1..K : i - 1 \in T
    BY <1>1 DEF T
  <2> QED
    BY <2>4, <2>5 DEF r
<1>10. \A i \in 1..K : sq[i] = CHOOSE s \in U : rank(s) = i - 1
  BY DEF InCodeOrder, K, U, rank
<1>11. \A i \in 1..K : sq[i] \in U /\ rank(sq[i]) = i - 1
  <2> HIDE DEF sq
  <2> QED
    BY <1>9, <1>10
<1>12. sq \in Seq(U) /\ Len(sq) = K
  <2>1. sq = [i \in 1..K |-> CHOOSE s \in U : rank(s) = i - 1]
    BY DEF InCodeOrder, K, U, rank
  <2> HIDE DEF sq
  <2> QED
    BY <1>1, <1>11, <2>1
<1> HIDE DEF sq
<1>13. ASSUME NEW s \in U PROVE \E i \in 1..Len(sq) : sq[i] = s
  <2>1. rank(s) + 1 \in 1..K /\ (rank(s) + 1) - 1 = rank(s)
    BY <1>1, <1>6
  <2>2. sq[rank(s) + 1] = s
    BY <1>8, <1>11, <2>1
  <2> QED
    BY <1>12, <2>1, <2>2
<1>14. ASSUME NEW i \in 1..Len(sq), NEW j \in 1..Len(sq), i < j
       PROVE  ComesBefore(cb, sq[i], sq[j])
  <2>1. i \in 1..K /\ j \in 1..K
    BY <1>12
  <2>2. /\ sq[i] \in U /\ sq[j] \in U
        /\ rank(sq[i]) = i - 1 /\ rank(sq[j]) = j - 1
    BY <1>11, <2>1
  <2>3. sq[i] # sq[j] /\ ~(rank(sq[j]) < rank(sq[i]))
    BY <1>14, <2>1, <2>2
  <2> QED
    BY <1>2, <1>7, <2>2, <2>3
<1> QED
  BY <1>12, <1>13, <1>14 DEF Listed, K, U, sq

-----------------------------------------------------------------------------
(* The code space. *)

(* Behind the first i symbols so much of the code space has been taken.    *)
Shares(taken, sq, cb) ==
  /\ taken[0] = 0
  /\ \A i \in 0..Len(sq) : taken[i] \in Nat
  /\ \A i \in 1..Len(sq) : taken[i] = taken[i - 1] + Pow2[M - cb[sq[i]]]

LEMMA ListedTwice ==
  ASSUME NEW cb, Measured(cb), NEW sq, Listed(sq, cb)
  PROVE  /\ Len(sq) \in Nat
         /\ \A i \in 1..Len(sq) : sq[i] \in UsedBytes(cb)
         /\ \A i, j \in 1..Len(sq) : sq[i] = sq[j] => i = j
         /\ \A i, j \in 1..Len(sq) : i < j => cb[sq[i]] <= cb[sq[j]]
<1>1. Len(sq) \in Nat /\ \A i \in 1..Len(sq) : sq[i] \in UsedBytes(cb)
  BY LenProperties, ElementOfSeq DEF Listed
<1>2. \A s \in UsedBytes(cb) : s \in Nat /\ cb[s] \in Nat
  BY UsedLengths
<1>3. ASSUME NEW i \in 1..Len(sq), NEW j \in 1..Len(sq), i < j
      PROVE  sq[i] # sq[j] /\ cb[sq[i]] <= cb[sq[j]]
  <2>1. ComesBefore(cb, sq[i], sq[j])
    BY <1>3 DEF Listed
  <2> QED
    BY <1>1, <1>2, <2>1 DEF ComesBefore
<1> QED
  BY <1>1, <1>3

(* The shares of all symbols are the sum validate_lengths looks at.        *)
LEMMA SharesAddUp ==
  ASSUME NEW cb, Measured(cb), NEW sq, Listed(sq, cb)
  PROVE  \E taken : Shares(taken, sq, cb) /\ taken[Len(sq)] = KraftSum(cb)
<1> DEFINE U == UsedBytes(cb)
           n == Len(sq)
           f == [s \in U |-> Pow2[M - cb[s]]]
           some == CHOOSE sum : IsSum(sum, f, U)
<1>1. IsFiniteSet(U) /\ \A s \in U : M - cb[s] \in Nat
  BY UsedLengths
<1>2. f \in [U -> Nat]
  BY <1>1, Pow2Type
<1>3. n \in Nat /\ \A i \in 1..n : sq[i] \in U
  BY ListedTwice
<1>4. \A i, j \in 1..n : sq[i] = sq[j] => i = j
  BY ListedTwice
<1>5. \A s \in U : \E i \in 1..n : sq[i] = s
  BY DEF Listed
<1>6. KraftSum(cb) = some[U]
  <2> DEFINE e(it) == [s \in SUBSET U |->
                         IF s = {} THEN 0
                         ELSE Pow2[M - cb[CHOOSE x \in s : TRUE]]
                              + it[s \ {CHOOSE x \in s : TRUE}]]
             iter == CHOOSE it : it = e(it)
  <2>1. KraftSum(cb) = iter[U]
    BY DEF KraftSum, MapThenSumSet, MapThenFoldSet, M
  <2>2. ASSUME NEW it PROVE (it = e(it)) <=> IsSum(it, f, U)
    <3>1. ASSUME NEW s \in SUBSET U, s # {} PROVE f[Chosen(s)] = Pow2[M - cb[Chosen(s)]]
      <4>1. Chosen(s) \in U
        BY <3>1, ChosenIn
      <4> QED
        BY <4>1
    <3>2. e(it) = [s \in SUBSET U |->
                     IF s = {} THEN 0 ELSE f[Chosen(s)] + it[s \ {Chosen(s)}]]
      <4> HIDE DEF f
      <4> QED
        BY <3>1 DEF Chosen
    <3> HIDE DEF e, f
    <3> QED
      BY <3>2 DEF IsSum
  <2> HIDE DEF e, f
  <2>3. iter = some
    BY <2>2
  <2> QED
    BY <2>1, <2>3
<1> HIDE DEF f, U
<1>7. some \in [SUBSET U -> Nat] /\ IsSum(some, f, U)
  <2>1. \E sum \in [SUBSET U -> Nat] : IsSum(sum, f, U)
    BY <1>1, <1>2, SumExists
  <2>2. IsSum(some, f, U)
    BY <2>1
  <2> QED
    BY <1>1, <1>2, <2>2, SumType
<1> HIDE DEF some
<1>17. IsFiniteSet(U)
  BY <1>1
<1>18. some \in [SUBSET U -> Nat]
  BY <1>7
<1>19. IsSum(some, f, U)
  BY <1>7
<1>16. ASSUME NEW T \in SUBSET U, NEW x \in T PROVE some[T] = f[x] + some[T \ {x}]
  BY <1>2, <1>17, <1>18, <1>19, SumAnyElement, SMT
<1> DEFINE P(i) == {sq[j] : j \in 1..i}
           taken == [i \in 0..n |-> some[P(i)]]
<1>8. \A i \in 0..n : P(i) \in SUBSET U
  BY <1>3
<1>9. P(0) = {} /\ P(n) = U
  BY <1>3, <1>5
<1>10. \A i \in 1..n : sq[i] \in P(i) /\ P(i) \ {sq[i]} = P(i - 1)
  <2>1. ASSUME NEW i \in 1..n PROVE sq[i] \in P(i) /\ P(i) \ {sq[i]} = P(i - 1)
    <3>1. \A j \in 1..i : j \in 1..n /\ (j # i => j \in 1..(i - 1))
      BY <1>3
    <3>2. \A j \in 1..(i - 1) : j \in 1..i /\ j # i /\ j \in 1..n
      BY <1>3
    <3>3. P(i) \ {sq[i]} \subseteq P(i - 1)
      BY <3>1
    <3>4. P(i - 1) \subseteq P(i) \ {sq[i]}
      BY <1>4, <3>2
    <3> QED
      BY <3>3, <3>4
  <2> QED
    BY <2>1
<1> HIDE DEF P, n
<1>11. ASSUME NEW i \in 1..n PROVE some[P(i)] = some[P(i - 1)] + Pow2[M - cb[sq[i]]]
  <2>1. i \in 0..n /\ i - 1 \in 0..n
    BY <1>3
  <2>2. some[P(i)] = f[sq[i]] + some[P(i) \ {sq[i]}]
    <3>1. P(i) \in SUBSET U /\ sq[i] \in P(i)
      BY <1>8, <1>10, <2>1
    <3> QED
      BY <1>16, <3>1
  <2>3. sq[i] \in U /\ P(i - 1) \in SUBSET U
    BY <1>3, <1>8, <2>1
  <2>4. f[sq[i]] = Pow2[M - cb[sq[i]]] /\ f[sq[i]] \in Nat
    BY <1>2, <2>3 DEF f
  <2>5. some[P(i - 1)] \in Nat
    BY <1>7, <2>3
  <2>6. some[P(i)] = f[sq[i]] + some[P(i - 1)]
    BY <1>10, <2>2
  <2> QED
    BY <2>4, <2>5, <2>6
<1>12. some[{}] = 0
  BY <1>7, SumStarts
<1>13. \A i \in 0..n : taken[i] = some[P(i)] /\ some[P(i)] \in Nat
  BY <1>7, <1>8
<1> HIDE DEF taken
<1>14. Shares(taken, sq, cb)
  <2>1. 0 \in 0..n /\ \A i \in 1..n : i \in 0..n /\ i - 1 \in 0..n
    BY <1>3
  <2>2. taken[0] = 0
    BY <1>9, <1>12, <1>13, <2>1
  <2>3. \A i \in 1..n : taken[i] = taken[i - 1] + Pow2[M - cb[sq[i]]]
    BY <1>11, <1>13, <2>1
  <2>4. \A i \in 0..n : taken[i] \in Nat
    BY <1>13
  <2> QED
    BY <2>2, <2>3, <2>4 DEF Shares, n
<1>15. taken[n] = KraftSum(cb)
  <2>1. n \in 0..n
    BY <1>3
  <2> QED
    BY <1>6, <1>9, <1>13, <2>1
<1> QED
  BY <1>14, <1>15 DEF n

-----------------------------------------------------------------------------
(* Codes begin where their shares do. *)

LEMMA Factors ==
  ASSUME NEW a \in Nat, NEW b \in Nat, NEW d \in Nat, d > 0
  PROVE  /\ a * d <= b * d => a <= b
         /\ a <= b => a * d <= b * d
         /\ a * d \in Nat
<1>1. a * d \in Nat /\ b * d \in Nat
  OBVIOUS
<1>2. ASSUME b < a PROVE b * d < a * d
  <2> DEFINE e == a - b
  <2>1. e \in Nat /\ e > 0 /\ a = b + e
    BY <1>2
  <2> HIDE DEF e
  <2>2. e * d > 0 /\ e * d \in Nat
    BY <2>1
  <2>3. a * d = b * d + e * d
    BY <2>1
  <2> QED
    BY <1>1, <2>2, <2>3
<1>3. ASSUME a <= b PROVE a * d <= b * d
  <2> DEFINE e == b - a
  <2>1. e \in Nat /\ b = a + e
    BY <1>3
  <2> HIDE DEF e
  <2>2. e * d \in Nat
    BY <2>1
  <2>3. b * d = a * d + e * d
    BY <2>1
  <2> QED
    BY <1>1, <2>2, <2>3
<1> QED
  BY <1>1, <1>2, <1>3

(* The shares lie one behind the other. *)
LEMMA SharesInOrder ==
  ASSUME NEW cb, Measured(cb), NEW sq, Listed(sq, cb), NEW taken, Shares(taken, sq, cb),
         NEW i \in 0..Len(sq), NEW j \in 0..Len(sq), i <= j
  PROVE  taken[i] <= taken[j]
<1> DEFINE n == Len(sq)
           A == {k \in 0..n : i <= k => taken[i] <= taken[k]}
<1>1. n \in Nat /\ \A k \in 1..n : sq[k] \in UsedBytes(cb)
  BY ListedTwice
<1>2. \A k \in 0..n : taken[k] \in Nat
  BY DEF Shares
<1>3. 0 \in A
  BY <1>1, <1>2
<1>4. ASSUME NEW k \in 0..(n - 1), k \in A PROVE k + 1 \in A
  <2>1. k + 1 \in 1..n /\ k + 1 \in 0..n /\ k \in 0..n /\ (k + 1) - 1 = k
    BY <1>1
  <2>2. taken[k + 1] = taken[k] + Pow2[M - cb[sq[k + 1]]]
    BY <2>1 DEF Shares
  <2>3. Pow2[M - cb[sq[k + 1]]] \in Nat
    BY <1>1, <2>1, UsedLengths, Pow2Type
  <2>4. taken[i] \in Nat /\ taken[k] \in Nat
    BY <1>2, <2>1
  <2>5. CASE i <= k
    BY <1>4, <2>1, <2>2, <2>3, <2>4, <2>5
  <2>6. CASE ~(i <= k)
    <3>1. i <= k + 1 => i = k + 1
      BY <1>1, <2>1, <2>6
    <3>2. taken[i] <= taken[i]
      BY <2>4
    <3> QED
      BY <2>1, <3>1, <3>2
  <2> QED
    BY <2>5, <2>6
<1> HIDE DEF A, n
<1>5. \A k \in 0..n : k \in A
  BY <1>1, <1>3, <1>4, UpTo
<1> QED
  BY <1>5 DEF A, n

(* What the loop of build_canonical_tables does with the first n symbols.  *)
Chained(cd, sq, cb, n) ==
  /\ \A i \in 1..n : cd[sq[i]] \in Nat
  /\ n > 0 => cd[sq[1]] = 0
  /\ \A i \in 1..(n - 1) :
       cd[sq[i + 1]] = ((cd[sq[i]] + 1) * Pow2[cb[sq[i + 1]] - cb[sq[i]]]) % Word

(* Nothing is cut off the next code, l bits more of the M - l + m the      *)
(* code before it leaves.                                                  *)
LEMMA NextStart ==
  ASSUME NEW a \in Nat, NEW l \in 0..M, NEW m \in l..M,
         (a + 1) * Pow2[M - l] + Pow2[M - m] <= Word
  PROVE  /\ ((a + 1) * Pow2[m - l]) % Word = (a + 1) * Pow2[m - l]
         /\ (a + 1) * Pow2[m - l] \in Nat /\ (a + 1) * Pow2[m - l] < Pow2[m]
         /\ ((a + 1) * Pow2[m - l]) * Pow2[M - m] = (a + 1) * Pow2[M - l]
<1> DEFINE p == Pow2[m - l]
           q == Pow2[M - m]
           r == Pow2[m]
           v == (a + 1) * p
<1>1. /\ M \in Nat /\ l \in Nat /\ m \in Nat /\ m - l \in Nat /\ M - m \in Nat
      /\ (m - l) + (M - m) = M - l /\ m + (M - m) = M /\ M - l \in Nat
  BY HuffmanSizes
<1>2. /\ p \in Nat /\ p > 0 /\ q \in Nat /\ q > 0 /\ r \in Nat /\ r > 0
      /\ Pow2[M - l] = p * q /\ Word = r * q
  <2>1. p \in Nat /\ p > 0 /\ q \in Nat /\ q > 0 /\ r \in Nat /\ r > 0
    BY <1>1, Pow2Type
  <2>2. Pow2[M - l] = p * q
    BY <1>1, Pow2Sum
  <2>3. Pow2[M] = r * q
    BY <1>1, Pow2Sum
  <2> QED
    BY <2>1, <2>2, <2>3, HuffmanSizes
<1>3. Word \in Nat /\ r <= Word
  <2>1. Pow2[m] <= Pow2[M]
    BY <1>1, Pow2Monotone
  <2> QED
    BY <2>1, HuffmanSizes
<1> HIDE DEF p, q, r
<1>4. v \in Nat /\ v + 1 \in Nat
  BY <1>2
<1>5. v * q = (a + 1) * (p * q)
  BY <1>2
<1> HIDE DEF v
<1>6. (v + 1) * q <= r * q
  <2>1. (v + 1) * q = v * q + q
    BY <1>2, <1>4
  <2> QED
    BY <1>2, <1>5, <2>1 DEF q
<1>7. v + 1 <= r
  BY <1>2, <1>4, <1>6, Factors
<1>8. v < r /\ v < Word
  BY <1>2, <1>3, <1>4, <1>7
<1>9. v % Word = v
  BY <1>3, <1>4, <1>8
<1> QED
  BY <1>2, <1>4, <1>5, <1>8, <1>9 DEF v, p, q, r

LEMMA CodesStartShares ==
  ASSUME NEW cb, Measured(cb), KraftSum(cb) <= Word, NEW sq, Listed(sq, cb),
         NEW taken, Shares(taken, sq, cb), taken[Len(sq)] = KraftSum(cb),
         NEW cd, NEW n \in 0..Len(sq), Chained(cd, sq, cb, n)
  PROVE  \A i \in 1..n : /\ cd[sq[i]] * Pow2[M - cb[sq[i]]] = taken[i - 1]
                         /\ cd[sq[i]] < Pow2[cb[sq[i]]]
<1> DEFINE K == Len(sq)
           good(i) == /\ cd[sq[i]] * Pow2[M - cb[sq[i]]] = taken[i - 1]
                      /\ cd[sq[i]] < Pow2[cb[sq[i]]]
           A == {i \in 0..n : i > 0 => good(i)}
<1>1. /\ K \in Nat /\ n \in Nat /\ n <= K
      /\ \A i \in 1..K : sq[i] \in UsedBytes(cb)
      /\ \A i, j \in 1..K : i < j => cb[sq[i]] <= cb[sq[j]]
  BY ListedTwice
<1>2. \A s \in UsedBytes(cb) : cb[s] \in 1..M /\ cb[s] \in Nat /\ M - cb[s] \in Nat
  BY UsedLengths
<1>3. 0 \in A
  BY <1>1
<1>4. ASSUME NEW i \in 0..(n - 1), i \in A PROVE i + 1 \in A
  <2>1. i + 1 \in 1..n /\ i + 1 \in 1..K /\ i + 1 \in 0..n /\ (i + 1) - 1 = i /\ i \in 0..K
    BY <1>1
  <2> DEFINE m == cb[sq[i + 1]]
  <2>2. m \in 1..M /\ m \in Nat /\ M - m \in Nat
    BY <1>1, <1>2, <2>1
  <2>3. CASE i = 0
    <3>1. cd[sq[1]] = 0 /\ taken[0] = 0
      BY <2>1, <2>3 DEF Chained, Shares
    <3>2. Pow2[m] \in Nat /\ Pow2[m] > 0 /\ Pow2[M - m] \in Nat
      BY <2>2, Pow2Type
    <3>3. 0 * Pow2[M - m] = 0
      BY <3>2
    <3>4. good(i + 1)
      BY <2>1, <2>3, <3>1, <3>2, <3>3
    <3> QED
      BY <2>1, <3>4
  <2>4. CASE i > 0
    <3> DEFINE l == cb[sq[i]]
               a == cd[sq[i]]
    <3>1. i \in 1..n /\ i \in 1..K /\ i \in 1..(n - 1) /\ i < i + 1
      BY <1>1, <2>1, <2>4
    <3>2. l \in 1..M /\ l \in Nat /\ M - l \in Nat
      BY <1>1, <1>2, <3>1
    <3>3. l <= m
      BY <1>1, <2>1, <3>1
    <3>4. a \in Nat /\ a * Pow2[M - l] = taken[i - 1]
      BY <1>4, <2>4, <3>1 DEF Chained
    <3>5. cd[sq[i + 1]] = ((a + 1) * Pow2[m - l]) % Word
      BY <3>1 DEF Chained
    <3>6. taken[i] = taken[i - 1] + Pow2[M - l] /\ taken[i + 1] = taken[i] + Pow2[M - m]
      BY <2>1, <3>1 DEF Shares
    <3>7. taken[i + 1] <= KraftSum(cb)
      <4>1. i + 1 \in 0..K /\ K \in 0..K /\ i + 1 <= K
        BY <1>1, <2>1
      <4> QED
        BY <4>1, SharesInOrder
    <3>8. Pow2[M - l] \in Nat /\ Pow2[M - m] \in Nat
      BY <2>2, <3>2, Pow2Type
    <3>9. taken[i - 1] \in Nat /\ taken[i] \in Nat /\ taken[i + 1] \in Nat
      <4>1. i - 1 \in 0..K /\ i \in 0..K /\ i + 1 \in 0..K
        BY <1>1, <2>1, <3>1
      <4> QED
        BY <4>1 DEF Shares
    <3> HIDE DEF a, l, m
    <3>10. (a + 1) * Pow2[M - l] = taken[i]
      <4>1. (a + 1) * Pow2[M - l] = a * Pow2[M - l] + Pow2[M - l]
        BY <3>4, <3>8, SMTT(30)
      <4> QED
        BY <3>4, <3>6, <4>1
    <3>11. (a + 1) * Pow2[M - l] + Pow2[M - m] <= Word
      <4>1. taken[i + 1] <= Word
        <5>1. taken[K] \in Nat
          BY <1>1 DEF Shares
        <5> QED
          BY <3>7, <3>9, <5>1, HuffmanSizes DEF K
      <4> QED
        BY <3>6, <3>10, <4>1
    <3>12. l \in 0..M /\ m \in l..M
      BY <2>2, <3>2, <3>3, HuffmanSizes
    <3>13. /\ ((a + 1) * Pow2[m - l]) % Word = (a + 1) * Pow2[m - l]
           /\ (a + 1) * Pow2[m - l] < Pow2[m]
           /\ ((a + 1) * Pow2[m - l]) * Pow2[M - m] = (a + 1) * Pow2[M - l]
      BY <3>4, <3>11, <3>12, NextStart
    <3>14. good(i + 1)
      BY <2>1, <3>5, <3>10, <3>13 DEF m
    <3> QED
      BY <2>1, <3>14
  <2> QED
    BY <2>3, <2>4
<1> HIDE DEF A
<1>5. \A i \in 0..n : i \in A
  BY <1>1, <1>3, <1>4, UpTo
<1>6. \A i \in 1..n : good(i)
  <2>1. \A i \in 1..n : i \in 0..n /\ i > 0
    BY <1>1
  <2> QED
    BY <1>5, <2>1 DEF A
<1> QED
  BY <1>6

(* What canonical codes are: they fit their lengths, and each lies behind  *)
(* all longer spellings of the codes before it.                            *)
Canonical(cd, cb) ==
  /\ \A s \in UsedBytes(cb) : cd[s] \in Nat /\ cd[s] < Pow2[cb[s]]
  /\ \A s, t \in UsedBytes(cb) :
       ComesBefore(cb, s, t) => (cd[s] + 1) * Pow2[cb[t] - cb[s]] <= cd[t]

LEMMA ChainedCodesAreCanonical ==
  ASSUME NEW cb, Measured(cb), KraftSum(cb) <= Word, NEW sq, Listed(sq, cb),
         NEW cd, Chained(cd, sq, cb, Len(sq))
  PROVE  Canonical(cd, cb)
<1> DEFINE K == Len(sq)
<1>1. /\ K \in Nat /\ K \in 0..K
      /\ \A i \in 1..K : sq[i] \in UsedBytes(cb)
      /\ \A i, j \in 1..K : i < j => cb[sq[i]] <= cb[sq[j]]
  BY ListedTwice
<1>2. \A s \in UsedBytes(cb) : s \in Nat /\ cb[s] \in 1..M /\ cb[s] \in Nat /\ M - cb[s] \in Nat
  BY UsedLengths
<1>3. PICK taken : Shares(taken, sq, cb) /\ taken[K] = KraftSum(cb)
  BY SharesAddUp
<1>4. \A i \in 1..K : /\ cd[sq[i]] * Pow2[M - cb[sq[i]]] = taken[i - 1]
                      /\ cd[sq[i]] < Pow2[cb[sq[i]]]
  BY <1>1, <1>3, CodesStartShares
<1>5. \A i \in 1..K : cd[sq[i]] \in Nat
  BY DEF Chained
<1>6. \A s \in UsedBytes(cb) : \E i \in 1..K : sq[i] = s
  BY DEF Listed
<1>7. ASSUME NEW i \in 1..K, NEW j \in 1..K, i < j
      PROVE  (cd[sq[i]] + 1) * Pow2[cb[sq[j]] - cb[sq[i]]] <= cd[sq[j]]
  <2> DEFINE l == cb[sq[i]]
             m == cb[sq[j]]
             a == cd[sq[i]]
             b == cd[sq[j]]
             p == Pow2[m - l]
             q == Pow2[M - m]
  <2>1. /\ l \in Nat /\ m \in Nat /\ M - l \in Nat /\ M - m \in Nat /\ l <= m
        /\ a \in Nat /\ b \in Nat
    BY <1>1, <1>2, <1>5, <1>7
  <2>2. a * Pow2[M - l] = taken[i - 1] /\ b * Pow2[M - m] = taken[j - 1]
    BY <1>4
  <2>3. taken[i] = taken[i - 1] + Pow2[M - l]
    BY <1>3 DEF Shares, l
  <2>4. taken[i] <= taken[j - 1]
    <3>1. i \in 0..K /\ j - 1 \in 0..K /\ i <= j - 1
      BY <1>1, <1>7
    <3> QED
      BY <1>3, <3>1, SharesInOrder
  <2> HIDE DEF a, b, l, m
  <2>5. m - l \in Nat /\ (m - l) + (M - m) = M - l
    BY <2>1, HuffmanSizes
  <2>6. p \in Nat /\ q \in Nat /\ q > 0 /\ Pow2[M - l] = p * q
    <3>1. p \in Nat /\ q \in Nat /\ q > 0
      BY <2>1, <2>5, Pow2Type
    <3>2. Pow2[M - l] = Pow2[m - l] * Pow2[M - m]
      BY <2>1, <2>5, Pow2Sum
    <3> QED
      BY <3>1, <3>2
  <2> HIDE DEF p
  <2>7. \A x, y, z \in Nat : (x + 1) * y = x * y + y /\ (x * y) * z = x * (y * z)
    OBVIOUS
  <2>8. ((a + 1) * p) * q <= b * q
    <3> DEFINE r == Pow2[M - l]
    <3>1. r \in Nat /\ r = p * q
      BY <2>1, <2>6, Pow2Type
    <3>2. ((a + 1) * p) * q = (a + 1) * (p * q)
      <4> DEFINE c == a + 1
      <4>1. c \in Nat
        BY <2>1
      <4> HIDE DEF c, q
      <4>2. (c * p) * q = c * (p * q)
        BY <2>6, <2>7, <4>1
      <4> QED
        BY <4>2 DEF c
    <3>3. (a + 1) * r = a * r + r
      BY <2>1, <2>7, <3>1
    <3> HIDE DEF r
    <3>4. ((a + 1) * p) * q = (a + 1) * r
      BY <3>1, <3>2
    <3>5. ((a + 1) * p) * q = taken[i]
      BY <2>2, <2>3, <3>3, <3>4 DEF r
    <3> QED
      BY <2>2, <2>4, <3>5
  <2>9. (a + 1) * p \in Nat
    BY <2>1, <2>6
  <2>10. (a + 1) * p <= b
    BY <2>1, <2>6, <2>8, <2>9, Factors
  <2> QED
    BY <2>10 DEF a, b, l, m, p
<1>8. ASSUME NEW s \in UsedBytes(cb), NEW t \in UsedBytes(cb), ComesBefore(cb, s, t)
      PROVE  (cd[s] + 1) * Pow2[cb[t] - cb[s]] <= cd[t]
  <2>1. PICK i \in 1..K : sq[i] = s
    BY <1>6
  <2>2. PICK j \in 1..K : sq[j] = t
    BY <1>6
  <2>3. ~(ComesBefore(cb, t, s)) /\ s # t
    BY <1>2, <1>8 DEF ComesBefore
  <2>4. ~(j < i) /\ i # j
    BY <2>1, <2>2, <2>3 DEF Listed
  <2>5. i < j
    BY <1>1, <2>4
  <2> QED
    BY <1>7, <2>1, <2>2, <2>5
<1>9. \A s \in UsedBytes(cb) : cd[s] \in Nat /\ cd[s] < Pow2[cb[s]]
  BY <1>4, <1>5, <1>6
<1> QED
  BY <1>8, <1>9 DEF Canonical

(* A code that begins another is the other one without its last bits.      *)
LEMMA PrefixIsQuotient ==
  ASSUME NEW a \in Nat, NEW m \in Nat, a < Pow2[m], NEW b \in Nat, NEW n \in Nat, b < Pow2[n],
         IsPrefix(NatToBits(a, m), NatToBits(b, n))
  PROVE  m <= n /\ b \div Pow2[n - m] = a
<1> DEFINE x == NatToBits(a, m)
           y == NatToBits(b, n)
           d == Pow2[n - m]
           c == b \div d
           z == NatToBits(c, m)
<1>1. x \in Seq(Bit) /\ Len(x) = m /\ y \in Seq(Bit) /\ Len(y) = n
  BY NatToBitsType
<1>2. Holds(y, 0, x)
  BY <1>1, PrefixMeans
<1>3. m <= n /\ \A i \in 1..m : y[i] = x[i]
  <2>1. 0 + m <= n /\ \A i \in 1..m : y[0 + i] = x[i]
    BY <1>1, <1>2 DEF Holds
  <2>2. \A i \in 1..m : 0 + i = i
    OBVIOUS
  <2> QED
    BY <2>1, <2>2
<1>4. n - m \in Nat /\ d \in Nat /\ d > 0
  BY <1>3, Pow2Type
<1>5. c \in Nat /\ c < Pow2[m]
  <2>1. Pow2[n] = d * Pow2[m]
    <3>1. (n - m) + m = n
      BY <1>3
    <3> QED
      BY <1>4, <3>1, Pow2Sum
  <2>2. Pow2[m] \in Nat
    BY Pow2Type
  <2> HIDE DEF d
  <2>3. c \in Nat
    BY <1>4, DivMod
  <2>4. b < d * Pow2[m]
    BY <2>1
  <2>5. c < Pow2[m]
    BY <1>4, <2>2, <2>4, DivLess
  <2> QED
    BY <2>3, <2>5
<1>6. z \in Seq(Bit) /\ Len(z) = m
  BY <1>5, NatToBitsType
<1>7. ASSUME NEW i \in 1..m PROVE z[i] = x[i]
  <2>1. i \in 1..n /\ m - i \in Nat /\ n - i \in Nat /\ (n - m) + (m - i) = n - i
    BY <1>3
  <2>2. Pow2[n - i] = d * Pow2[m - i] /\ Pow2[m - i] \in Nat /\ Pow2[m - i] > 0
    BY <1>4, <2>1, Pow2Sum, Pow2Type
  <2>3. y[i] = (b \div Pow2[n - i]) % 2
    BY <2>1 DEF NatToBits
  <2>4. z[i] = (c \div Pow2[m - i]) % 2
    BY DEF NatToBits
  <2> HIDE DEF d, y, z, x
  <2>5. b \div (d * Pow2[m - i]) = c \div Pow2[m - i]
    BY <1>4, <2>2, DivProduct
  <2>6. y[i] = x[i]
    BY <1>3
  <2> QED
    BY <2>2, <2>3, <2>4, <2>5, <2>6
<1>8. z = x
  <2> HIDE DEF z, x
  <2> QED
    BY <1>1, <1>6, <1>7
<1>9. BitsToNat(x) = a /\ BitsToNat(z) = c
  BY <1>5, BitsToNatOfNatToBits
<1> QED
  BY <1>3, <1>8, <1>9

LEMMA QuotientAtLeast ==
  ASSUME NEW a \in Nat, NEW p \in Nat, p > 0, NEW b \in Nat, (a + 1) * p <= b
  PROVE  a + 1 <= b \div p
<1>1. (a + 1) * p \in Nat
  OBVIOUS
<1>2. b \in Nat /\ b \div p \in Nat /\ b % p \in 0..(p - 1) /\ b = p * (b \div p) + (b % p)
  BY DivMod
<1> DEFINE q == b \div p
           r == b % p
<1> HIDE DEF q, r
<1>3. p * q < b + 1 /\ (a + 1) * p < (q + 1) * p
  <2>1. p * q \in Nat /\ (q + 1) * p = p * q + p
    BY <1>2 DEF q
  <2> QED
    BY <1>1, <1>2, <2>1 DEF q, r
<1>4. ~(q + 1 <= a + 1)
  <2>1. q + 1 <= a + 1 => (q + 1) * p <= (a + 1) * p
    BY <1>2, Factors DEF q
  <2>2. (q + 1) * p \in Nat
    BY <1>2 DEF q
  <2> QED
    BY <1>1, <1>3, <2>1, <2>2
<1> QED
  BY <1>2, <1>4 DEF q

LEMMA CanonicalIsPrefixFree ==
  ASSUME NEW cb, Measured(cb), NEW cd, Canonical(cd, cb),
         NEW s \in UsedBytes(cb), NEW t \in UsedBytes(cb), s # t
  PROVE  ~IsPrefix(NatToBits(cd[s], cb[s]), NatToBits(cd[t], cb[t]))
<1> DEFINE l == cb[s]
           m == cb[t]
           a == cd[s]
           b == cd[t]
           p == Pow2[m - l]
<1>1. SUFFICES ASSUME IsPrefix(NatToBits(a, l), NatToBits(b, m)) PROVE FALSE
  OBVIOUS
<1>2. s \in Nat /\ t \in Nat /\ l \in Nat /\ m \in Nat
  BY UsedLengths
<1>3. a \in Nat /\ a < Pow2[l] /\ b \in Nat /\ b < Pow2[m]
  BY DEF Canonical
<1>4. ComesBefore(cb, s, t) \/ ComesBefore(cb, t, s)
  BY <1>2 DEF ComesBefore
<1>5. /\ ComesBefore(cb, s, t) => (a + 1) * p <= b
      /\ ComesBefore(cb, t, s) => (b + 1) * Pow2[l - m] <= a /\ m <= l
  BY <1>2 DEF Canonical, ComesBefore
<1> HIDE DEF a, b, l, m
<1>6. l <= m /\ b \div p = a
  BY <1>1, <1>2, <1>3, PrefixIsQuotient
<1>7. p \in Nat /\ p > 0
  BY <1>2, <1>6, Pow2Type
<1>8. CASE (a + 1) * p <= b
  <2>1. a + 1 <= b \div p
    BY <1>3, <1>7, <1>8, QuotientAtLeast
  <2> QED
    BY <1>3, <1>6, <2>1
<1>9. CASE ComesBefore(cb, t, s)
  <2>1. l = m /\ m - l = 0 /\ l - m = 0
    BY <1>2, <1>5, <1>6, <1>9
  <2>2. Pow2[0] = 1
    BY Pow2Def
  <2>3. b + 1 <= a
    BY <1>3, <1>5, <1>9, <2>1, <2>2
  <2>4. b \div 1 = b
    BY <1>3
  <2> QED
    BY <1>3, <1>6, <2>1, <2>2, <2>3, <2>4 DEF p
<1> QED
  BY <1>4, <1>5, <1>8, <1>9

-----------------------------------------------------------------------------
(* The codec's codebook. *)

(* A codebook that is refused gets no codes; in one that is accepted, the  *)
(* first `placed` symbols have theirs, and all of them once it is built.   *)
BookInv ==
  /\ hstep \in HuffmanSteps /\ book \in Codebooks /\ codes \in [Bytes -> Nat] /\ placed \in Nat
  /\ hstep = "new" => placed = 0
  /\ hstep \notin {"new", "badBook"} =>
       /\ ValidLengths(book) /\ sorted = InCodeOrder(book) /\ placed <= Len(sorted)
       /\ Chained(codes, sorted, book, placed)
  /\ hstep \notin {"new", "assign", "badBook"} => placed = Len(sorted)

LEMMA ValidIsMeasured ==
  ASSUME NEW cb \in Codebooks, ValidLengths(cb)
  PROVE  Measured(cb) /\ KraftSum(cb) <= Word /\ Listed(InCodeOrder(cb), cb)
<1>1. cb \in [Bytes -> Nat]
  <2>1. \A b \in Bytes : b \in Nat
    BY HuffmanSizes DEF Bytes
  <2> QED
    BY <2>1 DEF Codebooks
<1>2. Measured(cb)
  BY <1>1 DEF Measured, ValidLengths, M
<1> QED
  BY <1>2, InCodeOrderLists DEF ValidLengths, Word

LEMMA BookInvInit == HInit => BookInv
<1>1. SUFFICES ASSUME HInit PROVE BookInv
  OBVIOUS
<1>2. book \in Codebooks
  BY <1>1, CodecInputs DEF HInit
<1> QED
  BY <1>1, <1>2 DEF HInit, BookInv, HuffmanSteps, NoCodes

(* Steps behind the codebook's construction leave it alone.                *)
LEMMA BookKept ==
  ASSUME BookInv, UNCHANGED bookVars, hstep' \in HuffmanSteps,
         hstep \notin {"new", "assign", "badBook"} /\ hstep' \notin {"new", "assign", "badBook"}
  PROVE  BookInv'
<1>1. /\ book' = book /\ sorted' = sorted /\ codes' = codes /\ placed' = placed
  BY DEF bookVars
<1>2. /\ book \in Codebooks /\ codes \in [Bytes -> Nat] /\ placed \in Nat
      /\ ValidLengths(book) /\ sorted = InCodeOrder(book) /\ placed <= Len(sorted)
      /\ Chained(codes, sorted, book, placed) /\ placed = Len(sorted)
  BY DEF BookInv
<1>3. /\ book' \in Codebooks /\ codes' \in [Bytes -> Nat] /\ placed' \in Nat
      /\ ValidLengths(book') /\ sorted' = InCodeOrder(book') /\ placed' <= Len(sorted')
      /\ Chained(codes', sorted', book', placed') /\ placed' = Len(sorted')
  BY <1>1, <1>2, Zenon
<1> QED
  BY <1>3 DEF BookInv

LEMMA BookInvNew ==
  ASSUME BookInv, New
  PROVE  BookInv'
<1>1. /\ book' = book /\ codes' = codes /\ placed' = placed /\ placed = 0
      /\ book \in Codebooks /\ codes \in [Bytes -> Nat]
  BY DEF BookInv, New
<1>2. CASE ValidLengths(book)
  <2>1. sorted' = InCodeOrder(book) /\ hstep' = "assign"
    BY <1>2 DEF New
  <2>2. Len(sorted') \in Nat
    BY <1>1, <1>2, <2>1, ValidIsMeasured, ListedTwice
  <2>3. ValidLengths(book') /\ sorted' = InCodeOrder(book')
    BY <1>1, <1>2, <2>1
  <2>4. Chained(codes', sorted', book', placed')
    <3>1. placed' = 0
      BY <1>1
    <3>2. (1..0) = {} /\ (1..(0 - 1)) = {} /\ ~(0 > 0)
      OBVIOUS
    <3> QED
      BY <3>1, <3>2 DEF Chained
  <2> QED
    BY <1>1, <2>1, <2>2, <2>3, <2>4 DEF BookInv, HuffmanSteps
<1>3. CASE ~ValidLengths(book)
  <2>1. hstep' = "badBook"
    BY <1>3 DEF New
  <2> QED
    BY <1>1, <2>1 DEF BookInv, HuffmanSteps
<1> QED
  BY <1>2, <1>3

LEMMA BookInvAssignCode ==
  ASSUME BookInv, AssignCode
  PROVE  BookInv'
<1> DEFINE sym == sorted[placed + 1]
           c == IF placed = 0 THEN 0 ELSE NextCode(sorted[placed], book[sym])
<1>1. /\ hstep = "assign" /\ placed < Len(sorted) /\ placed' = placed + 1
      /\ book' = book /\ sorted' = sorted /\ hstep' = "assign"
      /\ codes' = [codes EXCEPT ![sym] = c]
  BY DEF AssignCode
<1>2. /\ book \in Codebooks /\ codes \in [Bytes -> Nat] /\ placed \in Nat
      /\ ValidLengths(book) /\ sorted = InCodeOrder(book)
      /\ Chained(codes, sorted, book, placed)
  BY <1>1 DEF BookInv
<1>3. Measured(book) /\ Listed(sorted, book)
  BY <1>2, ValidIsMeasured
<1>4. /\ Len(sorted) \in Nat
      /\ \A i \in 1..Len(sorted) : sorted[i] \in UsedBytes(book)
      /\ \A i, j \in 1..Len(sorted) : sorted[i] = sorted[j] => i = j
      /\ \A i, j \in 1..Len(sorted) : i < j => book[sorted[i]] <= book[sorted[j]]
  BY <1>3, ListedTwice
<1>5. \A s \in UsedBytes(book) : s \in Bytes /\ book[s] \in Nat
  BY <1>3, UsedLengths
<1>6. placed + 1 \in 1..Len(sorted) /\ sym \in Bytes /\ placed + 1 <= Len(sorted)
  BY <1>1, <1>2, <1>4, <1>5
<1>7. placed # 0 =>
        /\ placed \in 1..Len(sorted)
        /\ c = ((codes[sorted[placed]] + 1) * Pow2[book[sym] - book[sorted[placed]]]) % Word
  BY <1>1, <1>2, <1>4 DEF NextCode
<1>8. c \in Nat
  <2>1. CASE placed = 0
    BY <2>1
  <2>2. CASE placed # 0
    <3> DEFINE a == codes[sorted[placed]]
               d == book[sym] - book[sorted[placed]]
    <3>1. a \in Nat /\ d \in Nat
      BY <1>2, <1>4, <1>5, <1>6, <1>7, <2>2
    <3>2. Pow2[d] \in Nat
      BY <3>1, Pow2Type
    <3>3. c = ((a + 1) * Pow2[d]) % Word
      BY <1>7, <2>2
    <3> HIDE DEF a, d, c
    <3>4. (a + 1) * Pow2[d] \in Nat
      BY <3>1, <3>2
    <3> QED
      BY <3>3, <3>4, HuffmanSizes
  <2> QED
    BY <2>1, <2>2
<1> HIDE DEF sym, c
<1>9. codes' \in [Bytes -> Nat] /\ codes'[sym] = c
  BY <1>1, <1>2, <1>6, <1>8
<1>10. \A i \in 1..placed : codes'[sorted[i]] = codes[sorted[i]]
  <2>1. ASSUME NEW i \in 1..placed PROVE codes'[sorted[i]] = codes[sorted[i]]
    <3>1. i \in 1..Len(sorted) /\ i # placed + 1
      BY <1>1, <1>2, <1>4
    <3>2. sorted[i] # sym /\ sorted[i] \in Bytes
      BY <1>4, <1>5, <1>6, <3>1 DEF sym
    <3> QED
      BY <1>1, <1>2, <3>2
  <2> QED
    BY <2>1
<1>11. Chained(codes', sorted', book', placed')
  <2>1. \A i \in 1..(placed + 1) : codes'[sorted[i]] \in Nat
    <3>1. \A i \in 1..(placed + 1) : i \in 1..Len(sorted)
      BY <1>1, <1>2, <1>4
    <3> QED
      BY <1>4, <1>5, <1>9, <3>1
  <2>2. codes'[sorted[1]] = 0
    <3>1. CASE placed = 0
      BY <1>9, <3>1 DEF sym, c
    <3>2. CASE placed # 0
      <4>1. 1 \in 1..placed /\ placed > 0
        BY <1>2, <3>2
      <4> QED
        BY <1>2, <1>10, <4>1 DEF Chained
    <3> QED
      BY <3>1, <3>2
  <2>3. ASSUME NEW i \in 1..((placed + 1) - 1)
        PROVE  codes'[sorted[i + 1]]
                 = ((codes'[sorted[i]] + 1) * Pow2[book[sorted[i + 1]] - book[sorted[i]]]) % Word
    <3>1. i \in 1..placed /\ codes'[sorted[i]] = codes[sorted[i]]
      BY <1>2, <1>10
    <3>2. CASE i = placed
      <4>1. placed # 0
        BY <1>2, <3>1, <3>2
      <4>2. codes'[sorted[placed + 1]] = c
        BY <1>9 DEF sym
      <4> QED
        BY <1>7, <3>1, <3>2, <4>1, <4>2 DEF sym
    <3>3. CASE i # placed
      <4>1. i \in 1..(placed - 1) /\ i + 1 \in 1..placed
        BY <1>2, <3>1, <3>3
      <4>2. codes'[sorted[i + 1]] = codes[sorted[i + 1]]
        BY <1>10, <4>1
      <4>3. codes[sorted[i + 1]]
              = ((codes[sorted[i]] + 1) * Pow2[book[sorted[i + 1]] - book[sorted[i]]]) % Word
        BY <1>2, <4>1 DEF Chained
      <4> QED
        BY <3>1, <4>2, <4>3
    <3> QED
      BY <3>2, <3>3
  <2> QED
    BY <1>1, <2>1, <2>2, <2>3 DEF Chained
<1>12. /\ ValidLengths(book') /\ sorted' = InCodeOrder(book') /\ placed' <= Len(sorted')
       /\ book' \in Codebooks /\ placed' \in Nat
  BY <1>1, <1>2, <1>6
<1> QED
  BY <1>1, <1>9, <1>11, <1>12 DEF BookInv, HuffmanSteps

LEMMA BookInvStep ==
  ASSUME BookInv, [HNext]_hvars
  PROVE  BookInv'
<1>1. CASE New
  BY <1>1, BookInvNew
<1>2. CASE AssignCode
  BY <1>2, BookInvAssignCode
<1>3. CASE Assigned
  <2>1. UNCHANGED bookVars /\ hstep = "assign" /\ hstep' = "ready" /\ placed = Len(sorted)
    BY <1>3 DEF Assigned
  <2>2. book' = book /\ sorted' = sorted /\ codes' = codes /\ placed' = placed
    BY <2>1 DEF bookVars
  <2>3. /\ book \in Codebooks /\ codes \in [Bytes -> Nat] /\ placed \in Nat
        /\ ValidLengths(book) /\ sorted = InCodeOrder(book) /\ placed <= Len(sorted)
        /\ Chained(codes, sorted, book, placed)
    BY <2>1 DEF BookInv
  <2>4. /\ book' \in Codebooks /\ codes' \in [Bytes -> Nat] /\ placed' \in Nat
        /\ ValidLengths(book') /\ sorted' = InCodeOrder(book') /\ placed' <= Len(sorted')
        /\ Chained(codes', sorted', book', placed') /\ placed' = Len(sorted')
    BY <2>1, <2>2, <2>3, Zenon
  <2> QED
    BY <2>1, <2>4 DEF BookInv, HuffmanSteps
<1>4. CASE EncodeCall \/ Check \/ WriteSymbol \/ Encoded
  <2>1. /\ UNCHANGED bookVars /\ hstep' \in HuffmanSteps
        /\ hstep \notin {"new", "assign", "badBook"} /\ hstep' \notin {"new", "assign", "badBook"}
    BY <1>4 DEF EncodeCall, Check, WriteSymbol, Encoded, HuffmanSteps
  <2> QED
    BY <2>1, BookKept
<1>5. CASE DecodeOwn \/ DecodeForeign \/ ReadBit \/ NoCodeMatched \/ Decoded
  <2>1. /\ UNCHANGED bookVars /\ hstep' \in HuffmanSteps
        /\ hstep \notin {"new", "assign", "badBook"} /\ hstep' \notin {"new", "assign", "badBook"}
    BY <1>5 DEF DecodeOwn, DecodeForeign, DecodeCall, ReadBit, NoCodeMatched, Decoded, HuffmanSteps
  <2> QED
    BY <2>1, BookKept
<1>6. CASE UNCHANGED hvars
  <2>1. UNCHANGED <<bookVars, hstep>>
    BY <1>6 DEF hvars
  <2> QED
    BY <2>1 DEF bookVars, BookInv, Chained
<1>7. CASE Returned
  BY <1>6, <1>7 DEF Returned
<1> QED
  BY <1>1, <1>2, <1>3, <1>4, <1>5, <1>6, <1>7 DEF HNext, HStep

LEMMA BookAlways == Spec => []BookInv
<1>1. HInit => BookInv
  BY BookInvInit
<1>2. BookInv /\ [HNext]_hvars => BookInv'
  BY BookInvStep
<1> QED
  BY <1>1, <1>2, PTL DEF Spec

LEMMA BookIsCanonical ==
  ASSUME BookInv, hstep \notin {"new", "assign", "badBook"}
  PROVE  Measured(book) /\ Listed(sorted, book) /\ Canonical(codes, book)
<1>1. /\ book \in Codebooks /\ ValidLengths(book) /\ sorted = InCodeOrder(book)
      /\ Chained(codes, sorted, book, Len(sorted))
  BY DEF BookInv
<1>2. Measured(book) /\ KraftSum(book) <= Word /\ Listed(sorted, book)
  BY <1>1, ValidIsMeasured
<1> QED
  BY <1>1, <1>2, ChainedCodesAreCanonical

(* build_canonical_tables gives every codebook validate_lengths accepts a  *)
(* code: every word fits its length, and no code begins another.           *)
THEOREM CanonicalCodes == Spec => []CodesArePrefixFree
<1>1. BookInv => CodesArePrefixFree
  <2>1. SUFFICES ASSUME BookInv, hstep \notin {"new", "assign", "badBook"},
                        NEW s \in UsedBytes(book)
                 PROVE  /\ codes[s] < Pow2[book[s]]
                        /\ \A t \in UsedBytes(book) \ {s} : ~IsPrefix(CodeOf(s), CodeOf(t))
    BY DEF CodesArePrefixFree
  <2>2. Measured(book) /\ Canonical(codes, book)
    BY <2>1, BookIsCanonical
  <2>3. codes[s] < Pow2[book[s]]
    BY <2>2 DEF Canonical
  <2>4. ASSUME NEW t \in UsedBytes(book) \ {s} PROVE ~IsPrefix(CodeOf(s), CodeOf(t))
    BY <2>2, CanonicalIsPrefixFree DEF CodeOf
  <2> QED
    BY <2>3, <2>4
<1> QED
  BY <1>1, BookAlways, PTL

-----------------------------------------------------------------------------
(* Encoding. *)

(* n[i] bits are the codes of the first i symbols of t. *)
Spans(n, t, cb) ==
  /\ n[0] = 0
  /\ \A i \in 0..Len(t) : n[i] \in Nat
  /\ \A i \in 0..(Len(t) - 1) : n[i + 1] = n[i] + cb[t[i + 1]]

LEMMA BitLenSpans ==
  ASSUME NEW t \in Seq(Bytes), Measured(book)
  PROVE  \E n : Spans(n, t, book) /\ BitLen(t) = n[Len(t)]
<1> DEFINE N == Len(t)
           eq(f) == [i \in 0..N |-> IF i = 0 THEN 0 ELSE f[i - 1] + book[t[i]]]
           step == [i \in 1..N |-> [x \in Nat |-> x + book[t[i]]]]
           val == CHOOSE f : f = eq(f)
<1>1. N \in Nat /\ \A i \in 1..N : book[t[i]] \in Nat
  BY LenProperties, ElementOfSeq DEF Measured
<1>2. PICK f : Unfolds(f, N, 0, step)
  <2> HIDE DEF step
  <2> QED
    BY <1>1, RecursionExists
<1>3. /\ f[0] = 0
      /\ \A i \in 1..N : f[i] = step[i][f[i - 1]]
      /\ \A i \in 0..(N - 1) : f[i + 1] = step[i + 1][f[i]]
  <2> HIDE DEF step
  <2> QED
    BY <1>1, <1>2, UnfoldsValues
<1>4. \A i \in 0..N : f[i] \in Nat
  <2> DEFINE T == {i \in 0..N : f[i] \in Nat}
  <2>1. 0 \in T
    BY <1>1, <1>3
  <2>2. ASSUME NEW i \in 0..(N - 1), i \in T PROVE i + 1 \in T
    <3>1. i + 1 \in 1..N /\ f[i] \in Nat
      BY <1>1, <2>2
    <3>2. step[i + 1][f[i]] = f[i] + book[t[i + 1]]
      BY <3>1
    <3>3. f[i + 1] = step[i + 1][f[i]]
      BY <1>3
    <3> HIDE DEF step
    <3> QED
      BY <1>1, <3>1, <3>2, <3>3
  <2> HIDE DEF T
  <2>3. \A i \in 0..N : i \in T
    BY <1>1, <2>1, <2>2, UpTo
  <2> QED
    BY <2>3 DEF T
<1>5. f = eq(f)
  <2>1. ASSUME NEW i \in 0..N PROVE f[i] = IF i = 0 THEN 0 ELSE f[i - 1] + book[t[i]]
    <3>1. CASE i = 0
      BY <1>3, <3>1
    <3>2. CASE i # 0
      <4>1. i \in 1..N /\ f[i - 1] \in Nat
        BY <1>1, <1>4, <3>2
      <4>2. step[i][f[i - 1]] = f[i - 1] + book[t[i]]
        BY <4>1
      <4> QED
        BY <1>3, <3>2, <4>1, <4>2
    <3> QED
      BY <3>1, <3>2
  <2>2. f = [i \in 0..N |-> f[i]]
    <3> HIDE DEF step
    <3> QED
      BY <1>2 DEF Unfolds
  <2> HIDE DEF step
  <2> QED
    BY <2>1, <2>2
<1>6. val = eq(val)
  <2> HIDE DEF eq
  <2> QED
    BY <1>5, Zenon
<1>7. BitLen(t) = val[N]
  BY Zenon DEF BitLen
<1> HIDE DEF val
<1>8. val[0] = 0 /\ \A i \in 0..(N - 1) : val[i + 1] = val[i] + book[t[i + 1]]
  <2>1. val[0] = 0
    BY <1>1, <1>6
  <2>2. ASSUME NEW i \in 0..(N - 1) PROVE val[i + 1] = val[i] + book[t[i + 1]]
    <3>1. i + 1 \in 0..N /\ i + 1 # 0 /\ (i + 1) - 1 = i
      BY <1>1
    <3>2. val[i + 1] = val[(i + 1) - 1] + book[t[i + 1]]
      BY <1>6, <3>1
    <3> QED
      BY <3>1, <3>2
  <2> QED
    BY <2>1, <2>2
<1>9. \A i \in 0..N : val[i] \in Nat
  <2> DEFINE T == {i \in 0..N : val[i] \in Nat}
  <2>1. 0 \in T
    BY <1>1, <1>8
  <2>2. ASSUME NEW i \in 0..(N - 1), i \in T PROVE i + 1 \in T
    <3>1. i + 1 \in 1..N /\ val[i] \in Nat
      BY <1>1, <2>2
    <3>2. val[i + 1] = val[i] + book[t[i + 1]]
      BY <1>8
    <3>3. book[t[i + 1]] \in Nat
      BY <1>1, <3>1
    <3> QED
      BY <3>1, <3>2, <3>3
  <2> HIDE DEF T
  <2>3. \A i \in 0..N : i \in T
    BY <1>1, <2>1, <2>2, UpTo
  <2> QED
    BY <2>3 DEF T
<1> QED
  BY <1>7, <1>8, <1>9 DEF Spans

(* There is one way only to add them up. *)
LEMMA OneSpan ==
  ASSUME NEW cb, NEW t, Len(t) \in Nat, NEW n, Spans(n, t, cb), NEW m, Spans(m, t, cb)
  PROVE  \A i \in 0..Len(t) : n[i] = m[i]
<1> DEFINE N == Len(t)
           A == {i \in 0..N : n[i] = m[i]}
<1>1. 0 \in A
  BY DEF Spans
<1>2. ASSUME NEW i \in 0..(N - 1), i \in A PROVE i + 1 \in A
  <2>1. n[i + 1] = n[i] + cb[t[i + 1]] /\ m[i + 1] = m[i] + cb[t[i + 1]]
    BY DEF Spans
  <2> QED
    BY <1>2, <2>1
<1> HIDE DEF A
<1>3. \A i \in 0..N : i \in A
  BY <1>1, <1>2, UpTo
<1> QED
  BY <1>3 DEF A

(* The first k symbols of the text stand behind the head, code by code. *)
Wrote(n, k) ==
  /\ Len(stream) = Len(head) + n[k]
  /\ \A i \in 1..k : /\ Encodable(text[i])
                     /\ FieldAt(stream, Len(head) + n[i - 1], codes[text[i]], book[text[i]])

Writing == \E n : Spans(n, text, book) /\ Wrote(n, written)

(* A text is written behind the head: not a bit of it by encode_into       *)
(* before every symbol has been looked at, and never more than bit_len.    *)
EncInv ==
  /\ text \in Seq(Bytes) /\ head \in Seq(Bit) /\ stream \in Seq(Bit) /\ written \in Nat
  /\ hstep \in {"new", "assign", "ready", "badBook"} => written = 0
  /\ hstep = "check" => ~whole /\ stream = head /\ written = 0
  /\ hstep = "write" => ~whole /\ \A i \in 1..Len(text) : Encodable(text[i])
  /\ hstep = "encode" => whole
  /\ hstep = "badText" /\ ~whole => stream = head
  /\ hstep \in {"encode", "write", "encoded"} \/ own =>
       /\ written <= Len(text) /\ Writing
  /\ hstep = "encoded" \/ own => written = Len(text)
  /\ own => hstep \in {"decode", "accepted", "refused"}

LEMMA EncInvInit == HInit => EncInv
<1>1. SUFFICES ASSUME HInit PROVE EncInv
  OBVIOUS
<1>2. <<>> \in Seq(Bytes) /\ <<>> \in Seq(Bit)
  BY EmptySeq
<1> QED
  BY <1>1, <1>2 DEF HInit, EncInv

LEMMA EncodableHasCode ==
  ASSUME BookInv, hstep \notin {"new", "assign", "badBook"}, NEW s, Encodable(s)
  PROVE  /\ s \in UsedBytes(book) /\ codes[s] \in Nat /\ codes[s] < Pow2[book[s]]
         /\ book[s] \in 1..M /\ book[s] \in Nat /\ book[s] <= WordBits
<1>1. s \in UsedBytes(book)
  BY CodebookBounds DEF Encodable, UsedBytes, Bytes
<1>2. Measured(book) /\ Canonical(codes, book)
  BY BookIsCanonical
<1>3. book[s] \in 1..M
  BY <1>1, <1>2, UsedLengths
<1> QED
  BY <1>1, <1>2, <1>3, HuffmanSizes DEF Canonical

LEMMA EncInvEncodeCall ==
  ASSUME BookInv, EncInv, EncodeCall
  PROVE  EncInv'
<1>1. /\ hstep = "ready" /\ text' \in Texts /\ stream' = head' /\ written' = written /\ own' = own
      /\ whole' = whole /\ book' = book /\ codes' = codes
      /\ IF whole THEN head' = <<>> /\ hstep' = "encode"
                  ELSE head' \in Headers /\ hstep' = "check"
  BY DEF EncodeCall, bookVars, decVars
<1>2. written = 0 /\ ~own
  BY <1>1 DEF EncInv
<1>3. text' \in Seq(Bytes) /\ head' \in Seq(Bit)
  <2>1. <<>> \in Seq(Bit)
    BY EmptySeq
  <2> QED
    BY <1>1, <2>1, CodecInputs
<1>4. PICK n : Spans(n, text', book)
  <2>1. Measured(book)
    BY <1>1, BookIsCanonical
  <2> QED
    BY <1>3, <2>1, BitLenSpans
<1>5. Wrote(n, written)'
  <2>1. n[0] = 0 /\ Len(head') \in Nat
    BY <1>3, <1>4, LenProperties DEF Spans
  <2>2. (1..0) = {} /\ Len(stream') = Len(head') + n[0]
    BY <1>1, <2>1
  <2> QED
    BY <1>1, <1>2, <2>2 DEF Wrote
<1>6. 0 <= Len(text')
  BY <1>3, LenProperties
<1>7. Spans(n, text', book')
  BY <1>1, <1>4
<1>8. written' = 0 /\ ~own'
  BY <1>1, <1>2
<1>9. CASE whole
  <2>1. hstep' = "encode" /\ whole' /\ head' = <<>>
    BY <1>1, <1>9
  <2>2. written' <= Len(text') /\ Writing'
    BY <1>5, <1>6, <1>7, <1>8 DEF Writing
  <2>3. stream' \in Seq(Bit) /\ written' \in Nat
    BY <1>1, <1>3, <1>8
  <2> QED
    BY <1>3, <1>8, <2>1, <2>2, <2>3 DEF EncInv
<1>10. CASE ~whole
  <2>1. hstep' = "check" /\ ~whole'
    BY <1>1, <1>10
  <2>2. stream' \in Seq(Bit) /\ written' \in Nat /\ stream' = head'
    BY <1>1, <1>3, <1>8
  <2> QED
    BY <1>3, <1>8, <2>1, <2>2 DEF EncInv
<1> QED
  BY <1>9, <1>10

LEMMA EncInvCheck ==
  ASSUME BookInv, EncInv, Check
  PROVE  EncInv'
<1>1. /\ hstep = "check" /\ text' = text /\ head' = head /\ stream' = stream /\ written' = written
      /\ own' = own /\ whole' = whole /\ book' = book /\ codes' = codes
      /\ hstep' = IF \A i \in 1..Len(text) : Encodable(text[i]) THEN "write" ELSE "badText"
  BY DEF Check, bookVars, encVars, decVars
<1>2. /\ written = 0 /\ ~own /\ stream = head /\ ~whole
      /\ text \in Seq(Bytes) /\ head \in Seq(Bit) /\ stream \in Seq(Bit)
  BY <1>1 DEF EncInv
<1>3. PICK n : Spans(n, text, book)
  <2>1. Measured(book)
    BY <1>1, BookIsCanonical
  <2> QED
    BY <1>2, <2>1, BitLenSpans
<1>4. Writing'
  <2>1. n[0] = 0 /\ Len(head) \in Nat
    BY <1>2, <1>3, LenProperties DEF Spans
  <2>2. (1..0) = {} /\ Len(stream') = Len(head') + n[0] /\ written' = 0
    BY <1>1, <1>2, <2>1
  <2> QED
    BY <1>1, <1>3, <2>2 DEF Writing, Wrote
<1>5. written' <= Len(text')
  BY <1>1, <1>2, LenProperties
<1>6. /\ text' \in Seq(Bytes) /\ head' \in Seq(Bit) /\ stream' \in Seq(Bit) /\ written' \in Nat
      /\ stream' = head' /\ ~whole' /\ ~own'
  BY <1>1, <1>2
<1>7. CASE \A i \in 1..Len(text) : Encodable(text[i])
  <2>1. hstep' = "write"
    BY <1>1, <1>7
  <2>2. \A i \in 1..Len(text') : Encodable(text[i])'
    BY <1>1, <1>7 DEF Encodable
  <2> QED
    BY <1>4, <1>5, <1>6, <2>1, <2>2 DEF EncInv
<1>8. CASE ~(\A i \in 1..Len(text) : Encodable(text[i]))
  <2>1. hstep' = "badText"
    BY <1>1, <1>8
  <2> QED
    BY <1>6, <2>1 DEF EncInv
<1> QED
  BY <1>7, <1>8

(* No write fails: what is encodable has a code that fits its length.      *)
LEMMA EncInvWriteSymbol ==
  ASSUME BookInv, EncInv, WriteSymbol
  PROVE  EncInv'
<1> DEFINE sym == text[written + 1]
           w   == WriteBits([ok |-> TRUE, bits |-> stream], codes[sym], book[sym])
           go  == (hstep = "encode" => Encodable(sym)) /\ w.ok
<1>1. /\ hstep \in {"encode", "write"} /\ written < Len(text)
      /\ IF go THEN stream' = w.bits /\ written' = written + 1 /\ hstep' = hstep
               ELSE hstep' = "badText" /\ stream' = stream /\ written' = written
      /\ book' = book /\ codes' = codes /\ whole' = whole /\ text' = text /\ head' = head
      /\ own' = own
  BY DEF WriteSymbol, bookVars, decVars
<1>2. /\ text \in Seq(Bytes) /\ head \in Seq(Bit) /\ stream \in Seq(Bit) /\ written \in Nat
      /\ hstep = "write" => ~whole /\ \A i \in 1..Len(text) : Encodable(text[i])
      /\ hstep = "encode" => whole
      /\ ~own
  BY <1>1 DEF EncInv
<1>3. PICK n : Spans(n, text, book) /\ Wrote(n, written)
  BY <1>1 DEF EncInv, Writing
<1>4. Len(text) \in Nat /\ written + 1 \in 1..Len(text) /\ (written + 1) - 1 = written
      /\ written \in 0..(Len(text) - 1) /\ Len(head) \in Nat
  BY <1>1, <1>2, LenProperties
<1>5. hstep = "write" => Encodable(sym)
  BY <1>2, <1>4
<1>6. CASE Encodable(sym)
  <2> DEFINE len1 == book[sym]
             cod1 == codes[sym]
  <2>1. cod1 \in Nat /\ cod1 < Pow2[len1] /\ len1 \in Nat /\ len1 <= WordBits
    BY <1>1, <1>6, EncodableHasCode
  <2> HIDE DEF len1, cod1
  <2>2. PICK t \in Seq(Bit) :
           /\ WriteBits([ok |-> TRUE, bits |-> stream], cod1, len1) = [ok |-> TRUE, bits |-> t]
           /\ Len(t) = Len(stream) + len1 /\ Extends(t, stream)
           /\ FieldAt(t, Len(stream), cod1, len1)
    BY <1>2, <2>1, WriteBitsAppends
  <2>3. w = [ok |-> TRUE, bits |-> t]
    BY <2>2 DEF len1, cod1
  <2>4. stream' = t /\ written' = written + 1 /\ hstep' = hstep
    <3>1. w.ok /\ w.bits = t
      BY <2>3
    <3> HIDE DEF w
    <3> QED
      BY <1>1, <1>6, <3>1
  <2>5. n[written + 1] = n[written] + len1 /\ n[written] \in Nat
    BY <1>3, <1>4 DEF Spans, len1
  <2>6. Len(t) = Len(head) + n[written + 1]
    <3>1. Len(stream) = Len(head) + n[written]
      BY <1>3 DEF Wrote
    <3> QED
      BY <1>4, <2>1, <2>2, <2>5, <3>1
  <2>7. ASSUME NEW i \in 1..(written + 1)
        PROVE  Encodable(text[i]) /\ FieldAt(t, Len(head) + n[i - 1], codes[text[i]], book[text[i]])
    <3>1. CASE i = written + 1
      <4>1. Len(stream) = Len(head) + n[i - 1]
        BY <1>3, <1>4, <3>1 DEF Wrote
      <4> QED
        BY <1>6, <2>2, <3>1, <4>1 DEF len1, cod1
    <3>2. CASE i # written + 1
      <4>1. i \in 1..written /\ i \in 1..Len(text) /\ i - 1 \in 0..Len(text)
        BY <1>2, <1>4, <3>2
      <4>2. /\ Encodable(text[i])
            /\ FieldAt(stream, Len(head) + n[i - 1], codes[text[i]], book[text[i]])
        BY <1>3, <4>1 DEF Wrote
      <4>3. book[text[i]] \in Nat
        BY <1>1, <4>2, EncodableHasCode
      <4>4. Len(head) + n[i - 1] \in Nat
        BY <1>3, <1>4, <4>1, SMTT(30) DEF Spans
      <4>5. FieldAt(t, Len(head) + n[i - 1], codes[text[i]], book[text[i]])
        BY <1>2, <2>2, <4>2, <4>3, <4>4, FieldStays
      <4> QED
        BY <4>2, <4>5
    <3> QED
      BY <3>1, <3>2
  <2>8. Wrote(n, written)'
    <3>1. \A i \in 1..(written + 1) :
            Encodable(text[i])' /\ FieldAt(stream', Len(head') + n[i - 1], codes'[text'[i]], book'[text'[i]])
      BY <1>1, <2>4, <2>7 DEF Encodable
    <3>2. Len(stream') = Len(head') + n[written']
      BY <1>1, <2>4, <2>6
    <3> QED
      BY <2>4, <3>1, <3>2 DEF Wrote
  <2>9. Spans(n, text', book')
    BY <1>1, <1>3
  <2>10. written' <= Len(text') /\ written' \in Nat
    BY <1>1, <1>2, <1>4, <2>4
  <2>11. /\ text' \in Seq(Bytes) /\ head' \in Seq(Bit) /\ stream' \in Seq(Bit)
         /\ hstep' = "write" => ~whole' /\ \A i \in 1..Len(text') : Encodable(text[i])'
         /\ hstep' = "encode" => whole'
         /\ hstep' \in {"encode", "write"} /\ ~own'
    BY <1>1, <1>2, <2>4 DEF Encodable
  <2> QED
    BY <2>8, <2>9, <2>10, <2>11 DEF EncInv, Writing
<1>7. CASE ~Encodable(sym)
  <2>1. hstep = "encode" /\ whole
    BY <1>1, <1>2, <1>5, <1>7
  <2>2. hstep' = "badText" /\ stream' = stream /\ written' = written
    <3> HIDE DEF w
    <3> QED
      BY <1>1, <1>7, <2>1
  <2>3. /\ text' \in Seq(Bytes) /\ head' \in Seq(Bit) /\ stream' \in Seq(Bit) /\ written' \in Nat
        /\ whole' /\ ~own'
    BY <1>1, <1>2, <2>1, <2>2
  <2> QED
    BY <2>2, <2>3 DEF EncInv
<1> QED
  BY <1>6, <1>7

LEMMA EncInvDecodes ==
  ASSUME EncInv, UNCHANGED <<bookVars, whole, encVars>>,
         \/ hstep \in {"encode", "write"} /\ hstep' = "encoded" /\ written = Len(text) /\ own' = own
         \/ hstep = "encoded" /\ hstep' = "decode" /\ own' = TRUE
         \/ hstep = "ready" /\ hstep' = "decode" /\ own' = FALSE
         \/ hstep = "decode" /\ hstep' \in {"decode", "accepted", "refused"} /\ own' = own
  PROVE  EncInv'
<1>1. /\ text' = text /\ head' = head /\ stream' = stream /\ written' = written
      /\ whole' = whole /\ book' = book /\ codes' = codes
  BY DEF encVars, bookVars
<1>2. Writing => Writing'
  BY <1>1 DEF Writing, Wrote, Encodable
<1>3. /\ text' \in Seq(Bytes) /\ head' \in Seq(Bit) /\ stream' \in Seq(Bit) /\ written' \in Nat
  BY <1>1 DEF EncInv
<1>4. hstep' = "encoded" \/ own' => written <= Len(text) /\ Writing /\ written = Len(text)
  BY DEF EncInv
<1>5. hstep' = "encoded" \/ own' => written' <= Len(text') /\ Writing' /\ written' = Len(text')
  BY <1>1, <1>2, <1>4
<1>6. hstep' \in {"encoded", "decode", "accepted", "refused"}
  OBVIOUS
<1>7. own' => hstep' \in {"decode", "accepted", "refused"}
  BY DEF EncInv
<1> QED
  BY <1>3, <1>5, <1>6, <1>7 DEF EncInv

LEMMA EncInvStep ==
  ASSUME BookInv, EncInv, [HNext]_hvars
  PROVE  EncInv'
<1>1. CASE New \/ AssignCode \/ Assigned
  <2>1. /\ UNCHANGED <<text, head, stream, written, own>>
        /\ hstep \in {"new", "assign"} /\ hstep' \in {"assign", "ready", "badBook"}
    BY <1>1 DEF New, AssignCode, Assigned, encVars, decVars
  <2>2. written = 0 /\ ~own
    BY <2>1 DEF EncInv
  <2> QED
    BY <2>1, <2>2 DEF EncInv
<1>2. CASE EncodeCall
  BY <1>2, EncInvEncodeCall
<1>3. CASE Check
  BY <1>3, EncInvCheck
<1>4. CASE WriteSymbol
  BY <1>4, EncInvWriteSymbol
<1>5. CASE Encoded \/ DecodeOwn \/ DecodeForeign \/ ReadBit \/ NoCodeMatched \/ Decoded
  <2>1. /\ UNCHANGED <<bookVars, whole, encVars>>
        /\ \/ /\ hstep \in {"encode", "write"} /\ hstep' = "encoded"
              /\ written = Len(text) /\ own' = own
           \/ hstep = "encoded" /\ hstep' = "decode" /\ own' = TRUE
           \/ hstep = "ready" /\ hstep' = "decode" /\ own' = FALSE
           \/ hstep = "decode" /\ hstep' \in {"decode", "accepted", "refused"} /\ own' = own
    <3>1. CASE Encoded
      BY <3>1 DEF Encoded, decVars
    <3>2. CASE DecodeOwn
      BY <3>2 DEF DecodeOwn, DecodeCall
    <3>3. CASE DecodeForeign
      BY <3>3 DEF DecodeForeign, DecodeCall
    <3>4. CASE ReadBit
      BY <3>4 DEF ReadBit
    <3>5. CASE NoCodeMatched \/ Decoded
      BY <3>5 DEF NoCodeMatched, Decoded, decVars
    <3> QED
      BY <1>5, <3>1, <3>2, <3>3, <3>4, <3>5
  <2> QED
    BY <2>1, EncInvDecodes
<1>6. CASE UNCHANGED hvars
  <2>1. UNCHANGED <<bookVars, whole, encVars, own, hstep>>
    BY <1>6 DEF hvars, decVars
  <2> QED
    BY <2>1 DEF bookVars, encVars, EncInv, Writing, Wrote, Encodable
<1>7. CASE Returned
  BY <1>6, <1>7 DEF Returned
<1> QED
  BY <1>1, <1>2, <1>3, <1>4, <1>5, <1>6, <1>7 DEF HNext, HStep

LEMMA EncAlways == Spec => []EncInv
<1>1. HInit => EncInv
  BY EncInvInit
<1>2. BookInv /\ EncInv /\ [HNext]_hvars => EncInv'
  BY EncInvStep
<1> QED
  BY <1>1, <1>2, BookAlways, PTL DEF Spec

(* encode_into looks at every symbol before it writes the first, and then  *)
(* no write fails: the stream gets nothing or as much as bit_len says.     *)
THEOREM AllOrNothing == Spec => []NothingHalfWritten
<1>1. BookInv /\ EncInv => NothingHalfWritten
  <2>1. SUFFICES ASSUME BookInv, EncInv, hstep = "encoded"
                 PROVE  Len(stream) = Len(head) + BitLen(text)
    BY DEF EncInv, NothingHalfWritten
  <2>2. PICK n : Spans(n, text, book) /\ Wrote(n, Len(text))
    BY <2>1 DEF EncInv, Writing
  <2>3. text \in Seq(Bytes) /\ Measured(book)
    BY <2>1, BookIsCanonical DEF EncInv
  <2>4. PICK m : Spans(m, text, book) /\ BitLen(text) = m[Len(text)]
    BY <2>3, BitLenSpans
  <2>5. Len(text) \in Nat /\ Len(text) \in 0..Len(text)
    BY <2>3, LenProperties
  <2>6. n[Len(text)] = m[Len(text)]
    BY <2>2, <2>4, <2>5, OneSpan
  <2> QED
    BY <2>2, <2>4, <2>6 DEF Wrote
<1> QED
  BY <1>1, BookAlways, EncAlways, PTL

-----------------------------------------------------------------------------
(* The decoder's table. *)

Row == [first : Nat, index : Nat, count : Nat]

(* The row of a length tells which of the first n places have it, and the  *)
(* code of the first of them.                                              *)
Rows(tb, cd, sq, cb, n) ==
  \A l \in Lengths :
    /\ tb[l].index + tb[l].count <= n
    /\ \A i \in 1..n : cb[sq[i]] = l <=> i \in (tb[l].index + 1)..(tb[l].index + tb[l].count)
    /\ tb[l].count > 0 => tb[l].first = cd[sq[tb[l].index + 1]]

TableInv ==
  /\ table \in [Lengths -> Row]
  /\ hstep = "new" => \A l \in Lengths : table[l] = NoRow
  /\ hstep \notin {"new", "badBook"} => Rows(table, codes, sorted, book, placed)

LEMMA TableInvInit == HInit => TableInv
<1>1. SUFFICES ASSUME HInit PROVE TableInv
  OBVIOUS
<1>2. NoRow \in Row
  BY DEF NoRow, Row
<1>3. table = [l \in Lengths |-> NoRow] /\ hstep = "new"
  BY <1>1 DEF HInit
<1> QED
  BY <1>2, <1>3 DEF TableInv

LEMMA TableInvNew ==
  ASSUME BookInv, TableInv, New
  PROVE  TableInv'
<1>1. /\ table' = table /\ placed' = 0 /\ hstep = "new" /\ hstep' \in {"assign", "badBook"}
  BY DEF New, BookInv
<1>2. table \in [Lengths -> Row] /\ \A l \in Lengths : table[l] = NoRow
  BY <1>1 DEF TableInv
<1>3. Rows(table', codes', sorted', book', placed')
  <2>1. (1..0) = {} /\ 0 + 0 <= 0 /\ ~(0 > 0)
    OBVIOUS
  <2>2. \A l \in Lengths : table'[l].index = 0 /\ table'[l].count = 0
    BY <1>1, <1>2 DEF NoRow
  <2> QED
    BY <1>1, <2>1, <2>2 DEF Rows
<1> QED
  BY <1>1, <1>2, <1>3 DEF TableInv

(* Symbols of one length stand side by side, so that a new one is the next *)
(* of its row.                                                             *)
LEMMA TableInvAssignCode ==
  ASSUME BookInv, TableInv, AssignCode
  PROVE  TableInv'
<1> DEFINE sym == sorted[placed + 1]
           l == book[sym]
           c == IF placed = 0 THEN 0 ELSE NextCode(sorted[placed], l)
           old == table[l]
           row == IF old.count = 0 THEN [first |-> c, index |-> placed, count |-> 1]
                  ELSE [old EXCEPT !.count = old.count + 1]
<1>1. /\ hstep = "assign" /\ placed < Len(sorted) /\ placed' = placed + 1
      /\ book' = book /\ sorted' = sorted /\ hstep' = "assign"
      /\ codes' = [codes EXCEPT ![sym] = c]
      /\ table' = [table EXCEPT ![l] = row]
  BY DEF AssignCode
<1>2. /\ book \in Codebooks /\ codes \in [Bytes -> Nat] /\ placed \in Nat
      /\ ValidLengths(book) /\ sorted = InCodeOrder(book)
  BY <1>1 DEF BookInv
<1>3. Measured(book) /\ Listed(sorted, book)
  BY <1>2, ValidIsMeasured
<1>4. /\ Len(sorted) \in Nat
      /\ \A i \in 1..Len(sorted) : sorted[i] \in UsedBytes(book)
      /\ \A i, j \in 1..Len(sorted) : sorted[i] = sorted[j] => i = j
      /\ \A i, j \in 1..Len(sorted) : i < j => book[sorted[i]] <= book[sorted[j]]
  BY <1>3, ListedTwice
<1>5. \A s \in UsedBytes(book) : s \in Bytes /\ book[s] \in 1..M /\ book[s] \in Lengths /\ book[s] \in Nat
  <2>1. \A s \in UsedBytes(book) : s \in Bytes /\ book[s] \in 1..M
    BY <1>3, UsedLengths
  <2> QED
    BY <2>1, HuffmanSizes DEF Lengths, M
<1>6. placed + 1 \in 1..Len(sorted) /\ sym \in Bytes /\ l \in Lengths /\ l \in Nat
  BY <1>1, <1>2, <1>4, <1>5
<1>7. table \in [Lengths -> Row] /\ Rows(table, codes, sorted, book, placed)
  BY <1>1 DEF TableInv
<1>8. c \in Nat
  <2>1. codes'[sym] = c
    BY <1>1, <1>2, <1>6
  <2>2. codes' \in [Bytes -> Nat]
    BY BookInvAssignCode DEF BookInv
  <2> QED
    BY <1>6, <2>1, <2>2
<1> HIDE DEF sym, l, c
<1>9. /\ old \in Row /\ old.first \in Nat /\ old.index \in Nat /\ old.count \in Nat
      /\ old.index + old.count <= placed
      /\ \A i \in 1..placed : book[sorted[i]] = l <=> i \in (old.index + 1)..(old.index + old.count)
      /\ old.count > 0 => old.first = codes[sorted[old.index + 1]]
  <2>1. old \in Row
    BY <1>6, <1>7
  <2>2. old.first \in Nat /\ old.index \in Nat /\ old.count \in Nat
    BY <2>1 DEF Row
  <2> QED
    BY <1>6, <1>7, <2>1, <2>2 DEF Rows
<1> HIDE DEF old
<1>10. old.count > 0 => old.index + old.count = placed
  <2>1. SUFFICES ASSUME old.count > 0, old.index + old.count # placed PROVE FALSE
    OBVIOUS
  <2> DEFINE i == old.index + 1
             j == old.index + old.count + 1
  <2>2. /\ i \in 1..placed /\ j \in 1..placed /\ i < j
        /\ i \in (old.index + 1)..(old.index + old.count)
        /\ j \notin (old.index + 1)..(old.index + old.count)
    BY <1>2, <1>9, <2>1
  <2>3. i \in 1..Len(sorted) /\ j \in 1..Len(sorted) /\ j < placed + 1
    BY <1>1, <1>2, <1>4, <2>2
  <2> HIDE DEF i, j
  <2>4. book[sorted[i]] = l /\ book[sorted[j]] # l
    BY <1>9, <2>2
  <2>5. book[sorted[i]] <= book[sorted[j]] /\ book[sorted[j]] <= book[sorted[placed + 1]]
    BY <1>4, <1>6, <2>2, <2>3
  <2>6. book[sorted[j]] \in Nat
    BY <1>4, <1>5, <2>3
  <2> QED
    BY <1>6, <2>4, <2>5, <2>6 DEF l, sym
<1>11. /\ row \in Row
       /\ row.index + row.count = placed + 1
       /\ (row.index + 1)..(row.index + row.count)
            = ((old.index + 1)..(old.index + old.count)) \cup {placed + 1}
       /\ row.first = IF old.count = 0 THEN c ELSE old.first
       /\ row.index = IF old.count = 0 THEN placed ELSE old.index
  <2>1. CASE old.count = 0
    <3>1. row = [first |-> c, index |-> placed, count |-> 1]
      BY <2>1
    <3>2. ((placed + 1)..(placed + 1)) = {placed + 1}
          /\ ((old.index + 1)..(old.index + old.count)) = {}
      BY <1>2, <1>9, <2>1
    <3> HIDE DEF row
    <3> QED
      BY <1>2, <1>8, <2>1, <3>1, <3>2 DEF Row
  <2>2. CASE old.count # 0
    <3>1. row = [first |-> old.first, index |-> old.index, count |-> old.count + 1]
      <4>1. row = [old EXCEPT !.count = old.count + 1]
        BY <2>2
      <4> HIDE DEF row
      <4> QED
        BY <1>9, <4>1 DEF Row
    <3>2. old.index + old.count = placed
      BY <1>9, <1>10, <2>2
    <3>3. row.index + row.count = placed + 1 /\ row \in Row
      <4> HIDE DEF row
      <4> QED
        BY <1>9, <3>1, <3>2 DEF Row
    <3>4. ((old.index + 1)..(placed + 1)) = ((old.index + 1)..placed) \cup {placed + 1}
      <4>1. \A a, b \in Nat : a <= b => ((a + 1)..(b + 1)) = ((a + 1)..b) \cup {b + 1}
        OBVIOUS
      <4>2. old.index <= placed
        BY <1>2, <1>9
      <4> QED
        BY <1>2, <1>9, <4>1, <4>2
    <3> HIDE DEF row
    <3> QED
      BY <2>2, <3>1, <3>2, <3>3, <3>4
  <2> QED
    BY <2>1, <2>2
<1> HIDE DEF row
<1>12. table' \in [Lengths -> Row] /\ table'[l] = row
       /\ \A k \in Lengths : k # l => table'[k] = table[k]
  BY <1>1, <1>6, <1>7, <1>11
<1>13. \A i \in 1..placed : codes'[sorted[i]] = codes[sorted[i]]
  <2>1. ASSUME NEW i \in 1..placed PROVE codes'[sorted[i]] = codes[sorted[i]]
    <3>1. i \in 1..Len(sorted) /\ i # placed + 1
      BY <1>1, <1>2, <1>4
    <3>2. sorted[i] # sym /\ sorted[i] \in Bytes
      BY <1>4, <1>5, <1>6, <3>1 DEF sym
    <3> QED
      BY <1>1, <1>2, <3>2
  <2> QED
    BY <2>1
<1>14. \A i \in 1..(placed + 1) : i \in 1..placed \/ i = placed + 1
  BY <1>2
<1>15. ASSUME NEW k \in Lengths
       PROVE  /\ table'[k].index + table'[k].count <= placed + 1
              /\ \A i \in 1..(placed + 1) :
                   book[sorted[i]] = k <=>
                   i \in (table'[k].index + 1)..(table'[k].index + table'[k].count)
              /\ table'[k].count > 0 => table'[k].first = codes'[sorted[table'[k].index + 1]]
  <2>1. CASE k = l
    <3>1. table'[k] = row
      BY <1>12, <2>1
    <3>2. row.index + row.count <= placed + 1
      BY <1>2, <1>11
    <3>3. ASSUME NEW i \in 1..(placed + 1)
          PROVE  book[sorted[i]] = l <=> i \in (row.index + 1)..(row.index + row.count)
      <4>1. CASE i = placed + 1
        BY <1>11, <4>1 DEF l, sym
      <4>2. CASE i # placed + 1
        BY <1>9, <1>11, <1>14, <4>2
      <4> QED
        BY <4>1, <4>2
    <3>4. row.first = codes'[sorted[row.index + 1]]
      <4>1. CASE old.count = 0
        <5>1. codes'[sym] = c
          BY <1>1, <1>2, <1>6
        <5> QED
          BY <1>11, <4>1, <5>1 DEF sym
      <4>2. CASE old.count # 0
        <5>1. old.count > 0 /\ old.index + 1 \in 1..placed
          BY <1>2, <1>9, <4>2
        <5> QED
          BY <1>9, <1>11, <1>13, <4>2, <5>1
      <4> QED
        BY <4>1, <4>2
    <3> QED
      BY <2>1, <3>1, <3>2, <3>3, <3>4
  <2>2. CASE k # l
    <3> DEFINE r == table[k]
    <3>1. table'[k] = r
      BY <1>12, <2>2
    <3>2. r \in Row
      BY <1>7
    <3>3. r.index \in Nat /\ r.count \in Nat
      BY <3>2 DEF Row
    <3>4. /\ r.index + r.count <= placed
          /\ \A i \in 1..placed : book[sorted[i]] = k <=> i \in (r.index + 1)..(r.index + r.count)
          /\ r.count > 0 => r.first = codes[sorted[r.index + 1]]
      BY <1>7 DEF Rows
    <3> HIDE DEF r
    <3>5. r.index + r.count <= placed + 1
      BY <1>2, <3>3, <3>4
    <3>6. ASSUME NEW i \in 1..(placed + 1)
          PROVE  book[sorted[i]] = k <=> i \in (r.index + 1)..(r.index + r.count)
      <4>1. CASE i = placed + 1
        <5>1. i \notin (r.index + 1)..(r.index + r.count)
          BY <1>2, <3>3, <3>4, <4>1
        <5> QED
          BY <2>2, <4>1, <5>1 DEF l, sym
      <4>2. CASE i # placed + 1
        BY <1>14, <3>4, <4>2
      <4> QED
        BY <4>1, <4>2
    <3>7. r.count > 0 => r.first = codes'[sorted[r.index + 1]]
      <4>1. r.count > 0 => r.index + 1 \in 1..placed
        BY <1>2, <3>3, <3>4
      <4> QED
        BY <1>13, <3>4, <4>1
    <3> QED
      BY <3>1, <3>5, <3>6, <3>7
  <2> QED
    BY <2>1, <2>2
<1>16. Rows(table', codes', sorted', book', placed')
  BY <1>1, <1>15 DEF Rows
<1> QED
  BY <1>1, <1>12, <1>16 DEF TableInv

LEMMA TableInvStep ==
  ASSUME BookInv, TableInv, [HNext]_hvars
  PROVE  TableInv'
<1>1. CASE New
  BY <1>1, TableInvNew
<1>2. CASE AssignCode
  BY <1>2, TableInvAssignCode
<1>3. CASE \/ Assigned \/ EncodeCall \/ Check \/ WriteSymbol \/ Encoded
           \/ DecodeOwn \/ DecodeForeign \/ ReadBit \/ NoCodeMatched \/ Decoded
  <2>1. UNCHANGED bookVars /\ hstep \notin {"new", "badBook"} /\ hstep' # "new"
    BY <1>3 DEF Assigned, EncodeCall, Check, WriteSymbol, Encoded,
                DecodeOwn, DecodeForeign, DecodeCall, ReadBit, NoCodeMatched, Decoded
  <2> QED
    BY <2>1 DEF bookVars, TableInv, Rows
<1>4. CASE UNCHANGED hvars \/ Returned
  <2>1. UNCHANGED <<bookVars, hstep>>
    BY <1>4 DEF Returned, hvars
  <2> QED
    BY <2>1 DEF bookVars, TableInv, Rows
<1> QED
  BY <1>1, <1>2, <1>3, <1>4 DEF HNext, HStep

LEMMA TableAlways == Spec => []TableInv
<1>1. HInit => TableInv
  BY TableInvInit
<1>2. BookInv /\ TableInv /\ [HNext]_hvars => TableInv'
  BY TableInvStep
<1> QED
  BY <1>1, <1>2, BookAlways, PTL DEF Spec

-----------------------------------------------------------------------------
(* Looking codes up. *)

Built == BookInv /\ TableInv /\ hstep \notin {"new", "assign", "badBook"}

(* What `Built` says of the codec's parts. *)
LEMMA BuiltMeans ==
  ASSUME Built
  PROVE  /\ Measured(book) /\ Listed(sorted, book) /\ Canonical(codes, book)
         /\ KraftSum(book) <= Word /\ Chained(codes, sorted, book, Len(sorted))
         /\ Rows(table, codes, sorted, book, Len(sorted))
         /\ Len(sorted) \in Nat
         /\ \A l \in Lengths : /\ table[l].first \in Nat /\ table[l].index \in Nat
                               /\ table[l].count \in Nat
                               /\ table[l].index + table[l].count <= Len(sorted)
<1>1. Measured(book) /\ Listed(sorted, book) /\ Canonical(codes, book)
  BY BookIsCanonical DEF Built
<1>2. KraftSum(book) <= Word
  BY DEF Built, BookInv, ValidLengths, Word
<1>3. Chained(codes, sorted, book, Len(sorted)) /\ Rows(table, codes, sorted, book, Len(sorted))
  BY DEF Built, BookInv, TableInv
<1>4. Len(sorted) \in Nat
  BY <1>1, ListedTwice
<1>5. table \in [Lengths -> Row]
  BY DEF Built, TableInv
<1>6. ASSUME NEW l \in Lengths
      PROVE  /\ table[l].first \in Nat /\ table[l].index \in Nat /\ table[l].count \in Nat
             /\ table[l].index + table[l].count <= Len(sorted)
  BY <1>3, <1>5 DEF Row, Rows
<1> QED
  BY <1>1, <1>2, <1>3, <1>4, <1>6

(* The codes of a row follow on one another. *)
LEMMA RowsSpell ==
  ASSUME Built, NEW l \in Lengths, NEW j \in 0..(table[l].count - 1)
  PROVE  /\ table[l].index + 1 + j \in 1..Len(sorted)
         /\ book[sorted[table[l].index + 1 + j]] = l
         /\ codes[sorted[table[l].index + 1 + j]] = table[l].first + j
<1> DEFINE r == table[l]
           K == Len(sorted)
           at(i) == r.index + 1 + i
           A == {i \in 0..(r.count - 1) : codes[sorted[at(i)]] = r.first + i}
<1>1. /\ r.first \in Nat /\ r.index \in Nat /\ r.count \in Nat /\ K \in Nat
      /\ r.index + r.count <= K
  BY BuiltMeans
<1>2. /\ \A i \in 1..K : book[sorted[i]] = l <=> i \in (r.index + 1)..(r.index + r.count)
      /\ r.count > 0 => r.first = codes[sorted[r.index + 1]]
  BY BuiltMeans DEF Rows
<1> HIDE DEF r, K
<1>3. \A i \in 0..(r.count - 1) : at(i) \in 1..K /\ at(i) \in (r.index + 1)..(r.index + r.count)
  BY <1>1
<1>4. \A i \in 0..(r.count - 1) : book[sorted[at(i)]] = l
  BY <1>2, <1>3
<1>5. r.count - 1 \in Nat
  <2>1. j \in 0..(r.count - 1)
    BY DEF r
  <2> QED
    BY <1>1, <2>1
<1>6. 0 \in A
  <2>1. r.count > 0 /\ at(0) = r.index + 1 /\ r.first + 0 = r.first
    BY <1>1, <1>5
  <2> QED
    BY <1>2, <1>5, <2>1
<1>7. ASSUME NEW i \in 0..((r.count - 1) - 1), i \in A PROVE i + 1 \in A
  <2>1. i \in 0..(r.count - 1) /\ i + 1 \in 0..(r.count - 1) /\ at(i + 1) = at(i) + 1
    BY <1>1, <1>5
  <2> DEFINE k == at(i)
             s == sorted[k]
             t == sorted[k + 1]
  <2>2. k \in 1..K /\ k + 1 \in 1..K /\ k \in 1..(K - 1) /\ k < k + 1
    BY <1>1, <1>3, <2>1
  <2>3. book[s] = l /\ book[t] = l
    BY <1>4, <2>1
  <2>4. s \in UsedBytes(book) /\ t \in UsedBytes(book)
    BY <2>2, BuiltMeans, ListedTwice DEF K
  <2>5. codes[t] = ((codes[s] + 1) * Pow2[book[t] - book[s]]) % Word
    BY <2>2, BuiltMeans DEF Chained, K
  <2>6. ComesBefore(book, s, t)
    BY <2>2, BuiltMeans DEF Listed, K
  <2>7. codes[s] \in Nat /\ codes[t] \in Nat /\ codes[t] < Pow2[book[t]]
        /\ (codes[s] + 1) * Pow2[book[t] - book[s]] <= codes[t]
    BY <2>4, <2>6, BuiltMeans DEF Canonical
  <2>8. l \in Nat /\ l - l = 0 /\ Pow2[0] = 1 /\ Pow2[l] \in Nat /\ Pow2[l] <= Word
    <3>1. l \in Nat /\ l <= M /\ l - l = 0
      BY HuffmanSizes DEF Lengths, M
    <3> QED
      BY <3>1, HuffmanSizes, Pow2Def, Pow2Type, Pow2Monotone
  <2>9. codes[s] = r.first + i
    BY <1>7
  <2> HIDE DEF k, s, t
  <2>10. (codes[s] + 1) * 1 = codes[s] + 1
    BY <2>7
  <2>11. codes[s] + 1 \in 0..(Word - 1)
    BY <2>3, <2>7, <2>8, <2>10, HuffmanSizes
  <2>12. codes[t] = codes[s] + 1
    BY <2>3, <2>5, <2>8, <2>10, <2>11, HuffmanSizes
  <2>13. codes[t] = r.first + (i + 1)
    BY <1>1, <2>1, <2>9, <2>12
  <2> QED
    BY <2>1, <2>13 DEF t, k
<1> HIDE DEF A
<1>8. \A i \in 0..(r.count - 1) : i \in A
  BY <1>5, <1>6, <1>7, UpTo
<1>9. j \in 0..(r.count - 1)
  BY DEF r
<1> QED
  BY <1>3, <1>4, <1>8, <1>9 DEF A, r, K

(* A code that is in a row's range is that of the symbol found there.      *)
LEMMA MatchMeans ==
  ASSUME Built, NEW l \in Lengths, NEW c \in Nat, Matches(c, l)
  PROVE  LET s == sorted[table[l].index + (c - table[l].first) + 1]
         IN  book[s] = l /\ codes[s] = c /\ s \in UsedBytes(book)
<1> DEFINE r == table[l]
           j == c - r.first
           i == r.index + 1 + j
<1>1. /\ r.first \in Nat /\ r.index \in Nat /\ r.count \in Nat
      /\ r.first <= c /\ c < (r.first + r.count) % Word
  BY BuiltMeans DEF Matches
<1>2. j \in 0..(r.count - 1) /\ i = r.index + (c - r.first) + 1
  <2> HIDE DEF r
  <2>1. (r.first + r.count) % Word <= r.first + r.count
    BY <1>1, HuffmanSizes
  <2>2. (r.first + r.count) % Word \in Nat
    BY <1>1, HuffmanSizes
  <2> QED
    BY <1>1, <2>1, <2>2
<1>3. i \in 1..Len(sorted) /\ book[sorted[i]] = l /\ codes[sorted[i]] = r.first + j
  BY <1>2, RowsSpell
<1>4. sorted[i] \in UsedBytes(book)
  BY <1>3, BuiltMeans, ListedTwice
<1>5. r.first + j = c
  <2> HIDE DEF r
  <2> QED
    BY <1>1
<1> QED
  BY <1>2, <1>3, <1>4, <1>5

(* The first bits of a longer code are no code. *)
LEMMA ShorterDoesNotMatch ==
  ASSUME Built, NEW s \in UsedBytes(book), NEW l \in Lengths, l < book[s]
  PROVE  ~Matches(codes[s] \div Pow2[book[s] - l], l)
<1> DEFINE p == Pow2[book[s] - l]
           c == codes[s] \div p
           t == sorted[table[l].index + (c - table[l].first) + 1]
<1>1. codes[s] \in Nat /\ book[s] \in Nat /\ s \in Nat /\ l \in Nat
  BY BuiltMeans, UsedLengths DEF Canonical, Lengths
<1>2. p \in Nat /\ p > 0
  BY <1>1, Pow2Type
<1>3. c \in Nat
  BY <1>1, <1>2, DivMod
<1>4. SUFFICES ASSUME Matches(c, l) PROVE FALSE
  OBVIOUS
<1>5. book[t] = l /\ codes[t] = c /\ t \in UsedBytes(book)
  BY <1>3, <1>4, MatchMeans
<1> HIDE DEF t
<1>6. ComesBefore(book, t, s)
  BY <1>5 DEF ComesBefore
<1>7. (c + 1) * p <= codes[s]
  BY <1>5, <1>6, BuiltMeans DEF Canonical
<1>8. c + 1 <= codes[s] \div p
  <2> HIDE DEF p, c
  <2> QED
    BY <1>1, <1>2, <1>3, <1>7, QuotientAtLeast
<1> QED
  BY <1>3, <1>8

(* Whoever has a code has a place in the row of its length.                *)
LEMMA InItsRow ==
  ASSUME Built, NEW s \in UsedBytes(book)
  PROVE  /\ book[s] \in Lengths
         /\ \E j \in 0..(table[book[s]].count - 1) :
              /\ sorted[table[book[s]].index + 1 + j] = s
              /\ codes[s] = table[book[s]].first + j
<1> DEFINE l == book[s]
           r == table[l]
<1>1. l \in Lengths
  <2>1. l \in 1..M
    BY BuiltMeans, UsedLengths
  <2> QED
    BY <2>1, HuffmanSizes DEF Lengths, M
<1>2. PICK i \in 1..Len(sorted) : sorted[i] = s
  BY BuiltMeans DEF Listed
<1>3. i \in (r.index + 1)..(r.index + r.count)
  BY <1>1, <1>2, BuiltMeans DEF Rows
<1>4. r.index \in Nat /\ r.count \in Nat
  BY <1>1, BuiltMeans
<1> DEFINE j == i - (r.index + 1)
<1>5. j \in 0..(r.count - 1) /\ r.index + 1 + j = i
  <2> HIDE DEF r
  <2> QED
    BY <1>3, <1>4
<1>6. codes[sorted[r.index + 1 + j]] = r.first + j
  <2> HIDE DEF j
  <2> QED
    BY <1>1, <1>5, RowsSpell
<1> QED
  BY <1>1, <1>2, <1>5, <1>6

(* The codes use up the code space when one of them is its end.            *)
LEMMA LastOfAll ==
  ASSUME Built, NEW s \in UsedBytes(book), codes[s] + 1 = Word
  PROVE  s \in Unreadable
<1>1. /\ codes[s] \in Nat /\ codes[s] < Pow2[book[s]] /\ book[s] \in 1..M /\ book[s] \in Nat
  BY BuiltMeans, UsedLengths DEF Canonical
<1>2. book[s] = M
  <2>1. SUFFICES ASSUME book[s] # M PROVE FALSE
    OBVIOUS
  <2> DEFINE l == book[s]
  <2>2. l \in Nat /\ l + 1 \in Nat /\ l + 1 <= M
    BY <1>1, <2>1, HuffmanSizes
  <2>3. Pow2[l + 1] = 2 * Pow2[l] /\ Pow2[l] \in Nat /\ Pow2[l] > 0
    BY <2>2, Pow2Def
  <2>4. Pow2[l + 1] <= Pow2[M]
    BY <2>2, HuffmanSizes, Pow2Monotone
  <2>5. codes[s] < Pow2[l] /\ codes[s] + 1 = Pow2[M]
    BY <1>1, HuffmanSizes
  <2> HIDE DEF l
  <2> QED
    BY <1>1, <2>3, <2>4, <2>5
<1>3. KraftSum(book) = Word
  <2> DEFINE K == Len(sorted)
  <2>1. PICK taken : Shares(taken, sorted, book) /\ taken[K] = KraftSum(book)
    BY BuiltMeans, SharesAddUp
  <2>2. PICK i \in 1..K : sorted[i] = s
    BY BuiltMeans DEF Listed
  <2>3. K \in Nat /\ i \in 0..K /\ i - 1 \in 0..K /\ i <= K /\ K \in 0..K
    BY <2>2, BuiltMeans
  <2>4. codes[s] * Pow2[M - book[s]] = taken[i - 1]
    <3>1. \A k \in 1..K : codes[sorted[k]] * Pow2[M - book[sorted[k]]] = taken[k - 1]
      BY <2>1, <2>3, BuiltMeans, CodesStartShares
    <3> QED
      BY <2>2, <3>1
  <2>5. M - book[s] = 0 /\ Pow2[0] = 1 /\ codes[s] * 1 = codes[s]
    BY <1>1, <1>2, HuffmanSizes, Pow2Def
  <2>6. taken[i] = taken[i - 1] + 1
    BY <2>1, <2>2, <2>5 DEF Shares
  <2>7. taken[i] <= taken[K]
    BY <2>1, <2>3, BuiltMeans, SharesInOrder
  <2>8. taken[i] \in Nat /\ taken[K] \in Nat /\ taken[i - 1] \in Nat
    BY <2>1, <2>3 DEF Shares
  <2>9. taken[i] = Word
    BY <2>4, <2>5, <2>6
  <2>10. taken[K] <= Word
    BY <2>1, BuiltMeans
  <2> QED
    BY <2>1, <2>7, <2>8, <2>9, <2>10, HuffmanSizes
<1> QED
  BY <1>2, <1>3 DEF Unreadable, M

(* Unreadable is the whole row of a code that is its end. *)
LEMMA UnreadableRow ==
  ASSUME NEW s \in UsedBytes(book), NEW t \in Unreadable, book[s] = book[t]
  PROVE  s \in Unreadable
BY DEF Unreadable

(* A whole code is found, and its symbol with it.                          *)
LEMMA WholeCodeMatches ==
  ASSUME Built, NEW s \in UsedBytes(book), s \notin Unreadable
  PROVE  /\ Matches(codes[s], book[s])
         /\ sorted[table[book[s]].index + (codes[s] - table[book[s]].first) + 1] = s
<1> DEFINE l == book[s]
           r == table[l]
           t == sorted[r.index + 1 + (r.count - 1)]
<1>1. PICK j \in 0..(r.count - 1) : sorted[r.index + 1 + j] = s /\ codes[s] = r.first + j
  BY InItsRow
<1>2. l \in Lengths /\ l \in Nat /\ l <= M
  BY InItsRow, HuffmanSizes DEF Lengths, M
<1>3. r.first \in Nat /\ r.index \in Nat /\ r.count \in Nat /\ r.count - 1 \in 0..(r.count - 1)
  <2>1. r.first \in Nat /\ r.index \in Nat /\ r.count \in Nat
    BY <1>2, BuiltMeans
  <2> HIDE DEF r
  <2> QED
    BY <1>1, <2>1
<1>4. /\ r.index + 1 + (r.count - 1) \in 1..Len(sorted)
      /\ book[t] = l /\ codes[t] = r.first + (r.count - 1)
  BY <1>2, <1>3, RowsSpell
<1>5. t \in UsedBytes(book)
  BY <1>4, BuiltMeans, ListedTwice
<1> HIDE DEF t
<1>6. codes[t] \in Nat /\ codes[t] < Pow2[l]
  BY <1>4, <1>5, BuiltMeans DEF Canonical
<1>7. Pow2[l] <= Word /\ Pow2[l] \in Nat
  BY <1>2, HuffmanSizes, Pow2Monotone, Pow2Type
<1>8. codes[t] + 1 # Word
  BY <1>4, <1>5, LastOfAll, UnreadableRow
<1> HIDE DEF r, l
<1>9. r.first + r.count \in 0..(Word - 1)
  <2> DEFINE x == codes[t]
             y == Pow2[l]
  <2>1. x = r.first + (r.count - 1)
    BY <1>4
  <2>2. x \in Nat /\ x < y /\ y <= Word /\ y \in Nat /\ Word \in Nat /\ x + 1 # Word
    BY <1>6, <1>7, <1>8, HuffmanSizes
  <2>3. r.first \in Nat /\ r.count \in Nat
    BY <1>3
  <2> HIDE DEF x, y
  <2>4. x + 1 \in 0..(Word - 1) /\ x + 1 = r.first + r.count
    BY <2>1, <2>2, <2>3
  <2> QED
    BY <2>4
<1>10. (r.first + r.count) % Word = r.first + r.count
  BY <1>9, HuffmanSizes
<1>11. r.count > 0 /\ r.first <= codes[s] /\ codes[s] < (r.first + r.count) % Word
  BY <1>1, <1>3, <1>10
<1>12. r.index + (codes[s] - r.first) + 1 = r.index + 1 + j
  BY <1>1, <1>3
<1> QED
  BY <1>1, <1>11, <1>12 DEF Matches, r, l

-----------------------------------------------------------------------------
(* Reading bit by bit. *)

LEMMA ReadOneBit ==
  ASSUME NEW bits \in Seq(Bit), NEW p \in Nat
  PROVE  LET rd == ReadBits(bits, ReaderAt(p), 1)
         IN  /\ p + 1 <= Len(bits) =>
                  /\ rd = [ok |-> TRUE, pos |-> p + 1, val |-> bits[p + 1]]
                  /\ bits[p + 1] \in 0..1
             /\ ~(p + 1 <= Len(bits)) => rd.ok = FALSE /\ rd.pos = p
<1> DEFINE r == ReaderAt(p)
           v == bits[p + 1]
<1>1. r = [ok |-> TRUE, pos |-> p, val |-> 0] /\ r.ok = TRUE /\ r.pos = p
  BY DEF ReaderAt
<1> HIDE DEF r
<1>2. CASE p + 1 <= Len(bits)
  <2>1. p + 1 \in 1..Len(bits)
    BY <1>2, LenProperties
  <2>2. v \in {0, 1}
    BY <2>1, ElementOfSeq DEF Bit
  <2> HIDE DEF v
  <2>3. Pow2[0] = 1 /\ Pow2[1] = 2 /\ 1 - 1 = 0
    BY Pow2Def, Pow2One
  <2>4. v \in Nat /\ v < Pow2[1] /\ (v \div Pow2[0]) % 2 = v
    BY <2>2, <2>3
  <2>5. FieldAt(bits, r.pos, v, 1)
    <3>1. NatToBits(v, 1)[1] = v
      BY <2>3, <2>4 DEF NatToBits
    <3>2. \A i \in 1..1 : i = 1
      OBVIOUS
    <3> QED
      BY <1>1, <1>2, <3>1, <3>2 DEF FieldAt, v
  <2>6. 1 <= WordBits /\ 1 \in Nat /\ r.pos \in Nat
    BY <1>1, HuffmanSizes
  <2>7. ReadBits(bits, r, 1) = [ok |-> TRUE, pos |-> r.pos + 1, val |-> v]
    BY <1>1, <2>4, <2>5, <2>6, ReadBitsReadsField, ZenonT(60)
  <2> QED
    BY <1>1, <1>2, <2>2, <2>7 DEF r, v
<1>3. CASE ~(p + 1 <= Len(bits))
  <2>1. ReadBits(bits, r, 1) = [ok |-> FALSE, pos |-> r.pos, val |-> 0]
    BY <1>1, <1>3 DEF ReadBits, ReadFail
  <2> QED
    BY <1>1, <1>3, <2>1 DEF r
<1> QED
  BY <1>2, <1>3

(* The code read so far, one bit longer. *)
LEMMA OneBitMore ==
  ASSUME NEW v \in Nat, NEW d \in Nat, d > 0
  PROVE  2 * (v \div (2 * d)) + ((v \div d) % 2) = v \div d
<1> DEFINE q == v \div d
<1>1. q \in Nat
  BY DivMod
<1>2. q \div 2 = v \div (2 * d)
  BY DivTwice
<1> HIDE DEF q
<1>3. q = 2 * (q \div 2) + (q % 2)
  BY <1>1
<1> QED
  BY <1>2, <1>3 DEF q

(* What the decoder finds where a code was written: the bit behind the l   *)
(* that it has read makes them the l + 1 first bits of the code.           *)
LEMMA NextOfField ==
  ASSUME NEW bits, NEW q \in Nat, NEW v \in Nat, NEW n \in Nat, v < Pow2[n],
         FieldAt(bits, q, v, n), NEW l \in Nat, l < n
  PROVE  /\ q + l + 1 <= Len(bits)
         /\ 2 * (v \div Pow2[n - l]) + bits[q + l + 1] = v \div Pow2[n - (l + 1)]
<1> DEFINE d == Pow2[n - (l + 1)]
<1>1. n - (l + 1) \in Nat /\ (n - (l + 1)) + 1 = n - l /\ l + 1 \in 1..n /\ q + (l + 1) = q + l + 1
      /\ l + 1 <= n
  OBVIOUS
<1>2. d \in Nat /\ d > 0 /\ Pow2[n - l] = 2 * d
  BY <1>1, Pow2Def
<1>3. bits[q + l + 1] = (v \div d) % 2
  BY <1>1 DEF FieldAt, NatToBits
<1>4. q + l + 1 <= Len(bits)
  <2>1. q + n <= Len(bits) /\ q + l + 1 <= q + n
    BY <1>1 DEF FieldAt
  <2> QED
    BY <2>1
<1> HIDE DEF d
<1>5. 2 * (v \div (2 * d)) + ((v \div d) % 2) = v \div d
  BY <1>2, OneBitMore
<1> QED
  BY <1>2, <1>3, <1>4, <1>5 DEF d

(* A field with the bit behind it. *)
LEMMA FieldGrows ==
  ASSUME NEW bits, NEW q \in Nat, NEW c \in Nat, NEW l \in Nat, FieldAt(bits, q, c, l),
         q + l + 1 <= Len(bits), NEW b \in 0..1, bits[q + l + 1] = b
  PROVE  FieldAt(bits, q, 2 * c + b, l + 1)
<1> DEFINE v == 2 * c + b
<1>1. v \in Nat /\ v \div 2 = c /\ v % 2 = b
  OBVIOUS
<1> HIDE DEF v
<1>2. ASSUME NEW i \in 1..(l + 1) PROVE bits[q + i] = (v \div Pow2[(l + 1) - i]) % 2
  <2>1. CASE i = l + 1
    <3>1. (l + 1) - i = 0 /\ Pow2[0] = 1 /\ v \div 1 = v /\ q + i = q + l + 1
      BY <1>1, <2>1, Pow2Def
    <3> QED
      BY <1>1, <3>1
  <2>2. CASE i # l + 1
    <3> DEFINE d == Pow2[l - i]
    <3>1. i \in 1..l /\ l - i \in Nat /\ (l - i) + 1 = (l + 1) - i
      BY <2>2
    <3>2. d \in Nat /\ d > 0 /\ Pow2[(l + 1) - i] = 2 * d
      BY <3>1, Pow2Def
    <3>3. bits[q + i] = (c \div d) % 2
      BY <3>1 DEF FieldAt, NatToBits
    <3> HIDE DEF d
    <3>4. v \div (2 * d) = (v \div 2) \div d
      BY <1>1, <3>2, DivProduct
    <3> QED
      BY <1>1, <3>2, <3>3, <3>4
  <2> QED
    BY <2>1, <2>2
<1>3. \A i \in 1..(l + 1) : NatToBits(v, l + 1)[i] = (v \div Pow2[(l + 1) - i]) % 2
  BY DEF NatToBits
<1>4. q + (l + 1) <= Len(bits)
  OBVIOUS
<1>5. FieldAt(bits, q, v, l + 1)
  BY <1>2, <1>3, <1>4 DEF FieldAt
<1> QED
  BY <1>5 DEF v

(* MaxLen is the length of the longest code.                               *)
LEMMA MaxLenBounds ==
  ASSUME Measured(book)
  PROVE  MaxLen \in Nat /\ MaxLen <= M /\ \A b \in Bytes : book[b] <= MaxLen
<1> DEFINE S == {book[b] : b \in Bytes}
<1>1. \A b \in Bytes : book[b] \in Nat /\ book[b] <= M
  BY DEF Measured
<1>2. S \in SUBSET Nat /\ \A x \in S : x <= M
  BY <1>1
<1>3. S # {}
  <2>1. 0 \in Bytes
    BY HuffmanSizes DEF Bytes
  <2> QED
    BY <2>1
<1> HIDE DEF S
<1>4. \E x \in S : \A y \in S : x >= y
  BY <1>2, <1>3, HuffmanSizes, GreatestElement
<1>5. MaxLen = CHOOSE x \in S : \A y \in S : x >= y
  BY DEF MaxLen, Max, S
<1>6. MaxLen \in S /\ \A y \in S : MaxLen >= y
  BY <1>4, <1>5
<1>7. \A b \in Bytes : book[b] \in S
  BY DEF S
<1>8. ASSUME NEW b \in Bytes PROVE book[b] <= MaxLen
  BY <1>1, <1>2, <1>6, <1>7
<1> QED
  BY <1>2, <1>6, <1>8

-----------------------------------------------------------------------------
(* Decoding what was encoded. *)

LEMMA OneCodeEach ==
  ASSUME NEW cb, Measured(cb), NEW cd, Canonical(cd, cb),
         NEW s \in UsedBytes(cb), NEW t \in UsedBytes(cb), cb[s] = cb[t], cd[s] = cd[t]
  PROVE  s = t
<1>1. /\ s \in Nat /\ t \in Nat /\ cb[s] \in Nat /\ cb[t] \in Nat
      /\ cd[s] \in Nat /\ cd[t] \in Nat
  BY UsedLengths DEF Canonical
<1>2. SUFFICES ASSUME s # t PROVE FALSE
  OBVIOUS
<1>3. ComesBefore(cb, s, t) \/ ComesBefore(cb, t, s)
  BY <1>1, <1>2 DEF ComesBefore
<1>4. cb[t] - cb[s] = 0 /\ cb[s] - cb[t] = 0 /\ Pow2[0] = 1
  BY <1>1, Pow2Def
<1>5. (cd[s] + 1) * 1 <= cd[t] \/ (cd[t] + 1) * 1 <= cd[s]
  BY <1>3, <1>4 DEF Canonical
<1> QED
  BY <1>1, <1>5

(* The decoder stands in the code of the next symbol, at its end only when *)
(* that could not be matched.                                              *)
InCode(s) ==
  /\ len <= book[s] /\ code = codes[s] \div Pow2[book[s] - len]
  /\ len = book[s] => s \in Unreadable

Follows(n) ==
  /\ len \in Nat /\ code \in Nat /\ out \in Seq(Bytes) /\ Len(out) <= Len(text)
  /\ \A i \in 1..Len(out) : out[i] = text[i]
  /\ pos = Len(head) + n[Len(out)] + len
  /\ Len(out) = Len(text) => len = 0
  /\ Len(out) < Len(text) => InCode(text[Len(out) + 1])

Following == \E n : Spans(n, text, book) /\ Wrote(n, Len(text)) /\ Follows(n)

OwnInv ==
  own =>
    /\ input \in Seq(Bit) /\ Extends(input, stream) /\ RestIsZero(input, Len(stream))
    /\ want = Len(text)
    /\ hstep = "decode" => Following
    /\ hstep = "accepted" => out = text
    /\ hstep = "refused" => \E i \in 1..Len(text) : text[i] \in Unreadable

(* In front of a code nothing of it has been read. *)
LEMMA NothingRead ==
  ASSUME Built, NEW s, Encodable(s)
  PROVE  0 <= book[s] /\ 0 # book[s] /\ codes[s] \div Pow2[book[s] - 0] = 0
<1> DEFINE b == book[s]
           c == codes[s]
<1>1. c \in Nat /\ c < Pow2[b] /\ b \in 1..M /\ b \in Nat
  BY EncodableHasCode DEF Built
<1>2. Pow2[b] \in Nat /\ b - 0 = b /\ 0 <= b /\ 0 # b
  BY <1>1, HuffmanSizes, Pow2Type
<1> HIDE DEF b, c
<1>3. c \div Pow2[b] = 0
  BY <1>1, <1>2
<1> QED
  BY <1>2, <1>3 DEF b, c

LEMMA OwnInvDecodeOwn ==
  ASSUME Built, EncInv, DecodeOwn
  PROVE  OwnInv'
<1> DEFINE t == IntoBytes([ok |-> TRUE, bits |-> stream])
<1>1. /\ hstep = "encoded" /\ input' = t /\ want' = Len(text) /\ pos' = Len(head) /\ len' = 0
      /\ code' = 0 /\ out' = <<>> /\ hstep' = "decode" /\ own'
      /\ UNCHANGED <<bookVars, whole, encVars>>
  BY DEF DecodeOwn, DecodeCall
<1>2. /\ book' = book /\ sorted' = sorted /\ codes' = codes /\ table' = table /\ placed' = placed
      /\ text' = text /\ head' = head /\ stream' = stream /\ written' = written /\ whole' = whole
  BY <1>1 DEF bookVars, encVars
<1>3. /\ text \in Seq(Bytes) /\ head \in Seq(Bit) /\ stream \in Seq(Bit) /\ written = Len(text)
      /\ Writing
  BY <1>1 DEF EncInv
<1>4. t \in Seq(Bit) /\ Extends(t, stream) /\ RestIsZero(t, Len(stream))
  BY <1>3, IntoBytesPads
<1>5. PICK n : Spans(n, text, book) /\ Wrote(n, Len(text))
  BY <1>3 DEF Writing
<1>6. Len(text) \in Nat /\ Len(head) \in Nat /\ Len(<<>>) = 0 /\ <<>> \in Seq(Bytes) /\ n[0] = 0
  BY <1>3, <1>5, LenProperties, EmptySeq DEF Spans
<1>8. Follows(n)'
  <2>1. Len(out') = 0 /\ (1..0) = {} /\ pos' = Len(head') + n[Len(out')] + len'
    BY <1>1, <1>2, <1>6
  <2>2. Len(out') < Len(text') => InCode(text[Len(out) + 1])'
    <3>1. SUFFICES ASSUME 0 < Len(text) PROVE InCode(text[Len(out) + 1])'
      BY <1>2, <2>1
    <3>2. Encodable(text[1])
      <4>1. 1 \in 1..Len(text)
        BY <1>6, <3>1
      <4> QED
        BY <1>5, <4>1 DEF Wrote
    <3>3. 0 <= book[text[1]] /\ 0 # book[text[1]] /\ codes[text[1]] \div Pow2[book[text[1]] - 0] = 0
      BY <3>2, NothingRead
    <3>6. text'[Len(out') + 1] = text[1]
      BY <1>2, <2>1
    <3> QED
      BY <1>1, <1>2, <3>3, <3>6 DEF InCode
  <2> QED
    BY <1>1, <1>2, <1>6, <2>1, <2>2 DEF Follows
<1>9. Following'
  <2>1. Spans(n, text', book') /\ Wrote(n, Len(text))'
    BY <1>2, <1>5 DEF Wrote, Encodable
  <2> QED
    BY <1>8, <2>1 DEF Following
<1> QED
  BY <1>1, <1>2, <1>4, <1>9 DEF OwnInv

(* One more bit of the code of the next symbol. *)
LEMMA OwnInvReadBit ==
  ASSUME Built, EncInv, OwnInv, own, ReadBit
  PROVE  OwnInv'
<1> DEFINE k  == Len(out)
           s  == text[k + 1]
           L  == book[s]
           rd == ReadBits(input, ReaderAt(pos), 1)
           c  == 2 * code + rd.val
           l  == len + 1
           sym == sorted[table[l].index + (c - table[l].first) + 1]
<1>1. /\ hstep = "decode" /\ k < want /\ len < MaxLen /\ pos' = rd.pos
      /\ IF ~rd.ok THEN hstep' = "refused" /\ UNCHANGED <<len, code, out>>
         ELSE IF ~Matches(c, l)
         THEN len' = l /\ code' = c /\ UNCHANGED <<out, hstep>>
         ELSE /\ len' = 0 /\ code' = 0
              /\ IF sym \in Base85 THEN out' = Append(out, sym) /\ UNCHANGED hstep
                 ELSE hstep' = "refused" /\ UNCHANGED out
      /\ UNCHANGED <<bookVars, whole, encVars, input, want, own>>
  BY DEF ReadBit
<1>2. /\ book' = book /\ codes' = codes /\ text' = text /\ head' = head /\ stream' = stream
      /\ input' = input /\ want' = want /\ own' = own /\ written' = written
  BY <1>1 DEF bookVars, encVars
<1>3. /\ input \in Seq(Bit) /\ Extends(input, stream) /\ RestIsZero(input, Len(stream))
      /\ want = Len(text) /\ Following
  BY <1>1 DEF OwnInv
<1>4. text \in Seq(Bytes) /\ head \in Seq(Bit) /\ stream \in Seq(Bit)
  BY DEF EncInv
<1>5. PICK n : Spans(n, text, book) /\ Wrote(n, Len(text)) /\ Follows(n)
  BY <1>3 DEF Following
<1>6. /\ len \in Nat /\ code \in Nat /\ out \in Seq(Bytes) /\ k < Len(text)
      /\ \A i \in 1..k : out[i] = text[i]
      /\ pos = Len(head) + n[k] + len /\ InCode(s)
  BY <1>1, <1>3, <1>5 DEF Follows
<1>7. /\ k \in Nat /\ Len(text) \in Nat /\ Len(head) \in Nat /\ Len(input) \in Nat
      /\ k + 1 \in 1..Len(text) /\ (k + 1) - 1 = k /\ k \in 0..(Len(text) - 1) /\ k \in 0..Len(text)
  BY <1>3, <1>4, <1>6, LenProperties
<1>8. n[k] \in Nat /\ n[k + 1] = n[k] + L
  BY <1>5, <1>7 DEF Spans
<1>9. /\ Encodable(s) /\ s \in Base85
      /\ FieldAt(stream, Len(head) + n[k], codes[s], L)
  BY <1>5, <1>7 DEF Wrote, Encodable
<1>10. /\ s \in UsedBytes(book) /\ codes[s] \in Nat /\ codes[s] < Pow2[L]
       /\ L \in 1..M /\ L \in Nat
  BY <1>9, EncodableHasCode DEF Built
<1>11. Measured(book) /\ Canonical(codes, book)
  BY BuiltMeans
<1>12. len < L
  <2>1. len # L
    <3>1. SUFFICES ASSUME len = L PROVE FALSE
      OBVIOUS
    <3>2. s \in Unreadable
      BY <1>6, <3>1 DEF InCode
    <3>3. L = M
      BY <3>2 DEF Unreadable, M
    <3>4. MaxLen <= M /\ MaxLen \in Nat
      BY <1>11, MaxLenBounds
    <3> QED
      BY <1>1, <1>6, <3>1, <3>3, <3>4, HuffmanSizes
  <2>2. len <= L
    BY <1>6 DEF InCode
  <2> HIDE DEF L
  <2> QED
    BY <1>6, <1>10, <2>1, <2>2
<1> DEFINE q == Len(head) + n[k]
           C == codes[s]
<1>13. q \in Nat /\ pos = q + len /\ pos \in Nat
  BY <1>6, <1>7, <1>8
<1>14. FieldAt(input, q, C, L)
  BY <1>3, <1>4, <1>9, <1>10, <1>13, FieldStays
<1> HIDE DEF q, C, L
<1>15. C \in Nat /\ C < Pow2[L] /\ L \in Nat /\ L <= M
  BY <1>10, HuffmanSizes DEF C, L
<1>16. /\ q + len + 1 <= Len(input)
       /\ 2 * (C \div Pow2[L - len]) + input[q + len + 1] = C \div Pow2[L - (len + 1)]
  <2>1. q \in Nat /\ len \in Nat /\ len < L
    BY <1>6, <1>12, <1>13
  <2> QED
    BY <1>14, <1>15, <2>1, NextOfField
<1>17. pos + 1 = q + len + 1
  BY <1>6, <1>13
<1>18. rd = [ok |-> TRUE, pos |-> pos + 1, val |-> input[pos + 1]] /\ input[pos + 1] \in 0..1
  BY <1>3, <1>13, <1>16, <1>17, ReadOneBit
<1>19. code = C \div Pow2[L - len]
  BY <1>6 DEF InCode, C, L
<1>20. rd.ok /\ rd.pos = pos + 1 /\ rd.val \in Nat /\ rd.val = input[pos + 1]
  BY <1>18
<1> HIDE DEF rd
<1>21. c = C \div Pow2[L - l] /\ c \in Nat
  <2>1. c = C \div Pow2[L - l]
    BY <1>16, <1>17, <1>19, <1>20
  <2> QED
    BY <1>6, <1>20, <2>1, SMTT(30)
<1>22. l \in Nat /\ l <= L /\ l \in Lengths /\ pos' = q + l
  <2>1. l \in Nat /\ l <= L
    BY <1>6, <1>12, <1>15
  <2>2. l \in Lengths
    BY <1>15, <2>1, HuffmanSizes DEF Lengths, M
  <2>3. pos' = q + l
    BY <1>1, <1>6, <1>13, <1>20
  <2> QED
    BY <2>1, <2>2, <2>3
<1> HIDE DEF c, l
<1>23. \/ ~Matches(c, l) /\ len' = l /\ code' = c /\ out' = out /\ hstep' = "decode"
       \/ /\ Matches(c, l) /\ len' = 0 /\ code' = 0
          /\ IF sym \in Base85 THEN out' = Append(out, sym) /\ hstep' = "decode"
             ELSE hstep' = "refused" /\ out' = out
  BY <1>1, <1>20
<1>24. Matches(c, l) => l = L /\ sym = s
  <2>1. SUFFICES ASSUME Matches(c, l) PROVE l = L /\ sym = s
    OBVIOUS
  <2>2. l = L
    <3>1. SUFFICES ASSUME l # L PROVE FALSE
      OBVIOUS
    <3>2. l < L
      BY <1>15, <1>22, <3>1
    <3>3. ~Matches(C \div Pow2[L - l], l)
      BY <1>10, <1>22, <3>2, ShorterDoesNotMatch DEF C, L
    <3> QED
      BY <1>21, <2>1, <3>3
  <2>3. c = C
    <3>1. L - L = 0 /\ Pow2[0] = 1 /\ C \div 1 = C
      BY <1>15, Pow2Def
    <3> QED
      BY <1>21, <2>2, <3>1
  <2>4. book[sym] = l /\ codes[sym] = c /\ sym \in UsedBytes(book)
    BY <1>21, <1>22, <2>1, MatchMeans
  <2> HIDE DEF sym
  <2>5. sym = s
    BY <1>10, <1>11, <2>2, <2>3, <2>4, OneCodeEach DEF C, L
  <2> QED
    BY <2>2, <2>5
<1>25. ~Matches(c, l) /\ l = L => s \in Unreadable
  <2>1. l = L => c = C
    <3>1. L - L = 0 /\ Pow2[0] = 1 /\ C \div 1 = C
      BY <1>15, Pow2Def
    <3> QED
      BY <1>21, <3>1
  <2> QED
    BY <1>10, <2>1, WholeCodeMatches DEF C, L
<1> HIDE DEF sym
<1>26. hstep' = "decode" /\ Follows(n)'
  <2>1. CASE ~Matches(c, l)
    <3>1. len' = l /\ code' = c /\ out' = out /\ hstep' = "decode"
      BY <1>23, <2>1
    <3>2. InCode(s)'
      <4>1. len' <= book[s] /\ code' = codes[s] \div Pow2[book[s] - len']
        BY <1>21, <1>22, <3>1 DEF C, L
      <4>2. len' = book[s] => s \in Unreadable
        BY <1>25, <2>1, <3>1 DEF L
      <4>3. s' = s /\ book'[s'] = book[s] /\ codes'[s'] = codes[s]
            /\ (s \in Unreadable => s' \in Unreadable')
        BY <1>2, <3>1 DEF Unreadable
      <4> HIDE DEF s
      <4> QED
        BY <1>2, <4>1, <4>2, <4>3 DEF InCode
    <3>3. pos' = Len(head') + n[Len(out')] + len'
      BY <1>2, <1>22, <3>1 DEF q
    <3>4. /\ len' \in Nat /\ code' \in Nat /\ out' \in Seq(Bytes) /\ Len(out') <= Len(text')
          /\ \A i \in 1..Len(out') : out'[i] = text'[i]
          /\ ~(Len(out') = Len(text'))
      BY <1>2, <1>6, <1>7, <1>21, <1>22, <3>1
    <3> QED
      BY <3>1, <3>2, <3>3, <3>4 DEF Follows
  <2>2. CASE Matches(c, l)
    <3>1. l = L /\ sym = s
      BY <1>24, <2>2
    <3>2. len' = 0 /\ code' = 0 /\ out' = Append(out, s) /\ hstep' = "decode"
      BY <1>9, <1>23, <2>2, <3>1
    <3>3. s \in Bytes
      BY <1>10 DEF UsedBytes
    <3> HIDE DEF s
    <3>4. /\ out' \in Seq(Bytes) /\ Len(out') = k + 1 /\ out'[k + 1] = s
          /\ \A i \in 1..k : out'[i] = out[i]
      BY <1>6, <3>2, <3>3, AppendProperties
    <3>5. \A i \in 1..Len(out') : out'[i] = text'[i]
      <4>1. \A i \in 1..(k + 1) : i \in 1..k \/ i = k + 1
        BY <1>7
      <4> QED
        BY <1>2, <1>6, <3>4, <4>1 DEF s
    <3>6. pos' = Len(head') + n[Len(out')] + len'
      <4>1. q + L = Len(head) + n[k + 1]
        BY <1>7, <1>8, <1>15 DEF q, L
      <4>2. pos' = Len(head) + n[k + 1]
        BY <1>22, <3>1, <4>1
      <4>3. n[k + 1] \in Nat
        BY <1>5, <1>7 DEF Spans
      <4> QED
        BY <1>2, <1>7, <3>2, <3>4, <4>2, <4>3
    <3>7. Len(out') < Len(text') => InCode(text[Len(out) + 1])'
      <4> DEFINE t == text[k + 2]
      <4>1. SUFFICES ASSUME k + 1 < Len(text) PROVE InCode(text[Len(out) + 1])'
        BY <1>2, <3>4
      <4>2. Encodable(t)
        <5>1. k + 2 \in 1..Len(text)
          BY <1>7, <4>1
        <5> QED
          BY <1>5, <5>1 DEF Wrote
      <4>3. 0 <= book[t] /\ 0 # book[t] /\ codes[t] \div Pow2[book[t] - 0] = 0
        BY <4>2, NothingRead
      <4>4. text'[Len(out') + 1] = t
        <5>1. (k + 1) + 1 = k + 2
          BY <1>7
        <5> QED
          BY <1>2, <3>4, <5>1
      <4> HIDE DEF t
      <4> QED
        BY <1>2, <3>2, <4>3, <4>4 DEF InCode
    <3>8. Len(out') <= Len(text')
      BY <1>2, <1>7, <3>4
    <3> QED
      BY <3>2, <3>4, <3>5, <3>6, <3>7, <3>8 DEF Follows
  <2> QED
    BY <2>1, <2>2
<1>27. Following'
  <2>1. Spans(n, text', book') /\ Wrote(n, Len(text))'
    BY <1>2, <1>5 DEF Wrote, Encodable
  <2> QED
    BY <1>26, <2>1 DEF Following
<1> QED
  BY <1>2, <1>3, <1>26, <1>27 DEF OwnInv

(* At its end, the text has been read whole and zeros are left. *)
LEMMA OwnInvDecoded ==
  ASSUME EncInv, OwnInv, own, Decoded
  PROVE  OwnInv'
<1>1. /\ hstep = "decode" /\ Len(out) = want
      /\ hstep' = IF whole => RestIsZero(input, pos) THEN "accepted" ELSE "refused"
      /\ text' = text /\ stream' = stream /\ input' = input /\ want' = want /\ out' = out
  BY DEF Decoded, encVars, decVars
<1>2. /\ input \in Seq(Bit) /\ Extends(input, stream) /\ RestIsZero(input, Len(stream))
      /\ want = Len(text) /\ Following
  BY <1>1 DEF OwnInv
<1>3. PICK n : Wrote(n, Len(text)) /\ Follows(n)
  BY <1>2 DEF Following
<1>4. text \in Seq(Bytes) /\ Len(text) \in Nat
  BY LenProperties DEF EncInv
<1>5. out \in Seq(Bytes) /\ len = 0 /\ pos = Len(head) + n[Len(text)] + 0
      /\ \A i \in 1..Len(out) : out[i] = text[i]
  BY <1>1, <1>2, <1>3 DEF Follows
<1>6. out = text
  BY <1>1, <1>2, <1>4, <1>5, SeqEqual
<1>7. pos = Len(stream)
  <2>1. Len(stream) = Len(head) + n[Len(text)] /\ Len(stream) \in Nat
    BY <1>3, LenProperties DEF Wrote, EncInv
  <2>2. pos = Len(stream) + 0
    BY <1>5, <2>1
  <2> QED
    BY <2>1, <2>2
<1>8. hstep' = "accepted"
  BY <1>1, <1>2, <1>7
<1> QED
  BY <1>1, <1>2, <1>6, <1>8 DEF OwnInv

(* No code is longer than the longest: who gives up has an unreadable      *)
(* symbol in front of him.                                                 *)
LEMMA OwnInvNoCodeMatched ==
  ASSUME Built, EncInv, OwnInv, own, NoCodeMatched
  PROVE  OwnInv'
<1>1. /\ hstep = "decode" /\ Len(out) < want /\ len = MaxLen /\ hstep' = "refused"
      /\ book' = book /\ text' = text /\ stream' = stream /\ input' = input /\ want' = want
  BY DEF NoCodeMatched, bookVars, encVars, decVars
<1>2. /\ input \in Seq(Bit) /\ Extends(input, stream) /\ RestIsZero(input, Len(stream))
      /\ want = Len(text) /\ Following
  BY <1>1 DEF OwnInv
<1>3. PICK n : Wrote(n, Len(text)) /\ Follows(n)
  BY <1>2 DEF Following
<1> DEFINE i == Len(out) + 1
           s == text[i]
<1>4. i \in 1..Len(text)
  <2>1. Len(out) \in Nat /\ Len(text) \in Nat
    BY <1>3, LenProperties DEF Follows, EncInv
  <2> QED
    BY <1>1, <1>2, <2>1
<1>5. Encodable(s)
  BY <1>3, <1>4 DEF Wrote
<1>6. s \in UsedBytes(book) /\ s \in Bytes
  BY <1>5, EncodableHasCode DEF Built, UsedBytes
<1>7. book[s] <= MaxLen /\ MaxLen \in Nat /\ book[s] \in Nat
  BY <1>6, BuiltMeans, MaxLenBounds DEF Measured
<1>8. len <= book[s] /\ (len = book[s] => s \in Unreadable)
  BY <1>1, <1>2, <1>3 DEF Follows, InCode
<1>9. s \in Unreadable
  BY <1>1, <1>7, <1>8
<1>10. \E j \in 1..Len(text') : text'[j] \in Unreadable'
  BY <1>1, <1>4, <1>9 DEF Unreadable
<1> QED
  BY <1>1, <1>2, <1>10 DEF OwnInv

LEMMA OwnInvStep ==
  ASSUME BookInv, TableInv, EncInv, EncInv', OwnInv, [HNext]_hvars
  PROVE  OwnInv'
<1>1. CASE DecodeOwn
  <2>1. Built
    BY <1>1 DEF Built, DecodeOwn
  <2> QED
    BY <1>1, <2>1, OwnInvDecodeOwn
<1>2. CASE own /\ (ReadBit \/ NoCodeMatched \/ Decoded)
  <2>1. Built
    BY <1>2 DEF Built, ReadBit, NoCodeMatched, Decoded
  <2> QED
    BY <1>2, <2>1, OwnInvReadBit, OwnInvNoCodeMatched, OwnInvDecoded
<1>3. CASE ~own /\ ~DecodeOwn
  <2>1. ~own'
    <3>1. CASE New \/ AssignCode \/ Assigned \/ EncodeCall \/ Check \/ WriteSymbol \/ Encoded
      BY <1>3, <3>1 DEF New, AssignCode, Assigned, EncodeCall, Check, WriteSymbol, Encoded, decVars
    <3>2. CASE DecodeForeign \/ ReadBit \/ NoCodeMatched \/ Decoded
      BY <1>3, <3>2 DEF DecodeForeign, ReadBit, NoCodeMatched, Decoded, decVars
    <3>3. CASE UNCHANGED hvars \/ Returned
      BY <1>3, <3>3 DEF Returned, hvars, decVars
    <3> QED
      BY <1>3, <3>1, <3>2, <3>3 DEF HNext, HStep
  <2> QED
    BY <2>1 DEF OwnInv
<1>4. CASE own /\ ~(DecodeOwn \/ ReadBit \/ NoCodeMatched \/ Decoded)
  <2>1. hstep \in {"decode", "accepted", "refused"}
    BY <1>4 DEF EncInv
  <2>2. UNCHANGED hvars
    <3>1. ~(New \/ AssignCode \/ Assigned \/ EncodeCall \/ Check \/ WriteSymbol \/ Encoded \/ DecodeForeign)
      BY <2>1 DEF New, AssignCode, Assigned, EncodeCall, Check, WriteSymbol, Encoded, DecodeForeign
    <3> QED
      BY <1>4, <3>1 DEF HNext, HStep, Returned
  <2>3. UNCHANGED <<bookVars, whole, encVars, decVars, hstep>>
    BY <2>2 DEF hvars
  <2>4. /\ own' = own /\ hstep' = hstep /\ input' = input /\ stream' = stream /\ want' = want
        /\ text' = text /\ out' = out /\ book' = book
    BY <2>3 DEF bookVars, encVars, decVars
  <2>5. Following => Following'
    BY <2>3 DEF bookVars, encVars, decVars, Following, Wrote, Encodable, Follows, InCode, Unreadable
  <2> QED
    BY <2>4, <2>5 DEF OwnInv, Unreadable
<1> QED
  BY <1>1, <1>2, <1>3, <1>4

LEMMA OwnAlways == Spec => []OwnInv
<1>1. HInit => OwnInv
  BY DEF HInit, OwnInv
<1>2. BookInv /\ TableInv /\ EncInv /\ EncInv' /\ OwnInv /\ [HNext]_hvars => OwnInv'
  BY OwnInvStep
<1> QED
  BY <1>1, <1>2, BookAlways, TableAlways, EncAlways, PTL DEF Spec

(* What HuffmanEncoder encoded, HuffmanDecoder decodes to the same         *)
(* symbols, but for those with codes of MAX_CODE_LENGTH bits in a code     *)
(* that uses up the whole code space.                                      *)
THEOREM DecodesItsOwn == Spec => []DecodeInvertsEncode
<1>1. OwnInv => DecodeInvertsEncode
  BY DEF OwnInv, DecodeInvertsEncode
<1> QED
  BY <1>1, OwnAlways, PTL

-----------------------------------------------------------------------------
(* Decoding a foreign stream. *)

(* The codes of t lie in bits, one behind the other. *)
CodesIn(bits, t, n) ==
  /\ Spans(n, t, book)
  /\ \A i \in 1..Len(t) : /\ Encodable(t[i])
                          /\ FieldAt(bits, n[i - 1], codes[t[i]], book[t[i]])

(* Behind the codes of `out` the decoder has read the bits of `code`.      *)
FoundSoFar ==
  \E n : /\ CodesIn(input, out, n)
         /\ len \in Nat /\ code \in Nat /\ pos = n[Len(out)] + len /\ pos <= Len(input)
         /\ FieldAt(input, n[Len(out)], code, len)
         /\ Len(out) = want => len = 0

FoundAll ==
  \E n : /\ CodesIn(input, out, n) /\ n[Len(out)] <= Len(input)
         /\ whole => RestIsZero(input, n[Len(out)])

ForeignInv ==
  ~own /\ hstep \in {"decode", "accepted", "refused"} =>
    /\ input \in Seq(Bit) /\ out \in Seq(Bytes)
    /\ hstep = "decode" => FoundSoFar
    /\ hstep = "accepted" => FoundAll

LEMMA ForeignInvDecodeForeign ==
  ASSUME DecodeForeign
  PROVE  ForeignInv'
<1>1. /\ input' \in ForeignStreams /\ pos' = 0 /\ len' = 0 /\ code' = 0 /\ out' = <<>>
      /\ hstep' = "decode" /\ book' = book
  BY DEF DecodeForeign, DecodeCall, bookVars
<1>2. input' \in Seq(Bit) /\ Len(input') \in Nat /\ out' \in Seq(Bytes) /\ Len(out') = 0
  <2>1. input' \in Seq(Bit)
    BY <1>1, CodecInputs
  <2> QED
    BY <1>1, <2>1, LenProperties, EmptySeq
<1> DEFINE n == [i \in 0..0 |-> 0]
<1>3. n[0] = 0 /\ (1..0) = {} /\ (0..(0 - 1)) = {} /\ (0..0) = {0} /\ 0 + 0 = 0
  OBVIOUS
<1> HIDE DEF n
<1>4. CodesIn(input, out, n)'
  BY <1>2, <1>3 DEF CodesIn, Spans
<1>5. FieldAt(input', 0, 0, 0)
  BY <1>2, <1>3 DEF FieldAt
<1>6. FoundSoFar'
  <2>1. /\ len' \in Nat /\ code' \in Nat /\ pos' = n[Len(out')] + len' /\ pos' <= Len(input')
        /\ FieldAt(input', n[Len(out')], code', len')
        /\ Len(out') = want' => len' = 0
    BY <1>1, <1>2, <1>3, <1>5
  <2> QED
    BY <1>4, <2>1 DEF FoundSoFar
<1> QED
  BY <1>1, <1>2, <1>6 DEF ForeignInv

(* One symbol more. *)
LEMMA SpansAppend ==
  ASSUME NEW cb, Measured(cb), NEW t \in Seq(Bytes), NEW s \in Bytes, NEW n, Spans(n, t, cb)
  PROVE  \E m : /\ Spans(m, Append(t, s), cb) /\ \A i \in 0..Len(t) : m[i] = n[i]
                /\ m[Len(t) + 1] = n[Len(t)] + cb[s]
<1> DEFINE k == Len(t)
           m == [i \in 0..(k + 1) |-> IF i = k + 1 THEN n[k] + cb[s] ELSE n[i]]
           u == Append(t, s)
<1>1. k \in Nat /\ u \in Seq(Bytes) /\ Len(u) = k + 1 /\ u[k + 1] = s
      /\ \A i \in 1..k : u[i] = t[i]
  BY AppendProperties, LenProperties
<1>2. /\ n[0] = 0 /\ \A i \in 0..k : n[i] \in Nat
      /\ \A i \in 0..(k - 1) : n[i + 1] = n[i] + cb[t[i + 1]]
  BY DEF Spans
<1>3. cb[s] \in Nat
  BY DEF Measured
<1> HIDE DEF k, u
<1>4. k + 1 \in 0..(k + 1) /\ \A i \in 0..k : i \in 0..(k + 1) /\ i # k + 1
  BY <1>1
<1>5. m[k + 1] = n[k] + cb[s] /\ \A i \in 0..k : m[i] = n[i]
  BY <1>4
<1> HIDE DEF m
<1>6. m[0] = 0
  BY <1>1, <1>2, <1>5
<1>7. ASSUME NEW i \in 0..(k + 1) PROVE m[i] \in Nat
  <2>1. CASE i = k + 1
    <3>1. n[k] \in Nat
      BY <1>1, <1>2
    <3> QED
      BY <1>3, <1>5, <2>1, <3>1
  <2>2. CASE i # k + 1
    BY <1>1, <1>2, <1>5, <2>2, SMTT(30)
  <2> QED
    BY <2>1, <2>2
<1>8. ASSUME NEW i \in 0..((k + 1) - 1) PROVE m[i + 1] = m[i] + cb[u[i + 1]]
  <2>1. CASE i = k
    BY <1>1, <1>5, <2>1
  <2>2. CASE i # k
    <3>1. i \in 0..(k - 1) /\ i + 1 \in 1..k /\ i + 1 \in 0..k /\ i \in 0..k
      BY <1>1, <2>2
    <3> QED
      BY <1>1, <1>2, <1>5, <3>1
  <2> QED
    BY <2>1, <2>2
<1>9. Spans(m, u, cb)
  BY <1>1, <1>6, <1>7, <1>8 DEF Spans
<1> QED
  BY <1>5, <1>9 DEF k, u

LEMMA ForeignInvReadBit ==
  ASSUME Built, ForeignInv, ~own, ReadBit
  PROVE  ForeignInv'
<1> DEFINE k  == Len(out)
           rd == ReadBits(input, ReaderAt(pos), 1)
           c  == 2 * code + rd.val
           l  == len + 1
           sym == sorted[table[l].index + (c - table[l].first) + 1]
<1>1. /\ hstep = "decode" /\ k < want /\ len < MaxLen /\ pos' = rd.pos
      /\ IF ~rd.ok THEN hstep' = "refused" /\ UNCHANGED <<len, code, out>>
         ELSE IF ~Matches(c, l)
         THEN len' = l /\ code' = c /\ UNCHANGED <<out, hstep>>
         ELSE /\ len' = 0 /\ code' = 0
              /\ IF sym \in Base85 THEN out' = Append(out, sym) /\ UNCHANGED hstep
                 ELSE hstep' = "refused" /\ UNCHANGED out
      /\ UNCHANGED <<bookVars, whole, encVars, input, want, own>>
  BY DEF ReadBit
<1>2. book' = book /\ codes' = codes /\ input' = input /\ want' = want /\ own' = own
  BY <1>1 DEF bookVars
<1>3. input \in Seq(Bit) /\ out \in Seq(Bytes) /\ FoundSoFar
  BY <1>1 DEF ForeignInv
<1>4. PICK n : /\ CodesIn(input, out, n)
               /\ len \in Nat /\ code \in Nat /\ pos = n[k] + len /\ pos <= Len(input)
               /\ FieldAt(input, n[k], code, len)
  BY <1>3 DEF FoundSoFar
<1>5. k \in Nat /\ Len(input) \in Nat /\ k \in 0..k
  BY <1>3, LenProperties
<1>6. n[k] \in Nat
  BY <1>4, <1>5 DEF CodesIn, Spans
<1>7. pos \in Nat /\ pos + 1 = n[k] + len + 1
  BY <1>4, <1>6
<1>8. CASE ~rd.ok
  <2>1. hstep' = "refused" /\ out' = out
    BY <1>1, <1>8
  <2> QED
    BY <1>2, <1>3, <2>1 DEF ForeignInv
<1>9. CASE rd.ok
  <2>1. pos + 1 <= Len(input)
    BY <1>3, <1>7, <1>9, ReadOneBit
  <2>2. rd = [ok |-> TRUE, pos |-> pos + 1, val |-> input[pos + 1]] /\ input[pos + 1] \in 0..1
    BY <1>3, <1>7, <2>1, ReadOneBit
  <2>3. rd.pos = pos + 1 /\ rd.val = input[pos + 1] /\ rd.val \in 0..1
    BY <2>2
  <2> HIDE DEF rd
  <2>4. FieldAt(input, n[k], c, len + 1)
    BY <1>4, <1>6, <1>7, <2>1, <2>3, FieldGrows
  <2>5. c \in Nat /\ l \in Nat /\ pos' = n[k] + l
    BY <1>1, <1>4, <1>6, <1>7, <2>3, SMTT(30)
  <2>6. l \in Lengths
    <3>1. MaxLen \in Nat /\ MaxLen <= M
      BY BuiltMeans, MaxLenBounds
    <3> QED
      BY <1>1, <1>4, <3>1, HuffmanSizes DEF Lengths, M
  <2>7. FieldAt(input, n[k], c, l)
    BY <2>4
  <2> HIDE DEF c, l
  <2>8. CASE ~Matches(c, l)
    <3>1. len' = l /\ code' = c /\ out' = out /\ hstep' = "decode"
      BY <1>1, <1>9, <2>8
    <3>2. CodesIn(input, out, n)'
      BY <1>2, <1>4, <3>1 DEF CodesIn, Encodable
    <3>3. pos' <= Len(input')
      BY <1>1, <1>2, <2>1, <2>3
    <3>4. Len(out') # want'
      BY <1>1, <1>2, <1>5, <3>1
    <3>5. FoundSoFar'
      <4>1. len' \in Nat /\ code' \in Nat /\ pos' = n[Len(out')] + len'
            /\ FieldAt(input', n[Len(out')], code', len')
        BY <1>2, <2>5, <2>7, <3>1
      <4> QED
        BY <3>2, <3>3, <3>4, <4>1 DEF FoundSoFar
    <3> QED
      BY <1>2, <1>3, <3>1, <3>5 DEF ForeignInv
  <2>9. CASE Matches(c, l)
    <3>1. /\ len' = 0 /\ code' = 0
          /\ IF sym \in Base85 THEN out' = Append(out, sym) /\ hstep' = "decode"
             ELSE hstep' = "refused" /\ out' = out
      BY <1>1, <1>9, <2>9
    <3>2. book[sym] = l /\ codes[sym] = c /\ sym \in UsedBytes(book)
      BY <2>5, <2>6, <2>9, MatchMeans
    <3> HIDE DEF sym
    <3>3. CASE sym \notin Base85
      <4>1. hstep' = "refused" /\ out' = out
        BY <3>1, <3>3
      <4> QED
        BY <1>2, <1>3, <4>1 DEF ForeignInv
    <3>4. CASE sym \in Base85
      <4>1. out' = Append(out, sym) /\ hstep' = "decode"
        BY <3>1, <3>4
      <4>2. sym \in Bytes /\ Encodable(sym)
        BY <3>2, <3>4 DEF UsedBytes, Encodable
      <4>3. /\ out' \in Seq(Bytes) /\ Len(out') = k + 1 /\ out'[k + 1] = sym
            /\ \A i \in 1..k : out'[i] = out[i]
        BY <1>3, <4>1, <4>2, AppendProperties
      <4>4. Spans(n, out, book) /\ Measured(book)
        BY <1>4, BuiltMeans DEF CodesIn
      <4>5. PICK m : /\ Spans(m, Append(out, sym), book) /\ \A i \in 0..k : m[i] = n[i]
                     /\ m[k + 1] = n[k] + book[sym]
        BY <1>3, <4>2, <4>4, SpansAppend
      <4>6. ASSUME NEW i \in 1..(k + 1)
            PROVE  /\ Encodable(out'[i])
                   /\ FieldAt(input, m[i - 1], codes[out'[i]], book[out'[i]])
        <5>1. CASE i = k + 1
          <6>1. m[i - 1] = n[k] /\ out'[i] = sym
            BY <1>5, <4>3, <4>5, <5>1
          <6> QED
            BY <2>7, <3>2, <4>2, <6>1
        <5>2. CASE i # k + 1
          <6>1. i \in 1..k /\ i - 1 \in 0..k
            BY <1>5, <5>2
          <6>2. m[i - 1] = n[i - 1] /\ out'[i] = out[i]
            BY <4>3, <4>5, <6>1
          <6>3. Encodable(out[i]) /\ FieldAt(input, n[i - 1], codes[out[i]], book[out[i]])
            BY <1>4, <6>1 DEF CodesIn
          <6> QED
            BY <6>2, <6>3
        <5> QED
          BY <5>1, <5>2
      <4>7. CodesIn(input, out, m)'
        <5>1. Spans(m, out', book')
          BY <1>2, <4>1, <4>5
        <5>2. \A i \in 1..Len(out') :
                /\ Encodable(out[i])'
                /\ FieldAt(input', m[i - 1], codes'[out'[i]], book'[out'[i]])
          BY <1>2, <4>3, <4>6 DEF Encodable
        <5> QED
          BY <5>1, <5>2 DEF CodesIn
      <4>8. m[k + 1] = n[k] + l
        BY <3>2, <4>5
      <4>9. m[k + 1] \in Nat /\ m[k + 1] <= Len(input) /\ pos' = m[k + 1] + 0
        <5>1. pos' <= Len(input)
          BY <1>1, <2>1, <2>3
        <5> QED
          BY <1>6, <2>5, <4>8, <5>1
      <4>10. FieldAt(input', m[k + 1], 0, 0)
        <5>1. (1..0) = {} /\ m[k + 1] + 0 = m[k + 1]
          BY <4>9
        <5> QED
          BY <1>2, <4>9, <5>1 DEF FieldAt
      <4>11. FoundSoFar'
        <5>1. /\ len' \in Nat /\ code' \in Nat /\ pos' = m[Len(out')] + len' /\ pos' <= Len(input')
              /\ FieldAt(input', m[Len(out')], code', len')
              /\ Len(out') = want' => len' = 0
          <6>1. pos' <= Len(input')
            BY <1>2, <4>9
          <6> QED
            BY <3>1, <4>3, <4>9, <4>10, <6>1
        <5> QED
          BY <4>7, <5>1 DEF FoundSoFar
      <4> QED
        BY <1>2, <1>3, <4>1, <4>3, <4>11 DEF ForeignInv
    <3> QED
      BY <3>3, <3>4
  <2> QED
    BY <2>8, <2>9
<1> QED
  BY <1>8, <1>9

LEMMA ForeignInvDecoded ==
  ASSUME ForeignInv, ~own, Decoded
  PROVE  ForeignInv'
<1>1. /\ hstep = "decode" /\ Len(out) = want
      /\ hstep' = IF whole => RestIsZero(input, pos) THEN "accepted" ELSE "refused"
      /\ book' = book /\ codes' = codes /\ whole' = whole /\ input' = input /\ out' = out
  BY DEF Decoded, bookVars, decVars
<1>2. input \in Seq(Bit) /\ out \in Seq(Bytes) /\ FoundSoFar
  BY <1>1 DEF ForeignInv
<1>3. PICK n : /\ CodesIn(input, out, n) /\ pos = n[Len(out)] + 0 /\ pos <= Len(input)
  BY <1>1, <1>2 DEF FoundSoFar
<1>4. n[Len(out)] \in Nat
  <2>1. Len(out) \in Nat /\ Len(out) \in 0..Len(out)
    BY <1>2, LenProperties
  <2> QED
    BY <1>3, <2>1 DEF CodesIn, Spans
<1>5. pos = n[Len(out)]
  BY <1>3, <1>4
<1>6. hstep' = "accepted" => FoundAll'
  <2>1. SUFFICES ASSUME hstep' = "accepted" PROVE FoundAll'
    OBVIOUS
  <2>2. whole' => RestIsZero(input', n[Len(out')])
    BY <1>1, <1>5, <2>1
  <2>3. CodesIn(input, out, n)' /\ n[Len(out')] <= Len(input')
    BY <1>1, <1>3, <1>5 DEF CodesIn, Encodable
  <2> QED
    BY <2>2, <2>3 DEF FoundAll
<1>7. hstep' # "decode"
  BY <1>1
<1> QED
  BY <1>1, <1>2, <1>6, <1>7 DEF ForeignInv

LEMMA ForeignInvStep ==
  ASSUME BookInv, TableInv, EncInv, ForeignInv, [HNext]_hvars
  PROVE  ForeignInv'
<1>1. CASE DecodeForeign
  BY <1>1, ForeignInvDecodeForeign
<1>2. CASE ~own /\ (ReadBit \/ Decoded)
  <2>1. CASE ReadBit
    <3>1. Built
      BY <2>1 DEF Built, ReadBit
    <3> QED
      BY <1>2, <2>1, <3>1, ForeignInvReadBit
  <2>2. CASE Decoded
    BY <1>2, <2>2, ForeignInvDecoded
  <2> QED
    BY <1>2, <2>1, <2>2
<1>3. CASE ~own /\ NoCodeMatched
  <2>1. hstep = "decode" /\ hstep' = "refused" /\ input' = input /\ out' = out
    BY <1>3 DEF NoCodeMatched, decVars
  <2> QED
    BY <1>3, <2>1 DEF ForeignInv
<1>4. CASE New \/ AssignCode \/ Assigned \/ EncodeCall \/ Check \/ WriteSymbol \/ Encoded
  <2>1. hstep' \notin {"decode", "accepted", "refused"}
    BY <1>4 DEF New, AssignCode, Assigned, EncodeCall, Check, WriteSymbol, Encoded
  <2> QED
    BY <2>1 DEF ForeignInv
<1>5. CASE DecodeOwn
  <2>1. own'
    BY <1>5 DEF DecodeOwn
  <2> QED
    BY <2>1 DEF ForeignInv
<1>6. CASE own /\ (ReadBit \/ Decoded \/ NoCodeMatched)
  <2>1. own'
    BY <1>6 DEF ReadBit, Decoded, NoCodeMatched, decVars
  <2> QED
    BY <2>1 DEF ForeignInv
<1>7. CASE UNCHANGED hvars \/ Returned
  <2>1. UNCHANGED <<bookVars, whole, encVars, decVars, hstep>>
    BY <1>7 DEF Returned, hvars
  <2>2. /\ own' = own /\ hstep' = hstep /\ input' = input /\ out' = out
    BY <2>1 DEF decVars
  <2>3. (FoundSoFar => FoundSoFar') /\ (FoundAll => FoundAll')
    BY <2>1 DEF bookVars, encVars, decVars, FoundSoFar, FoundAll, CodesIn, Encodable
  <2> QED
    BY <2>2, <2>3 DEF ForeignInv
<1> QED
  BY <1>1, <1>2, <1>3, <1>4, <1>5, <1>6, <1>7 DEF HNext, HStep

LEMMA ForeignAlways == Spec => []ForeignInv
<1>1. HInit => ForeignInv
  BY DEF HInit, ForeignInv
<1>2. BookInv /\ TableInv /\ EncInv /\ ForeignInv /\ [HNext]_hvars => ForeignInv'
  BY ForeignInvStep
<1> QED
  BY <1>1, <1>2, BookAlways, TableAlways, EncAlways, PTL DEF Spec

(* The codes of t, written one behind the other, are what lies in bits.    *)
LEMMA CodesReencode ==
  ASSUME Measured(book), codes \in [Bytes -> Nat],
         NEW bits \in Seq(Bit), NEW t \in Seq(Bytes), NEW n, CodesIn(bits, t, n),
         n[Len(t)] <= Len(bits)
  PROVE  LET again == FlattenSeq([i \in 1..Len(t) |-> CodeOf(t[i])])
         IN  IsPrefix(again, bits) /\ Len(again) = n[Len(t)]
<1> DEFINE K == Len(t)
           seqs == [i \in 1..K |-> CodeOf(t[i])]
           again == FlattenSeq(seqs)
<1>1. K \in Nat /\ \A i \in 1..K : t[i] \in Bytes
  BY LenProperties, ElementOfSeq
<1>2. \A i \in 1..K : codes[t[i]] \in Nat /\ book[t[i]] \in Nat
  BY <1>1 DEF Measured
<1>3. \A i \in 1..K : CodeOf(t[i]) \in Seq(Bit) /\ Len(CodeOf(t[i])) = book[t[i]]
  BY <1>2, NatToBitsType DEF CodeOf
<1> HIDE DEF K
<1>4. seqs \in Seq(Seq(Bit)) /\ Len(seqs) = K /\ \A i \in 1..K : seqs[i] = CodeOf(t[i])
  BY <1>1, <1>3
<1> HIDE DEF seqs
<1>5. again \in Seq(Bit) /\ \E at : LaidOut(at, seqs, again)
  BY <1>4, FlattenLaysOut
<1>6. PICK at : LaidOut(at, seqs, again)
  BY <1>5
<1> HIDE DEF again
<1>7. /\ at[0] = 0 /\ at[K] = Len(again)
      /\ \A i \in 0..(K - 1) :
           /\ at[i + 1] = at[i] + Len(seqs[i + 1])
           /\ \A j \in 1..Len(seqs[i + 1]) : again[at[i] + j] = seqs[i + 1][j]
  BY <1>4, <1>6 DEF LaidOut
<1>8. /\ n[0] = 0 /\ \A i \in 0..K : n[i] \in Nat
      /\ \A i \in 0..(K - 1) : n[i + 1] = n[i] + book[t[i + 1]]
  BY DEF CodesIn, Spans, K
<1> DEFINE A == {i \in 0..K : at[i] = n[i] /\ \A j \in 1..n[i] : bits[j] = again[j]}
<1>9. 0 \in A
  BY <1>1, <1>7, <1>8
<1>10. ASSUME NEW i \in 0..(K - 1), i \in A PROVE i + 1 \in A
  <2> DEFINE s == t[i + 1]
             b == book[s]
  <2>1. i + 1 \in 1..K /\ i + 1 \in 0..K /\ (i + 1) - 1 = i /\ i \in 0..K
    BY <1>1
  <2>2. seqs[i + 1] = NatToBits(codes[s], b) /\ Len(seqs[i + 1]) = b /\ b \in Nat
    BY <1>2, <1>3, <1>4, <2>1 DEF CodeOf
  <2>3. n[i + 1] = n[i] + b /\ n[i] \in Nat /\ at[i + 1] = at[i] + b
    BY <1>7, <1>8, <2>1, <2>2
  <2>4. \A j \in 1..b : again[at[i] + j] = NatToBits(codes[s], b)[j]
    BY <1>7, <2>1, <2>2
  <2>5. FieldAt(bits, n[i], codes[s], b)
    BY <2>1 DEF CodesIn, K
  <2>6. at[i] = n[i] /\ \A j \in 1..n[i] : bits[j] = again[j]
    BY <1>10
  <2> HIDE DEF s, b
  <2>7. ASSUME NEW j \in 1..n[i + 1] PROVE bits[j] = again[j]
    <3>1. CASE j <= n[i]
      BY <2>3, <2>6, <3>1
    <3>2. CASE ~(j <= n[i])
      <4>1. j - n[i] \in 1..b /\ n[i] + (j - n[i]) = j
        <5> DEFINE y == n[i]
                   z == n[i + 1]
        <5>1. y \in Nat /\ b \in Nat /\ z = y + b /\ j \in 1..z /\ ~(j <= y)
          BY <2>2, <2>3, <2>7, <3>2
        <5> HIDE DEF y, z
        <5>2. j - y \in 1..b /\ y + (j - y) = j
          BY <5>1
        <5> QED
          BY <5>2 DEF y
      <4> DEFINE x == j - n[i]
      <4> HIDE DEF x
      <4>2. bits[n[i] + x] = NatToBits(codes[s], b)[x]
        BY <2>5, <4>1 DEF FieldAt, x
      <4>3. again[n[i] + x] = NatToBits(codes[s], b)[x]
        BY <2>4, <2>6, <4>1 DEF x
      <4> QED
        BY <4>1, <4>2, <4>3 DEF x
    <3> QED
      BY <3>1, <3>2
  <2>8. at[i + 1] = n[i + 1]
    BY <2>3, <2>6
  <2> QED
    BY <2>1, <2>7, <2>8
<1> HIDE DEF A
<1>11. \A i \in 0..K : i \in A
  BY <1>1, <1>9, <1>10, UpTo
<1>12. at[K] = n[K] /\ \A j \in 1..n[K] : bits[j] = again[j]
  <2>1. K \in 0..K
    BY <1>1
  <2> QED
    BY <1>11, <2>1 DEF A
<1>13. Len(again) = n[K]
  BY <1>7, <1>12
<1>14. Holds(bits, 0, again)
  <2>1. Len(again) \in Nat /\ 0 + Len(again) <= Len(bits)
    <3>1. Len(again) \in Nat /\ n[K] <= Len(bits)
      BY <1>5, LenProperties DEF K
    <3> QED
      BY <1>13, <3>1
  <2>2. \A j \in 1..Len(again) : 0 + j = j
    OBVIOUS
  <2> QED
    BY <1>12, <1>13, <2>1, <2>2 DEF Holds
<1>15. IsPrefix(again, bits)
  BY <1>5, <1>14, PrefixMeans
<1> QED
  BY <1>13, <1>15 DEF again, seqs, K

(* decode accepts a stream in one spelling only: the codes of the symbols  *)
(* it found, and zeros behind them when it has the stream to itself.       *)
THEOREM OneSpelling == Spec => []DecodedReencodes
<1>1. BookInv /\ ForeignInv => DecodedReencodes
  <2> DEFINE again == FlattenSeq([i \in 1..Len(out) |-> CodeOf(out[i])])
  <2>1. SUFFICES ASSUME BookInv, ForeignInv, hstep = "accepted", ~own
                 PROVE  /\ \A i \in 1..Len(out) : Encodable(out[i])
                        /\ IsPrefix(again, input)
                        /\ whole => RestIsZero(input, Len(again))
    BY DEF DecodedReencodes
  <2>2. input \in Seq(Bit) /\ out \in Seq(Bytes) /\ FoundAll
    BY <2>1 DEF ForeignInv
  <2>3. PICK n : /\ CodesIn(input, out, n) /\ n[Len(out)] <= Len(input)
                 /\ whole => RestIsZero(input, n[Len(out)])
    BY <2>2 DEF FoundAll
  <2>4. Measured(book) /\ codes \in [Bytes -> Nat]
    BY <2>1, BookIsCanonical DEF BookInv
  <2>5. IsPrefix(again, input) /\ Len(again) = n[Len(out)]
    BY <2>2, <2>3, <2>4, CodesReencode
  <2>6. \A i \in 1..Len(out) : Encodable(out[i])
    BY <2>3 DEF CodesIn
  <2> HIDE DEF again
  <2> QED
    BY <2>3, <2>5, <2>6
<1> QED
  BY <1>1, BookAlways, ForeignAlways, PTL

-----------------------------------------------------------------------------
(* Reading bit by bit is reading code by code. *)

(* Of two fields at the same place the shorter one begins the longer one.  *)
LEMMA FieldHead ==
  ASSUME NEW bits, NEW q \in Nat, NEW c \in Nat, NEW l \in Nat, c < Pow2[l],
         NEW v \in Nat, NEW n \in Nat, v < Pow2[n], l <= n,
         FieldAt(bits, q, c, l), FieldAt(bits, q, v, n)
  PROVE  IsPrefix(NatToBits(c, l), NatToBits(v, n)) /\ v \div Pow2[n - l] = c
<1> DEFINE x == NatToBits(c, l)
           y == NatToBits(v, n)
<1>1. x \in Seq(Bit) /\ Len(x) = l /\ y \in Seq(Bit) /\ Len(y) = n
  BY NatToBitsType
<1>2. \A i \in 1..l : y[0 + i] = x[i]
  <2>1. ASSUME NEW i \in 1..l PROVE y[0 + i] = x[i]
    <3>1. i \in 1..n /\ 0 + i = i
      OBVIOUS
    <3> QED
      BY <3>1 DEF FieldAt
  <2> QED
    BY <2>1
<1>3. IsPrefix(x, y)
  <2> HIDE DEF x, y
  <2>1. Holds(y, 0, x)
    BY <1>1, <1>2 DEF Holds
  <2> QED
    BY <1>1, <2>1, PrefixMeans
<1> QED
  BY <1>3, PrefixIsQuotient

(* What is left of the stream. *)
LEMMA RestReads ==
  ASSUME NEW bits \in Seq(Bit), NEW q \in Nat, q <= Len(bits)
  PROVE  LET rest == SubSeq(bits, q + 1, Len(bits))
         IN  /\ rest \in Seq(Bit) /\ Len(rest) = Len(bits) - q
             /\ \A i \in 1..Len(rest) : rest[i] = bits[q + i]
<1> DEFINE rest == SubSeq(bits, q + 1, Len(bits))
<1>1. Len(bits) \in Nat /\ \A i \in 1..Len(bits) : bits[i] \in Bit
  BY LenProperties, ElementOfSeq
<1>2. \A i \in (q + 1)..Len(bits) : bits[i] \in Bit
  BY <1>1
<1>3. q + 1 \in Int /\ Len(bits) \in Int /\ (q + 1) <= Len(bits) + 1
  BY <1>1
<1>4. Len(bits) - (q + 1) + 1 = Len(bits) - q /\ \A i \in Int : (q + 1) + i - 1 = q + i
  BY <1>1
<1>5. CASE q + 1 <= Len(bits)
  BY <1>1, <1>2, <1>3, <1>4, <1>5, SubSeqProperties, SMTT(30)
<1>6. CASE ~(q + 1 <= Len(bits))
  <2>1. q = Len(bits) /\ Len(bits) - q = 0 /\ 1..0 = {}
    BY <1>1, <1>6
  <2> QED
    BY <1>1, <1>2, <1>3, <1>4, <1>6, <2>1, SubSeqProperties, SMTT(30)
<1> QED
  BY <1>5, <1>6

(* What the rest of the stream begins with, bit for bit.                   *)
LEMMA RestBegins ==
  ASSUME NEW bits \in Seq(Bit), NEW q \in Nat, q <= Len(bits),
         NEW v \in Nat, NEW n \in Nat
  PROVE  IsPrefix(NatToBits(v, n), SubSeq(bits, q + 1, Len(bits))) <=> FieldAt(bits, q, v, n)
<1> DEFINE x == NatToBits(v, n)
           rest == SubSeq(bits, q + 1, Len(bits))
<1>1. x \in Seq(Bit) /\ Len(x) = n
  BY NatToBitsType
<1>2. /\ rest \in Seq(Bit) /\ Len(rest) = Len(bits) - q /\ Len(bits) \in Nat
      /\ \A i \in 1..Len(rest) : rest[i] = bits[q + i]
  BY RestReads, LenProperties
<1> HIDE DEF x, rest
<1>3. IsPrefix(x, rest) <=> Holds(rest, 0, x)
  BY <1>1, <1>2, PrefixMeans
<1>4. Holds(rest, 0, x) <=> q + n <= Len(bits) /\ \A i \in 1..n : bits[q + i] = x[i]
  <2>1. 0 + n <= Len(rest) <=> q + n <= Len(bits)
    BY <1>2
  <2>2. ASSUME q + n <= Len(bits), NEW i \in 1..n PROVE rest[0 + i] = bits[q + i]
    <3>1. 0 + i = i /\ i \in 1..Len(rest)
      BY <1>2, <2>2
    <3> QED
      BY <1>2, <3>1
  <2> QED
    BY <1>1, <2>1, <2>2 DEF Holds
<1> QED
  BY <1>3, <1>4 DEF FieldAt, x, rest

(* A code the stream goes on with is the one a match has found.            *)
LEMMA MatchIsTheCode ==
  ASSUME Built, NEW bits, NEW q \in Nat, NEW l \in Lengths, NEW c \in Nat, c < Pow2[l],
         FieldAt(bits, q, c, l), Matches(c, l),
         NEW s \in UsedBytes(book), FieldAt(bits, q, codes[s], book[s])
  PROVE  s = sorted[table[l].index + (c - table[l].first) + 1]
<1> DEFINE t == sorted[table[l].index + (c - table[l].first) + 1]
<1>1. book[t] = l /\ codes[t] = c /\ t \in UsedBytes(book)
  BY MatchMeans
<1> HIDE DEF t
<1>2. /\ codes[s] \in Nat /\ codes[s] < Pow2[book[s]] /\ book[s] \in Nat /\ l \in Nat
      /\ Measured(book) /\ Canonical(codes, book)
  BY BuiltMeans, UsedLengths DEF Canonical, Lengths
<1>3. SUFFICES ASSUME s # t PROVE FALSE
  BY DEF t
<1>4. CASE l <= book[s]
  <2>1. IsPrefix(NatToBits(codes[t], book[t]), NatToBits(codes[s], book[s]))
    BY <1>1, <1>2, <1>4, FieldHead
  <2> QED
    BY <1>1, <1>2, <1>3, <2>1, CanonicalIsPrefixFree
<1>5. CASE book[s] <= l
  <2>1. IsPrefix(NatToBits(codes[s], book[s]), NatToBits(codes[t], book[t]))
    BY <1>1, <1>2, <1>5, FieldHead
  <2> QED
    BY <1>1, <1>2, <1>3, <2>1, CanonicalIsPrefixFree
<1> QED
  BY <1>2, <1>4, <1>5

(* As many bits as a readable code has either are that code and match, or  *)
(* are not that code.                                                      *)
LEMMA ReadableMatches ==
  ASSUME Built, NEW s \in UsedBytes(book), s \notin Unreadable, NEW bits, NEW q \in Nat,
         NEW c \in Nat, c < Pow2[book[s]],
         FieldAt(bits, q, c, book[s]), FieldAt(bits, q, codes[s], book[s])
  PROVE  Matches(c, book[s])
<1>1. codes[s] \in Nat /\ codes[s] < Pow2[book[s]] /\ book[s] \in Nat /\ book[s] <= book[s]
  BY BuiltMeans, UsedLengths DEF Canonical
<1>2. codes[s] \div Pow2[book[s] - book[s]] = c
  BY <1>1, FieldHead
<1>3. book[s] - book[s] = 0 /\ Pow2[0] = 1 /\ codes[s] \div 1 = codes[s]
  BY <1>1, Pow2Def
<1>4. codes[s] = c
  BY <1>2, <1>3
<1> QED
  BY <1>4, WholeCodeMatches

(* A symbol that is not readable is not found: when the longest codes are  *)
(* the end of the code space, the range of their row is empty.             *)
LEMMA FoundIsReadable ==
  ASSUME Built, NEW l \in Lengths, NEW c \in Nat, Matches(c, l)
  PROVE  sorted[table[l].index + (c - table[l].first) + 1] \notin Unreadable
<1> DEFINE s == sorted[table[l].index + (c - table[l].first) + 1]
           K == Len(sorted)
           r == table[l]
           t == sorted[K]
<1>1. book[s] = l /\ s \in UsedBytes(book)
  BY MatchMeans
<1> HIDE DEF s
<1>2. SUFFICES ASSUME s \in Unreadable PROVE FALSE
  BY DEF s
<1>3. l = M /\ KraftSum(book) = Word
  BY <1>1, <1>2 DEF Unreadable, M
<1>4. /\ Measured(book) /\ Listed(sorted, book) /\ KraftSum(book) <= Word
      /\ Chained(codes, sorted, book, K) /\ K \in Nat
  BY BuiltMeans
<1>5. K >= 1 /\ K \in 1..K /\ K \in 0..K /\ K - 1 \in 0..K
  <2>1. PICK i \in 1..K : sorted[i] = s
    BY <1>1, <1>4 DEF Listed
  <2> QED
    BY <1>4, <2>1
<1>6. t \in UsedBytes(book) /\ book[t] = M
  <2>1. PICK i \in 1..K : sorted[i] = s
    BY <1>1, <1>4 DEF Listed
  <2>2. t \in UsedBytes(book) /\ book[s] <= book[t]
    <3>1. t \in UsedBytes(book)
      BY <1>4, <1>5, ListedTwice
    <3>2. CASE i = K
      <4>1. book[s] \in Nat /\ s = t
        BY <1>1, <1>4, <2>1, <3>2, UsedLengths
      <4> QED
        BY <3>1, <4>1
    <3>3. CASE i # K
      <4>1. i < K
        BY <1>5, <2>1, <3>3
      <4> QED
        BY <1>4, <1>5, <2>1, <3>1, <4>1, ListedTwice
    <3> QED
      BY <3>2, <3>3
  <2>3. book[t] \in 1..M
    BY <1>4, <2>2, UsedLengths
  <2> QED
    BY <1>1, <1>3, <2>2, <2>3, HuffmanSizes
<1>7. codes[t] + 1 = Word
  <2>1. PICK taken : Shares(taken, sorted, book) /\ taken[K] = KraftSum(book)
    BY <1>4, SharesAddUp
  <2>2. \A i \in 1..K : codes[sorted[i]] * Pow2[M - book[sorted[i]]] = taken[i - 1]
    BY <1>4, <1>5, <2>1, CodesStartShares
  <2>3. codes[t] * Pow2[M - book[t]] = taken[K - 1] /\ taken[K] = taken[K - 1] + Pow2[M - book[t]]
    BY <1>5, <2>1, <2>2 DEF Shares
  <2>4. M - book[t] = 0 /\ Pow2[0] = 1
    BY <1>6, HuffmanSizes, Pow2Def
  <2>5. codes[t] \in Nat
    BY <1>6, BuiltMeans DEF Canonical
  <2>6. codes[t] * 1 = codes[t]
    BY <2>5
  <2> QED
    BY <1>3, <2>1, <2>3, <2>4, <2>6
<1>8. K \in (r.index + 1)..(r.index + r.count) /\ r.index + r.count <= K
  BY <1>3, <1>5, <1>6, BuiltMeans DEF Rows
<1>9. r.first \in Nat /\ r.index \in Nat /\ r.count \in Nat
  BY BuiltMeans
<1>10. r.count - 1 \in 0..(r.count - 1) /\ r.index + 1 + (r.count - 1) = K
  <2> HIDE DEF r, K
  <2> QED
    BY <1>4, <1>8, <1>9
<1>11. codes[t] = r.first + (r.count - 1)
  BY <1>10, RowsSpell
<1>12. r.first + r.count = Word
  <2> HIDE DEF r, t
  <2> QED
    BY <1>7, <1>9, <1>11
<1>13. (r.first + r.count) % Word = 0
  BY <1>12, HuffmanSizes
<1> QED
  BY <1>13 DEF Matches

(* Since the last symbol the decoder has read the bits of `code`, and no   *)
(* readable code ends within them.                                         *)
ReadInv ==
  hstep = "decode" =>
    /\ input \in Seq(Bit) /\ len \in Nat /\ pos - len \in Nat /\ pos \in 0..Len(input)
    /\ code \in Nat /\ code < Pow2[len] /\ FieldAt(input, pos - len, code, len)
    /\ Len(out) = want => len = 0
    /\ \A s \in Readable : book[s] <= len => ~FieldAt(input, pos - len, codes[s], book[s])

LEMMA ReadableMeans ==
  ASSUME Built, NEW s \in Readable
  PROVE  /\ s \in UsedBytes(book) /\ s \notin Unreadable /\ s \in Base85
         /\ codes[s] \in Nat /\ codes[s] < Pow2[book[s]]
         /\ book[s] \in 1..M /\ book[s] \in Nat /\ book[s] \in Lengths
<1>1. s \in UsedBytes(book) /\ s \notin Unreadable /\ s \in Base85
  BY DEF Readable
<1>2. codes[s] \in Nat /\ codes[s] < Pow2[book[s]] /\ book[s] \in 1..M
  BY <1>1, BuiltMeans, UsedLengths DEF Canonical
<1> QED
  BY <1>1, <1>2, HuffmanSizes DEF Lengths, M

(* At the beginning of a code nothing has been read. *)
LEMMA AtItsBeginning ==
  ASSUME Built, Readable' = Readable, book' = book, codes' = codes, input' \in Seq(Bit),
         pos' \in 0..Len(input'), len' = 0, code' = 0
  PROVE  ReadInv'
<1>1. pos' - len' = pos' /\ pos' \in Nat /\ Len(input') \in Nat /\ pos' <= Len(input')
  <2> DEFINE x == input'
             p == pos'
  <2>1. x \in Seq(Bit) /\ p \in 0..Len(x)
    OBVIOUS
  <2> HIDE DEF x, p
  <2>2. Len(x) \in Nat
    BY <2>1, LenProperties
  <2>3. p \in Nat /\ p <= Len(x) /\ p - 0 = p
    BY <2>1, <2>2
  <2> QED
    BY <2>2, <2>3 DEF x, p
<1>2. FieldAt(input', pos', 0, 0)
  <2>1. pos' + 0 <= Len(input')
    BY <1>1
  <2>2. 1..0 = {}
    OBVIOUS
  <2> QED
    BY <2>1, <2>2 DEF FieldAt
<1>3. Pow2[0] = 1
  BY Pow2Def
<1>4. ASSUME NEW s \in Readable PROVE ~(book[s] <= 0)
  BY ReadableMeans
<1> QED
  BY <1>1, <1>2, <1>3, <1>4 DEF ReadInv

LEMMA ReadInvDecodes ==
  ASSUME Built, EncInv, DecodeOwn \/ DecodeForeign
  PROVE  ReadInv'
<1>1. /\ len' = 0 /\ code' = 0 /\ book' = book /\ codes' = codes
      /\ input' \in Seq(Bit) /\ pos' \in 0..Len(input')
  <2>1. CASE DecodeForeign
    <3>1. input' \in ForeignStreams /\ pos' = 0 /\ len' = 0 /\ code' = 0 /\ UNCHANGED bookVars
      BY <2>1 DEF DecodeForeign, DecodeCall
    <3>2. input' \in Seq(Bit)
      BY <3>1, CodecInputs
    <3>3. Len(input') \in Nat
      BY <3>2, LenProperties
    <3> QED
      BY <3>1, <3>2, <3>3 DEF bookVars
  <2>2. CASE DecodeOwn
    <3> DEFINE t == IntoBytes([ok |-> TRUE, bits |-> stream])
    <3>1. /\ hstep = "encoded" /\ input' = t /\ pos' = Len(head) /\ len' = 0 /\ code' = 0
          /\ UNCHANGED bookVars
      BY <2>2 DEF DecodeOwn, DecodeCall
    <3>2. /\ text \in Seq(Bytes) /\ head \in Seq(Bit) /\ stream \in Seq(Bit)
          /\ written = Len(text) /\ Writing
      BY <3>1 DEF EncInv
    <3>3. t \in Seq(Bit) /\ Extends(t, stream)
      BY <3>2, IntoBytesPads
    <3> HIDE DEF t
    <3>4. Len(head) <= Len(stream)
      <4>1. PICK n : Spans(n, text, book) /\ Len(stream) = Len(head) + n[Len(text)]
        BY <3>2 DEF Writing, Wrote
      <4>2. Len(text) \in Nat /\ Len(head) \in Nat
        BY <3>2, LenProperties
      <4>3. n[Len(text)] \in Nat
        BY <4>1, <4>2 DEF Spans
      <4> QED
        BY <4>1, <4>2, <4>3
    <3>5. Len(head) \in Nat /\ Len(stream) \in Nat /\ Len(t) \in Nat
      BY <3>2, <3>3, LenProperties
    <3> QED
      BY <3>1, <3>3, <3>4, <3>5 DEF bookVars, Extends
  <2> QED
    BY <2>1, <2>2
<1>2. Readable' = Readable
  BY <1>1 DEF Readable, Unreadable
<1> QED
  BY <1>1, <1>2, AtItsBeginning

(* What one more bit does to `code`.                                       *)
LEMMA OneMoreRead ==
  ASSUME Built, ReadInv, hstep = "decode", len < MaxLen
  PROVE  LET rd == ReadBits(input, ReaderAt(pos), 1)
             c  == 2 * code + rd.val
             l  == len + 1
         IN  /\ rd.ok => /\ rd.pos = pos + 1 /\ pos + 1 <= Len(input)
                         /\ l \in Lengths /\ l \in Nat /\ (pos + 1) - l = pos - len
                         /\ c \in Nat /\ c < Pow2[l] /\ FieldAt(input, pos - len, c, l)
             /\ ~rd.ok => rd.pos = pos /\ pos = Len(input)
<1> DEFINE rd == ReadBits(input, ReaderAt(pos), 1)
           c  == 2 * code + rd.val
           l  == len + 1
           q  == pos - len
<1>1. /\ input \in Seq(Bit) /\ len \in Nat /\ q \in Nat /\ pos \in Nat /\ pos <= Len(input)
      /\ code \in Nat /\ code < Pow2[len] /\ FieldAt(input, q, code, len)
      /\ Len(input) \in Nat /\ pos + 1 = q + len + 1
  <2>1. input \in Seq(Bit)
    BY DEF ReadInv
  <2>2. Len(input) \in Nat
    BY <2>1, LenProperties
  <2> QED
    BY <2>1, <2>2 DEF ReadInv
<1> HIDE DEF q
<1>2. l \in Lengths /\ l \in Nat
  <2>1. MaxLen \in Nat /\ MaxLen <= M
    BY BuiltMeans, MaxLenBounds
  <2> QED
    BY <1>1, <2>1, HuffmanSizes DEF Lengths, M
<1>3. CASE rd.ok
  <2>1. pos + 1 <= Len(input)
    BY <1>1, <1>3, ReadOneBit
  <2>2. rd = [ok |-> TRUE, pos |-> pos + 1, val |-> input[pos + 1]] /\ input[pos + 1] \in 0..1
    BY <1>1, <2>1, ReadOneBit
  <2>3. rd.pos = pos + 1 /\ rd.val = input[pos + 1] /\ rd.val \in 0..1
    BY <2>2
  <2> HIDE DEF rd
  <2>4. FieldAt(input, q, c, len + 1)
    BY <1>1, <2>1, <2>3, FieldGrows
  <2>5. Pow2[l] = 2 * Pow2[len] /\ Pow2[len] \in Nat
    BY <1>1, Pow2Def
  <2>6. c \in Nat /\ c < 2 * Pow2[len]
    <3> DEFINE y == Pow2[len]
    <3>1. y \in Nat /\ code < y
      BY <1>1, <2>5
    <3> HIDE DEF y
    <3>2. c \in Nat /\ c < 2 * y
      BY <1>1, <2>3, <3>1
    <3> QED
      BY <3>2 DEF y
  <2>7. (pos + 1) - l = q
    BY <1>1
  <2> QED
    BY <1>2, <1>3, <2>1, <2>3, <2>4, <2>5, <2>6, <2>7 DEF q, rd
<1>4. CASE ~rd.ok
  <2>1. ~(pos + 1 <= Len(input))
    <3>1. SUFFICES ASSUME pos + 1 <= Len(input) PROVE FALSE
      OBVIOUS
    <3>2. rd = [ok |-> TRUE, pos |-> pos + 1, val |-> input[pos + 1]]
      BY <1>1, <3>1, ReadOneBit
    <3>3. rd.ok
      BY <3>2
    <3> QED
      BY <1>4, <3>3
  <2>2. rd.pos = pos
    BY <1>1, <2>1, ReadOneBit
  <2> QED
    BY <1>1, <1>4, <2>1, <2>2
<1> QED
  BY <1>3, <1>4 DEF q

LEMMA ReadInvReadBit ==
  ASSUME Built, ReadInv, ReadBit
  PROVE  ReadInv'
<1> DEFINE rd == ReadBits(input, ReaderAt(pos), 1)
           c  == 2 * code + rd.val
           l  == len + 1
<1>1. /\ hstep = "decode" /\ Len(out) < want /\ len < MaxLen /\ pos' = rd.pos
      /\ rd.ok \/ hstep' = "refused"
      /\ rd.ok /\ ~Matches(c, l) => len' = l /\ code' = c /\ out' = out
      /\ rd.ok /\ Matches(c, l) => len' = 0 /\ code' = 0
      /\ UNCHANGED bookVars /\ input' = input /\ want' = want
  BY DEF ReadBit
<1>2. book' = book /\ codes' = codes /\ Readable' = Readable
  BY <1>1 DEF bookVars, Readable, Unreadable
<1>3. SUFFICES ASSUME rd.ok PROVE ReadInv'
  BY <1>1 DEF ReadInv
<1>4. /\ rd.pos = pos + 1 /\ pos + 1 <= Len(input)
      /\ l \in Lengths /\ l \in Nat /\ (pos + 1) - l = pos - len
      /\ c \in Nat /\ c < Pow2[l] /\ FieldAt(input, pos - len, c, l)
  BY <1>1, <1>3, OneMoreRead
<1>5. /\ input \in Seq(Bit) /\ len \in Nat /\ pos - len \in Nat /\ pos \in Nat
      /\ pos + 1 \in 0..Len(input)
  <2>1. input \in Seq(Bit) /\ len \in Nat /\ pos - len \in Nat /\ pos \in 0..Len(input)
    BY <1>1 DEF ReadInv
  <2>2. Len(input) \in Nat
    BY <2>1, LenProperties
  <2> QED
    BY <1>4, <2>1, <2>2
<1> HIDE DEF rd, c
<1>6. CASE Matches(c, l)
  BY <1>1, <1>2, <1>3, <1>4, <1>5, <1>6, AtItsBeginning
<1>7. CASE ~Matches(c, l)
  <2>1. len' = l /\ code' = c /\ out' = out /\ pos' = pos + 1 /\ pos' - len' = pos - len
    BY <1>1, <1>3, <1>4, <1>7
  <2>2. Len(out') # want'
    BY <1>1, <2>1
  <2>3. ASSUME NEW s \in Readable, book[s] <= l, FieldAt(input, pos - len, codes[s], book[s])
        PROVE  FALSE
    <3>1. /\ s \in UsedBytes(book) /\ s \notin Unreadable /\ book[s] \in Nat
          /\ ~(book[s] <= len)
      BY <1>1, <2>3, ReadableMeans DEF ReadInv
    <3>2. book[s] = l
      BY <1>5, <2>3, <3>1
    <3>3. Matches(c, book[s])
      BY <1>4, <1>5, <2>3, <3>1, <3>2, ReadableMatches
    <3> QED
      BY <1>7, <3>2, <3>3
  <2>4. /\ input' \in Seq(Bit) /\ len' \in Nat /\ pos' - len' \in Nat /\ pos' \in 0..Len(input')
        /\ code' \in Nat /\ code' < Pow2[len'] /\ FieldAt(input', pos' - len', code', len')
    BY <1>1, <1>4, <1>5, <2>1
  <2>5. \A s \in Readable' :
          book'[s] <= len' => ~FieldAt(input', pos' - len', codes'[s], book'[s])
    BY <1>1, <1>2, <2>1, <2>3
  <2> QED
    BY <2>2, <2>4, <2>5 DEF ReadInv
<1> QED
  BY <1>6, <1>7

LEMMA ReadInvStep ==
  ASSUME BookInv, TableInv, EncInv, ReadInv, [HNext]_hvars
  PROVE  ReadInv'
<1>1. CASE ReadBit
  <2>1. Built
    BY <1>1 DEF Built, ReadBit
  <2> QED
    BY <1>1, <2>1, ReadInvReadBit
<1>2. CASE DecodeOwn \/ DecodeForeign
  <2>1. Built
    BY <1>2 DEF Built, DecodeOwn, DecodeForeign
  <2> QED
    BY <1>2, <2>1, ReadInvDecodes
<1>3. CASE \/ New \/ AssignCode \/ Assigned \/ EncodeCall \/ Check \/ WriteSymbol \/ Encoded
           \/ Decoded \/ NoCodeMatched
  <2>1. hstep' # "decode"
    BY <1>3 DEF New, AssignCode, Assigned, EncodeCall, Check, WriteSymbol, Encoded, Decoded,
                NoCodeMatched
  <2> QED
    BY <2>1 DEF ReadInv
<1>4. CASE UNCHANGED hvars \/ Returned
  <2>1. UNCHANGED <<bookVars, whole, encVars, decVars, hstep>>
    BY <1>4 DEF Returned, hvars
  <2> QED
    BY <2>1 DEF bookVars, decVars, ReadInv, Readable, Unreadable
<1> QED
  BY <1>1, <1>2, <1>3, <1>4 DEF HNext, HStep

LEMMA ReadAlways == Spec => []ReadInv
<1>1. HInit => ReadInv
  BY DEF HInit, ReadInv
<1>2. BookInv /\ TableInv /\ EncInv /\ ReadInv /\ [HNext]_hvars => ReadInv'
  BY ReadInvStep
<1> QED
  BY <1>1, <1>2, BookAlways, TableAlways, EncAlways, PTL DEF Spec

LEMMA SamePrefix ==
  ASSUME NEW x, NEW y
  PROVE  Reader!IsPrefix(x, y) <=> IsPrefix(x, y)
BY DEF IsPrefix, Reader!IsPrefix

LEMMA ReaderIdles ==
  ASSUME ReadPhase = "idle", ReadPhase' = "idle", out' = out
  PROVE  UNCHANGED Reader!seen
BY DEF Reader!seen, ReadableCodes, ReadPhase

LEMMA ReaderReadsBit ==
  ASSUME Built, ReadInv, ReadBit
  PROVE  [Reader!SpecNext]_(Reader!seen)
<1> DEFINE rd == ReadBits(input, ReaderAt(pos), 1)
           c  == 2 * code + rd.val
           l  == len + 1
           q  == pos - len
           sym == sorted[table[l].index + (c - table[l].first) + 1]
<1>1. /\ hstep = "decode" /\ Len(out) < want /\ len < MaxLen /\ pos' = rd.pos
      /\ IF ~rd.ok THEN hstep' = "refused" /\ UNCHANGED <<len, code, out>>
         ELSE IF ~Matches(c, l)
         THEN len' = l /\ code' = c /\ UNCHANGED <<out, hstep>>
         ELSE /\ len' = 0 /\ code' = 0
              /\ IF sym \in Base85 THEN out' = Append(out, sym) /\ UNCHANGED hstep
                 ELSE hstep' = "refused" /\ UNCHANGED out
      /\ UNCHANGED bookVars /\ whole' = whole /\ input' = input /\ want' = want
  BY DEF ReadBit
<1>2. book' = book /\ codes' = codes /\ Readable' = Readable
  BY <1>1 DEF bookVars, Readable, Unreadable
<1>3. input \in Seq(Bit) /\ q \in Nat /\ q <= Len(input) /\ len \in Nat /\ pos \in Nat
  <2>1. input \in Seq(Bit) /\ len \in Nat /\ q \in Nat /\ pos \in 0..Len(input)
    BY <1>1 DEF ReadInv
  <2>2. Len(input) \in Nat
    BY <2>1, LenProperties
  <2> QED
    BY <2>1, <2>2
<1>4. rd.ok => /\ rd.pos = pos + 1 /\ l \in Lengths /\ l \in Nat /\ (pos + 1) - 0 = q + l
               /\ c \in Nat /\ c < Pow2[l] /\ FieldAt(input, q, c, l)
  <2>1. rd.ok => /\ rd.pos = pos + 1 /\ l \in Lengths /\ l \in Nat
                 /\ c \in Nat /\ c < Pow2[l] /\ FieldAt(input, q, c, l)
    BY <1>1, OneMoreRead
  <2> QED
    BY <1>3, <2>1
<1>5. ~rd.ok => pos = Len(input)
  BY <1>1, OneMoreRead
<1>6. /\ ReadPhase = "decode" /\ ReadableCodes = [s \in Readable |-> CodeOf(s)]
      /\ ReadPhase' = hstep' /\ ReadableCodes' = ReadableCodes
  BY <1>1, <1>2 DEF ReadPhase, ReadableCodes, CodeOf
<1>7. ASSUME NEW s \in Readable
      PROVE  /\ ReadableCodes[s] = NatToBits(codes[s], book[s])
             /\ IsPrefix(ReadableCodes[s], SubSeq(input, q + 1, Len(input)))
                <=> FieldAt(input, q, codes[s], book[s])
  <2>1. ReadableCodes[s] = NatToBits(codes[s], book[s])
    BY <1>6 DEF CodeOf
  <2>2. codes[s] \in Nat /\ book[s] \in Nat
    BY ReadableMeans
  <2> HIDE DEF q
  <2> QED
    BY <1>3, <2>1, <2>2, RestBegins
<1>8. ASSUME \A s \in Readable : ~FieldAt(input, q, codes[s], book[s]),
             hstep' = "refused", out' = out
      PROVE  Reader!SpecNext
  <2>1. DOMAIN ReadableCodes = Readable
    BY <1>6
  <2>2. Reader!NoSymbol
    BY <1>1, <1>6, <1>7, <1>8, <2>1, SamePrefix DEF Reader!NoSymbol, Reader!Rest
  <2> QED
    BY <2>2 DEF Reader!SpecNext
<1>9. \A s \in Readable : book[s] <= len => ~FieldAt(input, q, codes[s], book[s])
  BY <1>1 DEF ReadInv
<1> HIDE DEF rd, c
<1>10. CASE ~rd.ok
  <2>1. ASSUME NEW s \in Readable PROVE ~FieldAt(input, q, codes[s], book[s])
    <3>1. CASE book[s] <= len
      BY <1>9, <3>1
    <3>2. CASE ~(book[s] <= len)
      <4>1. book[s] \in Nat
        BY ReadableMeans
      <4>2. ~(q + book[s] <= Len(input))
        BY <1>3, <1>5, <1>10, <3>2, <4>1
      <4> QED
        BY <4>2 DEF FieldAt
    <3> QED
      BY <3>1, <3>2
  <2> QED
    BY <1>1, <1>8, <1>10, <2>1
<1>11. CASE rd.ok /\ ~Matches(c, l)
  <2>1. /\ out' = out /\ hstep' = hstep /\ len' = len + 1 /\ pos' = pos + 1
        /\ input' = input /\ want' = want /\ whole' = whole
    BY <1>1, <1>4, <1>11 DEF l
  <2>2. pos' - len' = pos - len
    BY <1>3, <2>1
  <2> HIDE DEF q
  <2> QED
    BY <1>1, <1>6, <2>1, <2>2 DEF Reader!seen
<1>12. CASE rd.ok /\ Matches(c, l)
  <2>1. /\ book[sym] = l /\ codes[sym] = c /\ sym \in UsedBytes(book)
        /\ sym \notin Unreadable
    BY <1>4, <1>12, MatchMeans, FoundIsReadable
  <2>2. ASSUME NEW s \in Readable, FieldAt(input, q, codes[s], book[s]) PROVE s = sym
    <3>1. s \in UsedBytes(book)
      BY ReadableMeans
    <3> HIDE DEF q, l
    <3> QED
      BY <1>3, <1>4, <1>12, <2>2, <3>1, MatchIsTheCode
  <2> HIDE DEF sym
  <2>3. CASE sym \notin Base85
    <3>1. hstep' = "refused" /\ out' = out
      BY <1>1, <1>12, <2>3 DEF sym
    <3>2. \A s \in Readable : s # sym
      BY <2>3, ReadableMeans
    <3> QED
      BY <1>8, <2>2, <3>1, <3>2
  <2>4. CASE sym \in Base85
    <3>1. /\ out' = Append(out, sym) /\ hstep' = hstep /\ len' = 0 /\ pos' = pos + 1
      BY <1>1, <1>4, <1>12, <2>4 DEF sym
    <3>2. sym \in Readable
      BY <2>1, <2>4 DEF Readable
    <3>3. ReadableCodes[sym] = NatToBits(c, l)
      BY <1>7, <2>1, <3>2
    <3>4. Len(ReadableCodes[sym]) = l
      <4> HIDE DEF l
      <4> QED
        BY <1>4, <1>12, <3>3, NatToBitsType
    <3>5. IsPrefix(ReadableCodes[sym], SubSeq(input, q + 1, Len(input)))
      BY <1>4, <1>7, <1>12, <2>1, <3>2
    <3>6. pos' - len' = q + Len(ReadableCodes[sym])
      BY <1>4, <1>12, <3>1, <3>4
    <3>7. Reader!ReadSymbol(sym)
      BY <1>1, <1>6, <3>1, <3>5, <3>6, SamePrefix DEF Reader!ReadSymbol, Reader!Rest
    <3>8. sym \in DOMAIN ReadableCodes
      BY <1>6, <3>2
    <3> QED
      BY <3>7, <3>8 DEF Reader!SpecNext
  <2> QED
    BY <2>3, <2>4
<1> QED
  BY <1>10, <1>11, <1>12

LEMMA ReaderEnds ==
  ASSUME Built, ReadInv, NoCodeMatched \/ Decoded
  PROVE  Reader!SpecNext
<1>1. /\ hstep = "decode" /\ UNCHANGED <<bookVars, whole, encVars, decVars>>
      /\ hstep' \in {"accepted", "refused"}
  BY DEF NoCodeMatched, Decoded
<1>2. /\ book' = book /\ codes' = codes /\ input' = input /\ want' = want /\ whole' = whole
      /\ out' = out /\ pos' = pos /\ len' = len
  BY <1>1 DEF bookVars, decVars
<1>3. /\ ReadPhase = "decode" /\ ReadableCodes = [s \in Readable |-> CodeOf(s)]
      /\ ReadPhase' = hstep' /\ ReadableCodes' = ReadableCodes
  BY <1>1, <1>2 DEF ReadPhase, ReadableCodes, CodeOf, Readable, Unreadable
<1>4. /\ input \in Seq(Bit) /\ len \in Nat /\ pos - len \in Nat /\ pos - len <= Len(input)
      /\ pos \in Nat /\ pos <= Len(input) /\ Len(input) \in Nat
  <2>1. input \in Seq(Bit) /\ len \in Nat /\ pos - len \in Nat /\ pos \in 0..Len(input)
    BY <1>1 DEF ReadInv
  <2>2. Len(input) \in Nat
    BY <2>1, LenProperties
  <2> QED
    BY <2>1, <2>2
<1>5. CASE NoCodeMatched
  <2>1. Len(out) < want /\ len = MaxLen /\ hstep' = "refused"
    BY <1>5 DEF NoCodeMatched
  <2>2. ASSUME NEW s \in DOMAIN ReadableCodes
        PROVE  ~IsPrefix(ReadableCodes[s], SubSeq(input, (pos - len) + 1, Len(input)))
    <3>1. s \in Readable /\ ReadableCodes[s] = NatToBits(codes[s], book[s])
      BY <1>3 DEF CodeOf
    <3>2. codes[s] \in Nat /\ book[s] \in Nat /\ s \in Bytes
      BY <3>1, ReadableMeans DEF UsedBytes
    <3>3. book[s] <= len
      BY <2>1, <3>2, BuiltMeans, MaxLenBounds
    <3>4. ~FieldAt(input, pos - len, codes[s], book[s])
      BY <1>1, <3>1, <3>3 DEF ReadInv
    <3> DEFINE q == pos - len
    <3>5. q \in Nat /\ q <= Len(input) /\ ~FieldAt(input, q, codes[s], book[s])
      BY <1>4, <3>4
    <3> HIDE DEF q
    <3>6. ~IsPrefix(NatToBits(codes[s], book[s]), SubSeq(input, q + 1, Len(input)))
      BY <1>4, <3>2, <3>5, RestBegins
    <3> QED
      BY <3>1, <3>6 DEF q
  <2>3. Reader!NoSymbol
    BY <1>2, <1>3, <2>1, <2>2, SamePrefix DEF Reader!NoSymbol, Reader!Rest
  <2> QED
    BY <2>3 DEF Reader!SpecNext
<1>6. CASE Decoded
  <2>1. /\ Len(out) = want
        /\ hstep' = IF whole => RestIsZero(input, pos) THEN "accepted" ELSE "refused"
    BY <1>6 DEF Decoded
  <2>2. len = 0 /\ pos - len = pos
    BY <1>1, <1>4, <2>1 DEF ReadInv
  <2> DEFINE rest == SubSeq(input, pos + 1, Len(input))
  <2>3. RestIsZero(input, pos) <=> \A i \in 1..Len(rest) : rest[i] = 0
    <3>1. Len(rest) = Len(input) - pos /\ \A i \in 1..Len(rest) : rest[i] = input[pos + i]
      BY <1>4, RestReads
    <3> HIDE DEF rest
    <3>2. ASSUME RestIsZero(input, pos), NEW i \in 1..Len(rest) PROVE rest[i] = 0
      <4>1. pos + i \in (pos + 1)..Len(input)
        BY <1>4, <3>1
      <4> QED
        BY <3>1, <3>2, <4>1 DEF RestIsZero
    <3>3. ASSUME \A i \in 1..Len(rest) : rest[i] = 0, NEW i \in (pos + 1)..Len(input)
          PROVE  input[i] = 0
      <4>1. i - pos \in 1..Len(rest) /\ pos + (i - pos) = i
        BY <1>4, <3>1
      <4> QED
        BY <3>1, <3>3, <4>1
    <3> QED
      BY <3>2, <3>3 DEF RestIsZero
  <2>4. Reader!Rest = rest
    BY <2>2 DEF Reader!Rest
  <2> HIDE DEF rest
  <2>5. ReadPhase' = IF whole => \A i \in 1..Len(Reader!Rest) : Reader!Rest[i] = 0
                     THEN "accepted" ELSE "refused"
    BY <1>3, <2>1, <2>3, <2>4
  <2>6. UNCHANGED <<input, ReadableCodes, want, whole, out, pos - len>>
    BY <1>2, <1>3
  <2>7. Reader!Finish
    BY <1>3, <2>1, <2>5, <2>6 DEF Reader!Finish
  <2> QED
    BY <2>7 DEF Reader!SpecNext
<1> QED
  BY <1>5, <1>6

LEMMA ReaderSteps ==
  ASSUME BookInv, TableInv, ReadInv, [HNext]_hvars
  PROVE  [Reader!SpecNext]_(Reader!seen)
<1>1. CASE ReadBit
  <2>1. Built
    BY <1>1 DEF Built, ReadBit
  <2> QED
    BY <1>1, <2>1, ReaderReadsBit
<1>2. CASE NoCodeMatched \/ Decoded
  <2>1. Built
    BY <1>2 DEF Built, NoCodeMatched, Decoded
  <2> QED
    BY <1>2, <2>1, ReaderEnds
<1>3. CASE DecodeOwn \/ DecodeForeign
  <2>1. hstep \in {"encoded", "ready"} /\ hstep' = "decode" /\ out' = <<>>
    BY <1>3 DEF DecodeOwn, DecodeForeign, DecodeCall
  <2>2. Reader!Begin
    BY <2>1 DEF Reader!Begin, ReadPhase
  <2> QED
    BY <2>2 DEF Reader!SpecNext
<1>4. CASE New \/ AssignCode \/ Assigned \/ EncodeCall \/ Check \/ WriteSymbol \/ Encoded
  <2>1. /\ hstep \notin {"decode", "accepted", "refused"}
        /\ hstep' \notin {"decode", "accepted", "refused"} /\ out' = out
    BY <1>4 DEF New, AssignCode, Assigned, EncodeCall, Check, WriteSymbol, Encoded, decVars
  <2> QED
    BY <2>1, ReaderIdles DEF ReadPhase
<1>5. CASE UNCHANGED hvars \/ Returned
  <2>1. UNCHANGED <<bookVars, whole, encVars, decVars, hstep>>
    BY <1>5 DEF Returned, hvars
  <2> QED
    BY <2>1 DEF bookVars, decVars, Reader!seen, ReadPhase, ReadableCodes, Readable, Unreadable,
                CodeOf
<1> QED
  BY <1>1, <1>2, <1>3, <1>4, <1>5 DEF HNext, HStep

(* Matching ranges of codes per length, bit by bit, does what a decoder    *)
(* promises: every step reads on within a code, or reads the one readable  *)
(* symbol the stream goes on with, or refuses for the want of one.         *)
THEOREM DecodesByPrefix == Spec => Reader!SpecSteps
<1>1. HInit => Reader!SpecInit
  BY DEF HInit, Reader!SpecInit, ReadPhase
<1>2. BookInv /\ TableInv /\ ReadInv /\ [HNext]_hvars => [Reader!SpecNext]_(Reader!seen)
  BY ReaderSteps
<1> QED
  BY <1>1, <1>2, BookAlways, TableAlways, ReadAlways, PTL DEF Spec, Reader!SpecSteps
=============================================================================
