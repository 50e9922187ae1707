---------------------------- MODULE NaturalSets ----------------------------
(***************************************************************************)
(* Least elements and induction, for sets of natural numbers; that         *)
(* functions defined by recursion exist; powers of two, and division by    *)
(* them.                                                                   *)
(***************************************************************************)
EXTENDS Powers, FiniteSets, TLAPS, WellFoundedInduction, FiniteSetTheorems

(* Induction over a set of naturals, from its least counterexample. *)

LEMMA LeastElement ==
  ASSUME NEW T \in SUBSET Nat, T # {}
  PROVE  \E m \in T : \A n \in T : ~(n < m)
<1>1. PICK x \in T : ~(\E y \in T : <<y, x>> \in OpToRel(<, Nat))
  BY NatLessThanWellFounded, WFMin, Zenon
<1> QED
  BY <1>1, Zenon DEF OpToRel

LEMMA NatSetInduction ==
  ASSUME NEW T \in SUBSET Nat, 0 \in T, \A n \in T : n + 1 \in T
  PROVE  T = Nat
<1>1. SUFFICES ASSUME Nat \ T # {} PROVE FALSE
  OBVIOUS
<1>2. PICK m \in Nat \ T : \A n \in Nat \ T : ~(n < m)
  BY <1>1, LeastElement
<1>3. m - 1 \in T
  BY <1>2
<1> QED
  BY <1>2, <1>3

(* The same up to N. *)
LEMMA UpTo ==
  ASSUME NEW N \in Nat, NEW T, 0 \in T, \A n \in 0..(N - 1) : n \in T => n + 1 \in T
  PROVE  \A n \in 0..N : n \in T
<1> DEFINE U == {n \in Nat : n <= N => n \in T}
<1>1. 0 \in U
  OBVIOUS
<1>2. ASSUME NEW n \in U PROVE n + 1 \in U
  <2>1. CASE n + 1 <= N
    <3>1. n \in 0..(N - 1) /\ n \in T
      BY <2>1
    <3> QED
      BY <3>1
  <2> QED
    BY <2>1
<1>3. U \in SUBSET Nat
  OBVIOUS
<1> HIDE DEF U
<1>4. U = Nat
  BY <1>1, <1>2, <1>3, NatSetInduction
<1>5. ASSUME NEW n \in 0..N PROVE n \in T
  <2>1. n \in U
    BY <1>4
  <2> QED
    BY <2>1 DEF U
<1> QED
  BY <1>5

(* A bounded set of naturals has a greatest element. *)
LEMMA GreatestElement ==
  ASSUME NEW S \in SUBSET Nat, S # {}, NEW bound \in Nat, \A x \in S : x <= bound
  PROVE  \E x \in S : \A y \in S : x >= y
<1> DEFINE above == {m \in Nat : \A x \in S : x <= m}
<1>1. above \in SUBSET Nat /\ above # {}
  OBVIOUS
<1>2. PICK m \in above : \A n \in above : ~(n < m)
  <2> HIDE DEF above
  <2> QED
    BY <1>1, LeastElement
<1>3. CASE m \in S
  BY <1>2, <1>3
<1>4. CASE m \notin S
  <2>1. \A x \in S : x <= m - 1
    BY <1>2, <1>4
  <2>2. m - 1 \in Nat
    <3>1. PICK x : x \in S
      OBVIOUS
    <3>2. x \in Nat /\ x <= m - 1
      BY <2>1, <3>1
    <3> QED
      BY <1>2, <3>2
  <2>3. m - 1 \in above
    BY <2>1, <2>2
  <2> QED
    BY <1>2, <2>3
<1> QED
  BY <1>3, <1>4

-----------------------------------------------------------------------------
(* f[0] is given and f[i] is made of f[i - 1] and i. *)
Unfolds(f, N, base, step) ==
  f = [i \in 0..N |-> IF i = 0 THEN base ELSE step[i][f[i - 1]]]

LEMMA UnfoldsValues ==
  ASSUME NEW N \in Nat, NEW base, NEW step, NEW f, Unfolds(f, N, base, step)
  PROVE  /\ DOMAIN f = 0..N
         /\ f[0] = base
         /\ \A i \in 1..N : f[i] = step[i][f[i - 1]]
         /\ \A i \in 0..(N - 1) : f[i + 1] = step[i + 1][f[i]]
<1>1. DOMAIN f = 0..N
  BY DEF Unfolds
<1>2. f[0] = base
  BY DEF Unfolds
<1>3. ASSUME NEW i \in 1..N PROVE f[i] = step[i][f[i - 1]]
  BY DEF Unfolds
<1>4. ASSUME NEW i \in 0..(N - 1) PROVE f[i + 1] = step[i + 1][f[i]]
  <2>1. i + 1 \in 1..N /\ (i + 1) - 1 = i
    OBVIOUS
  <2>2. f[i + 1] = step[i + 1][f[(i + 1) - 1]]
    BY <1>3, <2>1
  <2> QED
    BY <2>1, <2>2
<1> QED
  BY <1>1, <1>2, <1>3, <1>4

(* Such a function exists. *)
LEMMA RecursionExists ==
  ASSUME NEW N \in Nat, NEW base, NEW step
  PROVE  \E f : Unfolds(f, N, base, step)
<1> DEFINE T == {m \in Nat : \E f : Unfolds(f, m, base, step)}
<1>1. 0 \in T
  <2> DEFINE f == [i \in 0..0 |-> base]
  <2>1. Unfolds(f, 0, base, step)
    BY DEF Unfolds
  <2> QED
    BY <2>1
<1>2. ASSUME NEW m \in T PROVE m + 1 \in T
  <2>1. PICK f : Unfolds(f, m, base, step)
    OBVIOUS
  <2> DEFINE g == [i \in 0..(m + 1) |-> IF i <= m THEN f[i] ELSE step[m + 1][f[m]]]
  <2>2. ASSUME NEW i \in 0..(m + 1)
        PROVE  g[i] = IF i = 0 THEN base ELSE step[i][g[i - 1]]
    <3>1. CASE i = 0
      BY <2>1, <3>1, UnfoldsValues
    <3>2. CASE i \in 1..m
      BY <2>1, <3>2, UnfoldsValues
    <3>3. CASE i = m + 1
      BY <3>3
    <3> QED
      BY <3>1, <3>2, <3>3
  <2>3. Unfolds(g, m + 1, base, step)
    BY <2>2 DEF Unfolds
  <2> HIDE DEF g
  <2> QED
    BY <2>3
<1>3. T \in SUBSET Nat
  OBVIOUS
<1> HIDE DEF T
<1>4. T = Nat
  BY <1>1, <1>2, <1>3, NatSetInduction
<1> QED
  BY <1>4 DEF T

(* What holds of the first value and passes from each to the next holds of *)
(* all.                                                                    *)
LEMMA RecursionKeeps ==
  ASSUME NEW N \in Nat, NEW base, NEW step, NEW f, Unfolds(f, N, base, step),
         NEW good, <<0, base>> \in good,
         \A i \in 1..N : \A a : <<i - 1, a>> \in good => <<i, step[i][a]>> \in good
  PROVE  \A i \in 0..N : <<i, f[i]>> \in good
<1> DEFINE T == {i \in 0..N : <<i, f[i]>> \in good}
<1>1. 0 \in T
  BY UnfoldsValues
<1>2. ASSUME NEW i \in 0..(N - 1), i \in T PROVE i + 1 \in T
  <2>1. i + 1 \in 1..N /\ (i + 1) - 1 = i
    OBVIOUS
  <2>2. f[i + 1] = step[i + 1][f[i]]
    BY <2>1, UnfoldsValues
  <2> QED
    BY <1>2, <2>1, <2>2
<1> HIDE DEF T
<1>3. \A i \in 0..N : i \in T
  BY <1>1, <1>2, UpTo
<1> QED
  BY <1>3 DEF T

(* ... in a set that contains the first value and is closed under steps.   *)
LEMMA RecursionInto ==
  ASSUME NEW N \in Nat, NEW D, NEW base \in D, NEW step \in [1..N -> [D -> D]]
  PROVE  \E f \in [0..N -> D] : Unfolds(f, N, base, step)
<1>1. PICK f : Unfolds(f, N, base, step)
  BY RecursionExists
<1> DEFINE T == {i \in 0..N : f[i] \in D}
<1>2. 0 \in T
  BY <1>1, UnfoldsValues
<1>3. ASSUME NEW i \in 0..(N - 1), i \in T PROVE i + 1 \in T
  <2>1. f[i + 1] = step[i + 1][f[i]] /\ f[i] \in D /\ i + 1 \in 1..N
    BY <1>1, <1>3, UnfoldsValues
  <2>2. step[i + 1] \in [D -> D]
    BY <2>1
  <2> QED
    BY <2>1, <2>2
<1> HIDE DEF T
<1>4. \A i \in 0..N : f[i] \in D
  <2>1. \A i \in 0..N : i \in T
    BY <1>2, <1>3, UpTo
  <2> QED
    BY <2>1 DEF T
<1>5. f = [i \in 0..N |-> f[i]]
  BY <1>1 DEF Unfolds
<1>6. f \in [0..N -> D]
  BY <1>4, <1>5
<1> QED
  BY <1>1, <1>6

(* From the end of a sequence to its beginning. *)
LEMMA DownFrom ==
  ASSUME NEW N \in Nat, NEW M \in Nat, NEW T,
         \A i \in (N + 1)..M : i \in T,
         \A i \in 1..N : (\A j \in (i + 1)..M : j \in T) => i \in T
  PROVE  \A i \in 1..M : i \in T
<1> DEFINE U == {m \in 0..N : \A i \in (N + 1 - m)..M : i \in T}
<1>1. 0 \in U
  OBVIOUS
<1>2. ASSUME NEW m \in 0..(N - 1), m \in U PROVE m + 1 \in U
  <2>1. N - m \in 1..N /\ (N - m) + 1 = N + 1 - m
    OBVIOUS
  <2>2. \A j \in ((N - m) + 1)..M : j \in T
    BY <1>2, <2>1
  <2>3. N - m \in T
    BY <2>1, <2>2
  <2>4. ASSUME NEW i \in (N + 1 - (m + 1))..M PROVE i \in T
    BY <1>2, <2>3
  <2> QED
    BY <2>4
<1> HIDE DEF U
<1>3. N \in U
  <2>1. \A m \in 0..N : m \in U
    BY <1>1, <1>2, UpTo
  <2> QED
    BY <2>1
<1>4. \A i \in (N + 1 - N)..M : i \in T
  BY <1>3 DEF U
<1> QED
  BY <1>4

(* f[i] is made of a value further on. *)
Jumps(f, N, M, base, step, jump) ==
  \A i \in 1..M : f[i] = IF i > N THEN base ELSE step[i][f[jump[i]]]

LEMMA JumpsInto ==
  ASSUME NEW N \in Nat, NEW M \in Nat, NEW D, NEW base \in D,
         NEW step \in [1..N -> [D -> D]], NEW jump \in [1..N -> Nat],
         \A i \in 1..N : jump[i] \in (i + 1)..M
  PROVE  \E f \in [1..M -> D] : Jumps(f, N, M, base, step, jump)
<1> DEFINE T == {m \in 0..N : \E f \in [1..M -> D] :
                   \A i \in 1..M : i > N - m =>
                     f[i] = IF i > N THEN base ELSE step[i][f[jump[i]]]}
<1>1. 0 \in T
  <2> DEFINE f == [i \in 1..M |-> base]
  <2>1. f \in [1..M -> D] /\ \A i \in 1..M : f[i] = base
    OBVIOUS
  <2> HIDE DEF f
  <2>2. \A i \in 1..M : i > N - 0 => f[i] = IF i > N THEN base ELSE step[i][f[jump[i]]]
    BY <2>1
  <2> QED
    BY <2>1, <2>2
<1>2. ASSUME NEW m \in 0..(N - 1), m \in T PROVE m + 1 \in T
  <2>1. PICK f \in [1..M -> D] :
          \A i \in 1..M : i > N - m =>
            f[i] = IF i > N THEN base ELSE step[i][f[jump[i]]]
    BY <1>2
  <2> DEFINE a == N - m
             g == [i \in 1..M |-> IF i = a THEN step[a][f[jump[a]]] ELSE f[i]]
  <2>2. a \in 1..N /\ N - (m + 1) = a - 1
    OBVIOUS
  <2> HIDE DEF a
  <2>3. jump[a] \in (a + 1)..M /\ jump[a] \in 1..M /\ a \in 1..M
    BY <2>2
  <2>4. step[a] \in [D -> D] /\ f[jump[a]] \in D
    BY <2>2, <2>3
  <2>5. g \in [1..M -> D]
    BY <2>4
  <2>6. g[a] = step[a][f[jump[a]]] /\ \A i \in 1..M : i # a => g[i] = f[i]
    BY <2>3
  <2> HIDE DEF g
  <2>7. ASSUME NEW i \in 1..M, i > a - 1
        PROVE  g[i] = IF i > N THEN base ELSE step[i][g[jump[i]]]
    <3>1. CASE i = a
      <4>1. jump[a] # a
        BY <2>2, <2>3
      <4>2. g[jump[a]] = f[jump[a]]
        BY <2>3, <2>6, <4>1
      <4> QED
        BY <2>2, <2>6, <3>1, <4>2
    <3>2. CASE i # a
      <4>1. i > a /\ g[i] = f[i]
        BY <2>2, <2>6, <2>7, <3>2
      <4>2. f[i] = IF i > N THEN base ELSE step[i][f[jump[i]]]
        BY <2>1, <4>1 DEF a
      <4>3. CASE i > N
        BY <4>1, <4>2, <4>3
      <4>4. CASE ~(i > N)
        <5>1. jump[i] \in (i + 1)..M
          BY <4>4
        <5>2. jump[i] \in 1..M /\ jump[i] # a
          BY <2>2, <4>1, <5>1
        <5>3. g[jump[i]] = f[jump[i]]
          BY <2>6, <5>2
        <5> QED
          BY <4>1, <4>2, <4>4, <5>3
      <4> QED
        BY <4>3, <4>4
    <3> QED
      BY <3>1, <3>2
  <2>8. \A i \in 1..M : i > N - (m + 1) =>
          g[i] = IF i > N THEN base ELSE step[i][g[jump[i]]]
    BY <2>2, <2>7
  <2>9. m + 1 \in 0..N
    OBVIOUS
  <2> QED
    BY <2>5, <2>8, <2>9
<1> HIDE DEF T
<1>3. N \in T
  <2>1. \A m \in 0..N : m \in T
    BY <1>1, <1>2, UpTo
  <2> QED
    BY <2>1
<1>4. \A i \in 1..M : i > N - N
  OBVIOUS
<1> QED
  BY <1>3, <1>4 DEF T, Jumps

-----------------------------------------------------------------------------
(* Powers of two. *)

LEMMA Pow2Def ==
  /\ Pow2[0] = 1
  /\ \A n \in Nat : Pow2[n + 1] = 2 * Pow2[n]
  /\ \A n \in Nat : Pow2[n] \in Nat /\ Pow2[n] > 0
<1> DEFINE eq(f) == [n \in Nat |-> IF n = 0 THEN 1 ELSE 2 * f[n - 1]]
           pos == Nat \ {0}
           twice == [i \in Nat |-> [p \in pos |-> 2 * p]]
           upTo(N) == CHOOSE f : Unfolds(f, N, 1, twice)
<1> HIDE DEF twice
<1>1. ASSUME NEW N \in Nat
      PROVE  /\ DOMAIN upTo(N) = 0..N /\ upTo(N) = [i \in 0..N |-> upTo(N)[i]]
             /\ upTo(N)[0] = 1
             /\ \A i \in 1..N : upTo(N)[i] = twice[i][upTo(N)[i - 1]]
             /\ \A i \in 0..(N - 1) : upTo(N)[i + 1] = twice[i + 1][upTo(N)[i]]
  <2>1. \E f : Unfolds(f, N, 1, twice)
    BY RecursionExists
  <2>2. Unfolds(upTo(N), N, 1, twice)
    BY <2>1, Zenon
  <2>3. upTo(N) = [i \in 0..N |-> upTo(N)[i]]
    <3> HIDE DEF upTo
    <3> QED
      BY <2>2 DEF Unfolds
  <2> HIDE DEF upTo
  <2> QED
    BY <2>2, <2>3, UnfoldsValues
<1> HIDE DEF upTo
<1>2. ASSUME NEW N \in Nat PROVE \A i \in 0..N : upTo(N)[i] \in pos
  <2> DEFINE T == {i \in 0..N : upTo(N)[i] \in pos}
  <2>1. 0 \in T
    BY <1>1
  <2>2. ASSUME NEW i \in 0..(N - 1), i \in T PROVE i + 1 \in T
    <3>1. upTo(N)[i + 1] = twice[i + 1][upTo(N)[i]]
      BY <1>1
    <3> QED
      BY <2>2, <3>1 DEF twice
  <2> HIDE DEF T
  <2>3. \A i \in 0..N : i \in T
    BY <2>1, <2>2, UpTo
  <2> QED
    BY <2>3 DEF T
<1>3. \A N \in Nat : /\ upTo(N) \in [0..N -> pos] /\ upTo(N)[0] = 1
                     /\ \A i \in 1..N : upTo(N)[i] = 2 * upTo(N)[i - 1]
  <2>1. ASSUME NEW N \in Nat PROVE upTo(N) \in [0..N -> pos] /\ upTo(N)[0] = 1
    BY <1>1, <1>2
  <2>2. ASSUME NEW N \in Nat, NEW i \in 1..N PROVE upTo(N)[i] = 2 * upTo(N)[i - 1]
    <3>1. upTo(N)[i - 1] \in pos
      BY <1>2
    <3>2. upTo(N)[i] = twice[i][upTo(N)[i - 1]]
      BY <1>1
    <3> QED
      BY <3>1, <3>2 DEF twice
  <2> QED
    BY <2>1, <2>2
<1>4. ASSUME NEW N \in Nat PROVE upTo(N + 1)[N] = upTo(N)[N]
  <2> DEFINE T == {i \in 0..N : upTo(N + 1)[i] = upTo(N)[i]}
  <2>1. 0 \in T
    <3>1. upTo(N)[0] = 1 /\ upTo(N + 1)[0] = 1
      BY <1>3
    <3> QED
      BY <3>1
  <2>2. ASSUME NEW i \in 0..(N - 1), i \in T PROVE i + 1 \in T
    <3>1. /\ upTo(N)[i + 1] = 2 * upTo(N)[(i + 1) - 1]
          /\ upTo(N + 1)[i + 1] = 2 * upTo(N + 1)[(i + 1) - 1]
      BY <1>3
    <3> QED
      BY <2>2, <3>1
  <2> HIDE DEF T
  <2>3. \A i \in 0..N : i \in T
    BY <2>1, <2>2, UpTo
  <2> QED
    BY <2>3 DEF T
<1> DEFINE pow == [n \in Nat |-> upTo(n)[n]]
<1>5. pow = eq(pow)
  <2>1. ASSUME NEW n \in Nat PROVE pow[n] = IF n = 0 THEN 1 ELSE 2 * pow[n - 1]
    <3>1. CASE n = 0
      BY <1>3, <3>1
    <3>2. CASE n # 0
      <4>1. n - 1 \in Nat /\ (n - 1) + 1 = n
        BY <3>2
      <4>2. upTo(n)[n] = 2 * upTo(n)[n - 1]
        BY <1>3, <3>2
      <4>3. upTo(n)[n - 1] = upTo(n - 1)[n - 1]
        BY <1>4, <4>1
      <4> QED
        BY <3>2, <4>1, <4>2, <4>3
    <3> QED
      BY <3>1, <3>2
  <2> QED
    BY <2>1
<1>6. Pow2 = eq(Pow2)
  <2>1. Pow2 = CHOOSE f : f = eq(f)
    BY Zenon DEF Pow2
  <2> HIDE DEF eq, pow
  <2> QED
    BY <1>5, <2>1, Zenon
<1>7. Pow2[0] = 1 /\ \A n \in Nat : Pow2[n + 1] = 2 * Pow2[n]
  <2>1. \A n \in Nat : Pow2[n] = IF n = 0 THEN 1 ELSE 2 * Pow2[n - 1]
    BY <1>6
  <2>2. ASSUME NEW n \in Nat PROVE Pow2[n + 1] = 2 * Pow2[n]
    <3>1. n + 1 \in Nat /\ n + 1 # 0 /\ (n + 1) - 1 = n
      OBVIOUS
    <3>2. Pow2[n + 1] = 2 * Pow2[(n + 1) - 1]
      BY <2>1, <3>1
    <3> QED
      BY <3>1, <3>2
  <2> QED
    BY <2>1, <2>2
<1>8. \A n \in Nat : Pow2[n] \in pos
  <2> DEFINE T == {n \in Nat : Pow2[n] \in pos}
  <2>1. 0 \in T
    BY <1>7
  <2>2. ASSUME NEW n \in T PROVE n + 1 \in T
    BY <1>7
  <2>3. T \in SUBSET Nat
    OBVIOUS
  <2> HIDE DEF T
  <2>4. T = Nat
    BY <2>1, <2>2, <2>3, NatSetInduction
  <2> QED
    BY <2>4 DEF T
<1> QED
  BY <1>7, <1>8

LEMMA Pow2Type ==
  ASSUME NEW n \in Nat
  PROVE  Pow2[n] \in Nat /\ Pow2[n] > 0
BY Pow2Def

LEMMA Pow2Sum ==
  ASSUME NEW m \in Nat, NEW n \in Nat
  PROVE  Pow2[m + n] = Pow2[m] * Pow2[n]
<1> DEFINE T == {k \in Nat : Pow2[m + k] = Pow2[m] * Pow2[k]}
<1>1. 0 \in T
  BY Pow2Def
<1>2. ASSUME NEW k \in T PROVE k + 1 \in T
  <2> DEFINE a == Pow2[m]
             b == Pow2[k]
  <2>1. a \in Nat /\ b \in Nat /\ m + k \in Nat
    BY Pow2Type
  <2>2. Pow2[(m + k) + 1] = 2 * (a * b) /\ Pow2[k + 1] = 2 * b
    BY <2>1, Pow2Def
  <2>3. a * (2 * b) = 2 * (a * b)
    <3> HIDE DEF a, b
    <3> QED
      BY <2>1
  <2>4. (m + k) + 1 = m + (k + 1)
    OBVIOUS
  <2> QED
    BY <2>2, <2>3, <2>4
<1>3. T \in SUBSET Nat
  OBVIOUS
<1> HIDE DEF T
<1>4. T = Nat
  BY <1>1, <1>2, <1>3, NatSetInduction
<1> QED
  BY <1>4 DEF T

LEMMA Pow2Monotone ==
  ASSUME NEW m \in Nat, NEW n \in Nat, m <= n
  PROVE  Pow2[m] <= Pow2[n]
<1>1. n - m \in Nat /\ m + (n - m) = n
  OBVIOUS
<1>2. Pow2[n] = Pow2[m] * Pow2[n - m]
  BY <1>1, Pow2Sum
<1>3. Pow2[m] \in Nat /\ Pow2[n - m] \in Nat /\ Pow2[n - m] >= 1
  BY <1>1, Pow2Type
<1>4. \A a, b \in Nat : b >= 1 => a <= a * b
  OBVIOUS
<1> QED
  BY <1>2, <1>3, <1>4

(* 0 and 1 need no bit; more than that needs one. *)
LEMMA Pow2One == Pow2[1] = 2
<1>1. Pow2[0 + 1] = 2 * Pow2[0]
  BY Pow2Def
<1> QED
  BY <1>1, Pow2Def

LEMMA Pow2Exceeds ==
  ASSUME NEW n \in Nat
  PROVE  n < Pow2[n]
<1> DEFINE T == {k \in Nat : k < Pow2[k]}
<1>1. 0 \in T
  BY Pow2Def
<1>2. ASSUME NEW k \in T PROVE k + 1 \in T
  BY Pow2Def
<1>3. T \in SUBSET Nat
  OBVIOUS
<1> HIDE DEF T
<1>4. T = Nat
  BY <1>1, <1>2, <1>3, NatSetInduction
<1> QED
  BY <1>4 DEF T

-----------------------------------------------------------------------------
(* Division. *)

LEMMA DivMod ==
  ASSUME NEW v \in Nat, NEW d \in Nat, d > 0
  PROVE  /\ v \div d \in Nat /\ v % d \in 0..(d - 1)
         /\ v = d * (v \div d) + (v % d)
<1>1. v \div d \in Nat
  OBVIOUS
<1>2. v % d \in 0..(d - 1)
  OBVIOUS
<1>3. v = d * (v \div d) + (v % d)
  OBVIOUS
<1> QED
  BY <1>1, <1>2, <1>3

LEMMA DivUnique ==
  ASSUME NEW d \in Nat, d > 0, NEW q \in Nat, NEW r \in 0..(d - 1)
  PROVE  (d * q + r) \div d = q /\ (d * q + r) % d = r
<1>1. d * q + r \in Nat
  OBVIOUS
<1> QED
  BY <1>1

LEMMA DivTwice ==
  ASSUME NEW v \in Nat, NEW d \in Nat, d > 0
  PROVE  (v \div d) \div 2 = v \div (2 * d)
OBVIOUS

(* The distance from a to the next multiple of b. *)
LEMMA NextMultiple ==
  ASSUME NEW a \in Nat, NEW b \in Nat, b > 0
  PROVE  (0 - a) % b \in 0..(b - 1) /\ (a + ((0 - a) % b)) % b = 0
<1> DEFINE p == (0 - a) % b
           q == (0 - a) \div b
<1>1. p \in 0..(b - 1)
  OBVIOUS
<1>2. 0 - a = b * q + p /\ q \in Int
  OBVIOUS
<1> HIDE DEF p, q
<1> DEFINE x == a + p
           y == -q
<1>3. x = b * y /\ x \in Nat /\ y \in Int
  BY <1>1, <1>2
<1> HIDE DEF x, y
<1>4. x % b = 0
  BY <1>3
<1> QED
  BY <1>1, <1>4 DEF x, p

(* Two digits at a time. *)
LEMMA ModProduct ==
  ASSUME NEW v \in Nat, NEW a \in Nat, a > 0, NEW b \in Nat, b > 0
  PROVE  (v % a) + ((v \div a) % b) * a = v % (a * b)
<1> DEFINE q == v \div a
           r == v % a
           s == q \div b
           t == q % b
<1>1. q \in Nat /\ r \in 0..(a - 1) /\ v = a * q + r
  BY DivMod
<1> HIDE DEF q, r
<1>2. s \in Nat /\ t \in 0..(b - 1) /\ q = b * s + t
  BY <1>1, DivMod
<1> HIDE DEF s, t
<1>3. v = (a * b) * s + (r + t * a)
  <2>1. a * (b * s + t) = (a * b) * s + t * a
    BY <1>2
  <2>2. (a * b) * s \in Nat /\ t * a \in Nat
    BY <1>2
  <2> QED
    BY <1>1, <1>2, <2>1, <2>2
<1>4. r + t * a \in 0..(a * b - 1)
  <2>1. t * a \in Nat /\ t * a + a <= a * b /\ a * b \in Nat
    <3>1. t + 1 <= b
      BY <1>2
    <3>2. a * (t + 1) <= a * b
      BY <1>2, <3>1
    <3> QED
      BY <1>2, <3>2
  <2> QED
    BY <1>1, <2>1
<1>5. a * b \in Nat /\ a * b > 0
  OBVIOUS
<1> DEFINE m == a * b
           x == r + t * a
<1> HIDE DEF m, x
<1>6. (m * s + x) % m = x
  BY <1>2, <1>4, <1>5, DivUnique DEF m, x
<1> QED
  BY <1>3, <1>6 DEF m, x, r, t, q

LEMMA DivLess ==
  ASSUME NEW v \in Nat, NEW d \in Nat, d > 0, NEW m \in Nat, v < d * m
  PROVE  v \div d < m
OBVIOUS

LEMMA SmallPowers ==
  Pow2[1] = 2 /\ Pow2[2] = 4 /\ Pow2[3] = 8
<1>1. Pow2[0 + 1] = 2 * Pow2[0] /\ Pow2[1 + 1] = 2 * Pow2[1] /\ Pow2[2 + 1] = 2 * Pow2[2]
  BY Pow2Def
<1> QED
  BY <1>1, Pow2Def

(* The powers of a radix, one multiplication after the other. *)
ArePowers(p, b, n) ==
  /\ p[0] = 1
  /\ \A i \in 0..n : p[i] \in Nat
  /\ \A i \in 0..(n - 1) : p[i + 1] = b * p[i]
  /\ Power(b, n) = p[n]

LEMMA PowerValues ==
  ASSUME NEW b \in Nat, NEW n \in Nat
  PROVE  \E p : ArePowers(p, b, n)
<1> DEFINE eq(f) == [i \in 0..n |-> IF i = 0 THEN 1 ELSE b * f[i - 1]]
           step  == [i \in 1..n |-> [x \in Nat |-> b * x]]
           p     == CHOOSE f : f = eq(f)
<1>1. PICK f : Unfolds(f, n, 1, step)
  <2> HIDE DEF step
  <2> QED
    BY RecursionExists
<1>2. DOMAIN f = 0..n /\ f[0] = 1 /\ \A i \in 1..n : f[i] = step[i][f[i - 1]]
  <2> HIDE DEF step
  <2> QED
    BY <1>1, UnfoldsValues
<1>3. \A x \in Nat : b * x \in Nat
  OBVIOUS
<1>4. \A i \in 0..n : f[i] \in Nat
  <2> DEFINE T == {i \in 0..n : f[i] \in Nat}
  <2>1. 0 \in T
    BY <1>2
  <2>2. ASSUME NEW i \in 0..(n - 1), i \in T PROVE i + 1 \in T
    <3>1. i + 1 \in 1..n /\ (i + 1) - 1 = i
      OBVIOUS
    <3>2. f[i + 1] = step[i + 1][f[i]]
      BY <1>2, <3>1
    <3> QED
      BY <1>3, <2>2, <3>1, <3>2
  <2> HIDE DEF T
  <2>3. \A i \in 0..n : i \in T
    BY <2>1, <2>2, UpTo
  <2> QED
    BY <2>3 DEF T
<1>5. f = eq(f)
  <2>1. ASSUME NEW i \in 0..n PROVE f[i] = IF i = 0 THEN 1 ELSE b * f[i - 1]
    <3>1. CASE i = 0
      BY <1>2, <3>1
    <3>2. CASE i # 0
      <4>1. i \in 1..n /\ f[i - 1] \in Nat
        BY <1>4, <3>2
      <4>2. step[i][f[i - 1]] = b * f[i - 1]
        BY <4>1
      <4> QED
        BY <1>2, <3>2, <4>1, <4>2
    <3> QED
      BY <3>1, <3>2
  <2>2. f = [i \in 0..n |-> f[i]]
    <3> HIDE DEF step
    <3> QED
      BY <1>1 DEF Unfolds
  <2> QED
    BY <2>1, <2>2
<1>6. p = eq(p)
  <2> HIDE DEF eq
  <2> QED
    BY <1>5, Zenon
<1> HIDE DEF p
<1>7. p[0] = 1 /\ \A i \in 0..(n - 1) : p[i + 1] = b * p[i]
  BY <1>6
<1> DEFINE T == {i \in 0..n : p[i] \in Nat}
<1>8. 0 \in T
  BY <1>7
<1>9. ASSUME NEW i \in 0..(n - 1), i \in T PROVE i + 1 \in T
  <2>1. p[i + 1] = b * p[i]
    BY <1>7
  <2> QED
    BY <1>3, <1>9, <2>1
<1> HIDE DEF T
<1>10. \A i \in 0..n : i \in T
  BY <1>8, <1>9, UpTo
<1>11. Power(b, n) = p[n]
  BY Zenon DEF Power, p
<1>12. \A i \in 0..n : p[i] \in Nat
  BY <1>10 DEF T
<1> QED
  BY <1>7, <1>11, <1>12 DEF ArePowers

LEMMA PowerNext ==
  ASSUME NEW b \in Nat, NEW n \in Nat
  PROVE  Power(b, 0) = 1 /\ Power(b, n + 1) = b * Power(b, n)
<1>1. PICK z : ArePowers(z, b, 0)
  BY PowerValues
<1>2. PICK p : ArePowers(p, b, n)
  BY PowerValues
<1>3. PICK q : ArePowers(q, b, n + 1)
  <2>1. n + 1 \in Nat
    OBVIOUS
  <2> QED
    BY <2>1, PowerValues
<1> DEFINE T == {i \in 0..n : q[i] = p[i]}
<1>4. 0 \in T
  BY <1>2, <1>3 DEF ArePowers
<1>5. ASSUME NEW i \in 0..(n - 1), i \in T PROVE i + 1 \in T
  <2>1. q[i + 1] = b * q[i] /\ p[i + 1] = b * p[i] /\ q[i] = p[i]
    BY <1>2, <1>3, <1>5 DEF ArePowers
  <2> QED
    BY <2>1
<1> HIDE DEF T
<1>6. \A i \in 0..n : i \in T
  BY <1>4, <1>5, UpTo
<1>7. q[n] = p[n]
  BY <1>6 DEF T
<1> QED
  BY <1>1, <1>2, <1>3, <1>7 DEF ArePowers

LEMMA PowerZero ==
  ASSUME NEW b \in Nat
  PROVE  Power(b, 0) = 1
<1>1. 0 \in Nat
  OBVIOUS
<1> QED
  BY <1>1, PowerNext

LEMMA PowerType ==
  ASSUME NEW b \in Nat, NEW n \in Nat
  PROVE  /\ Power(b, n) \in Nat
         /\ b > 0 => Power(b, n) > 0
         /\ b = 0 /\ n > 0 => Power(b, n) = 0
<1> DEFINE T == {i \in 0..n : /\ Power(b, i) \in Nat /\ (b > 0 => Power(b, i) > 0)
                             /\ (b = 0 /\ i > 0 => Power(b, i) = 0)}
<1>1. \A x \in Nat : b * x \in Nat /\ (b > 0 /\ x > 0 => b * x > 0) /\ (b = 0 => b * x = 0)
  OBVIOUS
<1>2. 0 \in T
  BY PowerNext
<1>3. ASSUME NEW i \in 0..(n - 1), i \in T PROVE i + 1 \in T
  <2>1. Power(b, i + 1) = b * Power(b, i) /\ Power(b, i) \in Nat
    BY <1>3, PowerNext
  <2>2. Power(b, i + 1) \in Nat /\ (b > 0 => Power(b, i + 1) > 0)
        /\ (b = 0 => Power(b, i + 1) = 0)
    BY <1>1, <1>3, <2>1
  <2> QED
    BY <2>2
<1> HIDE DEF T
<1>4. \A i \in 0..n : i \in T
  BY <1>2, <1>3, UpTo
<1> QED
  BY <1>4 DEF T

(* Powers of a radix of at most k bits have at most k bits for each factor. *)
LEMMA PowerBits ==
  ASSUME NEW b \in Nat, NEW k \in Nat, b <= Pow2[k], NEW n \in Nat
  PROVE  Power(b, n) <= Pow2[k * n]
<1> DEFINE T == {i \in 0..n : Power(b, i) <= Pow2[k * i]}
<1>1. 0 \in T
  <2>1. k * 0 = 0
    OBVIOUS
  <2> QED
    BY <2>1, PowerNext, Pow2Def
<1>2. ASSUME NEW i \in 0..(n - 1), i \in T PROVE i + 1 \in T
  <2>1. k * (i + 1) = k + k * i /\ k * i \in Nat
    OBVIOUS
  <2>2. Pow2[k * (i + 1)] = Pow2[k] * Pow2[k * i] /\ Pow2[k] \in Nat /\ Pow2[k * i] \in Nat
    BY <2>1, Pow2Sum, Pow2Type
  <2>3. Power(b, i + 1) = b * Power(b, i) /\ Power(b, i) \in Nat /\ Power(b, i) <= Pow2[k * i]
    BY <1>2, PowerNext, PowerType
  <2>4. \A x, y, z \in Nat : b <= x /\ y <= z => b * y <= x * z
    <3>1. \A x, y, z \in Nat : b <= x /\ y <= z => b * y <= b * z /\ b * z <= x * z
      OBVIOUS
    <3> QED
      BY <3>1
  <2> QED
    BY <2>2, <2>3, <2>4
<1> HIDE DEF T
<1>3. \A i \in 0..n : i \in T
  BY <1>1, <1>2, UpTo
<1> QED
  BY <1>3 DEF T

(* Division by a product is division by its factors. *)
LEMMA DivProduct ==
  ASSUME NEW v \in Nat, NEW a \in Nat, a > 0, NEW b \in Nat, b > 0
  PROVE  v \div (a * b) = (v \div a) \div b
<1> DEFINE q  == v \div a
           r  == v % a
           q2 == q \div b
           r2 == q % b
<1>1. q \in Nat /\ r \in 0..(a - 1) /\ v = a * q + r
  BY DivMod
<1>2. q2 \in Nat /\ r2 \in 0..(b - 1) /\ q = b * q2 + r2
  BY <1>1, DivMod
<1> HIDE DEF q, r, q2, r2
<1>3. a * b \in Nat /\ a * b > 0
  OBVIOUS
<1>4. a * r2 + r \in 0..(a * b - 1)
  <2>1. r2 \in Nat /\ r2 <= b - 1 /\ b - 1 \in Nat /\ a * r2 \in Nat
    BY <1>2
  <2>2. \A x, y \in Nat : x <= y => a * x <= a * y
    OBVIOUS
  <2>3. a * r2 <= a * (b - 1) /\ a * (b - 1) = a * b - a
    BY <2>1, <2>2
  <2> QED
    BY <1>1, <1>3, <2>1, <2>3
<1>5. v = (a * b) * q2 + (a * r2 + r)
  <2>1. a * (b * q2 + r2) = (a * b) * q2 + a * r2
    BY <1>2
  <2>2. a * r2 \in Nat /\ (a * b) * q2 \in Nat
    BY <1>2
  <2> QED
    BY <1>1, <1>2, <2>1, <2>2
<1>6. v \div (a * b) = q2
  BY <1>2, <1>3, <1>4, <1>5, DivUnique
<1> QED
  BY <1>6 DEF q, q2

-----------------------------------------------------------------------------
(* Sums over finite sets, taken element by element as MapThenSumSet does.  *)

Chosen(T) == CHOOSE x \in T : TRUE

IsSum(sum, f, S) ==
  sum = [T \in SUBSET S |->
           IF T = {} THEN 0 ELSE f[Chosen(T)] + sum[T \ {Chosen(T)}]]

LEMMA ChosenIn ==
  ASSUME NEW T, T # {}
  PROVE  Chosen(T) \in T
  BY DEF Chosen

(* Such a function exists: the sums of n elements need those of fewer.     *)
LEMMA SumExists ==
  ASSUME NEW S, IsFiniteSet(S), NEW f \in [S -> Nat]
  PROVE  \E sum \in [SUBSET S -> Nat] : IsSum(sum, f, S)
<1> DEFINE N == Cardinality(S)
           F == [SUBSET S -> Nat]
           next(g) == [T \in SUBSET S |->
                         IF T = {} THEN 0 ELSE f[Chosen(T)] + g[T \ {Chosen(T)}]]
           none == [T \in SUBSET S |-> 0]
           step == [i \in 1..(N + 1) |-> [g \in F |-> next(g)]]
<1>1. N \in Nat /\ N + 1 \in Nat
  BY FS_CardinalityType
<1>2. ASSUME NEW g \in F PROVE next(g) \in F
  <2>1. ASSUME NEW T \in SUBSET S, T # {}
        PROVE  f[Chosen(T)] + g[T \ {Chosen(T)}] \in Nat
    <3>1. Chosen(T) \in S /\ T \ {Chosen(T)} \in SUBSET S
      BY <2>1, ChosenIn
    <3>2. f[Chosen(T)] \in Nat /\ g[T \ {Chosen(T)}] \in Nat
      BY <3>1
    <3> QED
      BY <3>2
  <2> QED
    BY <2>1
<1>3. none \in F
  OBVIOUS
<1> HIDE DEF N, next, none
<1>4. PICK h : Unfolds(h, N + 1, none, step)
  <2> HIDE DEF step
  <2> QED
    BY <1>1, RecursionExists
<1>5. h[0] = none /\ \A i \in 0..N : h[i + 1] = step[i + 1][h[i]]
  <2>1. (N + 1) - 1 = N
    BY <1>1
  <2> HIDE DEF step
  <2> QED
    BY <1>1, <1>4, <2>1, UnfoldsValues
<1>6. \A i \in 0..N : i + 1 \in 1..(N + 1)
  BY <1>1
<1>7. \A i \in 0..(N + 1) : h[i] \in F
  <2> DEFINE A == {i \in 0..(N + 1) : h[i] \in F}
  <2>1. 0 \in A
    BY <1>1, <1>3, <1>5
  <2>2. ASSUME NEW i \in 0..((N + 1) - 1), i \in A PROVE i + 1 \in A
    <3>1. i \in 0..N /\ i + 1 \in 0..(N + 1)
      BY <1>1
    <3>2. h[i + 1] = next(h[i])
      BY <1>5, <1>6, <2>2, <3>1
    <3> QED
      BY <1>2, <2>2, <3>1, <3>2
  <2> HIDE DEF A
  <2>3. \A i \in 0..(N + 1) : i \in A
    BY <1>1, <2>1, <2>2, UpTo
  <2> QED
    BY <2>3 DEF A
<1>8. \A i \in 0..N : h[i + 1] = next(h[i]) /\ h[i] \in F /\ h[i + 1] \in F
  <2>1. \A i \in 0..N : i \in 0..(N + 1) /\ i + 1 \in 0..(N + 1)
    BY <1>1
  <2> QED
    BY <1>5, <1>6, <1>7, <2>1
<1> HIDE DEF step
<1>9. \A g : next(g)[{}] = 0
  BY DEF next
<1>10. \A g : \A T \in SUBSET S : T # {} => next(g)[T] = f[Chosen(T)] + g[T \ {Chosen(T)}]
  BY DEF next
<1>11. \A i \in 0..N : \A T \in SUBSET S : Cardinality(T) <= i => h[i][T] = h[i + 1][T]
  <2> DEFINE A == {i \in 0..N : \A T \in SUBSET S :
                     Cardinality(T) <= i => h[i][T] = h[i + 1][T]}
  <2>1. 0 \in A
    <3>1. 0 \in 0..N /\ 0 + 1 = 1
      BY <1>1
    <3>2. ASSUME NEW T \in SUBSET S, Cardinality(T) <= 0 PROVE h[0][T] = h[1][T]
      <4>1. T = {}
        BY <3>2, FS_Subset, FS_EmptySet, FS_CardinalityType
      <4>2. h[0][{}] = 0
        BY <1>5 DEF none
      <4> QED
        BY <1>8, <1>9, <3>1, <4>1, <4>2
    <3> QED
      BY <3>1, <3>2
  <2>2. ASSUME NEW i \in 0..(N - 1), i \in A PROVE i + 1 \in A
    <3>1. i \in 0..N /\ i + 1 \in 0..N
      BY <1>1
    <3>2. ASSUME NEW T \in SUBSET S, Cardinality(T) <= i + 1
          PROVE  h[i + 1][T] = h[(i + 1) + 1][T]
      <4>1. CASE T = {}
        BY <1>8, <1>9, <3>1, <4>1
      <4>2. CASE T # {}
        <5> DEFINE U == T \ {Chosen(T)}
        <5>1. U \in SUBSET S /\ Cardinality(U) <= i
          <6>1. Chosen(T) \in T /\ IsFiniteSet(T) /\ Cardinality(T) \in Nat
            BY <4>2, ChosenIn, FS_Subset, FS_CardinalityType
          <6>2. Cardinality(U) = Cardinality(T) - 1
            BY <6>1, FS_RemoveElement
          <6> QED
            BY <3>2, <6>1, <6>2
        <5>2. h[i][U] = h[i + 1][U]
          BY <2>2, <5>1
        <5> HIDE DEF U
        <5>3. h[i + 1][T] = f[Chosen(T)] + h[i][U]
          BY <1>8, <1>10, <3>1, <4>2 DEF U
        <5>4. h[(i + 1) + 1][T] = f[Chosen(T)] + h[i + 1][U]
          BY <1>8, <1>10, <3>1, <4>2 DEF U
        <5> QED
          BY <5>2, <5>3, <5>4
      <4> QED
        BY <4>1, <4>2
    <3> QED
      BY <3>1, <3>2
  <2> HIDE DEF A
  <2>3. \A i \in 0..N : i \in A
    BY <1>1, <2>1, <2>2, UpTo
  <2> QED
    BY <2>3 DEF A
<1>12. h[N] = next(h[N])
  <2>1. N \in 0..N
    BY <1>1
  <2>2. ASSUME NEW T \in SUBSET S PROVE h[N][T] = h[N + 1][T]
    <3>1. Cardinality(T) <= N
      BY FS_Subset DEF N
    <3> QED
      BY <1>11, <2>1, <3>1
  <2>3. h[N] \in F /\ h[N + 1] \in F /\ h[N + 1] = next(h[N])
    BY <1>8, <2>1
  <2>4. h[N] = h[N + 1]
    BY <2>2, <2>3
  <2> QED
    BY <2>3, <2>4
<1>13. h[N] \in F
  <2>1. N \in 0..N
    BY <1>1
  <2> QED
    BY <1>8, <2>1
<1>14. IsSum(h[N], f, S)
  BY <1>12 DEF IsSum, next
<1> QED
  BY <1>13, <1>14

LEMMA SumStarts ==
  ASSUME NEW S, NEW f, NEW sum, IsSum(sum, f, S)
  PROVE  /\ sum[{}] = 0
         /\ \A T \in SUBSET S : T # {} => sum[T] = f[Chosen(T)] + sum[T \ {Chosen(T)}]
  BY DEF IsSum

(* Its values are numbers.                                                 *)
LEMMA SumType ==
  ASSUME NEW S, IsFiniteSet(S), NEW f \in [S -> Nat], NEW sum, IsSum(sum, f, S)
  PROVE  sum \in [SUBSET S -> Nat]
<1> DEFINE A == {n \in Nat : \A T \in SUBSET S : Cardinality(T) = n => sum[T] \in Nat}
<1>1. \A T \in SUBSET S : IsFiniteSet(T) /\ Cardinality(T) \in Nat
  BY FS_Subset, FS_CardinalityType
<1>2. 0 \in A
  BY <1>1, FS_EmptySet, SumStarts
<1>3. ASSUME NEW n \in A PROVE n + 1 \in A
  <2>1. ASSUME NEW T \in SUBSET S, Cardinality(T) = n + 1 PROVE sum[T] \in Nat
    <3>1. T # {} /\ n \in Nat
      <4>1. n \in Nat /\ n + 1 # 0
        BY <1>3
      <4>2. Cardinality({}) = 0
        BY FS_EmptySet
      <4> QED
        BY <2>1, <4>1, <4>2
    <3> DEFINE U == T \ {Chosen(T)}
    <3>2. Chosen(T) \in T
      BY <3>1, ChosenIn
    <3>3. U \in SUBSET S /\ Cardinality(U) = n
      <4>1. Cardinality(U) = Cardinality(T) - 1
        BY <1>1, <3>2, FS_RemoveElement
      <4> QED
        BY <2>1, <3>1, <4>1
    <3>4. sum[U] \in Nat /\ f[Chosen(T)] \in Nat
      BY <1>3, <3>2, <3>3
    <3>5. sum[T] = f[Chosen(T)] + sum[U]
      BY <3>1, SumStarts
    <3> QED
      BY <3>4, <3>5
  <2> QED
    BY <2>1
<1>4. A \in SUBSET Nat
  OBVIOUS
<1> HIDE DEF A
<1>5. A = Nat
  BY <1>2, <1>3, <1>4, NatSetInduction
<1>6. \A T \in SUBSET S : sum[T] \in Nat
  BY <1>1, <1>5 DEF A
<1>7. sum = [T \in SUBSET S |-> sum[T]]
  BY DEF IsSum
<1> QED
  BY <1>6, <1>7

(* The order in which the elements are taken does not matter.              *)
LEMMA SumAnyElement ==
  ASSUME NEW S, IsFiniteSet(S), NEW f \in [S -> Nat],
         NEW sum \in [SUBSET S -> Nat], IsSum(sum, f, S)
  PROVE  \A T \in SUBSET S : \A x \in T : sum[T] = f[x] + sum[T \ {x}]
<1> DEFINE A == {n \in Nat : \A T \in SUBSET S : Cardinality(T) = n =>
                   \A x \in T : sum[T] = f[x] + sum[T \ {x}]}
<1>1. \A T \in SUBSET S : IsFiniteSet(T) /\ Cardinality(T) \in Nat
  BY FS_Subset, FS_CardinalityType
<1>2. 0 \in A
  BY <1>1, FS_EmptySet
<1>3. ASSUME NEW n \in A PROVE n + 1 \in A
  <2>1. ASSUME NEW T \in SUBSET S, Cardinality(T) = n + 1, NEW x \in T
        PROVE  sum[T] = f[x] + sum[T \ {x}]
    <3> DEFINE c == Chosen(T)
               U == T \ {c}
               V == T \ {x}
    <3>1. c \in T
      BY ChosenIn
    <3>2. sum[T] = f[c] + sum[U]
      BY SumStarts
    <3> HIDE DEF c
    <3>3. CASE x = c
      BY <3>2, <3>3
    <3>4. CASE x # c
      <4>1. U \in SUBSET S /\ V \in SUBSET S /\ Cardinality(U) = n /\ Cardinality(V) = n
        <5>1. IsFiniteSet(T) /\ Cardinality(T) = n + 1 /\ n \in Nat
          BY <1>1, <2>1
        <5>2. Cardinality(U) = Cardinality(T) - 1 /\ Cardinality(V) = Cardinality(T) - 1
          BY <3>1, <5>1, FS_RemoveElement
        <5> QED
          BY <5>1, <5>2
      <4>2. x \in U /\ c \in V /\ U \ {x} = V \ {c}
        BY <3>1, <3>4
      <4>3. sum[U] = f[x] + sum[U \ {x}] /\ sum[V] = f[c] + sum[V \ {c}]
        BY <1>3, <4>1, <4>2
      <4>4. f[x] \in Nat /\ f[c] \in Nat /\ U \ {x} \in SUBSET S
        BY <3>1, <4>1
      <4>5. sum[U \ {x}] \in Nat
        BY <4>4
      <4>6. sum[T \ {x}] = f[c] + sum[U \ {x}]
        <5> HIDE DEF U
        <5> QED
          BY <4>2, <4>3
      <4> HIDE DEF U, V
      <4> QED
        BY <3>2, <4>3, <4>4, <4>5, <4>6
    <3> QED
      BY <3>3, <3>4
  <2> QED
    BY <2>1
<1>4. A \in SUBSET Nat
  OBVIOUS
<1> HIDE DEF A
<1>5. A = Nat
  BY <1>2, <1>3, <1>4, NatSetInduction
<1>6. \A T \in SUBSET S : Cardinality(T) \in A
  BY <1>1, <1>5
<1> QED
  BY <1>6 DEF A


(* What holds of the empty set, and of a set once it holds of the set      *)
(* without one of its elements, holds of every finite set.                 *)
LEMMA SubsetInduction ==
  ASSUME NEW S, IsFiniteSet(S), NEW A, {} \in A,
         \A T \in SUBSET S : \A x \in T : T \ {x} \in A => T \in A
  PROVE  \A T \in SUBSET S : T \in A
<1> DEFINE B == {n \in Nat : \A T \in SUBSET S : Cardinality(T) = n => T \in A}
<1>1. \A T \in SUBSET S : IsFiniteSet(T) /\ Cardinality(T) \in Nat
  BY FS_Subset, FS_CardinalityType
<1>2. 0 \in B
  BY <1>1, FS_EmptySet
<1>3. ASSUME NEW n \in B PROVE n + 1 \in B
  <2>1. ASSUME NEW T \in SUBSET S, Cardinality(T) = n + 1 PROVE T \in A
    <3>1. n \in Nat /\ n + 1 # 0 /\ (n + 1) - 1 = n
      BY <1>3
    <3>2. T # {}
      BY <2>1, <3>1, FS_EmptySet
    <3>3. PICK x \in T : TRUE
      BY <3>2
    <3>4. T \ {x} \in SUBSET S /\ Cardinality(T \ {x}) = n
      BY <1>1, <2>1, <3>1, FS_RemoveElement
    <3>5. T \ {x} \in A
      BY <1>3, <3>4
    <3> QED
      BY <3>5
  <2> QED
    BY <2>1
<1>4. B \in SUBSET Nat
  OBVIOUS
<1> HIDE DEF B
<1>5. B = Nat
  BY <1>2, <1>3, <1>4, NatSetInduction
<1> QED
  BY <1>1, <1>5 DEF B

(* The sums of the subsets of S. *)
Sums(f, S) == CHOOSE sum : IsSum(sum, f, S)

LEMMA SumsType ==
  ASSUME NEW S, IsFiniteSet(S), NEW f \in [S -> Nat]
  PROVE  /\ Sums(f, S) \in [SUBSET S -> Nat]
         /\ IsSum(Sums(f, S), f, S)
         /\ Sums(f, S)[{}] = 0
<1>1. \E sum \in [SUBSET S -> Nat] : IsSum(sum, f, S)
  BY SumExists
<1>2. IsSum(Sums(f, S), f, S)
  BY <1>1 DEF Sums
<1> DEFINE sum == Sums(f, S)
<1> HIDE DEF sum
<1>3. sum \in [SUBSET S -> Nat]
  BY <1>2, SumType DEF sum
<1>4. sum[{}] = 0
  BY <1>2, SumStarts DEF sum
<1> QED
  BY <1>2, <1>3, <1>4 DEF sum

LEMMA SumsStep ==
  ASSUME NEW S, IsFiniteSet(S), NEW f \in [S -> Nat]
  PROVE  \A T \in SUBSET S : \A x \in T :
           Sums(f, S)[T] = f[x] + Sums(f, S)[T \ {x}]
<1> DEFINE sum == Sums(f, S)
<1>1. sum \in [SUBSET S -> Nat] /\ IsSum(sum, f, S)
  BY SumsType
<1> HIDE DEF sum
<1>2. \A T \in SUBSET S : \A x \in T : sum[T] = f[x] + sum[T \ {x}]
  <2>1. ASSUME NEW T \in SUBSET S, NEW x \in T PROVE sum[T] = f[x] + sum[T \ {x}]
    BY <1>1, SumAnyElement, SMT
  <2> QED
    BY <2>1
<1> QED
  BY <1>2 DEF sum

(* An element more. *)
LEMMA SumsAdd ==
  ASSUME NEW S, IsFiniteSet(S), NEW f \in [S -> Nat],
         NEW T \in SUBSET S, NEW x \in S, x \notin T
  PROVE  Sums(f, S)[T \cup {x}] = f[x] + Sums(f, S)[T]
<1>1. T \cup {x} \in SUBSET S /\ x \in T \cup {x} /\ (T \cup {x}) \ {x} = T
  OBVIOUS
<1> QED
  BY <1>1, SumsStep

(* Two sums add up the same numbers, whatever carries them.                *)
LEMMA SumsCarried ==
  ASSUME NEW S, IsFiniteSet(S), NEW f \in [S -> Nat],
         NEW R, IsFiniteSet(R), NEW g \in [R -> Nat],
         NEW h, \A x \in S : h[x] \in R /\ f[x] = g[h[x]],
         \A x, y \in S : h[x] = h[y] => x = y
  PROVE  Sums(f, S)[S] = Sums(g, R)[{h[x] : x \in S}]
<1> DEFINE image(T) == {h[x] : x \in T}
           sum == Sums(f, S)
           other == Sums(g, R)
           A == {T \in SUBSET S : sum[T] = other[image(T)]}
<1>a. sum[{}] = 0 /\ other[{}] = 0
  BY SumsType
<1>b. \A T \in SUBSET S : \A x \in T : sum[T] = f[x] + sum[T \ {x}]
  <2>1. IsFiniteSet(S) /\ f \in [S -> Nat]
    OBVIOUS
  <2> QED
    BY ONLY <2>1, SumsStep DEF sum
<1>c. \A T \in SUBSET R : \A x \in T : other[T] = g[x] + other[T \ {x}]
  <2>1. IsFiniteSet(R) /\ g \in [R -> Nat]
    OBVIOUS
  <2> QED
    BY ONLY <2>1, SumsStep DEF other
<1> HIDE DEF sum, other
<1>1. {} \in A
  <2>1. image({}) = {}
    OBVIOUS
  <2> HIDE DEF image
  <2> QED
    BY <1>a, <2>1
<1>2. ASSUME NEW T \in SUBSET S, NEW x \in T, T \ {x} \in A PROVE T \in A
  <2>1. image(T) \in SUBSET R /\ h[x] \in image(T) /\ image(T) \ {h[x]} = image(T \ {x})
    OBVIOUS
  <2> HIDE DEF image
  <2>2. sum[T] = f[x] + sum[T \ {x}]
    BY <1>b
  <2>3. other[image(T)] = g[h[x]] + other[image(T) \ {h[x]}]
    BY <1>c, <2>1
  <2>4. f[x] = g[h[x]] /\ sum[T \ {x}] = other[image(T \ {x})]
    BY <1>2
  <2> QED
    BY <2>1, <2>2, <2>3, <2>4
<1> HIDE DEF A
<1>3. \A T \in SUBSET S : T \in A
  BY <1>1, <1>2, SubsetInduction
<1>4. S \in A
  BY <1>3
<1> QED
  BY <1>4 DEF A, sum, other

(* Zeros add nothing. *)
LEMMA SumsWithin ==
  ASSUME NEW S, IsFiniteSet(S), NEW f \in [S -> Nat],
         NEW P \in SUBSET S, \A x \in S \ P : f[x] = 0
  PROVE  Sums(f, S)[S] = Sums(f, S)[P]
<1> DEFINE sum == Sums(f, S)
           A == {T \in SUBSET S : sum[T] = sum[T \cap P]}
<1>a. sum \in [SUBSET S -> Nat]
  BY SumsType
<1>b. \A T \in SUBSET S : \A x \in T : sum[T] = f[x] + sum[T \ {x}]
  BY SumsStep
<1> HIDE DEF sum
<1>1. {} \in A
  <2>1. {} \cap P = {}
    OBVIOUS
  <2> QED
    BY <2>1
<1>2. ASSUME NEW T \in SUBSET S, NEW x \in T, T \ {x} \in A PROVE T \in A
  <2>1. sum[T] = f[x] + sum[T \ {x}]
    BY <1>b
  <2>2. sum[T \ {x}] = sum[(T \ {x}) \cap P]
    BY <1>2
  <2>3. CASE x \in P
    <3>1. x \in T \cap P /\ T \cap P \in SUBSET S /\ (T \cap P) \ {x} = (T \ {x}) \cap P
      BY <2>3
    <3>2. sum[T \cap P] = f[x] + sum[(T \cap P) \ {x}]
      BY <1>b, <3>1
    <3> QED
      BY <2>1, <2>2, <3>1, <3>2
  <2>4. CASE x \notin P
    <3>1. f[x] = 0 /\ (T \ {x}) \cap P = T \cap P
      BY <2>4
    <3>2. sum[T \ {x}] \in Nat /\ f[x] \in Nat
      BY <1>a
    <3> QED
      BY <2>1, <2>2, <3>1, <3>2
  <2> QED
    BY <2>3, <2>4
<1> HIDE DEF A
<1>3. \A T \in SUBSET S : T \in A
  BY <1>1, <1>2, SubsetInduction
<1>4. S \in A /\ S \cap P = P
  BY <1>3
<1> QED
  BY <1>4 DEF A, sum

(* Each element is part of the sum, and so are two. *)
LEMMA SumsBound ==
  ASSUME NEW S, IsFiniteSet(S), NEW f \in [S -> Nat], NEW T \in SUBSET S
  PROVE  /\ \A x \in T : f[x] <= Sums(f, S)[T]
         /\ \A x, y \in T : x # y => f[x] + f[y] <= Sums(f, S)[T]
<1> DEFINE sum == Sums(f, S)
<1>1. sum \in [SUBSET S -> Nat]
  BY SumsType
<1>2. \A U \in SUBSET S : \A x \in U : sum[U] = f[x] + sum[U \ {x}]
  BY SumsStep
<1> HIDE DEF sum
<1>3. ASSUME NEW x \in T PROVE f[x] <= sum[T]
  <2>1. T \ {x} \in SUBSET S /\ f[x] \in Nat
    OBVIOUS
  <2>2. sum[T \ {x}] \in Nat
    BY <1>1, <2>1
  <2> QED
    BY <1>2, <2>1, <2>2, SMTT(30)
<1>4. ASSUME NEW x \in T, NEW y \in T, x # y PROVE f[x] + f[y] <= sum[T]
  <2> DEFINE U == T \ {x}
  <2>1. U \in SUBSET S /\ y \in U /\ U \ {y} \in SUBSET S /\ f[x] \in Nat /\ f[y] \in Nat
    BY <1>4
  <2>2. sum[T] = f[x] + sum[U]
    BY <1>2
  <2> HIDE DEF U
  <2>3. sum[U] = f[y] + sum[U \ {y}]
    BY <1>2, <2>1
  <2>4. sum[U \ {y}] \in Nat
    BY <1>1, <2>1
  <2> QED
    BY <2>1, <2>2, <2>3, <2>4
<1> QED
  BY <1>3, <1>4 DEF sum

=============================================================================
