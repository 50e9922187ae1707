---------------------------- MODULE ParserProofs ----------------------------
(***************************************************************************)
(* What parse_url makes of a text, for every character set.  A text that   *)
(* has no character of cs is a sequence over Ascii \ cs: each cut of the   *)
(* parser takes characters away from that set, and what remains of it at   *)
(* the end is what a field may hold.                                       *)
(***************************************************************************)
EXTENDS UrlParsing, BitFieldsProofs

-----------------------------------------------------------------------------
(* Characters. *)

(* The five byte classes make up the ASCII characters. *)
LEMMA ClassesAreAscii ==
  /\ {Digits, Lowers, Uppers, Syms, Others} \subseteq Seq(Ascii)
  /\ ToSet(Others) \subseteq Ascii
  /\ Ascii \subseteq Characters
<1> DEFINE S == UNION {ToSet(Digits), ToSet(Lowers), ToSet(Uppers), ToSet(Syms),
                       ToSet(Others)}
<1>1. ASSUME NEW class \in {Digits, Lowers, Uppers, Syms, Others}
      PROVE  class \in Seq(S)
  <2>1. class \in Seq(ToSet(class))
    BY CharacterSet
  <2>2. ToSet(class) \subseteq S
    OBVIOUS
  <2> HIDE DEF S
  <2> QED
    BY <2>1, <2>2, SeqMonotonic
<1>2. \A s : ToSet(s) = Range(s)
  BY DEF ToSet, Range
<1>3. ASSUME NEW s \in Seq(S), NEW t \in Seq(S)
      PROVE  ToSet(s \o t) = ToSet(s) \cup ToSet(t) /\ s \o t \in Seq(S)
  <2> HIDE DEF S
  <2> QED
    BY <1>2, RangeConcatenation, ConcatProperties
<1>4. Ascii = S
  <2>1. Digits \o Lowers \in Seq(S) /\ ToSet(Digits \o Lowers) = ToSet(Digits) \cup ToSet(Lowers)
    BY <1>1, <1>3
  <2> DEFINE s2 == Digits \o Lowers
             s3 == s2 \o Uppers
             s4 == s3 \o Syms
  <2>2. s3 \in Seq(S) /\ ToSet(s3) = ToSet(s2) \cup ToSet(Uppers)
    BY <1>1, <1>3, <2>1
  <2>3. s4 \in Seq(S) /\ ToSet(s4) = ToSet(s3) \cup ToSet(Syms)
    BY <1>1, <1>3, <2>2
  <2>4. ToSet(s4 \o Others) = ToSet(s4) \cup ToSet(Others)
    BY <1>1, <1>3, <2>3
  <2>5. Ascii = ToSet(s4 \o Others)
    BY DEF Ascii
  <2> HIDE DEF s4, s3, s2
  <2>6. ToSet(s2) = ToSet(Digits) \cup ToSet(Lowers)
    BY <2>1 DEF s2
  <2> QED
    BY <2>2, <2>3, <2>4, <2>5, <2>6
<1>5. Ascii \subseteq Characters
  BY DEF Characters
<1>6. ToSet(Others) \subseteq S
  OBVIOUS
<1> HIDE DEF S
<1> QED
  BY <1>1, <1>4, <1>5, <1>6

(* The characters parse_url cuts texts at. *)
Delimiters == {"%", ".", ":", "/", "?", "#", "&", "=", "@", "["}

(* Changing case or printing a port neither makes nor takes a delimiter.   *)
LEMMA NoNewDelimiter ==
  /\ Delimiters \subseteq Ascii
  /\ \A c \in DOMAIN HexVal : HexUp(c) \in DOMAIN HexVal /\ c \notin Delimiters
  /\ DOMAIN HexVal \subseteq Ascii
  /\ \A c \in DOMAIN LowerOf : Lower(c) \in ToSet(Lowers) /\ c \notin Delimiters
  /\ ToSet(Lowers) \cap Delimiters = {} /\ ToSet(Lowers) \subseteq Ascii
  /\ DOMAIN Numeral \cap Delimiters = {} /\ DOMAIN Numeral \subseteq Ascii
<1> DEFINE letters == ToSet(Digits \o Lowers \o Uppers)
<1>1. /\ letters \cap Delimiters = {} /\ DOMAIN HexVal \cap Delimiters = {}
      /\ DOMAIN Numeral \cap Delimiters = {}
  BY DelimitersStandAlone DEF Delimiters
<1>2. Delimiters \subseteq Ascii
  BY CharacterSet, ClassesAreAscii DEF Delimiters
<1>3. ToSet(Lowers) \subseteq letters /\ ToSet(Uppers) \subseteq letters
  <2>1. \A s : ToSet(s) = Range(s)
    BY DEF ToSet, Range
  <2>2. Digits \in Seq(Ascii) /\ Lowers \in Seq(Ascii) /\ Uppers \in Seq(Ascii)
    BY ClassesAreAscii
  <2> DEFINE pair == Digits \o Lowers
  <2>3. pair \in Seq(Ascii) /\ Range(pair) = Range(Digits) \cup Range(Lowers)
    BY <2>2, ConcatProperties, RangeConcatenation
  <2>4. letters = ToSet(pair \o Uppers)
    OBVIOUS
  <2> HIDE DEF pair, letters
  <2>5. Range(pair \o Uppers) = Range(pair) \cup Range(Uppers)
    BY <2>2, <2>3, RangeConcatenation
  <2> QED
    BY <2>1, <2>3, <2>4, <2>5
<1> HIDE DEF letters
<1>4. ToSet(Lowers) \subseteq Ascii
  <2>1. Lowers \in Seq(Ascii)
    BY ClassesAreAscii
  <2> QED
    BY <2>1, ElementOfSeq, LenProperties DEF ToSet
<1>5. ASSUME NEW c \in DOMAIN HexVal PROVE HexUp(c) \in DOMAIN HexVal
  <2>1. /\ HexVal[c] \in 0..(Pow2[HexBits] - 1) /\ Len(HexUpper) = Pow2[HexBits]
        /\ HexUpper \in Seq(ToSet(HexUpper)) /\ ToSet(HexUpper) \subseteq DOMAIN HexVal
    BY CharacterSet
  <2>2. Pow2[HexBits] \in Nat
    BY CharacterSet, Pow2Type
  <2>3. HexVal[c] + 1 \in 1..Len(HexUpper)
    BY <2>1, <2>2
  <2>4. HexUpper[HexVal[c] + 1] \in ToSet(HexUpper)
    BY <2>1, <2>3, ElementOfSeq
  <2> QED
    BY <2>1, <2>4 DEF HexUp, IsHex
<1>6. ASSUME NEW c \in DOMAIN LowerOf PROVE Lower(c) \in ToSet(Lowers) /\ c \in ToSet(Uppers)
  BY CharacterSet DEF Lower
<1>7. DOMAIN HexVal \subseteq Ascii /\ DOMAIN Numeral \subseteq Ascii
  BY CharacterSet
<1> QED
  BY <1>1, <1>2, <1>3, <1>4, <1>5, <1>6, <1>7

LEMMA EscapeSpelled ==
  ASSUME NEW byte \in 0..(Pow2[2 * HexBits] - 1)
  PROVE  \E h, l \in DOMAIN HexVal : Escape(byte) = <<"%", h, l>>
<1> DEFINE d == Pow2[HexBits]
<1>1. HexBits \in Nat /\ 2 * HexBits = HexBits + HexBits /\ d \in Nat /\ d > 0
  BY CharacterSet, Pow2Type
<1>2. Pow2[2 * HexBits] = d * d
  BY <1>1, Pow2Sum
<1>3. HexUpper \in Seq(ToSet(HexUpper)) /\ Len(HexUpper) = d
      /\ ToSet(HexUpper) \subseteq DOMAIN HexVal
  BY CharacterSet
<1> HIDE DEF d
<1>4. byte \div d \in 0..(d - 1) /\ byte % d \in 0..(d - 1)
  <2>1. byte \in Nat /\ byte < d * d
    <3>1. d * d \in Nat
      BY <1>1
    <3> QED
      BY <1>2, <3>1
  <2>2. byte \div d < d
    BY <1>1, <2>1, DivLess
  <2> QED
    BY <1>1, <2>1, <2>2, DivMod
<1> DEFINE high == (byte \div d) + 1
           low  == (byte % d) + 1
<1>5. high \in 1..Len(HexUpper) /\ low \in 1..Len(HexUpper)
  BY <1>1, <1>3, <1>4
<1> HIDE DEF high, low
<1>6. HexUpper[high] \in DOMAIN HexVal /\ HexUpper[low] \in DOMAIN HexVal
  BY <1>3, <1>5, ElementOfSeq
<1>7. Escape(byte) = <<"%", HexUpper[high], HexUpper[low]>>
  BY DEF Escape, high, low, d
<1> QED
  BY <1>6, <1>7

-----------------------------------------------------------------------------
(* Cutting texts. *)

LEMMA FindFinds ==
  ASSUME NEW A, NEW s \in Seq(A), NEW cs
  PROVE  /\ Find(s, cs) \in 0..Len(s)
         /\ Find(s, cs) = 0 => \A i \in 1..Len(s) : s[i] \notin cs
         /\ Find(s, cs) # 0 => /\ s[Find(s, cs)] \in cs
                               /\ \A i \in 1..(Find(s, cs) - 1) : s[i] \notin cs
<1> DEFINE I == {i \in 1..Len(s) : s[i] \in cs}
           least == CHOOSE x \in I : \A y \in I : x <= y
<1>1. Find(s, cs) = IF I # {} THEN least ELSE 0
  BY Zenon DEF Find, SelectInSeq, Min
<1>2. Len(s) \in Nat
  BY LenProperties
<1>3. CASE I = {}
  BY <1>1, <1>2, <1>3
<1>4. CASE I # {}
  <2>1. \E x \in I : \A y \in I : x <= y
    <3>1. I \in SUBSET Nat
      BY <1>2
    <3> HIDE DEF I
    <3>2. PICK x \in I : \A y \in I : ~(y < x)
      BY <1>4, <3>1, LeastElement
    <3> QED
      BY <3>1, <3>2
  <2>2. least \in I /\ \A y \in I : least <= y
    <3> HIDE DEF I
    <3> QED
      BY <2>1, Zenon
  <2> HIDE DEF least
  <2>3. least \in 1..Len(s) /\ s[least] \in cs /\ \A i \in 1..(least - 1) : s[i] \notin cs
    BY <1>2, <2>2
  <2>4. Find(s, cs) = least
    BY <1>1, <1>4
  <2> QED
    BY <1>2, <2>3, <2>4
<1> QED
  BY <1>3, <1>4

LEMMA RFindFinds ==
  ASSUME NEW A, NEW s \in Seq(A), NEW cs
  PROVE  /\ RFind(s, cs) \in 0..Len(s)
         /\ RFind(s, cs) = 0 => \A i \in 1..Len(s) : s[i] \notin cs
         /\ RFind(s, cs) # 0 => /\ s[RFind(s, cs)] \in cs
                                /\ \A i \in (RFind(s, cs) + 1)..Len(s) : s[i] \notin cs
<1> DEFINE I == {i \in 1..Len(s) : s[i] \in cs}
           greatest == CHOOSE x \in I : \A y \in I : x >= y
<1>1. RFind(s, cs) = IF I # {} THEN greatest ELSE 0
  BY Zenon DEF RFind, SelectLastInSeq, Max
<1>2. Len(s) \in Nat
  BY LenProperties
<1>3. CASE I = {}
  BY <1>1, <1>2, <1>3
<1>4. CASE I # {}
  <2>1. \E x \in I : \A y \in I : x >= y
    <3>1. I \in SUBSET Nat /\ \A x \in I : x <= Len(s)
      BY <1>2
    <3> HIDE DEF I
    <3> QED
      BY <1>2, <1>4, <3>1, GreatestElement
  <2>2. greatest \in I /\ \A y \in I : greatest >= y
    <3> HIDE DEF I
    <3> QED
      BY <2>1, Zenon
  <2> HIDE DEF greatest
  <2>3. /\ greatest \in 1..Len(s) /\ s[greatest] \in cs
        /\ \A i \in (greatest + 1)..Len(s) : s[i] \notin cs
    BY <1>2, <2>2
  <2>4. RFind(s, cs) = greatest
    BY <1>1, <1>4
  <2> QED
    BY <1>2, <2>3, <2>4
<1> QED
  BY <1>3, <1>4

(* A text is one over fewer characters when it has no other. *)
LEMMA FewerCharacters ==
  ASSUME NEW A, NEW s \in Seq(A), NEW cs, \A i \in 1..Len(s) : s[i] \notin cs
  PROVE  s \in Seq(A \ cs)
<1>1. Len(s) \in Nat /\ s = [i \in 1..Len(s) |-> s[i]]
  BY LenProperties
<1>2. \A i \in 1..Len(s) : s[i] \in A \ cs
  BY ElementOfSeq
<1> QED
  BY <1>1, <1>2, SeqDef

(* A part of a text. *)
LEMMA PartOfText ==
  ASSUME NEW A, NEW s \in Seq(A), NEW m \in 1..(Len(s) + 1), NEW n \in (m - 1)..Len(s)
  PROVE  /\ SubSeq(s, m, n) \in Seq(A)
         /\ Len(SubSeq(s, m, n)) = n - m + 1
         /\ \A i \in 1..(n - m + 1) : SubSeq(s, m, n)[i] = s[m + i - 1]
<1>1. Len(s) \in Nat
  BY LenProperties
<1>2. m \in Int /\ n \in Int /\ \A i \in m..n : s[i] \in A
  BY <1>1, ElementOfSeq
<1>3. IF m <= n THEN TRUE ELSE n - m + 1 = 0
  BY <1>1
<1> QED
  BY <1>2, <1>3, SubSeqProperties

LEMMA BeforeAfter ==
  ASSUME NEW A, NEW s \in Seq(A), NEW n \in 0..Len(s)
  PROVE  /\ After(s, n) \in Seq(A) /\ Len(After(s, n)) = Len(s) - n
         /\ \A i \in 1..(Len(s) - n) : After(s, n)[i] = s[n + i]
         /\ n # 0 => /\ Before(s, n) \in Seq(A) /\ Len(Before(s, n)) = n - 1
                     /\ \A i \in 1..(n - 1) : Before(s, n)[i] = s[i]
<1>1. Len(s) \in Nat
  BY LenProperties
<1>2. /\ After(s, n) \in Seq(A) /\ Len(After(s, n)) = Len(s) - n
      /\ \A i \in 1..(Len(s) - n) : After(s, n)[i] = s[n + i]
  <2>1. n + 1 \in 1..(Len(s) + 1) /\ Len(s) \in ((n + 1) - 1)..Len(s)
    BY <1>1
  <2>2. Len(s) - (n + 1) + 1 = Len(s) - n /\ \A i \in 1..(Len(s) - n) : (n + 1) + i - 1 = n + i
    BY <1>1
  <2> QED
    BY <2>1, <2>2, PartOfText DEF After
<1>3. ASSUME n # 0
      PROVE  /\ Before(s, n) \in Seq(A) /\ Len(Before(s, n)) = n - 1
             /\ \A i \in 1..(n - 1) : Before(s, n)[i] = s[i]
  <2>1. 1 \in 1..(Len(s) + 1) /\ n - 1 \in (1 - 1)..Len(s)
    BY <1>1, <1>3
  <2>2. (n - 1) - 1 + 1 = n - 1 /\ \A i \in 1..(n - 1) : 1 + i - 1 = i
    BY <1>1, <1>3
  <2> QED
    BY <2>1, <2>2, PartOfText DEF Before
<1> QED
  BY <1>2, <1>3

(* split_once: what is before the first character of cs has none. *)
LEMMA CutAtFirst ==
  ASSUME NEW A, NEW s \in Seq(A), NEW cs
  PROVE  /\ Find(s, cs) \in 0..Len(s)
         /\ After(s, Find(s, cs)) \in Seq(A)
         /\ IF Find(s, cs) = 0 THEN s \in Seq(A \ cs) ELSE Before(s, Find(s, cs)) \in Seq(A \ cs)
<1> DEFINE n == Find(s, cs)
<1>1. /\ n \in 0..Len(s)
      /\ n = 0 => \A i \in 1..Len(s) : s[i] \notin cs
      /\ n # 0 => \A i \in 1..(n - 1) : s[i] \notin cs
  BY FindFinds
<1> HIDE DEF n
<1>2. /\ After(s, n) \in Seq(A)
      /\ n # 0 => /\ Before(s, n) \in Seq(A) /\ Len(Before(s, n)) = n - 1
                  /\ \A i \in 1..(n - 1) : Before(s, n)[i] = s[i]
  BY <1>1, BeforeAfter
<1>3. n = 0 => s \in Seq(A \ cs)
  BY <1>1, FewerCharacters
<1>4. n # 0 => Before(s, n) \in Seq(A \ cs)
  <2>1. n # 0 => \A i \in 1..Len(Before(s, n)) : Before(s, n)[i] \notin cs
    BY <1>1, <1>2
  <2> QED
    BY <1>2, <2>1, FewerCharacters
<1> QED
  BY <1>1, <1>2, <1>3, <1>4 DEF n

(* rsplit_once: what is behind the last one has none. *)
LEMMA CutAtLast ==
  ASSUME NEW A, NEW s \in Seq(A), NEW cs
  PROVE  /\ RFind(s, cs) \in 0..Len(s)
         /\ RFind(s, cs) # 0 => Before(s, RFind(s, cs)) \in Seq(A)
         /\ After(s, RFind(s, cs)) \in Seq(A \ cs)
<1> DEFINE n == RFind(s, cs)
<1>1. /\ n \in 0..Len(s) /\ Len(s) \in Nat
      /\ \A i \in (n + 1)..Len(s) : s[i] \notin cs
  <2>1. /\ n \in 0..Len(s)
        /\ n = 0 => \A i \in 1..Len(s) : s[i] \notin cs
        /\ n # 0 => \A i \in (n + 1)..Len(s) : s[i] \notin cs
    BY RFindFinds
  <2> HIDE DEF n
  <2> QED
    BY <2>1, LenProperties
<1> HIDE DEF n
<1>2. /\ After(s, n) \in Seq(A) /\ Len(After(s, n)) = Len(s) - n
      /\ \A i \in 1..(Len(s) - n) : After(s, n)[i] = s[n + i]
      /\ n # 0 => Before(s, n) \in Seq(A)
  BY <1>1, BeforeAfter
<1>3. \A i \in 1..Len(After(s, n)) : After(s, n)[i] \notin cs
  BY <1>1, <1>2
<1>4. After(s, n) \in Seq(A \ cs)
  BY <1>2, <1>3, FewerCharacters
<1> QED
  BY <1>1, <1>2, <1>4 DEF n

(* split, part by part: parts[k] are the parts of the first k characters.  *)
SplitGoes(parts, s, c) ==
  /\ parts[0] = << <<>> >>
  /\ \A k \in 1..Len(s) :
       parts[k] = IF s[k] = c THEN Append(parts[k - 1], <<>>)
                  ELSE [parts[k - 1] EXCEPT ![Len(parts[k - 1])] =
                          Append(parts[k - 1][Len(parts[k - 1])], s[k])]
  /\ Split(s, c) = parts[Len(s)]

LEMMA SplitSteps ==
  ASSUME NEW A, NEW s \in Seq(A), NEW c
  PROVE  \E parts : /\ SplitGoes(parts, s, c)
                    /\ \A k \in 0..Len(s) : parts[k] \in Seq(Seq(A \ {c})) \ {<<>>}
<1> DEFINE N == Len(s)
           P == Seq(A \ {c})
           D == Seq(P) \ {<<>>}
           first == << <<>> >>
           add(k, before) ==
             IF s[k] = c THEN Append(before, <<>>)
             ELSE [before EXCEPT ![Len(before)] = Append(@, s[k])]
           eq(f) == [k \in 0..N |-> IF k = 0 THEN first ELSE add(k, f[k - 1])]
           step == [k \in 1..N |-> [before \in D |-> add(k, before)]]
           parts == CHOOSE f : f = eq(f)
<1>1. N \in Nat
  BY LenProperties
<1>2. first \in D
  <2>1. <<>> \in P
    BY EmptySeq
  <2> HIDE DEF P
  <2>2. << <<>> >> \in Seq(P)
    BY <2>1
  <2> QED
    BY <2>2
<1>3. ASSUME NEW k \in 1..N, NEW before \in D PROVE add(k, before) \in D
  <2>1. before \in Seq(P) /\ Len(before) \in 1..Len(before)
    BY EmptySeq
  <2>2. CASE s[k] = c
    <3>1. <<>> \in P
      BY EmptySeq
    <3> HIDE DEF P
    <3>2. Append(before, <<>>) \in Seq(P) /\ Append(before, <<>>) # <<>>
      BY <2>1, <3>1, AppendProperties
    <3> QED
      BY <2>2, <3>2
  <2>3. CASE s[k] # c
    <3>1. s[k] \in A \ {c}
      BY <2>3, ElementOfSeq
    <3>2. before[Len(before)] \in P
      <4> HIDE DEF P
      <4> QED
        BY <2>1, ElementOfSeq
    <3>3. Append(before[Len(before)], s[k]) \in P
      BY <3>1, <3>2, AppendProperties
    <3> HIDE DEF P
    <3> DEFINE new == [before EXCEPT ![Len(before)] = Append(before[Len(before)], s[k])]
    <3>4. new \in Seq(P) /\ Len(new) = Len(before)
      BY <2>1, <3>3, ExceptSeq
    <3>5. new # <<>>
      BY <2>1, <3>4, EmptySeq
    <3>6. add(k, before) = new
      BY <2>3
    <3> QED
      BY <3>4, <3>5, <3>6
  <2> QED
    BY <2>2, <2>3
<1> HIDE DEF D, P, first, N
<1>4. ASSUME NEW k \in 1..N, NEW before \in D PROVE step[k][before] = add(k, before)
  OBVIOUS
<1>5. step \in [1..N -> [D -> D]]
  BY <1>3
<1>6. PICK f \in [0..N -> D] : Unfolds(f, N, first, step)
  <2> HIDE DEF step
  <2> QED
    BY <1>1, <1>2, <1>5, RecursionInto
<1> HIDE DEF add
<1>7. f = eq(f)
  <2>1. f = [k \in 0..N |-> IF k = 0 THEN first ELSE step[k][f[k - 1]]]
    BY <1>6 DEF Unfolds
  <2> HIDE DEF step
  <2>2. ASSUME NEW k \in 1..N PROVE step[k][f[k - 1]] = add(k, f[k - 1])
    <3>1. f[k - 1] \in D
      BY <1>1
    <3> QED
      BY <1>4, <3>1
  <2>3. \A k \in 0..N : f[k] = IF k = 0 THEN first ELSE add(k, f[k - 1])
    BY <1>1, <2>1, <2>2
  <2> QED
    BY <2>1, <2>3
<1>8. parts = eq(parts)
  <2> HIDE DEF eq
  <2> QED
    BY <1>7, Zenon
<1>9. Split(s, c) = parts[N]
  BY Zenon DEF Split, add, first, N
<1> HIDE DEF parts
<1>10. parts[0] = first /\ \A k \in 1..N : parts[k] = add(k, parts[k - 1])
  BY <1>1, <1>8
<1> DEFINE T == {k \in 0..N : parts[k] \in D}
<1>11. 0 \in T
  BY <1>1, <1>2, <1>10
<1>12. ASSUME NEW k \in 0..(N - 1), k \in T PROVE k + 1 \in T
  <2>1. k + 1 \in 1..N /\ (k + 1) - 1 = k
    BY <1>1
  <2>2. parts[k + 1] = add(k + 1, parts[k])
    BY <1>10, <2>1
  <2>3. add(k + 1, parts[k]) \in D
    BY <1>3, <1>12, <2>1
  <2> QED
    BY <1>1, <2>1, <2>2, <2>3
<1> HIDE DEF T
<1>13. \A k \in 0..N : k \in T
  BY <1>1, <1>11, <1>12, UpTo
<1>14. \A k \in 0..N : parts[k] \in D
  BY <1>13 DEF T
<1>15. SplitGoes(parts, s, c)
  <2>1. \A k \in 1..N : add(k, parts[k - 1]) =
          IF s[k] = c THEN Append(parts[k - 1], <<>>)
          ELSE [parts[k - 1] EXCEPT ![Len(parts[k - 1])] =
                  Append(parts[k - 1][Len(parts[k - 1])], s[k])]
    BY DEF add
  <2> QED
    BY <1>9, <1>10, <2>1, Zenon DEF SplitGoes, N, first
<1> QED
  BY <1>14, <1>15 DEF D, P, N

LEMMA SplitParts ==
  ASSUME NEW A, NEW s \in Seq(A), NEW c
  PROVE  Split(s, c) \in Seq(Seq(A \ {c})) \ {<<>>}
<1>1. PICK parts : /\ SplitGoes(parts, s, c)
                   /\ \A k \in 0..Len(s) : parts[k] \in Seq(Seq(A \ {c})) \ {<<>>}
  BY SplitSteps
<1>2. Len(s) \in 0..Len(s)
  BY LenProperties
<1> QED
  BY <1>1, <1>2 DEF SplitGoes

-----------------------------------------------------------------------------
(* Normalisation. *)

(* The scan at the i-th character, and what it makes of it. *)
WellFormed(s, i) == i + 2 <= Len(s) /\ IsHex(s[i + 1]) /\ IsHex(s[i + 2])

Escapes(c) == FlattenSeq([k \in 1..Len(Utf8[c]) |-> Escape(Utf8[c][k])])

HeadAt(s, i) ==
  CASE s[i] = "%" -> <<"%", HexUp(s[i + 1]), HexUp(s[i + 2])>>
    [] s[i] \in DOMAIN Utf8 -> Escapes(s[i])
    [] OTHER -> <<s[i]>>

NextAt(s, i) == i + (IF s[i] = "%" THEN 3 ELSE 1)

NormalGoes(from, s) ==
  /\ \A i \in 1..(Len(s) + 3) :
       from[i] = IF i > Len(s) THEN Valid(<<>>)
                 ELSE IF s[i] = "%" /\ ~WellFormed(s, i) THEN Invalid
                 ELSE IF from[NextAt(s, i)].ok
                 THEN Valid(HeadAt(s, i) \o from[NextAt(s, i)].url) ELSE Invalid
  /\ NormalizePercentEncoding(s) = from[1]

(* A refusal or a text of ASCII characters. *)
AsciiResults == {Invalid} \cup {Valid(t) : t \in Seq(Ascii)}

LEMMA EscapesAreAscii ==
  ASSUME NEW c \in DOMAIN Utf8
  PROVE  Escapes(c) \in Seq(Ascii)
<1> DEFINE piece(k) == Escape(Utf8[c][k])
           n == Len(Utf8[c])
           seqs == [k \in 1..n |-> piece(k)]
<1>1. Utf8[c] \in Seq(0..(Pow2[2 * HexBits] - 1)) /\ n \in Nat
  BY CharacterSet, LenProperties
<1>2. ASSUME NEW k \in 1..n PROVE piece(k) \in Seq(Ascii)
  <2>1. Utf8[c][k] \in 0..(Pow2[2 * HexBits] - 1)
    BY <1>1, ElementOfSeq
  <2>2. PICK h, l \in DOMAIN HexVal : piece(k) = <<"%", h, l>>
    BY <2>1, EscapeSpelled
  <2>3. {"%", h, l} \subseteq Ascii
    BY NoNewDelimiter DEF Delimiters
  <2> HIDE DEF piece
  <2> QED
    BY <2>2, <2>3
<1>3. Escapes(c) = FlattenSeq(seqs)
  BY DEF Escapes
<1> HIDE DEF piece, n
<1>4. seqs \in Seq(Seq(Ascii))
  <2> DEFINE S == Seq(Ascii)
  <2>1. \A k \in 1..n : piece(k) \in S
    BY <1>2
  <2> HIDE DEF S
  <2>2. seqs \in Seq(S)
    BY <1>1, <2>1
  <2> QED
    BY <2>2 DEF S
<1> HIDE DEF seqs
<1> QED
  BY <1>3, <1>4, FlattenLaysOut

LEMMA HeadIsAscii ==
  ASSUME NEW s \in Seq(Characters), NEW i \in 1..Len(s), s[i] = "%" => WellFormed(s, i)
  PROVE  HeadAt(s, i) \in Seq(Ascii)
<1>1. CASE s[i] = "%"
  <2>1. HexUp(s[i + 1]) \in Ascii /\ HexUp(s[i + 2]) \in Ascii /\ "%" \in Ascii
    BY <1>1, NoNewDelimiter DEF WellFormed, IsHex, Delimiters
  <2>2. s[i] \notin DOMAIN Utf8
    BY <1>1, <2>1, CharacterSet
  <2>3. HeadAt(s, i) = <<"%", HexUp(s[i + 1]), HexUp(s[i + 2])>>
    BY <1>1, <2>2 DEF HeadAt
  <2> QED
    BY <2>1, <2>3
<1>2. CASE s[i] # "%" /\ s[i] \in DOMAIN Utf8
  BY <1>2, EscapesAreAscii DEF HeadAt
<1>3. CASE s[i] # "%" /\ s[i] \notin DOMAIN Utf8
  <2>1. s[i] \in Ascii
    BY <1>3, ElementOfSeq DEF Characters
  <2>2. HeadAt(s, i) = <<s[i]>>
    BY <1>3 DEF HeadAt
  <2> QED
    BY <2>1, <2>2
<1> QED
  BY <1>1, <1>2, <1>3

LEMMA NormalSteps ==
  ASSUME NEW s \in Seq(Characters)
  PROVE  \E from : /\ NormalGoes(from, s)
                   /\ \A i \in 1..(Len(s) + 3) : from[i] \in AsciiResults
<1> DEFINE N == Len(s)
           M == N + 3
           D == AsciiResults
           base == Valid(<<>>)
           bad(i) == s[i] = "%" /\ ~WellFormed(s, i)
           jump(i) == NextAt(s, i)
           add(i, rest) == IF bad(i) THEN Invalid
                           ELSE IF rest.ok THEN Valid(HeadAt(s, i) \o rest.url) ELSE Invalid
           eq(f) == [i \in 1..M |-> IF i > N THEN base ELSE add(i, f[jump(i)])]
           from == CHOOSE f : f = eq(f)
           step == [i \in 1..N |-> [rest \in D |-> add(i, rest)]]
           jumps == [i \in 1..N |-> jump(i)]
<1>1. N \in Nat /\ M \in Nat /\ M = N + 3
  BY LenProperties
<1>2. base \in D /\ Invalid \in D
  BY EmptySeq DEF AsciiResults
<1>3. ASSUME NEW i \in 1..N, NEW rest \in D PROVE add(i, rest) \in D
  <2>1. CASE bad(i) \/ ~rest.ok
    BY <1>2, <2>1
  <2>2. CASE ~bad(i) /\ rest.ok
    <3>1. rest # Invalid
      BY <2>2 DEF Invalid
    <3>2. PICK t \in Seq(Ascii) : rest = Valid(t)
      BY <3>1 DEF AsciiResults
    <3>3. rest.url = t
      BY <3>2 DEF Valid
    <3>4. HeadAt(s, i) \in Seq(Ascii)
      BY <2>2, HeadIsAscii
    <3>5. HeadAt(s, i) \o t \in Seq(Ascii)
      BY <3>4, ConcatProperties
    <3>6. add(i, rest) = Valid(HeadAt(s, i) \o t)
      BY <2>2, <3>3
    <3> QED
      BY <3>5, <3>6 DEF AsciiResults
  <2> QED
    BY <2>1, <2>2
<1>4. ASSUME NEW i \in 1..N PROVE jump(i) \in (i + 1)..M
  BY <1>1 DEF NextAt
<1>5. NormalizePercentEncoding(s) = from[1]
  BY Zenon DEF NormalizePercentEncoding, HeadAt, Escapes, NextAt, WellFormed
<1>6. ASSUME NEW i, NEW rest
      PROVE  add(i, rest) = IF bad(i) THEN Invalid
                            ELSE IF rest.ok THEN Valid(HeadAt(s, i) \o rest.url) ELSE Invalid
  OBVIOUS
<1> HIDE DEF D, base, add, jump, N, M
<1>7. /\ step \in [1..N -> [D -> D]]
      /\ \A i \in 1..N : \A rest \in D : step[i][rest] = add(i, rest)
      /\ \A i \in 1..N : jumps[i] = jump(i) /\ jumps[i] \in (i + 1)..M
  BY <1>3, <1>4
<1>8. \E f : f = eq(f)
  <2> HIDE DEF step, jumps
  <2>1. PICK f \in [1..M -> D] : Jumps(f, N, M, base, step, jumps)
    <3>1. N \in Nat /\ M \in Nat /\ base \in D /\ step \in [1..N -> [D -> D]]
      BY <1>1, <1>2, <1>7
    <3>2. jumps \in [1..N -> Nat] /\ \A i \in 1..N : jumps[i] \in (i + 1)..M
      <4>1. \A i \in 1..N : jumps[i] \in (i + 1)..M /\ jumps[i] \in Nat
        BY <1>1, <1>7
      <4>2. jumps = [i \in 1..N |-> jumps[i]]
        BY DEF jumps
      <4> QED
        BY <4>1, <4>2
    <3> QED
      BY ONLY <3>1, <3>2, JumpsInto
  <2>2. ASSUME NEW i \in 1..M PROVE f[i] = IF i > N THEN base ELSE add(i, f[jump(i)])
    <3>1. CASE i > N
      BY <2>1, <3>1 DEF Jumps
    <3>2. CASE ~(i > N)
      <4>1. i \in 1..N
        BY <1>1, <3>2
      <4>2. jumps[i] = jump(i) /\ jump(i) \in 1..M
        BY <1>1, <1>7, <4>1
      <4>3. f[jump(i)] \in D
        BY <4>2
      <4> QED
        BY <1>7, <2>1, <3>2, <4>1, <4>2, <4>3 DEF Jumps
    <3> QED
      BY <3>1, <3>2
  <2>3. f = eq(f)
    BY <2>2
  <2> HIDE DEF eq
  <2> QED
    BY <2>3
<1>9. from = eq(from)
  <2> HIDE DEF eq
  <2> QED
    BY <1>8, Zenon
<1> HIDE DEF from
<1>10. ASSUME NEW i \in 1..M PROVE from[i] = IF i > N THEN base ELSE add(i, from[jump(i)])
  BY <1>9
<1> DEFINE T == {i \in 1..M : from[i] \in D}
<1>11. \A i \in (N + 1)..M : i \in T
  BY <1>1, <1>2, <1>10
<1>12. ASSUME NEW i \in 1..N, \A j \in (i + 1)..M : j \in T PROVE i \in T
  <2>1. jump(i) \in T
    BY <1>4, <1>12
  <2>2. i \in 1..M /\ ~(i > N)
    BY <1>1
  <2>3. add(i, from[jump(i)]) \in D
    BY <1>3, <2>1
  <2> QED
    BY <1>10, <2>2, <2>3
<1> HIDE DEF T
<1>13. \A i \in 1..M : i \in T
  BY <1>1, <1>11, <1>12, DownFrom
<1>14. \A i \in 1..M : from[i] \in D
  BY <1>13 DEF T
<1>15. NormalGoes(from, s)
  BY <1>5, <1>10, Zenon DEF NormalGoes, N, M, base, add, jump
<1> QED
  BY <1>14, <1>15 DEF D, M, N

LEMMA NormalIsAscii ==
  ASSUME NEW s \in Seq(Characters), NormalizePercentEncoding(s).ok
  PROVE  NormalizePercentEncoding(s).url \in Seq(Ascii)
<1>1. PICK from : /\ NormalGoes(from, s)
                  /\ \A i \in 1..(Len(s) + 3) : from[i] \in AsciiResults
  BY NormalSteps
<1>2. 1 \in 1..(Len(s) + 3)
  BY LenProperties
<1>3. NormalizePercentEncoding(s) \in AsciiResults
  BY <1>1, <1>2 DEF NormalGoes
<1>4. NormalizePercentEncoding(s) # Invalid
  BY DEF Invalid
<1>5. PICK t \in Seq(Ascii) : NormalizePercentEncoding(s) = Valid(t)
  BY <1>3, <1>4 DEF AsciiResults
<1> QED
  BY <1>5 DEF Valid

-----------------------------------------------------------------------------
(* The fields of a URL. *)

LEMMA FreeOf ==
  ASSUME NEW A, NEW cs, NEW s \in Seq(A \ cs)
  PROVE  ToSet(s) \cap cs = {}
BY ElementOfSeq, LenProperties DEF ToSet

(* Changing the case keeps a text free of the delimiters it is free of. *)
LEMMA HostEscapesKeep ==
  ASSUME NEW X \in SUBSET Delimiters, NEW s \in Seq(Ascii \ X)
  PROVE  NormalizeHostEscapes(s) \in Seq(Ascii \ X)
<1> DEFINE S == Ascii \ X
           inEscape(i) == \E k \in 1..2 : i > k /\ s[i - k] = "%"
           new(i) == IF inEscape(i) /\ IsHex(s[i]) THEN HexUp(s[i]) ELSE Lower(s[i])
<1>1. ASSUME NEW i \in 1..Len(s) PROVE new(i) \in S
  <2>1. s[i] \in S
    BY ElementOfSeq
  <2>2. IsHex(s[i]) => HexUp(s[i]) \in S
    BY NoNewDelimiter DEF IsHex
  <2>3. Lower(s[i]) \in S
    <3>1. CASE s[i] \in DOMAIN LowerOf
      BY <3>1, NoNewDelimiter
    <3>2. CASE s[i] \notin DOMAIN LowerOf
      BY <2>1, <3>2 DEF Lower
    <3> QED
      BY <3>1, <3>2
  <2> HIDE DEF S, inEscape
  <2> QED
    BY <2>2, <2>3
<1>2. NormalizeHostEscapes(s) = [i \in 1..Len(s) |-> new(i)]
  BY DEF NormalizeHostEscapes
<1>3. Len(s) \in Nat
  BY LenProperties
<1> HIDE DEF S, new
<1>4. [i \in 1..Len(s) |-> new(i)] \in Seq(S)
  BY <1>1, <1>3
<1> QED
  BY <1>2, <1>4 DEF S

(* Characters of an authority and of a host. *)
AuthorityCharacters == Ascii \ {"/", "?", "#"}
HostCharacters == Ascii \ {"/", "?", "#", "@"}

LEMMA SplitHostFields ==
  ASSUME NEW label \in Seq(HostCharacters), NEW suffix \in Seq(HostCharacters)
  PROVE  /\ SplitHost(label, suffix).host \in Seq(HostCharacters)
         /\ SplitHost(label, suffix).tld \in Seq(HostCharacters \ {"."})
<1> DEFINE full == label \o suffix
           dot == RFind(full, {"."})
<1>1. full \in Seq(HostCharacters)
  BY ConcatProperties
<1>2. CASE IsIpv4Literal(label) \/ dot = 0
  <2>1. SplitHost(label, suffix) = [host |-> full, tld |-> <<>>]
    BY <1>2 DEF SplitHost
  <2>2. <<>> \in Seq(HostCharacters \ {"."})
    BY EmptySeq
  <2> HIDE DEF full
  <2> QED
    BY <1>1, <2>1, <2>2
<1>3. CASE ~(IsIpv4Literal(label) \/ dot = 0)
  <2>1. SplitHost(label, suffix) = [host |-> Before(full, dot), tld |-> After(full, dot)]
    BY <1>3 DEF SplitHost
  <2>2. Before(full, dot) \in Seq(HostCharacters) /\ After(full, dot) \in Seq(HostCharacters \ {"."})
    <3> HIDE DEF full
    <3> QED
      BY <1>1, <1>3, CutAtLast
  <2> HIDE DEF full, dot
  <2> QED
    BY <2>1, <2>2
<1> QED
  BY <1>2, <1>3

LEMMA AuthorityFields ==
  ASSUME NEW authority \in Seq(AuthorityCharacters), NEW https,
         ParseAuthority(authority, https).ok
  PROVE  /\ ParseAuthority(authority, https).url.host \in Seq(HostCharacters)
         /\ ParseAuthority(authority, https).url.tld \in Seq(HostCharacters \ {"."})
<1> DEFINE H == HostCharacters
           colon   == RFind(authority, {":"})
           portTxt == After(authority, colon)
           number  == Len(portTxt) = 1 /\ portTxt[1] \in DOMAIN Numeral
           port    == Numeral[portTxt[1]]
           suffix  == IF colon = 0 \/ port = DefaultPort(https) THEN <<>>
                      ELSE <<":", PortText[port]>>
           part    == IF colon = 0 THEN authority ELSE Before(authority, colon)
           lowered == NormalizeHostEscapes(part)
           www     == IsPrefix(<<"www", ".">>, lowered)
           label   == IF www THEN SubSeq(lowered, 3, Len(lowered)) ELSE lowered
           split   == SplitHost(label, suffix)
           refused == \/ authority = <<>> \/ Contains(authority, "@") \/ authority[1] = "["
                      \/ colon # 0 /\ ~number
                      \/ Contains(part, ":")
                      \/ label = <<>> \/ split.host = <<>>
<1>1. ParseAuthority(authority, https) =
        IF refused THEN Invalid
        ELSE Valid([www |-> www, host |-> split.host, tld |-> split.tld])
  BY Zenon DEF ParseAuthority
<1>2. ~refused
  <2> HIDE DEF refused, www, split
  <2> QED
    BY <1>1 DEF Invalid
<1>3. authority \in Seq(H)
  <2>1. \A i \in 1..Len(authority) : authority[i] \notin {"@"}
    BY <1>2 DEF Contains
  <2>2. authority \in Seq(AuthorityCharacters \ {"@"})
    BY <2>1, FewerCharacters
  <2>3. AuthorityCharacters \ {"@"} = H
    BY DEF AuthorityCharacters, HostCharacters
  <2> QED
    BY <2>2, <2>3
<1>4. part \in Seq(H)
  <2>1. colon # 0 => Before(authority, colon) \in Seq(H)
    BY <1>3, CutAtLast
  <2> QED
    BY <1>3, <2>1
<1>5. lowered \in Seq(H)
  <2> HIDE DEF part
  <2>1. {"/", "?", "#", "@"} \in SUBSET Delimiters
    BY DEF Delimiters
  <2> QED
    BY <1>4, <2>1, HostEscapesKeep DEF HostCharacters
<1>6. label \in Seq(H)
  <2> HIDE DEF lowered
  <2>1. www => SubSeq(lowered, 3, Len(lowered)) \in Seq(H)
    <3> SUFFICES ASSUME www PROVE SubSeq(lowered, 3, Len(lowered)) \in Seq(H)
      OBVIOUS
    <3>1. Len(lowered) \in Nat
      BY <1>5, LenProperties
    <3>2. \A i \in 3..Len(lowered) : lowered[i] \in H
      BY <1>5, <3>1, ElementOfSeq
    <3> QED
      BY <3>1, <3>2, SubSeqProperties
  <2> QED
    BY <1>5, <2>1
<1>7. suffix \in Seq(H)
  <2>1. CASE colon = 0 \/ port = DefaultPort(https)
    <3>1. <<>> \in Seq(H)
      BY EmptySeq
    <3> QED
      BY <2>1, <3>1
  <2>2. CASE ~(colon = 0 \/ port = DefaultPort(https))
    <3>1. number
      BY <1>2, <2>2
    <3>2. port \in DOMAIN PortText
      BY <3>1, CharacterSet
    <3> HIDE DEF port
    <3>3. PortText[port] \in DOMAIN Numeral
      BY <3>2, CharacterSet
    <3>4. PortText[port] \in H
      BY <3>3, NoNewDelimiter DEF HostCharacters, Delimiters
    <3>5. ":" \in H
      BY NoNewDelimiter DEF HostCharacters, Delimiters
    <3>6. suffix = <<":", PortText[port]>>
      BY <2>2
    <3> QED
      BY <3>4, <3>5, <3>6
  <2> QED
    BY <2>1, <2>2
<1>8. split.host \in Seq(H) /\ split.tld \in Seq(H \ {"."})
  <2> HIDE DEF label, suffix
  <2> QED
    BY <1>6, <1>7, SplitHostFields
<1> HIDE DEF refused, www, split
<1>9. ParseAuthority(authority, https).url = [www |-> www, host |-> split.host, tld |-> split.tld]
  BY <1>1, <1>2 DEF Valid
<1> QED
  BY <1>8, <1>9

(* What the fields of an accepted URL hold. *)
WithoutHash == Ascii \ {"#"}

CleanPair(p) ==
  /\ p.key \in Seq((WithoutHash \ {"&"}) \ {"="})
  /\ p.value.text \in Seq(WithoutHash \ {"&"})

CleanUrl(u) ==
  /\ u.host \in Seq(HostCharacters) /\ u.tld \in Seq(HostCharacters \ {"."})
  /\ u.path \in Seq(Seq((WithoutHash \ {"?"}) \ {"/"}))
  /\ Len(u.query) \in Nat /\ DOMAIN u.query = 1..Len(u.query)
  /\ \A i \in 1..Len(u.query) : CleanPair(u.query[i])
  /\ u.fragment \in Seq(Seq(Ascii \ {"/"}))

LEMMA PathIsClean ==
  ASSUME NEW A, NEW path \in Seq(A)
  PROVE  SplitPath(path) \in Seq(Seq(A \ {"/"}))
<1> DEFINE rest == IF path[1] = "/" THEN Tail(path) ELSE path
           S == Seq(A \ {"/"})
<1>1. CASE path = <<>>
  <2> HIDE DEF S
  <2>1. SplitPath(path) = <<>>
    BY <1>1 DEF SplitPath
  <2>2. <<>> \in Seq(S)
    BY EmptySeq
  <2> QED
    BY <2>1, <2>2 DEF S
<1>2. CASE path # <<>>
  <2>1. rest \in Seq(A)
    BY <1>2, HeadTailProperties
  <2>2. SplitPath(path) = Split(rest, "/")
    BY <1>2 DEF SplitPath
  <2> HIDE DEF rest
  <2> QED
    BY <2>1, <2>2, SplitParts
<1> QED
  BY <1>1, <1>2

LEMMA PairIsClean ==
  ASSUME NEW pair \in Seq(WithoutHash \ {"&"})
  PROVE  CleanPair(SplitPair(pair))
<1> DEFINE eq == Find(pair, {"="})
           B == WithoutHash \ {"&"}
<1>1. /\ After(pair, eq) \in Seq(B)
      /\ IF eq = 0 THEN pair \in Seq(B \ {"="}) ELSE Before(pair, eq) \in Seq(B \ {"="})
  BY CutAtFirst
<1>2. CASE eq = 0
  <2>1. SplitPair(pair) = [key |-> pair, value |-> NoValue]
    BY <1>2 DEF SplitPair
  <2>2. <<>> \in Seq(B)
    BY EmptySeq
  <2>3. SplitPair(pair).key = pair /\ SplitPair(pair).value.text = <<>>
    BY <2>1 DEF NoValue
  <2> QED
    BY <1>1, <1>2, <2>2, <2>3 DEF CleanPair
<1>3. CASE eq # 0
  <2>1. SplitPair(pair) = [key |-> Before(pair, eq), value |-> SomeValue(After(pair, eq))]
    BY <1>3 DEF SplitPair
  <2> HIDE DEF eq
  <2>2. SplitPair(pair).key = Before(pair, eq) /\ SplitPair(pair).value.text = After(pair, eq)
    BY <2>1 DEF SomeValue
  <2> QED
    BY <1>1, <1>3, <2>2 DEF CleanPair
<1> QED
  BY <1>2, <1>3

LEMMA QueryIsClean ==
  ASSUME NEW query \in Seq(WithoutHash), NEW present \in BOOLEAN
  PROVE  LET q == SplitQuery(query, present)
         IN  /\ Len(q) \in Nat /\ DOMAIN q = 1..Len(q)
             /\ \A i \in 1..Len(q) : CleanPair(q[i])
<1> DEFINE pairs == Split(query, "&")
           q == SplitQuery(query, present)
<1>1. CASE ~present
  <2>1. q = <<>>
    BY <1>1 DEF SplitQuery
  <2> QED
    BY <2>1
<1>2. CASE present
  <2>1. pairs \in Seq(Seq(WithoutHash \ {"&"}))
    BY SplitParts
  <2>2. q = [i \in 1..Len(pairs) |-> SplitPair(pairs[i])]
    BY <1>2 DEF SplitQuery
  <2> HIDE DEF pairs
  <2>3. Len(pairs) \in Nat
    BY <2>1, LenProperties
  <2>4. ASSUME NEW i \in 1..Len(pairs) PROVE CleanPair(SplitPair(pairs[i]))
    BY <2>1, ElementOfSeq, PairIsClean
  <2> HIDE DEF q
  <2>5. Len(q) = Len(pairs) /\ DOMAIN q = 1..Len(pairs)
        /\ \A i \in 1..Len(pairs) : q[i] = SplitPair(pairs[i])
    BY <2>2, <2>3
  <2> QED
    BY <2>3, <2>4, <2>5 DEF q
<1> QED
  BY <1>1, <1>2

LEMMA RestIsClean ==
  ASSUME NEW https, NEW rest \in Seq(Ascii), ParseRest(https, rest).ok
  PROVE  CleanUrl(ParseRest(https, rest).url)
<1> DEFINE stop      == Find(rest, {"/", "?", "#"})
           resource  == IF stop = 0 THEN <<>> ELSE SubSeq(rest, stop, Len(rest))
           hash      == Find(resource, {"#"})
           pathQuery == IF hash = 0 THEN resource ELSE Before(resource, hash)
           mark      == Find(pathQuery, {"?"})
           auth      == ParseAuthority(IF stop = 0 THEN rest ELSE Before(rest, stop), https)
           path      == SplitPath(IF mark = 0 THEN pathQuery ELSE Before(pathQuery, mark))
           query     == SplitQuery(After(pathQuery, mark), mark # 0)
           fragment  == SplitFragment(IF hash = 0 THEN <<>> ELSE After(resource, hash))
           index     == DetectIndexSuffix(path)
           whole     == [https    |-> https,
                         www      |-> auth.url.www,
                         host     |-> auth.url.host,
                         tld      |-> auth.url.tld,
                         index    |-> index,
                         path     |-> path,
                         query    |-> query,
                         fragment |-> fragment]
<1>1. ParseRest(https, rest) = IF ~auth.ok THEN Invalid ELSE Valid(whole)
  BY Zenon DEF ParseRest
<1>2. auth.ok
  <2> HIDE DEF auth, whole
  <2> QED
    BY <1>1 DEF Invalid
<1>3. auth.url.host \in Seq(HostCharacters) /\ auth.url.tld \in Seq(HostCharacters \ {"."})
  <2> DEFINE authority == IF stop = 0 THEN rest ELSE Before(rest, stop)
  <2>1. authority \in Seq(AuthorityCharacters)
    BY CutAtFirst DEF AuthorityCharacters
  <2>2. auth = ParseAuthority(authority, https)
    OBVIOUS
  <2> HIDE DEF authority, auth
  <2> QED
    BY <1>2, <2>1, <2>2, AuthorityFields
<1>4. resource \in Seq(Ascii)
  <2>1. stop \in 0..Len(rest) /\ Len(rest) \in Nat
    BY CutAtFirst, LenProperties
  <2>2. stop # 0 => SubSeq(rest, stop, Len(rest)) \in Seq(Ascii)
    <3> HIDE DEF stop
    <3> SUFFICES ASSUME stop # 0 PROVE SubSeq(rest, stop, Len(rest)) \in Seq(Ascii)
      OBVIOUS
    <3>1. stop \in 1..(Len(rest) + 1) /\ Len(rest) \in (stop - 1)..Len(rest)
      BY <2>1
    <3> QED
      BY <3>1, PartOfText
  <2>3. <<>> \in Seq(Ascii)
    BY EmptySeq
  <2> QED
    BY <2>2, <2>3
<1> HIDE DEF resource
<1>5. pathQuery \in Seq(WithoutHash)
      /\ (hash # 0 => After(resource, hash) \in Seq(Ascii))
  BY <1>4, CutAtFirst DEF WithoutHash
<1>6. fragment \in Seq(Seq(Ascii \ {"/"}))
  <2> DEFINE text == IF hash = 0 THEN <<>> ELSE After(resource, hash)
             S == Seq(Ascii \ {"/"})
  <2>1. text \in Seq(Ascii)
    BY <1>5, EmptySeq
  <2>2. fragment = IF text = <<>> THEN <<>> ELSE Split(text, "/")
    BY DEF SplitFragment
  <2> HIDE DEF text, fragment
  <2>3. Split(text, "/") \in Seq(S)
    BY <2>1, SplitParts
  <2> HIDE DEF S
  <2>4. <<>> \in Seq(S)
    BY EmptySeq
  <2>5. fragment \in Seq(S)
    BY <2>2, <2>3, <2>4
  <2> QED
    BY <2>5 DEF S
<1> HIDE DEF pathQuery, hash
<1>7. path \in Seq(Seq((WithoutHash \ {"?"}) \ {"/"}))
  <2> DEFINE text == IF mark = 0 THEN pathQuery ELSE Before(pathQuery, mark)
  <2>1. text \in Seq(WithoutHash \ {"?"})
    BY <1>5, CutAtFirst
  <2>2. path = SplitPath(text)
    OBVIOUS
  <2> HIDE DEF text, path
  <2> QED
    BY <2>1, <2>2, PathIsClean
<1>8. /\ Len(query) \in Nat /\ DOMAIN query = 1..Len(query)
      /\ \A i \in 1..Len(query) : CleanPair(query[i])
  <2> DEFINE text == After(pathQuery, mark)
  <2>1. text \in Seq(WithoutHash) /\ (mark # 0) \in BOOLEAN
    BY <1>5, CutAtFirst
  <2>2. query = SplitQuery(text, mark # 0)
    OBVIOUS
  <2> HIDE DEF text, query, mark
  <2> QED
    BY <2>1, <2>2, QueryIsClean
<1> HIDE DEF auth, path, query, fragment, index
<1>9. ParseRest(https, rest).url = whole
  BY <1>1, <1>2 DEF Valid
<1>10. /\ whole.host = auth.url.host /\ whole.tld = auth.url.tld /\ whole.path = path
       /\ whole.query = query /\ whole.fragment = fragment
  OBVIOUS
<1> HIDE DEF whole
<1> QED
  BY <1>3, <1>6, <1>7, <1>8, <1>9, <1>10 DEF CleanUrl

(* What parse_url parses, behind the scheme, is a cut of the normal text.  *)
LEMMA RestParsed ==
  ASSUME NEW s \in Seq(Characters), ParseUrl(s).ok
  PROVE  \E x \in Seq(Ascii) : \E secure : \E m \in 1..(Len(x) + 1) :
           /\ NormalizePercentEncoding(s).ok /\ x = NormalizePercentEncoding(s).url
           /\ ParseUrl(s) = ParseRest(secure, SubSeq(x, m, Len(x)))
<1> DEFINE n == NormalizePercentEncoding(s)
           t == n.url
           end == SchemeEnd(t)
           scheme == SchemeOf(SubSeq(t, 1, end - 1))
           rest == SubSeq(t, end + 3, Len(t))
           parse == IF end = 0 \/ scheme \notin {<<"http">>, <<"https">>} THEN Invalid
                    ELSE ParseRest(scheme = <<"https">>, rest)
<1>1. ParseUrl(s) = IF n.ok THEN parse ELSE Invalid
  BY Zenon DEF ParseUrl
<1>2. Invalid.ok = FALSE
  BY DEF Invalid
<1>3. n.ok /\ parse.ok /\ ParseUrl(s) = parse
  <2> HIDE DEF n, parse
  <2> QED
    BY <1>1, <1>2
<1>4. t \in Seq(Ascii)
  BY <1>3, NormalIsAscii
<1> HIDE DEF n, t
<1>5. end # 0 /\ parse = ParseRest(scheme = <<"https">>, rest)
  <2> HIDE DEF scheme, end, rest
  <2> QED
    BY <1>2, <1>3
<1>6. end + 3 \in 1..(Len(t) + 1)
  <2> DEFINE at(i) == SubSeq(t, i, i + 2) = <<":", "/", "/">>
             ends == {i \in 1..(Len(t) - 2) : at(i)}
             least == CHOOSE i \in ends : \A j \in ends : i <= j
  <2>1. SchemeEnd(t) = IF ends = {} THEN 0 ELSE least
    BY Zenon DEF SchemeEnd
  <2>2. Len(t) \in Nat
    BY <1>4, LenProperties
  <2>3. ends \in SUBSET Nat /\ ends \subseteq 1..(Len(t) - 2) /\ ends # {}
    <3> HIDE DEF at, least
    <3> QED
      BY <1>5, <2>1, <2>2
  <2>4. least \in ends
    <3> HIDE DEF ends
    <3>1. PICK m \in ends : \A j \in ends : ~(j < m)
      BY <2>3, LeastElement
    <3>2. \A j \in ends : m <= j
      BY <2>3, <3>1
    <3> QED
      BY <3>2, Zenon
  <2>5. end \in 1..(Len(t) - 2)
    <3> HIDE DEF ends, least
    <3> QED
      BY <2>1, <2>3, <2>4
  <2> HIDE DEF end
  <2> QED
    BY <2>2, <2>5
<1> DEFINE https == scheme = <<"https">>
<1>7. ParseUrl(s) = ParseRest(https, SubSeq(t, end + 3, Len(t)))
  BY <1>3, <1>5
<1> HIDE DEF https, end, scheme
<1>8. n.ok /\ t = NormalizePercentEncoding(s).url
  BY <1>3 DEF n, t
<1> QED
  BY <1>3, <1>4, <1>6, <1>7, <1>8 DEF n

LEMMA UrlIsClean ==
  ASSUME NEW s \in Seq(Characters), ParseUrl(s).ok
  PROVE  CleanUrl(ParseUrl(s).url)
<1>1. PICK t \in Seq(Ascii) : \E https : \E m \in 1..(Len(t) + 1) :
        /\ NormalizePercentEncoding(s).ok /\ t = NormalizePercentEncoding(s).url
        /\ ParseUrl(s) = ParseRest(https, SubSeq(t, m, Len(t)))
  BY RestParsed
<1>2. PICK https : \E m \in 1..(Len(t) + 1) :
        ParseUrl(s) = ParseRest(https, SubSeq(t, m, Len(t)))
  BY <1>1
<1>3. PICK m \in 1..(Len(t) + 1) : ParseUrl(s) = ParseRest(https, SubSeq(t, m, Len(t)))
  BY <1>2
<1>4. SubSeq(t, m, Len(t)) \in Seq(Ascii)
  <2>1. Len(t) \in (m - 1)..Len(t)
    BY LenProperties
  <2> QED
    BY <2>1, PartOfText
<1> QED
  BY <1>3, <1>4, RestIsClean

-----------------------------------------------------------------------------
-----------------------------------------------------------------------------
(* Escapes.  The parser's normalisation makes their digits upper case, and *)
(* no cut or change of case undoes that.                                   *)

UpperDigit(c) == c \in DOMAIN HexVal /\ HexUp(c) = c

(* Every escape has its two digits, in upper case. *)
Closed(s) ==
  \A i \in 1..Len(s) :
    s[i] = "%" => i + 2 <= Len(s) /\ UpperDigit(s[i + 1]) /\ UpperDigit(s[i + 2])

(* What is left of that in a part of the text. *)
Tidy(s) ==
  \A i \in 1..Len(s) : \A k \in 1..2 :
    s[i] = "%" /\ i + k <= Len(s) => UpperDigit(s[i + k])

ClosedTexts == {s \in Seq(Ascii) : Closed(s)}

TidyTexts == {s \in Seq(Ascii) : Tidy(s)}

LEMMA JoinedText ==
  ASSUME NEW A, NEW s \in Seq(A), NEW t \in Seq(A)
  PROVE  /\ s \o t \in Seq(A) /\ Len(s \o t) = Len(s) + Len(t)
         /\ \A i \in 1..Len(s) : (s \o t)[i] = s[i]
         /\ \A i \in 1..Len(t) : (s \o t)[Len(s) + i] = t[i]
OBVIOUS

LEMMA UpperDigits ==
  /\ \A c \in DOMAIN HexVal : UpperDigit(HexUp(c))
  /\ \A v \in 0..(Pow2[HexBits] - 1) : UpperDigit(HexUpper[v + 1])
  /\ \A c : UpperDigit(c) => c # "%" /\ c \in Ascii
<1>1. /\ HexUpper \in Seq(ToSet(HexUpper)) /\ Len(HexUpper) = Pow2[HexBits]
      /\ ToSet(HexUpper) \subseteq DOMAIN HexVal
      /\ \A v \in 0..(Pow2[HexBits] - 1) : HexVal[HexUpper[v + 1]] = v
      /\ \A c \in DOMAIN HexVal : HexVal[c] \in 0..(Pow2[HexBits] - 1)
  BY CharacterSet
<1>2. Pow2[HexBits] \in Nat
  BY CharacterSet, Pow2Type
<1>3. ASSUME NEW v \in 0..(Pow2[HexBits] - 1) PROVE UpperDigit(HexUpper[v + 1])
  <2>1. v + 1 \in 1..Len(HexUpper)
    BY <1>1, <1>2
  <2>2. HexUpper[v + 1] \in DOMAIN HexVal
    BY <1>1, <2>1, ElementOfSeq
  <2>3. HexUp(HexUpper[v + 1]) = HexUpper[HexVal[HexUpper[v + 1]] + 1]
    BY <2>2 DEF HexUp, IsHex
  <2>4. HexVal[HexUpper[v + 1]] = v
    BY <1>1
  <2> QED
    BY <2>2, <2>3, <2>4 DEF UpperDigit
<1>4. ASSUME NEW c \in DOMAIN HexVal PROVE UpperDigit(HexUp(c))
  <2>1. HexUp(c) = HexUpper[HexVal[c] + 1]
    BY DEF HexUp, IsHex
  <2> QED
    BY <1>1, <1>3, <2>1
<1>5. ASSUME NEW c, UpperDigit(c) PROVE c # "%" /\ c \in Ascii
  BY <1>5, NoNewDelimiter DEF UpperDigit, Delimiters
<1> QED
  BY <1>3, <1>4, <1>5

LEMMA ClosedIsTidy ==
  ASSUME NEW s, Closed(s)
  PROVE  Tidy(s)
BY DEF Closed, Tidy

LEMMA ClosedJoin ==
  ASSUME NEW s \in ClosedTexts, NEW t \in ClosedTexts
  PROVE  s \o t \in ClosedTexts
<1>1. s \in Seq(Ascii) /\ t \in Seq(Ascii) /\ Len(s) \in Nat /\ Len(t) \in Nat
      /\ Closed(s) /\ Closed(t)
  BY LenProperties DEF ClosedTexts
<1>2. /\ s \o t \in Seq(Ascii) /\ Len(s \o t) = Len(s) + Len(t)
      /\ \A i \in 1..Len(s) : (s \o t)[i] = s[i]
      /\ \A i \in 1..Len(t) : (s \o t)[Len(s) + i] = t[i]
  BY <1>1, JoinedText
<1> DEFINE u == s \o t
<1> HIDE DEF u
<1>3. ASSUME NEW i \in 1..Len(u), u[i] = "%"
      PROVE  i + 2 <= Len(u) /\ UpperDigit(u[i + 1]) /\ UpperDigit(u[i + 2])
  <2>1. CASE i <= Len(s)
    <3>1. i \in 1..Len(s) /\ s[i] = "%"
      BY <1>1, <1>2, <1>3, <2>1 DEF u
    <3>2. i + 2 <= Len(s) /\ UpperDigit(s[i + 1]) /\ UpperDigit(s[i + 2])
      BY <1>1, <3>1 DEF Closed
    <3>3. u[i + 1] = s[i + 1] /\ u[i + 2] = s[i + 2]
      BY <1>1, <1>2, <3>1, <3>2 DEF u
    <3> QED
      BY <1>1, <1>2, <3>2, <3>3 DEF u
  <2>2. CASE ~(i <= Len(s))
    <3> DEFINE j == i - Len(s)
    <3>1. j \in 1..Len(t) /\ t[j] = "%" /\ i = Len(s) + j
      BY <1>1, <1>2, <1>3, <2>2 DEF u
    <3> HIDE DEF j
    <3>2. j + 2 <= Len(t) /\ UpperDigit(t[j + 1]) /\ UpperDigit(t[j + 2])
      BY <1>1, <3>1 DEF Closed
    <3>3. u[Len(s) + (j + 1)] = t[j + 1] /\ u[Len(s) + (j + 2)] = t[j + 2]
      BY <1>1, <1>2, <3>1, <3>2 DEF u
    <3>4. i + 1 = Len(s) + (j + 1) /\ i + 2 = Len(s) + (j + 2)
      BY <1>1, <3>1
    <3>5. UpperDigit(u[i + 1]) /\ UpperDigit(u[i + 2])
      BY <3>2, <3>3, <3>4
    <3>6. Len(u) = Len(s) + Len(t)
      BY <1>2 DEF u
    <3> QED
      BY <1>1, <3>1, <3>2, <3>5, <3>6
  <2> QED
    BY <2>1, <2>2
<1> QED
  BY <1>2, <1>3 DEF ClosedTexts, Closed, u

(* An escape, and a character that begins none. *)
LEMMA ClosedPieces ==
  /\ <<>> \in ClosedTexts
  /\ \A c \in Ascii : c # "%" => <<c>> \in ClosedTexts
  /\ \A h, l : UpperDigit(h) /\ UpperDigit(l) => <<"%", h, l>> \in ClosedTexts
<1>1. <<>> \in Seq(Ascii) /\ Len(<<>>) = 0
  BY EmptySeq
<1>2. ASSUME NEW c \in Ascii, c # "%" PROVE <<c>> \in ClosedTexts
  BY <1>2 DEF ClosedTexts, Closed
<1>3. ASSUME NEW h, NEW l, UpperDigit(h), UpperDigit(l)
      PROVE  <<"%", h, l>> \in ClosedTexts
  <2> DEFINE s == <<"%", h, l>>
  <2>1. "%" \in Ascii /\ h \in Ascii /\ l \in Ascii /\ h # "%" /\ l # "%"
    BY <1>3, UpperDigits, NoNewDelimiter DEF Delimiters
  <2>2. s \in Seq(Ascii) /\ Len(s) = 3 /\ s[1] = "%" /\ s[2] = h /\ s[3] = l
    BY <2>1
  <2> HIDE DEF s
  <2>3. ASSUME NEW i \in 1..Len(s), s[i] = "%" PROVE i = 1
    BY <2>1, <2>2, <2>3
  <2>4. Closed(s)
    BY <1>3, <2>2, <2>3 DEF Closed
  <2>5. s \in ClosedTexts
    BY <2>2, <2>4 DEF ClosedTexts
  <2> QED
    BY <2>5 DEF s
<1> QED
  BY <1>1, <1>2, <1>3 DEF ClosedTexts, Closed

(* Texts put together of closed ones are closed. *)
LEMMA ClosedFlatten ==
  ASSUME NEW seqs \in Seq(ClosedTexts)
  PROVE  FlattenSeq(seqs) \in ClosedTexts
<1>1. seqs \in Seq(Seq(Ascii)) /\ Len(seqs) \in Nat
  <2>1. ClosedTexts \subseteq Seq(Ascii)
    BY DEF ClosedTexts
  <2> QED
    BY <2>1, SeqMonotonic, LenProperties
<1>2. PICK joined : Joined(joined, seqs, Ascii)
  BY <1>1, FlattenJoins
<1> DEFINE T == {k \in 0..Len(seqs) : joined[k] \in ClosedTexts}
<1>3. 0 \in T
  BY <1>1, <1>2, ClosedPieces DEF Joined
<1>4. ASSUME NEW k \in 0..(Len(seqs) - 1), k \in T PROVE k + 1 \in T
  <2>1. k + 1 \in 1..Len(seqs) /\ k + 1 \in 0..Len(seqs)
    BY <1>1
  <2>2. joined[k] \in ClosedTexts
    BY <1>4
  <2>3. joined[k + 1] = joined[k] \o seqs[k + 1]
    BY <1>2 DEF Joined
  <2>4. seqs[k + 1] \in ClosedTexts
    <3> HIDE DEF T
    <3> QED
      BY <2>1, ElementOfSeq
  <2>5. joined[k + 1] \in ClosedTexts
    BY <2>2, <2>3, <2>4, ClosedJoin
  <2> QED
    BY <2>1, <2>5
<1> HIDE DEF T
<1>5. \A k \in 0..Len(seqs) : k \in T
  BY <1>1, <1>3, <1>4, UpTo
<1>6. Len(seqs) \in T
  BY <1>1, <1>5
<1> QED
  BY <1>2, <1>6 DEF T, Joined

LEMMA EscapeIsClosed ==
  ASSUME NEW byte \in 0..(Pow2[2 * HexBits] - 1)
  PROVE  Escape(byte) \in ClosedTexts
<1> DEFINE B == Pow2[HexBits]
           h == HexUpper[(byte \div B) + 1]
           l == HexUpper[(byte % B) + 1]
<1>1. HexBits \in Nat /\ B \in Nat /\ B > 0 /\ Pow2[2 * HexBits] = B * B
  <2>1. HexBits \in Nat
    BY CharacterSet
  <2>2. Pow2[HexBits + HexBits] = Pow2[HexBits] * Pow2[HexBits]
    BY <2>1, Pow2Sum
  <2>3. 2 * HexBits = HexBits + HexBits
    BY <2>1
  <2> QED
    BY <2>1, <2>2, <2>3, Pow2Type
<1> HIDE DEF B
<1>2. byte \in Nat /\ byte < B * B
  BY <1>1
<1>3. byte \div B \in 0..(B - 1) /\ byte % B \in 0..(B - 1)
  BY <1>1, <1>2, DivLess, DivMod
<1>4. UpperDigit(h) /\ UpperDigit(l)
  BY <1>3, UpperDigits DEF B
<1>5. Escape(byte) = <<"%", h, l>>
  BY DEF Escape, B
<1> QED
  BY <1>4, <1>5, ClosedPieces

LEMMA EscapesAreClosed ==
  ASSUME NEW c \in DOMAIN Utf8
  PROVE  Escapes(c) \in ClosedTexts
<1> DEFINE seqs == [k \in 1..Len(Utf8[c]) |-> Escape(Utf8[c][k])]
<1>1. Utf8[c] \in Seq(0..(Pow2[2 * HexBits] - 1)) /\ Len(Utf8[c]) \in Nat
  BY CharacterSet, LenProperties
<1>2. ASSUME NEW k \in 1..Len(Utf8[c]) PROVE seqs[k] \in ClosedTexts
  <2>1. Utf8[c][k] \in 0..(Pow2[2 * HexBits] - 1)
    BY <1>1, ElementOfSeq
  <2> QED
    BY <2>1, EscapeIsClosed
<1>3. seqs \in Seq(ClosedTexts)
  BY <1>1, <1>2, IsASeq
<1> HIDE DEF seqs
<1>4. FlattenSeq(seqs) \in ClosedTexts
  BY <1>3, ClosedFlatten
<1> QED
  BY <1>4 DEF Escapes, seqs

LEMMA HeadIsClosed ==
  ASSUME NEW s \in Seq(Characters), NEW i \in 1..Len(s), s[i] = "%" => WellFormed(s, i)
  PROVE  HeadAt(s, i) \in ClosedTexts
<1>1. s[i] \in Characters
  BY ElementOfSeq
<1>2. CASE s[i] = "%"
  <2>1. HeadAt(s, i) = <<"%", HexUp(s[i + 1]), HexUp(s[i + 2])>>
    <3>1. s[i] \notin DOMAIN Utf8
      BY <1>2, NoNewDelimiter, CharacterSet DEF Delimiters
    <3> QED
      BY <1>2, <3>1 DEF HeadAt
  <2>2. s[i + 1] \in DOMAIN HexVal /\ s[i + 2] \in DOMAIN HexVal
    BY <1>2 DEF WellFormed, IsHex
  <2> QED
    BY <2>1, <2>2, UpperDigits, ClosedPieces
<1>3. CASE s[i] # "%" /\ s[i] \in DOMAIN Utf8
  <2>1. HeadAt(s, i) = Escapes(s[i])
    BY <1>3 DEF HeadAt
  <2> QED
    BY <1>3, <2>1, EscapesAreClosed
<1>4. CASE s[i] # "%" /\ s[i] \notin DOMAIN Utf8
  <2>1. HeadAt(s, i) = <<s[i]>>
    BY <1>4 DEF HeadAt
  <2>2. s[i] \in Ascii
    BY <1>1, <1>4 DEF Characters
  <2> QED
    BY <1>4, <2>1, <2>2, ClosedPieces
<1> QED
  BY <1>2, <1>3, <1>4

(* Every escape the parser goes on with is whole and in upper case. *)
LEMMA NormalIsClosed ==
  ASSUME NEW s \in Seq(Characters), NormalizePercentEncoding(s).ok
  PROVE  NormalizePercentEncoding(s).url \in ClosedTexts
<1> DEFINE N == Len(s)
           M == N + 3
           D == {Invalid} \cup {Valid(t) : t \in ClosedTexts}
           bad(i) == s[i] = "%" /\ ~WellFormed(s, i)
<1>1. PICK from : NormalGoes(from, s)
  BY NormalSteps
<1>2. N \in Nat /\ M \in Nat /\ M = N + 3
  BY LenProperties
<1> DEFINE T == {i \in 1..M : from[i] \in D}
<1>3. ASSUME NEW i \in 1..M
      PROVE  from[i] = IF i > N THEN Valid(<<>>)
                       ELSE IF bad(i) THEN Invalid
                       ELSE IF from[NextAt(s, i)].ok
                       THEN Valid(HeadAt(s, i) \o from[NextAt(s, i)].url) ELSE Invalid
  BY <1>1 DEF NormalGoes
<1> HIDE DEF bad
<1>4. \A i \in (N + 1)..M : i \in T
  <2> SUFFICES ASSUME NEW i \in (N + 1)..M PROVE i \in T
    OBVIOUS
  <2>1. i \in 1..M /\ i > N
    BY <1>2
  <2>2. from[i] = Valid(<<>>)
    BY <1>3, <2>1
  <2>3. Valid(<<>>) \in D
    BY ClosedPieces
  <2> QED
    BY <2>1, <2>2, <2>3
<1>5. ASSUME NEW i \in 1..N, \A j \in (i + 1)..M : j \in T PROVE i \in T
  <2> DEFINE rest == from[NextAt(s, i)]
  <2>1. i \in 1..M /\ ~(i > N) /\ NextAt(s, i) \in (i + 1)..M
    BY <1>2 DEF NextAt
  <2>2. rest \in D
    BY <1>5, <2>1
  <2>3. from[i] = IF bad(i) THEN Invalid
                  ELSE IF rest.ok THEN Valid(HeadAt(s, i) \o rest.url) ELSE Invalid
    BY <1>3, <2>1
  <2> HIDE DEF rest
  <2>4. CASE bad(i) \/ ~rest.ok
    BY <2>1, <2>3, <2>4
  <2>5. CASE ~bad(i) /\ rest.ok
    <3>1. rest # Invalid
      BY <2>5 DEF Invalid
    <3>2. PICK t \in ClosedTexts : rest = Valid(t)
      BY <2>2, <3>1
    <3>3. rest.url = t
      BY <3>2 DEF Valid
    <3>4. HeadAt(s, i) \in ClosedTexts
      BY <2>5, HeadIsClosed DEF bad
    <3>5. HeadAt(s, i) \o t \in ClosedTexts
      BY <3>4, ClosedJoin
    <3>6. from[i] = Valid(HeadAt(s, i) \o t)
      BY <2>3, <2>5, <3>3
    <3>7. from[i] \in D
      BY <3>5, <3>6
    <3> QED
      BY <2>1, <3>7
  <2> QED
    BY <2>4, <2>5
<1> HIDE DEF T
<1>6. \A i \in 1..M : i \in T
  BY <1>2, <1>4, <1>5, DownFrom
<1>7. from[1] \in D
  BY <1>2, <1>6 DEF T
<1>8. NormalizePercentEncoding(s) \in D
  BY <1>1, <1>7 DEF NormalGoes
<1>9. NormalizePercentEncoding(s) # Invalid
  BY DEF Invalid
<1>10. PICK t \in ClosedTexts : NormalizePercentEncoding(s) = Valid(t)
  BY <1>8, <1>9
<1> QED
  BY <1>10 DEF Valid

-----------------------------------------------------------------------------
(* Parts of tidy texts. *)

(* p is s from behind position m on. *)
PartAt(p, s, m) ==
  m \in 0..(Len(s) - Len(p)) /\ \A j \in 1..Len(p) : p[j] = s[m + j]

LEMMA PartIsTidy ==
  ASSUME NEW s \in TidyTexts, NEW p \in Seq(Ascii), NEW m, PartAt(p, s, m)
  PROVE  p \in TidyTexts
<1>1. s \in Seq(Ascii) /\ Tidy(s) /\ Len(s) \in Nat /\ Len(p) \in Nat
  BY LenProperties DEF TidyTexts
<1>2. ASSUME NEW i \in 1..Len(p), NEW k \in 1..2, p[i] = "%", i + k <= Len(p)
      PROVE  UpperDigit(p[i + k])
  <2>1. m \in Nat /\ m + Len(p) <= Len(s)
    BY <1>1 DEF PartAt
  <2>2. m + i \in 1..Len(s) /\ (m + i) + k <= Len(s) /\ i + k \in 1..Len(p)
        /\ m + (i + k) = (m + i) + k
    BY <1>1, <1>2, <2>1
  <2>3. s[m + i] = "%" /\ p[i + k] = s[(m + i) + k]
    BY <1>2, <2>2 DEF PartAt
  <2>4. UpperDigit(s[(m + i) + k])
    BY <1>1, <2>2, <2>3 DEF Tidy
  <2> QED
    BY <2>3, <2>4
<1> QED
  BY <1>2 DEF TidyTexts, Tidy

LEMMA TidyCuts ==
  ASSUME NEW s \in TidyTexts
  PROVE  /\ \A m \in 1..(Len(s) + 1) : SubSeq(s, m, Len(s)) \in TidyTexts
         /\ \A n \in 0..Len(s) :
              After(s, n) \in TidyTexts /\ (n # 0 => Before(s, n) \in TidyTexts)
         /\ s # <<>> => Tail(s) \in TidyTexts
<1>1. s \in Seq(Ascii) /\ Len(s) \in Nat
  BY LenProperties DEF TidyTexts
<1>2. ASSUME NEW m \in 1..(Len(s) + 1), NEW n \in (m - 1)..Len(s)
      PROVE  SubSeq(s, m, n) \in TidyTexts
  <2> DEFINE p == SubSeq(s, m, n)
  <2>1. p \in Seq(Ascii) /\ Len(p) = n - m + 1 /\ \A i \in 1..(n - m + 1) : p[i] = s[m + i - 1]
    BY <1>1, PartOfText
  <2> HIDE DEF p
  <2>2. m \in Nat /\ n \in Int
    BY <1>1
  <2>3. m - 1 \in 0..(Len(s) - Len(p))
    BY <1>1, <2>1, <2>2
  <2>4. ASSUME NEW j \in 1..Len(p) PROVE p[j] = s[(m - 1) + j]
    <3>1. j \in 1..(n - m + 1) /\ (m - 1) + j = m + j - 1
      BY <2>1, <2>2
    <3> QED
      BY <2>1, <3>1
  <2>5. PartAt(p, s, m - 1)
    BY <2>3, <2>4 DEF PartAt
  <2>6. p \in TidyTexts
    BY <2>1, <2>5, PartIsTidy
  <2> QED
    BY <2>6 DEF p
<1>3. ASSUME NEW m \in 1..(Len(s) + 1) PROVE SubSeq(s, m, Len(s)) \in TidyTexts
  <2>1. Len(s) \in (m - 1)..Len(s)
    BY <1>1
  <2> QED
    BY <1>2, <2>1
<1>4. ASSUME NEW n \in 0..Len(s) PROVE After(s, n) \in TidyTexts
  <2>1. n + 1 \in 1..(Len(s) + 1)
    BY <1>1
  <2> QED
    BY <1>3, <2>1 DEF After
<1>5. ASSUME NEW n \in 0..Len(s), n # 0 PROVE Before(s, n) \in TidyTexts
  <2>1. n - 1 \in (1 - 1)..Len(s) /\ 1 \in 1..(Len(s) + 1)
    BY <1>1, <1>5
  <2> QED
    BY <1>2, <2>1 DEF Before
<1>6. ASSUME s # <<>> PROVE Tail(s) \in TidyTexts
  <2>1. Tail(s) = SubSeq(s, 2, Len(s)) /\ 2 \in 1..(Len(s) + 1)
    BY <1>1, <1>6
  <2> QED
    BY <1>3, <2>1
<1> QED
  BY <1>3, <1>4, <1>5, <1>6

LEMMA EmptyIsTidy == <<>> \in TidyTexts
<1>1. <<>> \in Seq(Ascii) /\ Len(<<>>) = 0
  BY EmptySeq
<1> QED
  BY <1>1 DEF TidyTexts, Tidy

-----------------------------------------------------------------------------
(* The parts ps of the first k characters of s: e[j] is where part j ends, *)
(* and a c stands behind each part but the last.                           *)
Cuts(e, ps, s, k, c) ==
  /\ e \in [Nat -> Int] /\ e[0] = -1 /\ e[Len(ps)] = k
  /\ \A j \in 1..Len(ps) :
       /\ e[j] = e[j - 1] + 1 + Len(ps[j])
       /\ \A i \in 1..Len(ps[j]) : ps[j][i] = s[e[j - 1] + 1 + i]
       /\ j < Len(ps) => s[e[j] + 1] = c

LEMMA CutsOneMore ==
  ASSUME NEW A, NEW s \in Seq(A), NEW c, NEW k \in 0..(Len(s) - 1), s[k + 1] = c,
         NEW ps \in Seq(Seq(A)), ps # <<>>, NEW e, Cuts(e, ps, s, k, c)
  PROVE  \E f : Cuts(f, Append(ps, <<>>), s, k + 1, c)
<1> DEFINE n == Len(ps)
           qs == Append(ps, <<>>)
           f == [e EXCEPT ![n + 1] = k + 1]
<1>1. n \in Nat /\ n > 0 /\ Len(s) \in Nat /\ k \in Nat
  BY LenProperties, EmptySeq
<1>2. /\ Len(qs) = n + 1 /\ qs[n + 1] = <<>>
      /\ \A j \in 1..n : qs[j] = ps[j]
      /\ Len(<<>>) = 0
  BY AppendProperties
<1>3. /\ e \in [Nat -> Int] /\ e[0] = -1 /\ e[n] = k
      /\ \A j \in 1..n : /\ e[j] = e[j - 1] + 1 + Len(ps[j])
                         /\ \A i \in 1..Len(ps[j]) : ps[j][i] = s[e[j - 1] + 1 + i]
                         /\ j < n => s[e[j] + 1] = c
  BY DEF Cuts
<1> HIDE DEF qs, n
<1>4. f \in [Nat -> Int] /\ f[n + 1] = k + 1 /\ \A j \in 0..n : f[j] = e[j]
  BY <1>1, <1>3
<1> HIDE DEF f
<1>5. ASSUME NEW j \in 1..(n + 1)
      PROVE  /\ f[j] = f[j - 1] + 1 + Len(qs[j])
             /\ \A i \in 1..Len(qs[j]) : qs[j][i] = s[f[j - 1] + 1 + i]
             /\ j < n + 1 => s[f[j] + 1] = c
  <2>1. CASE j <= n
    <3>1. j \in 1..n /\ j - 1 \in 0..n /\ j \in 0..n
      BY <1>1, <2>1
    <3>2. f[j] = e[j] /\ f[j - 1] = e[j - 1] /\ qs[j] = ps[j]
      BY <1>2, <1>4, <3>1
    <3>3. CASE j < n
      BY <1>3, <3>1, <3>2, <3>3
    <3>4. CASE j = n
      <4>1. s[e[j] + 1] = c
        BY <1>3, <3>4
      <4> QED
        BY <1>3, <3>1, <3>2, <4>1
    <3> QED
      BY <1>1, <2>1, <3>3, <3>4
  <2>2. CASE j = n + 1
    <3>1. f[j] = k + 1 /\ f[j - 1] = k /\ Len(qs[j]) = 0
      BY <1>1, <1>2, <1>3, <1>4, <2>2
    <3> QED
      BY <1>1, <2>2, <3>1
  <2> QED
    BY <1>1, <2>1, <2>2
<1>6. f[0] = -1 /\ f[Len(qs)] = k + 1
  BY <1>1, <1>2, <1>3, <1>4
<1>7. Cuts(f, qs, s, k + 1, c)
  BY <1>2, <1>4, <1>5, <1>6 DEF Cuts
<1> QED
  BY <1>7 DEF qs

LEMMA CutsLonger ==
  ASSUME NEW A, NEW s \in Seq(A), NEW c, NEW k \in 0..(Len(s) - 1),
         NEW ps \in Seq(Seq(A)), ps # <<>>, NEW e, Cuts(e, ps, s, k, c)
  PROVE  \E f : Cuts(f, [ps EXCEPT ![Len(ps)] = Append(ps[Len(ps)], s[k + 1])], s, k + 1, c)
<1> DEFINE n == Len(ps)
           last == Append(ps[n], s[k + 1])
           qs == [ps EXCEPT ![n] = last]
           f == [e EXCEPT ![n] = k + 1]
<1>1. n \in Nat /\ n > 0 /\ Len(s) \in Nat /\ k \in Nat /\ n \in 1..n
  BY LenProperties, EmptySeq
<1>2. ps[n] \in Seq(A) /\ s[k + 1] \in A
  <2>1. k + 1 \in 1..Len(s)
    BY <1>1
  <2> QED
    BY <1>1, <2>1, ElementOfSeq
<1>3. /\ last \in Seq(A) /\ Len(last) = Len(ps[n]) + 1 /\ last[Len(ps[n]) + 1] = s[k + 1]
      /\ \A i \in 1..Len(ps[n]) : last[i] = ps[n][i]
      /\ Len(ps[n]) \in Nat
  BY <1>2, AppendProperties, LenProperties
<1>4. /\ e \in [Nat -> Int] /\ e[0] = -1 /\ e[n] = k
      /\ \A j \in 1..n : /\ e[j] = e[j - 1] + 1 + Len(ps[j])
                         /\ \A i \in 1..Len(ps[j]) : ps[j][i] = s[e[j - 1] + 1 + i]
                         /\ j < n => s[e[j] + 1] = c
  BY DEF Cuts
<1> HIDE DEF last
<1>5. Len(qs) = n /\ qs[n] = last /\ \A j \in 1..n : j # n => qs[j] = ps[j]
  BY <1>1, <1>3, ExceptSeq
<1> HIDE DEF qs, n
<1>6. f \in [Nat -> Int] /\ f[n] = k + 1 /\ \A j \in 0..n : j # n => f[j] = e[j]
  BY <1>1, <1>4
<1> HIDE DEF f
<1>7. ASSUME NEW j \in 1..n
      PROVE  /\ f[j] = f[j - 1] + 1 + Len(qs[j])
             /\ \A i \in 1..Len(qs[j]) : qs[j][i] = s[f[j - 1] + 1 + i]
             /\ j < n => s[f[j] + 1] = c
  <2>1. CASE j # n
    <3>1. j - 1 \in 0..n /\ j \in 0..n /\ j - 1 # n
      BY <1>1
    <3>2. f[j] = e[j] /\ f[j - 1] = e[j - 1] /\ qs[j] = ps[j]
      BY <1>5, <1>6, <2>1, <3>1
    <3> QED
      BY <1>4, <3>2
  <2>2. CASE j = n
    <3>1. n - 1 \in 0..n /\ n - 1 # n
      BY <1>1
    <3>2. f[j] = k + 1 /\ f[j - 1] = e[n - 1] /\ qs[j] = last
      BY <1>5, <1>6, <2>2, <3>1
    <3>3. k = e[n - 1] + 1 + Len(ps[n]) /\ e[n - 1] \in Int
      BY <1>1, <1>4
    <3>4. f[j] = f[j - 1] + 1 + Len(qs[j])
      <4>1. Len(qs[j]) = Len(ps[n]) + 1 /\ Len(ps[n]) \in Nat
        BY <1>3, <3>2
      <4>2. PICK a \in Int : a = e[n - 1]
        BY <3>3
      <4>3. PICK l \in Nat : l = Len(ps[n])
        BY <4>1
      <4>4. k = a + 1 + l /\ f[j] = k + 1 /\ f[j - 1] = a /\ Len(qs[j]) = l + 1
        BY <3>2, <3>3, <4>1, <4>2, <4>3
      <4>5. k + 1 = a + 1 + (l + 1)
        BY <4>4
      <4> QED
        BY <4>4, <4>5
    <3>5. ASSUME NEW i \in 1..Len(last) PROVE last[i] = s[e[n - 1] + 1 + i]
      <4>1. CASE i \in 1..Len(ps[n])
        BY <1>1, <1>3, <1>4, <4>1
      <4>2. CASE i = Len(ps[n]) + 1
        <5>1. Len(ps[n]) \in Nat
          BY <1>3
        <5>2. e[n - 1] + 1 + i = k + 1
          <6>1. PICK a \in Int : a = e[n - 1]
            BY <3>3
          <6>2. PICK l \in Nat : l = Len(ps[n])
            BY <5>1
          <6>3. k = a + 1 + l /\ i = l + 1
            BY <3>3, <4>2, <6>1, <6>2
          <6>4. a + 1 + i = k + 1
            BY <6>3
          <6> QED
            BY <6>1, <6>4
        <5> QED
          BY <1>3, <4>2, <5>2
      <4> QED
        BY <1>3, <4>1, <4>2
    <3> QED
      BY <2>2, <3>2, <3>4, <3>5
  <2> QED
    BY <2>1, <2>2
<1>8. f[0] = -1 /\ f[Len(qs)] = k + 1
  BY <1>1, <1>4, <1>5, <1>6
<1>9. Cuts(f, qs, s, k + 1, c)
  BY <1>5, <1>6, <1>7, <1>8 DEF Cuts
<1> QED
  BY <1>9 DEF qs, n, last

(* Where the parts of a split lie. *)
LEMMA SplitCuts ==
  ASSUME NEW A, NEW s \in Seq(A), NEW c
  PROVE  \E e : Cuts(e, Split(s, c), s, Len(s), c)
<1> DEFINE N == Len(s)
           P == Seq(A \ {c})
<1>1. PICK parts : SplitGoes(parts, s, c) /\ \A k \in 0..N : parts[k] \in Seq(P) \ {<<>>}
  BY SplitSteps
<1>2. N \in Nat
  BY LenProperties
<1>3. \A k \in 0..N : parts[k] \in Seq(Seq(A)) /\ parts[k] # <<>>
  <2>1. P \subseteq Seq(A)
    <3>1. A \ {c} \subseteq A
      OBVIOUS
    <3> QED
      BY <3>1, SeqMonotonic
  <2> HIDE DEF P, N
  <2>2. Seq(P) \subseteq Seq(Seq(A))
    BY <2>1, SeqMonotonic
  <2> QED
    BY <1>1, <2>2
<1> HIDE DEF P
<1> DEFINE T == {k \in 0..N : \E e : Cuts(e, parts[k], s, k, c)}
<1>4. 0 \in T
  <2> DEFINE e == [j \in Nat |-> IF j = 0 THEN -1 ELSE 0]
  <2>1. parts[0] = << <<>> >>
    BY <1>1 DEF SplitGoes
  <2>2. Len(parts[0]) = 1 /\ parts[0][1] = <<>> /\ Len(<<>>) = 0
    BY <2>1
  <2>3. Cuts(e, parts[0], s, 0, c)
    BY <2>2 DEF Cuts
  <2> QED
    BY <1>2, <2>3
<1>5. ASSUME NEW k \in 0..(N - 1), k \in T PROVE k + 1 \in T
  <2>1. PICK e : Cuts(e, parts[k], s, k, c)
    BY <1>5
  <2>2. k + 1 \in 1..N /\ (k + 1) - 1 = k /\ k \in 0..N
    BY <1>2
  <2>3. parts[k + 1] = IF s[k + 1] = c THEN Append(parts[k], <<>>)
                       ELSE [parts[k] EXCEPT ![Len(parts[k])] =
                               Append(parts[k][Len(parts[k])], s[k + 1])]
    BY <1>1, <2>2 DEF SplitGoes
  <2>4. parts[k] \in Seq(Seq(A)) /\ parts[k] # <<>>
    BY <1>3, <2>2
  <2> HIDE DEF T
  <2>5. \E f : Cuts(f, parts[k + 1], s, k + 1, c)
    <3>1. CASE s[k + 1] = c
      <4>1. \E f : Cuts(f, Append(parts[k], <<>>), s, k + 1, c)
        BY <2>1, <2>4, <3>1, CutsOneMore
      <4> QED
        BY <2>3, <3>1, <4>1
    <3>2. CASE s[k + 1] # c
      <4>1. \E f : Cuts(f, [parts[k] EXCEPT ![Len(parts[k])] =
                              Append(parts[k][Len(parts[k])], s[k + 1])], s, k + 1, c)
        BY <2>1, <2>4, CutsLonger
      <4> QED
        BY <2>3, <3>2, <4>1
    <3> QED
      BY <3>1, <3>2
  <2> QED
    BY <1>2, <2>2, <2>5 DEF T
<1> HIDE DEF T
<1>6. \A k \in 0..N : k \in T
  BY <1>2, <1>4, <1>5, UpTo
<1>7. N \in T
  BY <1>2, <1>6
<1>8. Split(s, c) = parts[N]
  BY <1>1 DEF SplitGoes
<1> QED
  BY <1>7, <1>8 DEF T

(* What such parts are of the text. *)
LEMMA CutsAreParts ==
  ASSUME NEW A, NEW s \in Seq(A), NEW c, NEW ps \in Seq(Seq(A)), NEW e,
         Cuts(e, ps, s, Len(s), c)
  PROVE  /\ \A j \in 0..Len(ps) : e[j] \in -1..Len(s)
         /\ \A j \in 1..Len(ps) : PartAt(ps[j], s, e[j - 1] + 1)
<1> DEFINE n == Len(ps)
<1>1. n \in Nat /\ Len(s) \in Nat /\ \A j \in 1..n : Len(ps[j]) \in Nat
  <2>1. \A j \in 1..n : ps[j] \in Seq(A)
    BY ElementOfSeq
  <2> QED
    BY <2>1, LenProperties
<1>2. /\ e \in [Nat -> Int] /\ e[0] = -1 /\ e[n] = Len(s)
      /\ \A j \in 1..n : /\ e[j] = e[j - 1] + 1 + Len(ps[j])
                         /\ \A i \in 1..Len(ps[j]) : ps[j][i] = s[e[j - 1] + 1 + i]
  BY DEF Cuts
<1> HIDE DEF n
<1> DEFINE U == {j \in 0..n : e[j] >= -1}
           V == {d \in 0..n : e[n - d] <= Len(s)}
<1>3. \A j \in 0..n : j \in U
  <2>1. 0 \in U
    BY <1>1, <1>2
  <2>2. ASSUME NEW j \in 0..(n - 1), j \in U PROVE j + 1 \in U
    <3>1. j + 1 \in 1..n /\ (j + 1) - 1 = j /\ j + 1 \in 0..n /\ j \in Nat
      BY <1>1
    <3>2. e[j + 1] = e[j] + 1 + Len(ps[j + 1]) /\ Len(ps[j + 1]) \in Nat /\ e[j] \in Int
      BY <1>1, <1>2, <3>1
    <3>3. e[j] >= -1
      BY <2>2
    <3>4. e[j + 1] >= -1
      BY <3>2, <3>3
    <3> QED
      BY <3>1, <3>4
  <2> HIDE DEF U
  <2> QED
    BY <1>1, <2>1, <2>2, UpTo
<1>4. \A d \in 0..n : d \in V
  <2>1. 0 \in V
    BY <1>1, <1>2
  <2>2. ASSUME NEW d \in 0..(n - 1), d \in V PROVE d + 1 \in V
    <3>1. PICK j \in 1..n : n - d = j
      BY <1>1
    <3>5. n - (d + 1) = j - 1 /\ d + 1 \in 0..n /\ j - 1 \in Nat /\ d \in Nat
      BY <1>1, <3>1
    <3>2. e[j] = e[j - 1] + 1 + Len(ps[j]) /\ Len(ps[j]) \in Nat /\ e[j - 1] \in Int
      BY <1>1, <1>2, <3>5
    <3>3. e[j] <= Len(s)
      BY <2>2, <3>1
    <3>4. e[j - 1] <= Len(s)
      BY <1>1, <3>2, <3>3
    <3> QED
      BY <3>4, <3>5
  <2> HIDE DEF V
  <2> QED
    BY <1>1, <2>1, <2>2, UpTo
<1>5. ASSUME NEW j \in 0..n PROVE e[j] \in -1..Len(s)
  <2>1. n - j \in 0..n /\ n - (n - j) = j /\ j \in Nat
    BY <1>1
  <2>2. j \in U /\ n - j \in V
    <3> HIDE DEF U, V
    <3> QED
      BY <1>3, <1>4, <2>1
  <2>3. e[j] >= -1 /\ e[j] <= Len(s) /\ e[j] \in Int
    BY <1>2, <2>1, <2>2
  <2> QED
    BY <1>1, <2>3
<1>6. ASSUME NEW j \in 1..n PROVE PartAt(ps[j], s, e[j - 1] + 1)
  <2>1. j - 1 \in 0..n /\ j \in 0..n
    BY <1>1
  <2>2. e[j - 1] \in -1..Len(s) /\ e[j] \in -1..Len(s)
    BY <1>5, <2>1
  <2>3. e[j] = e[j - 1] + 1 + Len(ps[j]) /\ Len(ps[j]) \in Nat
    BY <1>1, <1>2
  <2>4. e[j - 1] + 1 \in 0..(Len(s) - Len(ps[j]))
    <3>1. ASSUME NEW a \in -1..Len(s), NEW b \in -1..Len(s), NEW l \in Nat, b = a + 1 + l
          PROVE  a + 1 \in 0..(Len(s) - l)
      BY <1>1, <3>1
    <3> QED
      BY <2>2, <2>3, <3>1
  <2> QED
    BY <1>2, <2>4 DEF PartAt
<1> QED
  BY <1>5, <1>6 DEF n

LEMMA SplitIsTidy ==
  ASSUME NEW s \in TidyTexts, NEW c
  PROVE  Split(s, c) \in Seq(TidyTexts) \ {<<>>}
<1> DEFINE ps == Split(s, c)
<1>1. s \in Seq(Ascii)
  BY DEF TidyTexts
<1>2. ps \in Seq(Seq(Ascii)) /\ ps # <<>>
  <2>1. ps \in Seq(Seq(Ascii \ {c})) \ {<<>>}
    BY <1>1, SplitParts
  <2>2. Seq(Ascii \ {c}) \subseteq Seq(Ascii)
    <3>1. Ascii \ {c} \subseteq Ascii
      OBVIOUS
    <3> QED
      BY <3>1, SeqMonotonic
  <2> HIDE DEF ps
  <2>3. Seq(Seq(Ascii \ {c})) \subseteq Seq(Seq(Ascii))
    BY <2>2, SeqMonotonic
  <2> QED
    BY <2>1, <2>3
<1>3. PICK e : Cuts(e, ps, s, Len(s), c)
  BY <1>1, SplitCuts
<1> HIDE DEF ps
<1>4. ASSUME NEW j \in 1..Len(ps) PROVE ps[j] \in TidyTexts
  <2>1. ps[j] \in Seq(Ascii)
    BY <1>2, ElementOfSeq
  <2>2. PartAt(ps[j], s, e[j - 1] + 1)
    BY <1>1, <1>2, <1>3, CutsAreParts
  <2> QED
    BY <2>1, <2>2, PartIsTidy
<1>5. ps \in Seq(TidyTexts)
  <2>1. Len(ps) \in Nat /\ ps = [j \in 1..Len(ps) |-> ps[j]]
    BY <1>2, LenProperties
  <2> QED
    BY <1>4, <2>1, IsASeq
<1> QED
  BY <1>2, <1>5 DEF ps

(* The change of case in a host leaves the digits of an escape as they are.*)
LEMMA HostEscapesTidy ==
  ASSUME NEW s \in TidyTexts
  PROVE  NormalizeHostEscapes(s) \in TidyTexts
<1> DEFINE inEscape(i) == \E k \in 1..2 : i > k /\ s[i - k] = "%"
           t == [i \in 1..Len(s) |->
                   IF inEscape(i) /\ IsHex(s[i]) THEN HexUp(s[i]) ELSE Lower(s[i])]
<1>1. s \in Seq(Ascii) /\ Len(s) \in Nat /\ Tidy(s)
  BY LenProperties DEF TidyTexts
<1>2. NormalizeHostEscapes(s) = t
  BY DEF NormalizeHostEscapes
<1>3. t \in Seq(Ascii)
  <2>1. Ascii \ {} = Ascii /\ {} \in SUBSET Delimiters
    OBVIOUS
  <2>2. NormalizeHostEscapes(s) \in Seq(Ascii \ {})
    <3> HIDE DEF t
    <3> QED
      BY <1>1, <2>1, HostEscapesKeep
  <2> HIDE DEF t
  <2> QED
    BY <1>2, <2>1, <2>2
<1>4. Len(t) = Len(s) /\ \A i \in 1..Len(s) :
        t[i] = IF inEscape(i) /\ IsHex(s[i]) THEN HexUp(s[i]) ELSE Lower(s[i])
  BY <1>1
<1> HIDE DEF t
<1>5. ASSUME NEW i \in 1..Len(s), t[i] = "%" PROVE s[i] = "%"
  <2>1. CASE inEscape(i) /\ IsHex(s[i])
    <3>1. t[i] \in DOMAIN HexVal
      BY <1>4, <2>1, NoNewDelimiter DEF IsHex
    <3> QED
      BY <1>5, <3>1, UpperDigits, NoNewDelimiter DEF Delimiters
  <2>2. CASE ~(inEscape(i) /\ IsHex(s[i]))
    <3>1. t[i] = Lower(s[i])
      BY <1>4, <2>2
    <3>2. s[i] \notin DOMAIN LowerOf
      BY <1>5, <3>1, NoNewDelimiter DEF Delimiters
    <3> QED
      BY <1>5, <3>1, <3>2 DEF Lower
  <2> QED
    BY <2>1, <2>2
<1>6. ASSUME NEW i \in 1..Len(t), NEW k \in 1..2, t[i] = "%", i + k <= Len(t)
      PROVE  UpperDigit(t[i + k])
  <2>1. i \in 1..Len(s) /\ i + k <= Len(s) /\ i + k \in 1..Len(s) /\ (i + k) - k = i
        /\ i + k > k
    BY <1>1, <1>4, <1>6
  <2>2. s[i] = "%"
    BY <1>5, <1>6, <2>1
  <2>3. UpperDigit(s[i + k])
    BY <1>1, <2>1, <2>2 DEF Tidy
  <2>4. inEscape(i + k) /\ IsHex(s[i + k])
    BY <2>1, <2>2, <2>3 DEF UpperDigit, IsHex
  <2>5. t[i + k] = HexUp(s[i + k])
    BY <1>4, <2>1, <2>4
  <2> QED
    BY <2>3, <2>5 DEF UpperDigit
<1> QED
  BY <1>2, <1>3, <1>6 DEF TidyTexts, Tidy

LEMMA PathIsTidy ==
  ASSUME NEW path \in TidyTexts
  PROVE  SplitPath(path) \in Seq(TidyTexts)
<1> DEFINE rest == IF path[1] = "/" THEN Tail(path) ELSE path
<1>1. CASE path = <<>>
  <2>1. SplitPath(path) = <<>>
    BY <1>1 DEF SplitPath
  <2> QED
    BY <2>1, EmptySeq
<1>2. CASE path # <<>>
  <2>1. rest \in TidyTexts
    BY <1>2, TidyCuts
  <2>2. SplitPath(path) = Split(rest, "/")
    BY <1>2 DEF SplitPath
  <2> HIDE DEF rest
  <2> QED
    BY <2>1, <2>2, SplitIsTidy
<1> QED
  BY <1>1, <1>2

TidyPairs == [key : TidyTexts, value : [some : BOOLEAN, text : TidyTexts]]

LEMMA PairIsTidy ==
  ASSUME NEW pair \in TidyTexts
  PROVE  SplitPair(pair) \in TidyPairs
<1> DEFINE eq == Find(pair, {"="})
<1>1. pair \in Seq(Ascii)
  BY DEF TidyTexts
<1>2. eq \in 0..Len(pair)
  BY <1>1, FindFinds
<1>3. CASE eq = 0
  <2>1. SplitPair(pair) = [key |-> pair, value |-> NoValue]
    BY <1>3 DEF SplitPair
  <2>2. NoValue \in [some : BOOLEAN, text : TidyTexts]
    BY EmptyIsTidy DEF NoValue
  <2> QED
    BY <2>1, <2>2 DEF TidyPairs
<1>4. CASE eq # 0
  <2>1. SplitPair(pair) = [key |-> Before(pair, eq), value |-> SomeValue(After(pair, eq))]
    BY <1>4 DEF SplitPair
  <2> HIDE DEF eq
  <2>2. After(pair, eq) \in TidyTexts /\ Before(pair, eq) \in TidyTexts
    BY <1>2, <1>4, TidyCuts
  <2>3. SomeValue(After(pair, eq)) \in [some : BOOLEAN, text : TidyTexts]
    BY <2>2 DEF SomeValue
  <2> QED
    BY <2>1, <2>2, <2>3 DEF TidyPairs
<1> QED
  BY <1>3, <1>4

LEMMA QueryIsTidy ==
  ASSUME NEW query \in TidyTexts, NEW present \in BOOLEAN
  PROVE  SplitQuery(query, present) \in Seq(TidyPairs)
<1> DEFINE pairs == Split(query, "&")
<1>1. CASE ~present
  BY <1>1, EmptySeq DEF SplitQuery
<1>2. CASE present
  <2>1. pairs \in Seq(TidyTexts)
    BY SplitIsTidy
  <2>2. SplitQuery(query, present) = [j \in 1..Len(pairs) |-> SplitPair(pairs[j])]
    BY <1>2 DEF SplitQuery
  <2> HIDE DEF pairs
  <2>3. Len(pairs) \in Nat
    BY <2>1, LenProperties
  <2>4. ASSUME NEW j \in 1..Len(pairs) PROVE SplitPair(pairs[j]) \in TidyPairs
    BY <2>1, ElementOfSeq, PairIsTidy
  <2> QED
    BY <2>2, <2>3, <2>4
<1> QED
  BY <1>1, <1>2

LEMMA IndexOfPath ==
  ASSUME NEW path
  PROVE  /\ DetectIndexSuffix(path) \in {"none", "html", "php", "other"}
         /\ DetectIndexSuffix(path) # "none" => path # <<>>
BY DEF DetectIndexSuffix

(* The name of a host and the suffix its port makes. *)
Names == {x \in TidyTexts : x \in Seq(Ascii \ {":"})}

PortTails == {<<>>} \cup {<<":", PortText[p]>> : p \in DOMAIN PortText}

(* A port stands behind the last piece of the host.                        *)
Named(u) ==
  \E name \in Names, tail \in Names, suffix \in PortTails :
    \/ u.host = name \o suffix /\ u.tld = <<>>
    \/ u.host = name /\ u.tld = tail \o suffix

LEMMA NameParts ==
  ASSUME NEW x \in Names, NEW n \in 1..Len(x)
  PROVE  Before(x, n) \in Names /\ After(x, n) \in Names
<1>1. x \in TidyTexts /\ x \in Seq(Ascii \ {":"}) /\ n \in 0..Len(x) /\ n # 0
  BY DEF Names
<1>2. Before(x, n) \in TidyTexts /\ After(x, n) \in TidyTexts
  BY <1>1, TidyCuts
<1>3. Before(x, n) \in Seq(Ascii \ {":"}) /\ After(x, n) \in Seq(Ascii \ {":"})
  BY <1>1, BeforeAfter
<1> QED
  BY <1>2, <1>3 DEF Names

LEMMA SuffixType ==
  ASSUME NEW suffix \in PortTails
  PROVE  suffix \in Seq(Ascii) /\ Len(suffix) \in Nat /\ \A i \in 1..Len(suffix) : suffix[i] # "."
<1>1. CASE suffix = <<>>
  BY <1>1, EmptySeq
<1>2. CASE suffix # <<>>
  <2>1. PICK p \in DOMAIN PortText : suffix = <<":", PortText[p]>>
    BY <1>2 DEF PortTails
  <2>2. PortText[p] \in DOMAIN Numeral
    BY CharacterSet
  <2>3. PortText[p] \in Ascii /\ PortText[p] # "." /\ ":" \in Ascii
    BY <2>2, NoNewDelimiter DEF Delimiters
  <2>4. suffix \in Seq(Ascii) /\ Len(suffix) = 2 /\ suffix[1] = ":" /\ suffix[2] = PortText[p]
    BY <2>1, <2>3
  <2>5. ASSUME NEW i \in 1..Len(suffix) PROVE suffix[i] # "."
    <3>1. i = 1 \/ i = 2
      BY <2>4
    <3> QED
      BY <2>3, <2>4, <3>1
  <2> QED
    BY <2>4, <2>5
<1> QED
  BY <1>1, <1>2

LEMMA SplitHostNamed ==
  ASSUME NEW label \in Names, NEW suffix \in PortTails,
         NEW u, u.host = SplitHost(label, suffix).host, u.tld = SplitHost(label, suffix).tld
  PROVE  Named(u)
<1> DEFINE full == label \o suffix
           dot == RFind(full, {"."})
<1>1. /\ label \in Seq(Ascii) /\ suffix \in Seq(Ascii) /\ Len(label) \in Nat
      /\ Len(suffix) \in Nat /\ \A i \in 1..Len(suffix) : suffix[i] # "."
  BY SuffixType, LenProperties DEF Names, TidyTexts
<1>2. /\ full \in Seq(Ascii) /\ Len(full) = Len(label) + Len(suffix)
      /\ \A i \in 1..Len(label) : full[i] = label[i]
      /\ \A i \in 1..Len(suffix) : full[Len(label) + i] = suffix[i]
  BY <1>1, JoinedText
<1>3. SplitHost(label, suffix) =
        IF IsIpv4Literal(label) \/ dot = 0 THEN [host |-> full, tld |-> <<>>]
        ELSE [host |-> Before(full, dot), tld |-> After(full, dot)]
  BY DEF SplitHost
<1> HIDE DEF full
<1>4. dot \in 0..Len(full) /\ (dot # 0 => full[dot] = ".")
  BY <1>2, RFindFinds
<1> HIDE DEF dot
<1>5. CASE IsIpv4Literal(label) \/ dot = 0
  <2>1. SplitHost(label, suffix) = [host |-> full, tld |-> <<>>]
    BY <1>3, <1>5
  <2>2. u.host = label \o suffix /\ u.tld = <<>>
    BY <2>1 DEF full
  <2> QED
    BY <2>2, Zenon DEF Named
<1>6. CASE ~(IsIpv4Literal(label) \/ dot = 0)
  <2>1. SplitHost(label, suffix) = [host |-> Before(full, dot), tld |-> After(full, dot)]
    BY <1>3, <1>6
  <2>2. dot \in 1..Len(label)
    <3> SUFFICES ASSUME dot > Len(label) PROVE FALSE
      BY <1>1, <1>2, <1>4, <1>6
    <3>1. PICK i \in 1..Len(suffix) : dot = Len(label) + i
      <4>1. dot - Len(label) \in 1..Len(suffix) /\ dot = Len(label) + (dot - Len(label))
        BY <1>1, <1>2, <1>4
      <4> QED
        BY <4>1
    <3>2. full[dot] = suffix[i]
      BY <1>2, <3>1
    <3> QED
      BY <1>1, <1>4, <1>6, <3>2
  <2>3. Before(label, dot) \in Names /\ After(label, dot) \in Names
    BY <2>2, NameParts
  <2>4. /\ Before(label, dot) \in Seq(Ascii) /\ Len(Before(label, dot)) = dot - 1
        /\ \A i \in 1..(dot - 1) : Before(label, dot)[i] = label[i]
        /\ After(label, dot) \in Seq(Ascii) /\ Len(After(label, dot)) = Len(label) - dot
        /\ \A i \in 1..(Len(label) - dot) : After(label, dot)[i] = label[dot + i]
    <3>1. dot \in 0..Len(label) /\ dot # 0
      BY <2>2
    <3> QED
      BY <1>1, <3>1, BeforeAfter
  <2>5. /\ Before(full, dot) \in Seq(Ascii) /\ Len(Before(full, dot)) = dot - 1
        /\ \A i \in 1..(dot - 1) : Before(full, dot)[i] = full[i]
        /\ After(full, dot) \in Seq(Ascii) /\ Len(After(full, dot)) = Len(full) - dot
        /\ \A i \in 1..(Len(full) - dot) : After(full, dot)[i] = full[dot + i]
    <3>1. full \in Seq(Ascii) /\ dot \in 0..Len(full) /\ dot # 0
      BY <1>2, <1>4, <1>6
    <3> QED
      BY ONLY <3>1, BeforeAfter
  <2>6. Before(full, dot) = Before(label, dot)
    <3>1. ASSUME NEW i \in 1..(dot - 1) PROVE Before(full, dot)[i] = Before(label, dot)[i]
      <4>1. i \in 1..Len(label)
        BY <1>1, <2>2
      <4> QED
        BY <1>2, <2>4, <2>5, <4>1
    <3> QED
      BY <2>4, <2>5, <3>1, SeqEqual
  <2> DEFINE tail == After(label, dot)
             whole == tail \o suffix
  <2>7. /\ whole \in Seq(Ascii) /\ Len(whole) = Len(tail) + Len(suffix)
        /\ \A i \in 1..Len(tail) : whole[i] = tail[i]
        /\ \A i \in 1..Len(suffix) : whole[Len(tail) + i] = suffix[i]
    <3>1. tail \in Seq(Ascii) /\ suffix \in Seq(Ascii)
      BY <1>1, <2>4
    <3> HIDE DEF tail
    <3> QED
      BY ONLY <3>1, JoinedText
  <2>8. After(full, dot) = whole
    <3>1. Len(tail) = Len(label) - dot /\ dot \in Nat /\ dot <= Len(label)
      BY <1>1, <2>2, <2>4
    <3> HIDE DEF whole, tail
    <3>2. Len(After(full, dot)) = Len(whole)
      BY <1>1, <1>2, <2>5, <2>7, <3>1
    <3>3. ASSUME NEW i \in 1..Len(whole) PROVE After(full, dot)[i] = whole[i]
      <4>1. i \in 1..(Len(full) - dot) /\ i \in Nat
        BY <1>1, <1>2, <2>7, <3>1
      <4>2. After(full, dot)[i] = full[dot + i]
        BY <2>5, <4>1
      <4>3. CASE i <= Len(tail)
        <5>1. i \in 1..Len(tail) /\ dot + i \in 1..Len(label) /\ i \in 1..(Len(label) - dot)
          BY <1>1, <3>1, <4>1, <4>3
        <5>2. whole[i] = label[dot + i]
          BY <2>4, <2>7, <5>1 DEF tail
        <5> QED
          BY <1>2, <4>2, <5>1, <5>2
      <4>4. CASE i > Len(tail)
        <5>1. PICK j \in 1..Len(suffix) : i = Len(tail) + j
          <6>1. i - Len(tail) \in 1..Len(suffix) /\ i = Len(tail) + (i - Len(tail))
            BY <1>1, <2>7, <3>1, <4>4
          <6> QED
            BY <6>1
        <5>2. dot + i = Len(label) + j
          BY <1>1, <3>1, <5>1
        <5>3. whole[i] = suffix[j] /\ full[Len(label) + j] = suffix[j]
          BY <1>2, <2>7, <5>1
        <5> QED
          BY <4>2, <5>2, <5>3
      <4> QED
        BY <1>1, <3>1, <4>1, <4>3, <4>4
    <3> QED
      BY <2>5, <2>7, <3>2, <3>3, SeqEqual
  <2>9. u.host = Before(label, dot) /\ u.tld = tail \o suffix
    BY <2>1, <2>6, <2>8
  <2> HIDE DEF tail, whole
  <2> QED
    BY <2>3, <2>9, Zenon DEF Named, tail
<1> QED
  BY <1>5, <1>6

LEMMA AuthorityNamed ==
  ASSUME NEW authority \in TidyTexts, NEW https, ParseAuthority(authority, https).ok
  PROVE  Named(ParseAuthority(authority, https).url)
<1> DEFINE colon   == RFind(authority, {":"})
           portTxt == After(authority, colon)
           number  == Len(portTxt) = 1 /\ portTxt[1] \in DOMAIN Numeral
           port    == Numeral[portTxt[1]]
           suffix  == IF colon = 0 \/ port = DefaultPort(https) THEN <<>>
                      ELSE <<":", PortText[port]>>
           part    == IF colon = 0 THEN authority ELSE Before(authority, colon)
           lowered == NormalizeHostEscapes(part)
           www     == IsPrefix(<<"www", ".">>, lowered)
           label   == IF www THEN SubSeq(lowered, 3, Len(lowered)) ELSE lowered
           split   == SplitHost(label, suffix)
           refused == \/ authority = <<>> \/ Contains(authority, "@") \/ authority[1] = "["
                      \/ colon # 0 /\ ~number
                      \/ Contains(part, ":")
                      \/ label = <<>> \/ split.host = <<>>
<1>1. ParseAuthority(authority, https) =
        IF refused THEN Invalid
        ELSE Valid([www |-> www, host |-> split.host, tld |-> split.tld])
  BY Zenon DEF ParseAuthority
<1>2. ~refused
  <2> HIDE DEF refused, www, split
  <2> QED
    BY <1>1 DEF Invalid
<1>3. part \in TidyTexts
  <2>1. authority \in Seq(Ascii)
    BY DEF TidyTexts
  <2>2. colon \in 0..Len(authority)
    BY <2>1, RFindFinds
  <2>3. colon # 0 => Before(authority, colon) \in TidyTexts
    BY <2>2, TidyCuts
  <2> QED
    BY <2>3
<1>4. part \in Seq(Ascii \ {":"})
  <2>1. \A i \in 1..Len(part) : part[i] \notin {":"}
    BY <1>2 DEF Contains
  <2> HIDE DEF part
  <2>2. part \in Seq(Ascii)
    BY <1>3 DEF TidyTexts
  <2> QED
    BY <2>1, <2>2, FewerCharacters
<1>5. lowered \in TidyTexts /\ lowered \in Seq(Ascii \ {":"})
  <2> HIDE DEF part
  <2>1. {":"} \in SUBSET Delimiters
    BY DEF Delimiters
  <2> QED
    BY <1>3, <1>4, <2>1, HostEscapesTidy, HostEscapesKeep
<1>6. label \in Names
  <2> HIDE DEF lowered
  <2>1. lowered \in Names
    BY <1>5 DEF Names
  <2>2. www => SubSeq(lowered, 3, Len(lowered)) \in Names
    <3> SUFFICES ASSUME www PROVE SubSeq(lowered, 3, Len(lowered)) \in Names
      OBVIOUS
    <3>1. Len(lowered) >= 2 /\ Len(lowered) \in Nat
      <4> DEFINE A == Ascii \cup {"www", "."}
      <4>1. lowered \in Seq(A)
        <5>1. lowered \in Seq(Ascii)
          BY <1>5 DEF TidyTexts
        <5>2. Ascii \subseteq A
          OBVIOUS
        <5> HIDE DEF A
        <5> QED
          BY <5>1, <5>2, SeqMonotonic
      <4>2. <<"www", ".">> \in Seq(A) /\ Len(<<"www", ".">>) = 2
        OBVIOUS
      <4>3. Holds(lowered, 0, <<"www", ".">>)
        <5> HIDE DEF A
        <5> QED
          BY <4>1, <4>2, PrefixMeans
      <4>4. Len(lowered) \in Nat
        BY <4>1, LenProperties
      <4> QED
        BY <4>2, <4>3, <4>4 DEF Holds
    <3>2. SubSeq(lowered, 3, Len(lowered)) = After(lowered, 2) /\ 2 \in 1..Len(lowered)
      BY <3>1 DEF After
    <3> QED
      BY <2>1, <3>2, NameParts
  <2> QED
    BY <2>1, <2>2
<1>7. suffix \in PortTails
  <2>1. CASE colon = 0 \/ port = DefaultPort(https)
    BY <2>1 DEF PortTails
  <2>2. CASE ~(colon = 0 \/ port = DefaultPort(https))
    <3>1. number
      BY <1>2, <2>2
    <3>2. port \in DOMAIN PortText
      BY <3>1, CharacterSet
    <3>3. suffix = <<":", PortText[port]>>
      BY <2>2
    <3> HIDE DEF port, suffix
    <3> QED
      BY <3>2, <3>3 DEF PortTails
  <2> QED
    BY <2>1, <2>2
<1> HIDE DEF refused, www
<1>8. ParseAuthority(authority, https).url = [www |-> www, host |-> split.host, tld |-> split.tld]
  <2> HIDE DEF split
  <2> QED
    BY <1>1, <1>2 DEF Valid
<1>9. /\ ParseAuthority(authority, https).url.host = SplitHost(label, suffix).host
      /\ ParseAuthority(authority, https).url.tld = SplitHost(label, suffix).tld
  <2>1. split = SplitHost(label, suffix)
    OBVIOUS
  <2> HIDE DEF split
  <2> QED
    BY <1>8, <2>1
<1> HIDE DEF label, suffix, split
<1> QED
  BY <1>6, <1>7, <1>9, SplitHostNamed

(* The fields of an accepted URL, as the encoder meets them. *)
TidyUrl(u) ==
  /\ Named(u)
  /\ u.index \in {"none", "html", "php", "other"}
  /\ u.index # "none" => u.path # <<>>
  /\ u.path \in Seq(TidyTexts)
  /\ u.query \in Seq(TidyPairs)
  /\ u.fragment \in Seq(TidyTexts)

LEMMA RestIsTidy ==
  ASSUME NEW https, NEW rest \in TidyTexts, ParseRest(https, rest).ok
  PROVE  TidyUrl(ParseRest(https, rest).url)
<1> DEFINE stop      == Find(rest, {"/", "?", "#"})
           resource  == IF stop = 0 THEN <<>> ELSE SubSeq(rest, stop, Len(rest))
           hash      == Find(resource, {"#"})
           pathQuery == IF hash = 0 THEN resource ELSE Before(resource, hash)
           mark      == Find(pathQuery, {"?"})
           authority == IF stop = 0 THEN rest ELSE Before(rest, stop)
           auth      == ParseAuthority(authority, https)
           path      == SplitPath(IF mark = 0 THEN pathQuery ELSE Before(pathQuery, mark))
           query     == SplitQuery(After(pathQuery, mark), mark # 0)
           fragment  == SplitFragment(IF hash = 0 THEN <<>> ELSE After(resource, hash))
           index     == DetectIndexSuffix(path)
           whole     == [https    |-> https,
                         www      |-> auth.url.www,
                         host     |-> auth.url.host,
                         tld      |-> auth.url.tld,
                         index    |-> index,
                         path     |-> path,
                         query    |-> query,
                         fragment |-> fragment]
<1>1. ParseRest(https, rest) = IF ~auth.ok THEN Invalid ELSE Valid(whole)
  BY Zenon DEF ParseRest
<1>2. auth.ok
  <2> HIDE DEF auth, whole
  <2> QED
    BY <1>1 DEF Invalid
<1>3. ParseRest(https, rest).url = whole
  <2> HIDE DEF auth, whole
  <2> QED
    BY <1>1, <1>2 DEF Valid
<1>5. rest \in Seq(Ascii) /\ stop \in 0..Len(rest) /\ Len(rest) \in Nat
  BY FindFinds, LenProperties DEF TidyTexts
<1>6. Named(auth.url)
  <2>1. authority \in TidyTexts
    BY <1>5, TidyCuts
  <2> HIDE DEF authority
  <2> QED
    BY <1>2, <2>1, AuthorityNamed
<1>7. resource \in TidyTexts
  <2>1. stop # 0 => stop \in 1..(Len(rest) + 1)
    BY <1>5
  <2>2. stop # 0 => SubSeq(rest, stop, Len(rest)) \in TidyTexts
    BY <2>1, TidyCuts
  <2> QED
    BY <2>2, EmptyIsTidy
<1> HIDE DEF resource
<1>8. hash \in 0..Len(resource)
  BY <1>7, FindFinds DEF TidyTexts
<1>9. pathQuery \in TidyTexts /\ After(resource, hash) \in TidyTexts
  BY <1>7, <1>8, TidyCuts
<1>10. fragment \in Seq(TidyTexts)
  <2> DEFINE text == IF hash = 0 THEN <<>> ELSE After(resource, hash)
  <2>1. text \in TidyTexts
    BY <1>9, EmptyIsTidy
  <2>2. fragment = IF text = <<>> THEN <<>> ELSE Split(text, "/")
    BY DEF SplitFragment
  <2> HIDE DEF text, fragment
  <2>3. Split(text, "/") \in Seq(TidyTexts)
    BY <2>1, SplitIsTidy
  <2> QED
    BY <2>2, <2>3, EmptySeq
<1> HIDE DEF pathQuery, hash
<1>11. mark \in 0..Len(pathQuery)
  BY <1>9, FindFinds DEF TidyTexts
<1>12. path \in Seq(TidyTexts)
  <2> DEFINE text == IF mark = 0 THEN pathQuery ELSE Before(pathQuery, mark)
  <2>1. text \in TidyTexts
    BY <1>9, <1>11, TidyCuts
  <2>2. path = SplitPath(text)
    OBVIOUS
  <2> HIDE DEF text, path
  <2> QED
    BY <2>1, <2>2, PathIsTidy
<1>13. query \in Seq(TidyPairs)
  <2> DEFINE text == After(pathQuery, mark)
  <2>1. text \in TidyTexts /\ (mark # 0) \in BOOLEAN
    BY <1>9, <1>11, TidyCuts
  <2>2. query = SplitQuery(text, mark # 0)
    OBVIOUS
  <2> HIDE DEF text, query, mark
  <2> QED
    BY <2>1, <2>2, QueryIsTidy
<1>14. index \in {"none", "html", "php", "other"} /\ (index # "none" => path # <<>>)
  BY IndexOfPath
<1> HIDE DEF auth, path, query, fragment, index
<1>15. Named(whole)
  <2>1. whole.host = auth.url.host /\ whole.tld = auth.url.tld
    OBVIOUS
  <2> HIDE DEF whole
  <2> QED
    BY <1>6, <2>1 DEF Named
<1>16. /\ whole.index = index /\ whole.path = path /\ whole.query = query
       /\ whole.fragment = fragment
  OBVIOUS
<1> HIDE DEF whole
<1> QED
  BY <1>3, <1>10, <1>12, <1>13, <1>14, <1>15, <1>16 DEF TidyUrl

LEMMA UrlIsTidy ==
  ASSUME NEW s \in Seq(Characters), ParseUrl(s).ok
  PROVE  TidyUrl(ParseUrl(s).url)
<1>1. PICK t \in Seq(Ascii) : \E https : \E m \in 1..(Len(t) + 1) :
        /\ NormalizePercentEncoding(s).ok /\ t = NormalizePercentEncoding(s).url
        /\ ParseUrl(s) = ParseRest(https, SubSeq(t, m, Len(t)))
  BY RestParsed
<1>2. PICK https : \E m \in 1..(Len(t) + 1) :
        ParseUrl(s) = ParseRest(https, SubSeq(t, m, Len(t)))
  BY <1>1
<1>3. PICK m \in 1..(Len(t) + 1) : ParseUrl(s) = ParseRest(https, SubSeq(t, m, Len(t)))
  BY <1>2
<1>4. t \in TidyTexts
  BY <1>1, NormalIsClosed, ClosedIsTidy DEF ClosedTexts, TidyTexts
<1>5. SubSeq(t, m, Len(t)) \in TidyTexts
  BY <1>4, TidyCuts
<1> QED
  BY <1>3, <1>5, RestIsTidy

-----------------------------------------------------------------------------
(* Putting the fields together again.  Each cut of the parser drops the    *)
(* character it cuts at, and Display writes it back: part by part, what is *)
(* shown is the text that was cut.                                         *)

(* Texts one after the other: the names below keep the equations small. *)
LEMMA Regrouped ==
  \A S : \A s, t, u \in Seq(S) : (s \o t) \o u = s \o (t \o u)
BY ConcatAssociative, Zenon

LEMMA Concatenated ==
  \A S : \A s, t \in Seq(S) :
     /\ s \o t \in Seq(S) /\ Len(s \o t) = Len(s) + Len(t)
     /\ \A i \in 1..(Len(s) + Len(t)) :
          (s \o t)[i] = IF i <= Len(s) THEN s[i] ELSE t[i - Len(s)]
BY ConcatProperties, Zenon

(* join, part by part. *)
Glued(s, c, t) == s \o <<c>> \o t

(* What is joined after k parts. *)
JoinGoes(joined, parts, c) ==
  /\ joined[0] = <<>>
  /\ \A k \in 1..Len(parts) :
       joined[k] = IF k = 1 THEN parts[1] ELSE Glued(joined[k - 1], c, parts[k])
  /\ Join(parts, c) = joined[Len(parts)]

LEMMA JoinSteps ==
  ASSUME NEW A, NEW c \in A, NEW parts \in Seq(Seq(A))
  PROVE  \E joined : /\ JoinGoes(joined, parts, c)
                     /\ \A k \in 0..Len(parts) : joined[k] \in Seq(A)
<1> DEFINE N == Len(parts)
           S == Seq(A)
           add(k, before) == IF k = 1 THEN parts[1] ELSE Glued(before, c, parts[k])
           eq(f) == [k \in 0..N |-> IF k = 0 THEN <<>> ELSE add(k, f[k - 1])]
           step == [k \in 1..N |-> [before \in S |-> add(k, before)]]
           joined == CHOOSE f : f = eq(f)
<1>1. N \in Nat /\ <<>> \in S
  BY LenProperties, EmptySeq
<1>2. ASSUME NEW k \in 1..N, NEW before \in S PROVE add(k, before) \in S
  <2>1. parts[k] \in S /\ 1 \in 1..N
    BY <1>1, ElementOfSeq
  <2>2. parts[1] \in S
    BY <2>1, ElementOfSeq
  <2>3. <<c>> \in S
    OBVIOUS
  <2>4. (before \o <<c>>) \o parts[k] \in S
    BY <2>1, <2>3, ConcatProperties
  <2> QED
    BY <2>2, <2>4 DEF Glued
<1> HIDE DEF S, N
<1>3. ASSUME NEW k \in 1..N, NEW before \in S PROVE step[k][before] = add(k, before)
  OBVIOUS
<1>4. step \in [1..N -> [S -> S]]
  BY <1>2
<1>5. PICK f \in [0..N -> S] : Unfolds(f, N, <<>>, step)
  <2> HIDE DEF step
  <2> QED
    BY <1>1, <1>4, RecursionInto
<1>6. f = eq(f)
  <2> HIDE DEF add
  <2>1. f = [k \in 0..N |-> IF k = 0 THEN <<>> ELSE step[k][f[k - 1]]]
    BY <1>5 DEF Unfolds
  <2> HIDE DEF step
  <2>2. ASSUME NEW k \in 1..N PROVE step[k][f[k - 1]] = add(k, f[k - 1])
    <3>1. f[k - 1] \in S
      BY <1>1
    <3> QED
      BY <1>3, <3>1
  <2>3. \A k \in 0..N : f[k] = IF k = 0 THEN <<>> ELSE add(k, f[k - 1])
    BY <1>1, <2>1, <2>2
  <2> QED
    BY <2>1, <2>3
<1>7. joined = eq(joined)
  <2> HIDE DEF eq
  <2> QED
    BY <1>6, Zenon
<1>8. Join(parts, c) = joined[N]
  BY Zenon DEF Join, N, add, Glued
<1> HIDE DEF joined
<1>9. joined[0] = <<>> /\ \A k \in 1..N : joined[k] = add(k, joined[k - 1])
  BY <1>1, <1>7
<1> DEFINE T == {k \in 0..N : joined[k] \in S}
<1>10. 0 \in T
  BY <1>1, <1>9
<1>11. ASSUME NEW k \in 0..(N - 1), k \in T PROVE k + 1 \in T
  <2>1. k + 1 \in 1..N /\ (k + 1) - 1 = k
    BY <1>1
  <2>2. joined[k + 1] = add(k + 1, joined[k])
    BY <1>9, <2>1
  <2>3. add(k + 1, joined[k]) \in S
    BY <1>2, <1>11, <2>1
  <2> QED
    BY <1>1, <2>1, <2>2, <2>3
<1> HIDE DEF T
<1>12. \A k \in 0..N : k \in T
  BY <1>1, <1>10, <1>11, UpTo
<1>13. \A k \in 0..N : joined[k] \in S
  BY <1>12 DEF T
<1>14. JoinGoes(joined, parts, c)
  <2>1. \A k \in 1..N :
          joined[k] = IF k = 1 THEN parts[1] ELSE Glued(joined[k - 1], c, parts[k])
    BY <1>9
  <2> QED
    BY <1>8, <1>9, <2>1, Zenon DEF JoinGoes, N
<1> QED
  BY <1>13, <1>14 DEF S, N

(* Joining what a text was split into gives the text. *)
LEMMA JoinSplit ==
  ASSUME NEW A, NEW s \in Seq(A), NEW c \in A
  PROVE  Join(Split(s, c), c) = s
<1> DEFINE ps == Split(s, c)
           n == Len(ps)
<1>1. ps \in Seq(Seq(A)) /\ n \in Nat \ {0} /\ Len(s) \in Nat
  <2>1. ps \in Seq(Seq(A \ {c})) \ {<<>>}
    BY SplitParts
  <2>2. Seq(A \ {c}) \subseteq Seq(A)
    BY SeqMonotonic
  <2>3. ps \in Seq(Seq(A)) /\ ps # <<>>
    <3> HIDE DEF ps
    <3> QED
      BY <2>1, <2>2, SeqMonotonic
  <2>4. n \in Nat \ {0}
    <3> DEFINE S == Seq(A)
    <3>1. ps \in Seq(S)
      BY <2>3
    <3> HIDE DEF ps, S
    <3> QED
      BY <2>3, <3>1, EmptySeq
  <2> QED
    BY <2>3, <2>4, LenProperties
<1>2. PICK e : Cuts(e, ps, s, Len(s), c)
  BY SplitCuts
<1> HIDE DEF ps
<1>3. \A j \in 0..n : e[j] \in -1..Len(s)
  BY <1>1, <1>2, CutsAreParts
<1>4. PICK joined : /\ JoinGoes(joined, ps, c)
                    /\ \A k \in 0..n : joined[k] \in Seq(A)
  BY <1>1, JoinSteps
<1> DEFINE Same(k) == /\ Len(joined[k]) = e[k]
                      /\ \A i \in 1..Len(joined[k]) : joined[k][i] = s[i]
           T == {k \in 0..n : k # 0 => Same(k)}
<1> HIDE DEF n
<1>5. ASSUME NEW k \in 0..(n - 1), k \in T PROVE k + 1 \in T
  <2>1. k + 1 \in 1..n /\ (k + 1) - 1 = k /\ k \in 0..n
    BY <1>1
  <2>2. ps[k + 1] \in Seq(A) /\ Len(ps[k + 1]) \in Nat
    <3> DEFINE S == Seq(A)
    <3>1. ps \in Seq(S) /\ k + 1 \in 1..Len(ps)
      BY <1>1, <2>1 DEF n
    <3> HIDE DEF S
    <3>2. ps[k + 1] \in S
      BY <3>1, ElementOfSeq
    <3> QED
      BY <3>2, LenProperties DEF S
  <2>3. /\ e[k + 1] = e[k] + 1 + Len(ps[k + 1])
        /\ \A i \in 1..Len(ps[k + 1]) : ps[k + 1][i] = s[e[k] + 1 + i]
        /\ e[0] = -1
    BY <1>2, <2>1 DEF Cuts, n
  <2>4. CASE k = 0
    <3>1. joined[1] = ps[1]
      BY <1>4, <2>1, <2>4 DEF JoinGoes, n
    <3> QED
      BY <1>1, <2>1, <2>2, <2>3, <2>4, <3>1
  <2>5. CASE k # 0
    <3>1. Same(k) /\ joined[k] \in Seq(A) /\ e[k] \in Nat
      BY <1>4, <1>5, <2>1, <2>5, LenProperties
    <3>2. joined[k + 1] = joined[k] \o <<c>> \o ps[k + 1]
      <4>1. joined[k + 1] = Glued(joined[k], c, ps[k + 1])
        BY <1>1, <1>4, <2>1, <2>5 DEF JoinGoes, n
      <4> QED
        BY <4>1 DEF Glued
    <3>3. s[e[k] + 1] = c
      <4>1. k \in 1..Len(ps) /\ k < Len(ps)
        BY <1>1, <2>1, <2>5 DEF n
      <4> QED
        BY <1>2, <4>1 DEF Cuts
    <3>4. PICK l \in Seq(A) : l = joined[k] \o <<c>>
      <4>1. <<c>> \in Seq(A)
        OBVIOUS
      <4> QED
        BY <3>1, <4>1, ConcatProperties
    <3>41. l \in Seq(A)
      BY <3>4
    <3>5. Len(l) = e[k] + 1 /\ \A i \in 1..Len(l) : l[i] = s[i]
      BY <3>1, <3>3, <3>4
    <3>6. /\ Len(joined[k + 1]) = e[k] + 1 + Len(ps[k + 1])
          /\ \A i \in 1..Len(joined[k + 1]) :
               joined[k + 1][i] = IF i <= Len(l) THEN l[i] ELSE ps[k + 1][i - Len(l)]
      <4>1. joined[k + 1] = l \o ps[k + 1]
        BY <3>2, <3>4
      <4>2. /\ Len(l \o ps[k + 1]) = Len(l) + Len(ps[k + 1])
            /\ \A i \in 1..(Len(l) + Len(ps[k + 1])) :
                 (l \o ps[k + 1])[i] = IF i <= Len(l) THEN l[i] ELSE ps[k + 1][i - Len(l)]
        BY <2>2, <3>41, Concatenated
      <4> QED
        BY <3>5, <4>1, <4>2
    <3>7. ASSUME NEW i \in 1..Len(joined[k + 1]) PROVE joined[k + 1][i] = s[i]
      <4>1. CASE i <= Len(l)
        <5>1. i \in 1..Len(l)
          BY <4>1, <3>6, <3>1, <2>2, <3>5
        <5> QED
          BY <5>1, <3>5, <3>6, <4>1
      <4>2. CASE ~(i <= Len(l))
        <5> DEFINE m == Len(ps[k + 1])
        <5>1. i \in 1..(e[k] + 1 + m) /\ m \in Nat /\ Len(l) = e[k] + 1 /\ e[k] \in Nat
          BY <3>6, <3>5, <3>1, <2>2
        <5> HIDE DEF m
        <5>2. i - Len(l) \in 1..m /\ e[k] + 1 + (i - Len(l)) = i
          BY <4>2, <5>1
        <5>3. i - Len(l) \in 1..Len(ps[k + 1])
          BY <5>2 DEF m
        <5> QED
          BY <5>2, <5>3, <2>3, <3>6, <4>2
      <4> QED
        BY <4>1, <4>2
    <3> QED
      BY <2>1, <2>3, <3>6, <3>7
  <2> QED
    BY <2>4, <2>5
<1>6. 0 \in T
  BY <1>1
<1> HIDE DEF T
<1>7. \A k \in 0..n : k \in T
  BY <1>1, <1>5, <1>6, UpTo
<1>8. Same(n) /\ joined[n] \in Seq(A) /\ e[n] = Len(s) /\ Join(ps, c) = joined[n]
  <2>1. n \in T
    BY <1>1, <1>7
  <2> QED
    BY <1>1, <1>2, <1>4, <2>1 DEF T, Cuts, JoinGoes, n
<1>9. joined[n] = s
  BY <1>8, SeqEqual
<1> QED
  BY <1>8, <1>9 DEF ps

(* A character and a text; a text and another. *)
Led(c, s) == <<c>> \o s

Cat(s, t) == s \o t

LEMMA Associates ==
  ASSUME NEW A, NEW s, NEW t, NEW u, s \in Seq(A), t \in Seq(A), u \in Seq(A)
  PROVE  (s \o t) \o u = s \o (t \o u)
BY ConcatAssociative

(* A part glued on, with a character ahead of the whole. *)
LEMMA LedGlued ==
  ASSUME NEW A, NEW c \in A, NEW j \in Seq(A), NEW p \in Seq(A)
  PROVE  /\ Led(c, Glued(j, c, p)) = Cat(Led(c, j), Led(c, p))
         /\ Led(c, p) \in Seq(A) /\ Cat(<<>>, Led(c, p)) = Led(c, p)
<1>1. PICK x \in Seq(A) : x = <<c>>
  <2>1. <<c>> \in Seq(A)
    OBVIOUS
  <2> QED
    BY <2>1
<1>2. PICK xp \in Seq(A) : xp = x \o p
  BY ConcatProperties
<1>3. (j \o x) \o p = j \o (x \o p) /\ x \o (j \o xp) = (x \o j) \o xp
  <2>1. x \in Seq(A) /\ xp \in Seq(A)
    BY <1>1, <1>2
  <2>2. (j \o x) \o p = j \o (x \o p)
    BY <2>1, Associates
  <2>3. (x \o j) \o xp = x \o (j \o xp)
    BY <2>1, Associates
  <2> QED
    BY <2>2, <2>3
<1>4. <<>> \o xp = xp
  <2>1. xp \in Seq(A)
    BY <1>2
  <2> QED
    BY <2>1, ConcatEmptySeq
<1>5. Glued(j, c, p) = (j \o x) \o p
  BY <1>1 DEF Glued
<1>6. Led(c, p) = xp /\ Led(c, j) = x \o j /\ Led(c, Glued(j, c, p)) = x \o Glued(j, c, p)
  BY <1>1, <1>2 DEF Led
<1> HIDE DEF Glued, Led
<1> QED
  BY <1>2, <1>3, <1>4, <1>5, <1>6 DEF Cat

(* Every part behind a c of its own: a c, and the parts joined. *)
LEMMA LedJoin ==
  ASSUME NEW A, NEW c \in A, NEW parts \in Seq(Seq(A)) \ {<<>>}
  PROVE  FlattenSeq([i \in 1..Len(parts) |-> <<c>> \o parts[i]]) = <<c>> \o Join(parts, c)
<1> DEFINE n == Len(parts)
           Texts == Seq(A)
           led == [i \in 1..n |-> Led(c, parts[i])]
<1>1. n \in Nat \ {0} /\ \A i \in 1..n : parts[i] \in Texts
  <2>1. parts \in Seq(Texts)
    OBVIOUS
  <2> HIDE DEF Texts
  <2> QED
    BY <2>1, EmptySeq, ElementOfSeq
<1>2. led \in Seq(Texts) /\ Len(led) = n
  <2>1. ASSUME NEW i \in 1..n PROVE Led(c, parts[i]) \in Texts
    BY <1>1, LedGlued
  <2> HIDE DEF Texts
  <2> QED
    BY <1>1, <2>1
<1>3. PICK flat : Joined(flat, led, A)
  <2> HIDE DEF led
  <2> QED
    BY <1>2, FlattenJoins
<1>4. PICK joined : /\ JoinGoes(joined, parts, c)
                    /\ \A k \in 0..n : joined[k] \in Texts
  BY JoinSteps
<1> HIDE DEF n
<1> DEFINE T == {k \in 0..n : k # 0 => flat[k] = Led(c, joined[k])}
<1>5. ASSUME NEW k \in 0..(n - 1), k \in T PROVE k + 1 \in T
  <2>1. k + 1 \in 1..n /\ (k + 1) - 1 = k /\ k \in 0..n /\ k \in 0..(Len(led) - 1)
    BY <1>1, <1>2
  <2>2. flat[k + 1] = Cat(flat[k], Led(c, parts[k + 1])) /\ parts[k + 1] \in Seq(A)
    <3>1. flat[k + 1] = flat[k] \o led[k + 1]
      BY <1>3, <2>1 DEF Joined
    <3> QED
      BY <1>1, <2>1, <3>1 DEF Cat
  <2>3. CASE k = 0
    <3>1. flat[0] = <<>>
      BY <1>3 DEF Joined
    <3>2. joined[1] = parts[1]
      BY <1>4, <2>1, <2>3 DEF JoinGoes, n
    <3>3. flat[1] = Led(c, parts[1])
      BY <2>2, <2>3, <3>1, LedGlued
    <3> QED
      BY <1>1, <2>1, <2>3, <3>2, <3>3
  <2>4. CASE k # 0
    <3>1. flat[k] = Led(c, joined[k]) /\ joined[k] \in Seq(A)
      BY <1>1, <1>4, <1>5, <2>1, <2>4
    <3>2. joined[k + 1] = Glued(joined[k], c, parts[k + 1])
      BY <1>1, <1>4, <2>1, <2>4 DEF JoinGoes, n
    <3>3. Led(c, joined[k + 1]) = Cat(Led(c, joined[k]), Led(c, parts[k + 1]))
      <4>1. Led(c, Glued(joined[k], c, parts[k + 1])) = Cat(Led(c, joined[k]), Led(c, parts[k + 1]))
        <5>1. PICK j, p : j = joined[k] /\ p = parts[k + 1]
          OBVIOUS
        <5>2. j \in Seq(A) /\ p \in Seq(A)
          BY <2>2, <3>1, <5>1
        <5>3. Led(c, Glued(j, c, p)) = Cat(Led(c, j), Led(c, p))
          BY <5>2, LedGlued
        <5> QED
          BY <5>1, <5>3
      <4> QED
        BY <3>2, <4>1, Zenon
    <3> QED
      <4>1. flat[k + 1] = Led(c, joined[k + 1])
        BY <2>2, <3>1, <3>3, Zenon
      <4> QED
        BY <1>1, <2>1, <4>1
  <2> QED
    BY <2>3, <2>4
<1>6. 0 \in T
  BY <1>1
<1> HIDE DEF T
<1>7. \A k \in 0..n : k \in T
  BY <1>1, <1>5, <1>6, UpTo
<1>8. flat[n] = Led(c, joined[n])
  <2>1. n \in T /\ n # 0
    BY <1>1, <1>7
  <2> QED
    BY <2>1 DEF T
<1>9. FlattenSeq(led) = flat[n] /\ Join(parts, c) = joined[n]
  BY <1>2, <1>3, <1>4 DEF Joined, JoinGoes, n
<1>10. led = [i \in 1..Len(parts) |-> <<c>> \o parts[i]]
  BY DEF Led, n
<1> HIDE DEF led
<1> QED
  BY <1>8, <1>9, <1>10 DEF Led

(* Display, part by part. *)
PathText(path) == FlattenSeq([i \in 1..Len(path) |-> <<"/">> \o path[i]])

QueryText(query) ==
  IF query = <<>> THEN <<>>
  ELSE Led("?", Join([i \in 1..Len(query) |-> ShowPair(query[i])], "&"))

FragmentText(fragment) ==
  IF fragment = <<>> THEN <<>> ELSE Led("#", Join(fragment, "/"))

(* A text is what is before a character, the character, and what is after it. *)
LEMMA CutShown ==
  ASSUME NEW A, NEW s \in Seq(A), NEW n \in 1..Len(s)
  PROVE  /\ Cat(Before(s, n), Led(s[n], After(s, n))) = s
         /\ Before(s, n) \in Seq(A) /\ After(s, n) \in Seq(A) /\ s[n] \in A
<1>1. Len(s) \in Nat /\ s[n] \in A
  BY LenProperties, ElementOfSeq
<1>2. /\ Before(s, n) \in Seq(A) /\ After(s, n) \in Seq(A)
      /\ Len(Before(s, n)) = n - 1 /\ \A i \in 1..(n - 1) : Before(s, n)[i] = s[i]
      /\ Len(After(s, n)) = Len(s) - n /\ \A i \in 1..(Len(s) - n) : After(s, n)[i] = s[n + i]
  <2>1. n \in 0..Len(s) /\ n # 0
    BY <1>1
  <2> QED
    BY <2>1, BeforeAfter
<1>3. PICK b \in Seq(A), a \in Seq(A) : b = Before(s, n) /\ a = After(s, n)
  BY <1>2
<1>4. PICK m \in Seq(A) : m = <<s[n]>>
  <2>1. <<s[n]>> \in Seq(A)
    BY <1>1
  <2> QED
    BY <2>1
<1>5. PICK l \in Seq(A) : l = m \o a
  <2>1. m \in Seq(A) /\ a \in Seq(A)
    BY <1>3, <1>4
  <2> QED
    BY <2>1, ConcatProperties
<1>6. Len(l) = Len(s) - n + 1 /\ \A i \in 1..Len(l) : l[i] = s[n - 1 + i]
  <2>1. Len(a) = Len(s) - n /\ \A i \in 1..(Len(s) - n) : a[i] = s[n + i]
    BY <1>2, <1>3
  <2>2. Len(m) = 1 /\ m[1] = s[n]
    BY <1>4
  <2>3. m \in Seq(A) /\ a \in Seq(A)
    BY <1>3, <1>4
  <2>4. /\ Len(l) = Len(m) + Len(a)
        /\ \A i \in 1..(Len(m) + Len(a)) : l[i] = IF i <= Len(m) THEN m[i] ELSE a[i - Len(m)]
    BY <1>5, <2>3, Concatenated
  <2>5. ASSUME NEW i \in 1..(Len(s) - n + 1) PROVE l[i] = s[n - 1 + i]
    <3>1. CASE i = 1
      <4>1. 1 \in 1..(1 + Len(a)) /\ n - 1 + 1 = n
        BY <1>1, <2>1
      <4>2. l[1] = m[1]
        BY <2>2, <2>4, <4>1
      <4> QED
        BY <2>2, <3>1, <4>1, <4>2
    <3>2. CASE i # 1
      <4>1. i - 1 \in 1..(Len(s) - n) /\ n + (i - 1) = n - 1 + i /\ ~(i <= 1)
            /\ i \in 1..(1 + (Len(s) - n))
        BY <1>1, <3>2
      <4>2. l[i] = a[i - 1]
        BY <2>1, <2>2, <2>4, <4>1
      <4> QED
        BY <2>1, <4>1, <4>2
    <3> QED
      BY <3>1, <3>2
  <2> QED
    BY <1>1, <2>1, <2>2, <2>4, <2>5
<1>7. b \o l = s
  <2>1. b \in Seq(A) /\ l \in Seq(A) /\ Len(b) = n - 1 /\ \A i \in 1..(n - 1) : b[i] = s[i]
    BY <1>2, <1>3, <1>5
  <2>2. /\ b \o l \in Seq(A) /\ Len(b \o l) = Len(b) + Len(l)
        /\ \A i \in 1..(Len(b) + Len(l)) : (b \o l)[i] = IF i <= Len(b) THEN b[i] ELSE l[i - Len(b)]
    BY <2>1, Concatenated
  <2>3. PICK t \in Seq(A) : t = b \o l
    BY <2>2
  <2>4. /\ Len(t) = Len(b) + Len(l)
        /\ \A i \in 1..(Len(b) + Len(l)) : t[i] = IF i <= Len(b) THEN b[i] ELSE l[i - Len(b)]
    BY <2>2, <2>3
  <2>5. ASSUME NEW i \in 1..Len(s) PROVE t[i] = s[i]
    <3>1. i \in 1..(Len(b) + Len(l))
      BY <1>1, <1>6, <2>1
    <3>2. CASE i <= n - 1
      <4>1. i \in 1..(n - 1) /\ i <= Len(b)
        BY <1>1, <2>1, <3>2
      <4> QED
        BY <2>1, <2>4, <3>1, <4>1
    <3>3. CASE ~(i <= n - 1)
      <4>1. i - (n - 1) \in 1..Len(l) /\ n - 1 + (i - (n - 1)) = i /\ ~(i <= Len(b))
        BY <1>1, <1>6, <2>1, <3>3
      <4>2. t[i] = l[i - (n - 1)]
        BY <2>1, <2>4, <3>1, <4>1
      <4> QED
        BY <1>6, <4>1, <4>2
    <3> QED
      BY <3>2, <3>3
  <2>6. Len(t) = Len(s)
    BY <1>1, <1>6, <2>1, <2>4
  <2>7. t = s
    <3>1. t \in Seq(A) /\ \A i \in 1..Len(t) : t[i] = s[i]
      BY <2>3, <2>5, <2>6
    <3> QED
      BY <2>6, <3>1, SeqEqual
  <2> QED
    BY <2>3, <2>7
<1>8. Cat(Before(s, n), Led(s[n], After(s, n))) = b \o l
  BY <1>3, <1>4, <1>5 DEF Cat, Led
<1> QED
  BY <1>1, <1>2, <1>7, <1>8

(* A text is its first character and the rest. *)
LEMMA TailShown ==
  ASSUME NEW A, NEW s \in Seq(A), s # <<>>
  PROVE  Led(s[1], Tail(s)) = s /\ Tail(s) \in Seq(A) /\ s[1] \in A
<1>1. Len(s) \in Nat \ {0}
  BY EmptySeq
<1>2. s[1] \in A
  BY <1>1, ElementOfSeq
<1>3. Tail(s) \in Seq(A) /\ Len(Tail(s)) = Len(s) - 1 /\ \A i \in 1..Len(Tail(s)) : Tail(s)[i] = s[i + 1]
  BY HeadTailProperties
<1>4. PICK a \in Seq(A), m \in Seq(A) : a = Tail(s) /\ m = <<s[1]>>
  <2>1. <<s[1]>> \in Seq(A)
    BY <1>2
  <2> QED
    BY <1>3, <2>1
<1>5. m \in Seq(A) /\ a \in Seq(A) /\ Len(m) = 1 /\ m[1] = s[1] /\ Len(a) = Len(s) - 1
      /\ \A i \in 1..Len(a) : a[i] = s[i + 1]
  BY <1>3, <1>4
<1>6. PICK t : t = m \o a
  OBVIOUS
<1>7. /\ t \in Seq(A) /\ Len(t) = Len(m) + Len(a)
      /\ \A i \in 1..(Len(m) + Len(a)) : t[i] = IF i <= Len(m) THEN m[i] ELSE a[i - Len(m)]
  <2>1. /\ m \o a \in Seq(A) /\ Len(m \o a) = Len(m) + Len(a)
        /\ \A i \in 1..(Len(m) + Len(a)) : (m \o a)[i] = IF i <= Len(m) THEN m[i] ELSE a[i - Len(m)]
    <3>1. m \in Seq(A) /\ a \in Seq(A)
      BY <1>5
    <3> QED
      BY <3>1, Concatenated
  <2> QED
    BY <1>6, <2>1
<1>8. ASSUME NEW i \in 1..Len(t) PROVE t[i] = s[i]
  <2>1. CASE i = 1
    BY <1>1, <1>5, <1>7, <2>1
  <2>2. CASE i # 1
    <3>1. i - 1 \in 1..Len(a) /\ (i - 1) + 1 = i
      BY <1>1, <1>5, <1>7, <2>2
    <3>2. t[i] = a[i - 1]
      BY <1>1, <1>5, <1>7, <2>2
    <3> QED
      BY <1>5, <3>1, <3>2
  <2> QED
    BY <2>1, <2>2
<1>9. t = s
  <2>1. Len(t) = Len(s) /\ t \in Seq(A)
    BY <1>1, <1>5, <1>7
  <2> QED
    BY <1>8, <2>1, SeqEqual
<1>10. Led(s[1], Tail(s)) = t
  BY <1>4, <1>6 DEF Led
<1> QED
  BY <1>2, <1>3, <1>9, <1>10

(* SplitPath undone: a slash ahead of every segment. *)
LEMMA PathShown ==
  ASSUME NEW path \in Seq(Ascii), path # <<>> => path[1] = "/"
  PROVE  PathText(SplitPath(path)) = path
<1>1. "/" \in Ascii
  BY NoNewDelimiter DEF Delimiters
<1>2. CASE path = <<>>
  <2>1. SplitPath(path) = <<>>
    BY <1>2 DEF SplitPath
  <2>2. PICK none \in Seq(Seq(Ascii)) : none = [i \in 1..Len(SplitPath(path)) |-> <<"/">> \o SplitPath(path)[i]] /\ none = <<>>
    <3>1. [i \in 1..Len(SplitPath(path)) |-> <<"/">> \o SplitPath(path)[i]] = <<>>
      BY <2>1
    <3> DEFINE S == Seq(Ascii)
    <3> HIDE DEF S
    <3>2. <<>> \in Seq(S)
      BY EmptySeq
    <3> QED
      BY <3>1, <3>2 DEF S
  <2>3. PICK joined : Joined(joined, none, Ascii)
    <3>1. none \in Seq(Seq(Ascii))
      BY <2>2
    <3> QED
      BY <3>1, FlattenJoins
  <2>4. Len(none) = 0
    BY <2>2
  <2>5. FlattenSeq(none) = <<>>
    BY <2>3, <2>4 DEF Joined
  <2> QED
    BY <1>2, <2>2, <2>5 DEF PathText
<1>3. CASE path # <<>>
  <2>1. PICK rest \in Seq(Ascii) : rest = Tail(path) /\ path = Led("/", rest)
    <3>1. Led(path[1], Tail(path)) = path /\ Tail(path) \in Seq(Ascii)
      BY <1>3, TailShown
    <3> QED
      BY <1>3, <3>1
  <2>2. SplitPath(path) = Split(rest, "/")
    BY <1>3, <2>1 DEF SplitPath
  <2>3. rest \in Seq(Ascii)
    BY <2>1
  <2>4. PICK parts : parts = Split(rest, "/")
    OBVIOUS
  <2>5. parts \in Seq(Seq(Ascii)) \ {<<>>}
    <3>1. parts \in Seq(Seq(Ascii \ {"/"})) \ {<<>>}
      BY <2>3, <2>4, SplitParts
    <3> DEFINE S == Seq(Ascii \ {"/"})
               X == Seq(Ascii)
    <3>2. S \subseteq X
      BY SeqMonotonic
    <3>3. parts \in Seq(S) \ {<<>>}
      BY <3>1
    <3> HIDE DEF S, X
    <3>4. parts \in Seq(X) \ {<<>>}
      BY <3>2, <3>3, SeqMonotonic
    <3> QED
      BY <3>4 DEF X
  <2>6. FlattenSeq([i \in 1..Len(parts) |-> <<"/">> \o parts[i]]) = <<"/">> \o Join(parts, "/")
    BY <1>1, <2>5, LedJoin
  <2>7. Join(parts, "/") = rest
    BY <1>1, <2>3, <2>4, JoinSplit
  <2>8. PathText(SplitPath(path)) = FlattenSeq([i \in 1..Len(parts) |-> <<"/">> \o parts[i]])
    BY <2>2, <2>4 DEF PathText
  <2> QED
    BY <2>1, <2>6, <2>7, <2>8 DEF Led
<1> QED
  BY <1>2, <1>3

(* SplitPair undone. *)
LEMMA PairShown ==
  ASSUME NEW pair \in Seq(Ascii)
  PROVE  ShowPair(SplitPair(pair)) = pair
<1> DEFINE eq == Find(pair, {"="})
<1>1. /\ eq \in 0..Len(pair) /\ Len(pair) \in Nat
      /\ eq # 0 => pair[eq] = "="
  BY FindFinds, LenProperties
<1> HIDE DEF eq
<1>2. CASE eq = 0
  <2>1. SplitPair(pair) = [key |-> pair, value |-> NoValue]
    BY <1>2 DEF SplitPair, eq
  <2>2. ShowPair(SplitPair(pair)) = pair \o <<>>
    BY <2>1 DEF ShowPair, NoValue
  <2> QED
    BY <2>2, ConcatEmptySeq
<1>3. CASE eq # 0
  <2>1. SplitPair(pair) = [key |-> Before(pair, eq), value |-> SomeValue(After(pair, eq))]
    BY <1>3 DEF SplitPair, eq
  <2>2. eq \in 1..Len(pair)
    BY <1>1, <1>3
  <2>3. Cat(Before(pair, eq), Led("=", After(pair, eq))) = pair
    BY <1>1, <1>3, <2>2, CutShown
  <2>4. ShowPair(SplitPair(pair)) = Cat(Before(pair, eq), Led("=", After(pair, eq)))
    BY <2>1 DEF ShowPair, SomeValue, Cat, Led
  <2> QED
    BY <2>3, <2>4
<1> QED
  BY <1>2, <1>3

(* split takes no part away and leaves at least one. *)
LEMMA SplitTexts ==
  ASSUME NEW A, NEW s \in Seq(A), NEW c
  PROVE  Split(s, c) \in Seq(Seq(A)) \ {<<>>}
<1> DEFINE S == Seq(A \ {c})
           X == Seq(A)
<1>1. S \subseteq X
  BY SeqMonotonic
<1>2. Split(s, c) \in Seq(S) \ {<<>>}
  BY SplitParts
<1> HIDE DEF S, X
<1>3. Split(s, c) \in Seq(X) \ {<<>>}
  BY <1>1, <1>2, SeqMonotonic
<1> QED
  BY <1>3 DEF X

(* SplitQuery undone: Display writes the mark of a query that is there. *)
LEMMA QueryShown ==
  ASSUME NEW query \in Seq(Ascii)
  PROVE  /\ QueryText(SplitQuery(query, TRUE)) = Led("?", query)
         /\ QueryText(SplitQuery(query, FALSE)) = <<>>
<1>1. "&" \in Ascii
  BY NoNewDelimiter DEF Delimiters
<1>2. PICK pairs : pairs = Split(query, "&")
  OBVIOUS
<1>3. pairs \in Seq(Seq(Ascii)) \ {<<>>} /\ Join(pairs, "&") = query
  BY <1>1, <1>2, SplitTexts, JoinSplit
<1>4. Len(pairs) \in Nat \ {0} /\ \A i \in 1..Len(pairs) : pairs[i] \in Seq(Ascii)
  <2> DEFINE S == Seq(Ascii)
  <2>1. pairs \in Seq(S) /\ pairs # <<>>
    BY <1>3
  <2> HIDE DEF S
  <2>2. Len(pairs) \in Nat \ {0} /\ \A i \in 1..Len(pairs) : pairs[i] \in S
    BY <2>1, EmptySeq, ElementOfSeq
  <2> QED
    BY <2>2 DEF S
<1>5. PICK q : q = [i \in 1..Len(pairs) |-> SplitPair(pairs[i])]
  OBVIOUS
<1>6. SplitQuery(query, TRUE) = q /\ SplitQuery(query, FALSE) = <<>>
  BY <1>2, <1>5 DEF SplitQuery
<1>7. Len(q) = Len(pairs) /\ q # <<>>
  BY <1>4, <1>5
<1>8. [i \in 1..Len(q) |-> ShowPair(q[i])] = pairs
  <2>1. \A i \in 1..Len(pairs) : ShowPair(q[i]) = pairs[i]
    BY <1>4, <1>5, PairShown
  <2>2. pairs = [i \in 1..Len(pairs) |-> pairs[i]]
    <3> DEFINE S == Seq(Ascii)
    <3>1. pairs \in Seq(S)
      BY <1>3
    <3> HIDE DEF S
    <3> QED
      BY <3>1, LenProperties
  <2> QED
    BY <1>7, <2>1, <2>2
<1> QED
  BY <1>3, <1>6, <1>7, <1>8 DEF QueryText

(* SplitFragment undone, but for an empty fragment, which has no segment. *)
LEMMA FragmentShown ==
  ASSUME NEW fragment \in Seq(Ascii)
  PROVE  FragmentText(SplitFragment(fragment)) =
           IF fragment = <<>> THEN <<>> ELSE Led("#", fragment)
<1>1. "/" \in Ascii
  BY NoNewDelimiter DEF Delimiters
<1>2. Split(fragment, "/") # <<>> /\ Join(Split(fragment, "/"), "/") = fragment
  <2>1. Split(fragment, "/") \in Seq(Seq(Ascii)) \ {<<>>}
    BY SplitTexts
  <2> QED
    BY <1>1, <2>1, JoinSplit
<1> QED
  BY <1>2 DEF FragmentText, SplitFragment

(* The docs' rule for one character of a text. *)
Spelled(s, i) ==
  IF s[i] \in DOMAIN Utf8 THEN Escapes(s[i])
  ELSE IF InEscape(s, i) THEN <<HexUp(s[i])>> ELSE <<s[i]>>

LEMMA SpelledIsAscii ==
  ASSUME NEW s \in Seq(Characters), NEW i \in 1..Len(s)
  PROVE  Spelled(s, i) \in Seq(Ascii)
<1>1. CASE s[i] \in DOMAIN Utf8
  BY <1>1, EscapesAreAscii DEF Spelled
<1>2. CASE s[i] \notin DOMAIN Utf8
  <2>1. s[i] \in Ascii
    BY <1>2, ElementOfSeq DEF Characters
  <2>2. HexUp(s[i]) \in Ascii
    <3>1. CASE IsHex(s[i])
      BY <3>1, NoNewDelimiter DEF IsHex
    <3>2. CASE ~IsHex(s[i])
      BY <2>1, <3>2 DEF HexUp
    <3> QED
      BY <3>1, <3>2
  <2>3. Spelled(s, i) = <<HexUp(s[i])>> \/ Spelled(s, i) = <<s[i]>>
    BY <1>2 DEF Spelled
  <2>4. <<HexUp(s[i])>> \in Seq(Ascii) /\ <<s[i]>> \in Seq(Ascii)
    <3> HIDE DEF Ascii
    <3> QED
      BY <2>1, <2>2
  <2> QED
    BY <2>3, <2>4
<1> QED
  BY <1>1, <1>2

(* Putting texts one after the other. *)
LEMMA CatTexts ==
  ASSUME NEW A, NEW s \in Seq(A), NEW t \in Seq(A), NEW u \in Seq(A)
  PROVE  /\ Cat(s, t) \in Seq(A)
         /\ Cat(Cat(s, t), u) = Cat(s, Cat(t, u))
         /\ Cat(s, <<>>) = s /\ Cat(<<>>, s) = s
<1>1. s \o t \in Seq(A)
  BY ConcatProperties
<1>2. (s \o t) \o u = s \o (t \o u)
  BY ConcatAssociative
<1>3. s \o <<>> = s /\ <<>> \o s = s
  BY ConcatEmptySeq
<1> QED
  BY <1>1, <1>2, <1>3 DEF Cat

(* One and three characters. *)
Triple(a, b, c) == <<a, b, c>>
One(a) == <<a>>

LEMMA AppendOne ==
  ASSUME NEW A, NEW s \in Seq(A), NEW c \in A
  PROVE  /\ Cat(s, One(c)) = Append(s, c) /\ Append(s, c) \in Seq(A)
         /\ Len(Append(s, c)) = Len(s) + 1
         /\ \A i \in 1..(Len(s) + 1) : Append(s, c)[i] = IF i <= Len(s) THEN s[i] ELSE c
<1>1. One(c) \in Seq(A) /\ Len(One(c)) = 1 /\ One(c)[1] = c
  BY DEF One
<1> HIDE DEF One
<1>2. PICK q : q = One(c)
  OBVIOUS
<1>3. q \in Seq(A) /\ Len(q) = 1 /\ q[1] = c /\ Len(s) \in Nat
  BY <1>1, <1>2, LenProperties
<1>4. PICK v : v = s \o q
  OBVIOUS
<1>5. /\ s \o q \in Seq(A) /\ Len(s \o q) = Len(s) + Len(q)
      /\ \A i \in 1..(Len(s) + Len(q)) : (s \o q)[i] = IF i <= Len(s) THEN s[i] ELSE q[i - Len(s)]
  BY <1>3, Concatenated
<1>6. /\ v \in Seq(A) /\ Len(v) = Len(s) + 1
      /\ \A i \in 1..(Len(s) + 1) : v[i] = IF i <= Len(s) THEN s[i] ELSE q[i - Len(s)]
  BY <1>3, <1>4, <1>5
<1>7. /\ Append(s, c) \in Seq(A) /\ Len(Append(s, c)) = Len(s) + 1
      /\ \A i \in 1..(Len(s) + 1) : Append(s, c)[i] = IF i <= Len(s) THEN s[i] ELSE c
  BY <1>3, AppendProperties
<1>8. \A i \in 1..Len(v) : v[i] = Append(s, c)[i]
  BY <1>3, <1>6, <1>7
<1>9. v = Append(s, c)
  BY <1>6, <1>7, <1>8, SeqEqual
<1> QED
  BY <1>2, <1>4, <1>7, <1>9 DEF Cat

LEMMA TripleBuilt ==
  ASSUME NEW A, NEW a \in A, NEW b \in A, NEW c \in A
  PROVE  Triple(a, b, c) = Cat(Cat(One(a), One(b)), One(c)) /\ Triple(a, b, c) \in Seq(A)
<1>1. PICK x : x = One(a)
  OBVIOUS
<1>2. PICK t : t = Triple(a, b, c)
  OBVIOUS
<1>3. x \in Seq(A) /\ Len(x) = 1 /\ x[1] = a
  BY <1>1 DEF One
<1>4. t \in Seq(A) /\ Len(t) = 3 /\ t[1] = a /\ t[2] = b /\ t[3] = c
  <2>1. /\ <<a, b, c>> \in Seq(A) /\ Len(<<a, b, c>>) = 3
        /\ <<a, b, c>>[1] = a /\ <<a, b, c>>[2] = b /\ <<a, b, c>>[3] = c
    OBVIOUS
  <2> QED
    BY <1>2, <2>1 DEF Triple
<1>5. PICK y : y = Append(x, b)
  OBVIOUS
<1>6. y \in Seq(A) /\ Len(y) = 2 /\ y[1] = a /\ y[2] = b
  <2>1. /\ Append(x, b) \in Seq(A) /\ Len(Append(x, b)) = Len(x) + 1
        /\ \A i \in 1..(Len(x) + 1) : Append(x, b)[i] = IF i <= Len(x) THEN x[i] ELSE b
    BY <1>3, AppendOne
  <2> QED
    BY <1>3, <1>5, <2>1
<1>7. PICK z : z = Append(y, c)
  OBVIOUS
<1>8. z \in Seq(A) /\ Len(z) = 3 /\ z[1] = a /\ z[2] = b /\ z[3] = c
  <2>1. /\ Append(y, c) \in Seq(A) /\ Len(Append(y, c)) = Len(y) + 1
        /\ \A i \in 1..(Len(y) + 1) : Append(y, c)[i] = IF i <= Len(y) THEN y[i] ELSE c
    BY <1>6, AppendOne
  <2> QED
    BY <1>6, <1>7, <2>1
<1>9. z = t
  <2>1. \A i \in 1..Len(z) : z[i] = t[i]
    BY <1>4, <1>8
  <2> QED
    BY <1>4, <1>8, <2>1, SeqEqual
<1>10. Cat(x, One(b)) = y /\ Cat(y, One(c)) = z
  BY <1>3, <1>5, <1>6, <1>7, AppendOne
<1> QED
  BY <1>1, <1>2, <1>4, <1>9, <1>10

(* Three characters one by one, or all at once. *)
LEMMA ThreeMore ==
  ASSUME NEW A, NEW s \in Seq(A), NEW a \in A, NEW b \in A, NEW c \in A, NEW u \in Seq(A)
  PROVE  Cat(Cat(Cat(Cat(s, One(a)), One(b)), One(c)), u) = Cat(s, Cat(Triple(a, b, c), u))
<1>1. One(a) \in Seq(A) /\ One(b) \in Seq(A) /\ One(c) \in Seq(A)
  BY DEF One
<1>2. Triple(a, b, c) = Cat(Cat(One(a), One(b)), One(c)) /\ Triple(a, b, c) \in Seq(A)
  BY TripleBuilt
<1>3. PICK x \in Seq(A), y \in Seq(A), z \in Seq(A) : x = One(a) /\ y = One(b) /\ z = One(c)
  BY <1>1
<1>4. x \in Seq(A) /\ y \in Seq(A) /\ z \in Seq(A)
  BY <1>3
<1>5. PICK sx \in Seq(A) : sx = Cat(s, x)
  BY <1>4, CatTexts
<1>6. PICK xy \in Seq(A) : xy = Cat(x, y)
  BY <1>4, CatTexts
<1>7. PICK xyz \in Seq(A) : xyz = Cat(xy, z)
  BY <1>4, <1>6, CatTexts
<1>8. sx \in Seq(A) /\ xy \in Seq(A) /\ xyz \in Seq(A)
  BY <1>5, <1>6, <1>7
<1>9. Cat(sx, y) = Cat(s, xy)
  BY <1>4, <1>5, <1>6, CatTexts
<1>10. Cat(Cat(s, xy), z) = Cat(s, xyz)
  BY <1>4, <1>7, <1>8, CatTexts
<1>11. Cat(Cat(s, xyz), u) = Cat(s, Cat(xyz, u))
  BY <1>8, CatTexts
<1> QED
  BY <1>2, <1>3, <1>5, <1>6, <1>7, <1>9, <1>10, <1>11

(* The scan does to a text what the docs say of its characters. *)
LEMMA SpellIsNormal ==
  ASSUME NEW s \in Seq(Characters), NormalizePercentEncoding(s).ok
  PROVE  Spell(s) = NormalizePercentEncoding(s).url
<1> DEFINE N == Len(s)
           whole == NormalizePercentEncoding(s).url
           pieces == [i \in 1..N |-> Spelled(s, i)]
<1>1. PICK from : /\ NormalGoes(from, s)
                  /\ \A i \in 1..(N + 3) : from[i] \in AsciiResults
  BY NormalSteps
<1>2. N \in Nat
  BY LenProperties
<1>3. pieces \in Seq(Seq(Ascii)) /\ Len(pieces) = N
  <2> DEFINE S == Seq(Ascii)
  <2>1. \A i \in 1..N : Spelled(s, i) \in S
    BY SpelledIsAscii
  <2> HIDE DEF S
  <2>2. pieces \in Seq(S) /\ Len(pieces) = N
    BY <1>2, <2>1
  <2> QED
    BY <2>2 DEF S
<1>4. Spell(s) = FlattenSeq(pieces)
  BY DEF Spell, Spelled, Escapes
<1>5. PICK joined : Joined(joined, pieces, Ascii)
  <2> HIDE DEF pieces
  <2> QED
    BY <1>3, FlattenJoins
<1>6. ASSUME NEW i \in 1..N
      PROVE  /\ joined[i] = Cat(joined[i - 1], Spelled(s, i))
             /\ joined[i - 1] \in Seq(Ascii) /\ Spelled(s, i) \in Seq(Ascii)
  <2>1. i - 1 \in 0..(Len(pieces) - 1) /\ (i - 1) + 1 = i /\ i - 1 \in 0..Len(pieces)
    BY <1>2, <1>3
  <2>2. joined[(i - 1) + 1] = joined[i - 1] \o pieces[(i - 1) + 1] /\ joined[i - 1] \in Seq(Ascii)
    <3> HIDE DEF pieces
    <3> QED
      BY <1>5, <2>1 DEF Joined
  <2>3. pieces[i] = Spelled(s, i)
    OBVIOUS
  <2> QED
    BY <2>1, <2>2, <2>3, SpelledIsAscii DEF Cat
<1>7. \A i \in 1..(N + 3) : from[i].ok => from[i] = Valid(from[i].url) /\ from[i].url \in Seq(Ascii)
  <2> SUFFICES ASSUME NEW i \in 1..(N + 3), from[i].ok
               PROVE  from[i] = Valid(from[i].url) /\ from[i].url \in Seq(Ascii)
    OBVIOUS
  <2>1. from[i] \in AsciiResults /\ from[i] # Invalid
    BY <1>1 DEF Invalid
  <2>2. PICK t \in Seq(Ascii) : from[i] = Valid(t)
    BY <2>1 DEF AsciiResults
  <2>3. Valid(t).url = t
    BY DEF Valid
  <2> QED
    BY <2>2, <2>3
<1>8. ASSUME NEW i \in 1..(N + 3)
      PROVE  from[i] = IF i > N THEN Valid(<<>>)
                       ELSE IF s[i] = "%" /\ ~WellFormed(s, i) THEN Invalid
                       ELSE IF from[NextAt(s, i)].ok
                       THEN Valid(HeadAt(s, i) \o from[NextAt(s, i)].url) ELSE Invalid
  BY <1>1 DEF NormalGoes
<1>9. joined[0] = <<>> /\ joined[N] = FlattenSeq(pieces) /\ joined[N] \in Seq(Ascii)
  <2> HIDE DEF pieces
  <2> QED
    BY <1>2, <1>3, <1>5 DEF Joined
<1> HIDE DEF pieces, whole
<1> DEFINE T == {i \in 1..(N + 1) : /\ from[i].ok
                                   /\ Cat(joined[i - 1], from[i].url) = whole
                                   /\ ~InEscape(s, i)}
<1>10. 1 \in T
  <2>1. from[1].ok /\ from[1].url = whole /\ 1 \in 1..(N + 3)
    BY <1>1, <1>2 DEF NormalGoes, whole
  <2>2. from[1].url \in Seq(Ascii)
    BY <1>7, <2>1
  <2>3. Cat(joined[0], from[1].url) = from[1].url
    BY <1>9, <2>2, ConcatEmptySeq DEF Cat
  <2>4. ~InEscape(s, 1)
    BY DEF InEscape
  <2> QED
    BY <1>2, <2>1, <2>3, <2>4
<1>11. ASSUME NEW i \in T, i # N + 1 PROVE NextAt(s, i) \in T /\ NextAt(s, i) > i
  <2>1. /\ i \in 1..N /\ i \in 1..(N + 3) /\ ~(i > N)
        /\ from[i].ok /\ Cat(joined[i - 1], from[i].url) = whole /\ ~InEscape(s, i)
    BY <1>2, <1>11
  <2> HIDE DEF T
  <2> DEFINE next == NextAt(s, i)
  <2>2. /\ s[i] = "%" => WellFormed(s, i)
        /\ from[next].ok /\ from[i] = Valid(HeadAt(s, i) \o from[next].url)
    BY <1>8, <2>1 DEF Invalid
  <2>3. from[i].url = Cat(HeadAt(s, i), from[next].url)
    BY <2>2 DEF Valid, Cat
  <2>4. HeadAt(s, i) \in Seq(Ascii)
    BY <2>1, <2>2, HeadIsAscii
  <2>5. joined[i] = Cat(joined[i - 1], Spelled(s, i)) /\ joined[i - 1] \in Seq(Ascii)
    BY <1>6, <2>1
  <2>6. CASE s[i] = "%"
    <3>1. next = i + 3 /\ i + 1 \in 1..N /\ i + 2 \in 1..N /\ next \in 1..(N + 1) /\ next \in 1..(N + 3)
      BY <1>2, <2>1, <2>2, <2>6 DEF NextAt, WellFormed
    <3>2. s[i + 1] \in DOMAIN HexVal /\ s[i + 2] \in DOMAIN HexVal
      BY <2>2, <2>6 DEF WellFormed, IsHex
    <3>3. /\ s[i + 1] # "%" /\ s[i + 2] # "%" /\ "%" \in Ascii
          /\ s[i + 1] \in Ascii /\ s[i + 2] \in Ascii
          /\ HexUp(s[i + 1]) \in Ascii /\ HexUp(s[i + 2]) \in Ascii
      BY <3>2, NoNewDelimiter DEF Delimiters
    <3>4. \A c \in Ascii : c \notin DOMAIN Utf8
      BY CharacterSet
    <3>5. InEscape(s, i + 1) /\ InEscape(s, i + 2) /\ ~InEscape(s, next)
      <4>1. InEscape(s, i + 1)
        <5>1. 1 \in {1, 2} /\ i + 1 > 1 /\ (i + 1) - 1 = i
          BY <2>1
        <5> QED
          BY <2>6, <5>1 DEF InEscape
      <4>2. InEscape(s, i + 2)
        <5>1. 2 \in {1, 2} /\ i + 2 > 2 /\ (i + 2) - 2 = i
          BY <2>1
        <5> QED
          BY <2>6, <5>1 DEF InEscape
      <4>3. ~InEscape(s, i + 3)
        <5>1. (i + 3) - 1 = i + 2 /\ (i + 3) - 2 = i + 1
          BY <2>1
        <5> QED
          BY <3>3, <5>1 DEF InEscape
      <4> QED
        BY <3>1, <4>1, <4>2, <4>3
    <3> DEFINE h == HexUp(s[i + 1])
               l == HexUp(s[i + 2])
    <3>6. Spelled(s, i) = One("%") /\ Spelled(s, i + 1) = One(h) /\ Spelled(s, i + 2) = One(l)
      BY <2>1, <2>6, <3>3, <3>4, <3>5 DEF Spelled, One
    <3>7. HeadAt(s, i) = Triple("%", h, l)
      BY <2>6, <3>3, <3>4 DEF HeadAt, Triple
    <3> HIDE DEF h, l, next
    <3>8. h \in Ascii /\ l \in Ascii
      BY <3>3 DEF h, l
    <3>9. joined[i + 1] = Cat(joined[i], Spelled(s, i + 1)) /\ joined[i + 2] = Cat(joined[i + 1], Spelled(s, i + 2))
      <4>1. (i + 1) - 1 = i /\ (i + 2) - 1 = i + 1
        BY <2>1
      <4> QED
        BY <1>6, <3>1, <4>1
    <3>10. PICK u \in Seq(Ascii), j \in Seq(Ascii) : u = from[next].url /\ j = joined[i - 1]
      BY <1>7, <2>2, <2>5, <3>1 DEF next
    <3>11. Cat(Cat(Cat(Cat(j, One("%")), One(h)), One(l)), u) = Cat(j, Cat(Triple("%", h, l), u))
      <4>1. u \in Seq(Ascii) /\ j \in Seq(Ascii)
        BY <3>10
      <4> QED
        BY <3>3, <3>8, <4>1, ThreeMore
    <3>12. Cat(joined[i + 2], from[next].url) = whole
      BY <2>1, <2>3, <2>5, <3>6, <3>7, <3>9, <3>10, <3>11 DEF next
    <3>13. next - 1 = i + 2 /\ next > i
      BY <2>1, <3>1
    <3> QED
      BY <2>2, <3>1, <3>5, <3>12, <3>13 DEF T, next
  <2>7. CASE s[i] # "%"
    <3>1. next = i + 1 /\ next \in 1..(N + 1) /\ next \in 1..(N + 3) /\ next - 1 = i
      BY <1>2, <2>1, <2>7 DEF NextAt
    <3>2. ~InEscape(s, i + 1)
      <4>1. (i + 1) - 1 = i /\ (i + 1) - 2 = i - 1 /\ 1 \in {1, 2} /\ i + 1 > 2 => i > 1
        BY <2>1
      <4>2. i > 1 => s[i - 1] # "%"
        BY <2>1 DEF InEscape
      <4> QED
        BY <2>7, <4>1, <4>2, <2>1 DEF InEscape
    <3>3. HeadAt(s, i) = Spelled(s, i)
      BY <2>1, <2>7 DEF HeadAt, Spelled
    <3> HIDE DEF next
    <3>4. PICK u \in Seq(Ascii), j \in Seq(Ascii), x \in Seq(Ascii) :
            u = from[next].url /\ j = joined[i - 1] /\ x = Spelled(s, i)
      BY <1>7, <2>2, <2>4, <2>5, <3>1, <3>3 DEF next
    <3>5. Cat(Cat(j, x), u) = Cat(j, Cat(x, u))
      <4>1. u \in Seq(Ascii) /\ j \in Seq(Ascii) /\ x \in Seq(Ascii)
        BY <3>4
      <4> QED
        BY <4>1, CatTexts
    <3>6. Cat(joined[i], from[next].url) = whole
      BY <2>1, <2>3, <2>5, <3>3, <3>4, <3>5 DEF next
    <3>7. next > i
      BY <2>1, <3>1
    <3> QED
      BY <2>2, <3>1, <3>2, <3>6, <3>7 DEF T, next
  <2> QED
    BY <2>6, <2>7
<1>12. N + 1 \in T
  <2>1. T \in SUBSET Nat /\ N + 1 \in Nat /\ \A i \in T : i <= N + 1
    BY <1>2
  <2> HIDE DEF T
  <2>2. PICK x \in T : \A y \in T : x >= y
    BY <1>10, <2>1, GreatestElement
  <2>3. CASE x = N + 1
    BY <2>2, <2>3
  <2>4. CASE x # N + 1
    <3>1. NextAt(s, x) \in T /\ NextAt(s, x) > x
      BY <1>11, <2>4
    <3>2. x \in Nat /\ NextAt(s, x) \in Nat /\ x >= NextAt(s, x)
      BY <2>1, <2>2, <3>1
    <3> QED
      BY <3>1, <3>2
  <2> QED
    BY <2>3, <2>4
<1>13. Cat(joined[N], from[N + 1].url) = whole /\ from[N + 1] = Valid(<<>>)
  <2>1. (N + 1) - 1 = N /\ N + 1 \in 1..(N + 3) /\ N + 1 > N
    BY <1>2
  <2> QED
    BY <1>8, <1>12, <2>1
<1>14. Cat(joined[N], <<>>) = joined[N]
  BY <1>9, ConcatEmptySeq DEF Cat
<1> QED
  BY <1>4, <1>9, <1>13, <1>14 DEF Valid, whole

(* The host of a URL as Display writes it. *)
HostText(u) ==
  Cat(Cat(IF u.www THEN <<"www", ".">> ELSE <<>>, u.host),
      IF u.tld = <<>> THEN <<>> ELSE Led(".", u.tld))

(* r is s and then t, character by character. *)
CatIs(r, s, t) ==
  /\ Len(r) = Len(s) + Len(t)
  /\ \A i \in 1..Len(s) : r[i] = s[i]
  /\ \A i \in 1..Len(t) : r[Len(s) + i] = t[i]

LEMMA CatLength ==
  ASSUME NEW A, NEW s \in Seq(A), NEW t \in Seq(A)
  PROVE  Cat(s, t) \in Seq(A) /\ CatIs(Cat(s, t), s, t)
BY JoinedText DEF Cat, CatIs

LEMMA LedType ==
  ASSUME NEW A, NEW c \in A, NEW s \in Seq(A)
  PROVE  /\ Led(c, s) \in Seq(A) /\ Len(Led(c, s)) = Len(s) + 1 /\ Led(c, s)[1] = c
         /\ \A i \in 1..Len(s) : Led(c, s)[1 + i] = s[i]
<1>1. One(c) \in Seq(A) /\ Len(One(c)) = 1 /\ One(c)[1] = c
  BY DEF One
<1>2. Led(c, s) = Cat(One(c), s)
  BY DEF Led, Cat, One
<1>3. PICK x : x = One(c)
  OBVIOUS
<1>4. x \in Seq(A) /\ Len(x) = 1 /\ x[1] = c /\ Len(s) \in Nat
  BY <1>1, <1>3, LenProperties
<1>5. Cat(x, s) \in Seq(A) /\ CatIs(Cat(x, s), x, s)
  <2>1. x \in Seq(A)
    BY <1>4
  <2> QED
    BY <2>1, CatLength
<1>6. PICK l : l = Cat(x, s)
  OBVIOUS
<1>7. /\ l \in Seq(A) /\ Len(l) = Len(s) + 1 /\ l[1] = c
      /\ \A i \in 1..Len(s) : l[1 + i] = s[i]
  BY <1>4, <1>5, <1>6 DEF CatIs
<1> QED
  BY <1>2, <1>3, <1>6, <1>7

(* The cut at the last dot drops the dot; Display puts it back, unless     *)
(* nothing stood behind it.                                                *)
LEMMA SplitHostShown ==
  ASSUME NEW label \in Seq(Ascii), label # <<>>, NEW suffix \in PortTails,
         suffix = <<>> => label[Len(label)] # ".",
         NEW h, h = SplitHost(label, suffix)
  PROVE  /\ Cat(h.host, IF h.tld = <<>> THEN <<>> ELSE Led(".", h.tld)) = Cat(label, suffix)
         /\ h.host \in Seq(Ascii) /\ h.tld \in Seq(Ascii)
<1> DEFINE full == Cat(label, suffix)
           dot == RFind(full, {"."})
<1>1. suffix \in Seq(Ascii) /\ Len(suffix) \in Nat /\ \A i \in 1..Len(suffix) : suffix[i] # "."
  BY SuffixType
<1>2. Len(label) \in Nat \ {0}
  BY EmptySeq
<1>3. /\ full \in Seq(Ascii) /\ Len(full) = Len(label) + Len(suffix)
      /\ \A i \in 1..Len(label) : full[i] = label[i]
      /\ \A i \in 1..Len(suffix) : full[Len(label) + i] = suffix[i]
  <2>1. suffix \in Seq(Ascii)
    BY <1>1
  <2>2. Cat(label, suffix) \in Seq(Ascii) /\ CatIs(Cat(label, suffix), label, suffix)
    BY <2>1, CatLength
  <2> QED
    BY <2>2 DEF CatIs
<1>4. h = IF IsIpv4Literal(label) \/ dot = 0 THEN [host |-> full, tld |-> <<>>]
          ELSE [host |-> Before(full, dot), tld |-> After(full, dot)]
  BY DEF SplitHost, Cat
<1>5. full[Len(full)] # "."
  <2>1. CASE suffix = <<>>
    <3>1. Len(suffix) = 0 /\ Len(label) \in 1..Len(label) /\ Len(full) = Len(label)
      BY <1>2, <1>3, <2>1
    <3> HIDE DEF full
    <3> QED
      BY <1>3, <2>1, <3>1
  <2>2. CASE suffix # <<>>
    <3>1. Len(suffix) \in 1..Len(suffix)
      BY <1>1, <2>2, EmptySeq
    <3> HIDE DEF full
    <3> QED
      BY <1>1, <1>3, <3>1
  <2> QED
    BY <2>1, <2>2
<1> HIDE DEF full
<1>6. dot \in 0..Len(full) /\ (dot # 0 => full[dot] = ".")
  BY <1>3, RFindFinds
<1> HIDE DEF dot
<1>7. CASE IsIpv4Literal(label) \/ dot = 0
  <2>1. h.host = full /\ h.tld = <<>>
    BY <1>4, <1>7
  <2>2. Cat(full, <<>>) = full
    BY <1>3, CatTexts
  <2>3. <<>> \in Seq(Ascii)
    BY EmptySeq
  <2> QED
    BY <1>3, <2>1, <2>2, <2>3 DEF full
<1>8. CASE ~(IsIpv4Literal(label) \/ dot = 0)
  <2>1. h.host = Before(full, dot) /\ h.tld = After(full, dot)
    BY <1>4, <1>8
  <2>2. dot \in 1..Len(full) /\ dot # Len(full) /\ Len(full) \in Nat
    BY <1>1, <1>2, <1>3, <1>5, <1>6, <1>8
  <2>3. /\ Cat(Before(full, dot), Led(full[dot], After(full, dot))) = full
        /\ Before(full, dot) \in Seq(Ascii) /\ After(full, dot) \in Seq(Ascii)
    BY <1>3, <2>2, CutShown
  <2>4. After(full, dot) # <<>>
    <3>1. Len(After(full, dot)) = Len(full) - dot
      BY <1>3, <1>6, BeforeAfter
    <3> QED
      BY <2>2, <3>1
  <2> QED
    BY <1>6, <1>8, <2>1, <2>3, <2>4 DEF full
<1> QED
  BY <1>7, <1>8

(* The authority is its host part and, after a colon, its port.            *)
AuthorityIs(authority, https, part, suffix) ==
  /\ part \in TidyTexts \ {<<>>}
  /\ \A i \in 1..Len(part) : part[i] = authority[i] /\ part[i] # ":"
  /\ \/ Len(authority) = Len(part) /\ suffix = <<>>
     \/ /\ Len(authority) = Len(part) + 2
        /\ authority[Len(part) + 1] = ":"
        /\ authority[Len(part) + 2] \in DOMAIN Numeral
        /\ suffix = IF Numeral[authority[Len(part) + 2]] = DefaultPort(https) THEN <<>>
                    ELSE <<":", PortText[Numeral[authority[Len(part) + 2]]]>>

(* The host as displayed is the host part in lower case and its port, where *)
(* the part does not end in a dot.                                           *)
LEMMA AuthorityShown ==
  ASSUME NEW authority \in TidyTexts, NEW https, ParseAuthority(authority, https).ok
  PROVE  \E part, suffix :
           /\ AuthorityIs(authority, https, part, suffix)
           /\ suffix \in PortTails
           /\ (suffix = <<>> => part[Len(part)] # ".") =>
                /\ HostText(ParseAuthority(authority, https).url)
                     = Cat(NormalizeHostEscapes(part), suffix)
                /\ ParseAuthority(authority, https).url.host \in Seq(Ascii)
                /\ ParseAuthority(authority, https).url.tld \in Seq(Ascii)
<1> DEFINE colon   == RFind(authority, {":"})
           portTxt == After(authority, colon)
           number  == Len(portTxt) = 1 /\ portTxt[1] \in DOMAIN Numeral
           port    == Numeral[portTxt[1]]
           suffix  == IF colon = 0 \/ port = DefaultPort(https) THEN <<>>
                      ELSE <<":", PortText[port]>>
           part    == IF colon = 0 THEN authority ELSE Before(authority, colon)
           lowered == NormalizeHostEscapes(part)
           www     == IsPrefix(<<"www", ".">>, lowered)
           label   == IF www THEN SubSeq(lowered, 3, Len(lowered)) ELSE lowered
           split   == SplitHost(label, suffix)
           refused == \/ authority = <<>> \/ Contains(authority, "@") \/ authority[1] = "["
                      \/ colon # 0 /\ ~number
                      \/ Contains(part, ":")
                      \/ label = <<>> \/ split.host = <<>>
           u == ParseAuthority(authority, https).url
<1>1. ParseAuthority(authority, https) =
        IF refused THEN Invalid
        ELSE Valid([www |-> www, host |-> split.host, tld |-> split.tld])
  BY Zenon DEF ParseAuthority
<1>2. ~refused
  <2> HIDE DEF refused, www, split
  <2> QED
    BY <1>1 DEF Invalid
<1>3. u = [www |-> www, host |-> split.host, tld |-> split.tld]
  <2> HIDE DEF refused, www, split
  <2> QED
    BY <1>1, <1>2 DEF Valid
<1>4. authority \in Seq(Ascii) /\ Len(authority) \in Nat
  BY LenProperties DEF TidyTexts
<1>5. colon \in 0..Len(authority) /\ (colon # 0 => authority[colon] = ":")
  BY <1>4, RFindFinds
<1>6. /\ ~(colon # 0 /\ ~number) /\ ~Contains(part, ":") /\ label # <<>>
  <2> HIDE DEF colon, number, part, label, split
  <2> QED
    BY <1>2
<1>7. part \in TidyTexts
  <2>1. colon # 0 => Before(authority, colon) \in TidyTexts
    BY <1>5, TidyCuts
  <2> QED
    BY <2>1
<1>8. part \in Seq(Ascii) /\ Len(part) \in Nat
  <2> HIDE DEF part
  <2> QED
    BY <1>7, LenProperties DEF TidyTexts
<1>9. suffix \in PortTails
  <2>1. CASE colon = 0 \/ port = DefaultPort(https)
    BY <2>1 DEF PortTails
  <2>2. CASE ~(colon = 0 \/ port = DefaultPort(https))
    <3>1. number
      BY <1>6, <2>2
    <3>2. port \in DOMAIN PortText
      BY <3>1, CharacterSet
    <3>3. suffix = <<":", PortText[port]>>
      BY <2>2
    <3> HIDE DEF port, suffix
    <3> QED
      BY <3>2, <3>3 DEF PortTails
  <2> QED
    BY <2>1, <2>2
<1>10. lowered \in Seq(Ascii) /\ Len(lowered) = Len(part) /\ lowered \in TidyTexts
  <2> HIDE DEF part
  <2>1. lowered \in TidyTexts
    BY <1>7, HostEscapesTidy
  <2>2. Len(lowered) = Len(part)
    BY <1>8 DEF NormalizeHostEscapes
  <2> HIDE DEF lowered
  <2> QED
    BY <2>1, <2>2 DEF TidyTexts
<1>11. /\ label \in Seq(Ascii) /\ label[Len(label)] = lowered[Len(lowered)]
       /\ lowered # <<>>
       /\ Cat(IF www THEN <<"www", ".">> ELSE <<>>, label) = lowered
  <2> HIDE DEF lowered
  <2>1. CASE ~www
    <3>1. label = lowered
      BY <2>1
    <3>2. Cat(<<>>, lowered) = lowered
      BY <1>10, CatTexts
    <3> HIDE DEF www
    <3> QED
      BY <1>6, <1>10, <2>1, <3>1, <3>2
  <2>2. CASE www
    <3>1. Len(lowered) >= 2 /\ Len(lowered) \in Nat /\ SubSeq(lowered, 1, 2) = <<"www", ".">>
      <4>1. Len(<<"www", ".">>) = 2 /\ SubSeq(<<"www", ".">>, 1, 2) = <<"www", ".">>
        <5>1. <<"www", ".">> \in Seq({"www", "."}) /\ Len(<<"www", ".">>) = 2
          OBVIOUS
        <5> QED
          BY <5>1, SubSeqFull
      <4> QED
        BY <1>10, <2>2, <4>1, LenProperties DEF IsPrefix
    <3>2. label = SubSeq(lowered, 3, Len(lowered))
      BY <2>2
    <3> HIDE DEF www, label
    <3>3. /\ label \in Seq(Ascii) /\ Len(label) = Len(lowered) - 2
          /\ \A i \in 1..(Len(lowered) - 2) : label[i] = lowered[2 + i]
      <4>1. 3 \in 1..(Len(lowered) + 1) /\ Len(lowered) \in (3 - 1)..Len(lowered)
            /\ Len(lowered) - 3 + 1 = Len(lowered) - 2
            /\ \A i \in 1..(Len(lowered) - 2) : 3 + i - 1 = 2 + i
        BY <3>1
      <4> QED
        BY <1>10, <3>2, <4>1, PartOfText
    <3>4. Len(label) \in Nat \ {0}
      BY <1>6, <3>3, EmptySeq
    <3>5. label[Len(label)] = lowered[Len(lowered)] /\ lowered # <<>>
      <4>1. Len(label) \in 1..(Len(lowered) - 2) /\ 2 + Len(label) = Len(lowered)
        BY <3>1, <3>3, <3>4
      <4> QED
        BY <3>1, <3>3, <4>1
    <3>6. SubSeq(lowered, 1, 2) \o SubSeq(lowered, 3, Len(lowered)) = lowered
      <4>1. 1 \in 1..(Len(lowered) + 1) /\ 2 \in (1 - 1)..Len(lowered) /\ Len(lowered) \in 2..Len(lowered)
            /\ 2 + 1 = 3
        BY <3>1
      <4>2. SubSeq(lowered, 1, 2) \o SubSeq(lowered, 2 + 1, Len(lowered)) = SubSeq(lowered, 1, Len(lowered))
        BY <1>10, <4>1, ConcatAdjacentSubSeq
      <4> QED
        BY <1>10, <4>1, <4>2, SubSeqFull
    <3>7. Cat(<<"www", ".">>, label) = lowered
      BY <3>1, <3>2, <3>6 DEF Cat
    <3> QED
      BY <2>2, <3>3, <3>5, <3>7
  <2> QED
    BY <2>1, <2>2
<1>12. part # <<>>
  <2> HIDE DEF part
  <2>1. lowered # <<>>
    BY <1>11
  <2>2. Len(lowered) # 0
    <3> HIDE DEF lowered
    <3> QED
      BY <1>10, <2>1, EmptySeq
  <2>3. Len(part) # 0
    BY <1>10, <2>2
  <2> QED
    BY <2>3
<1>13. AuthorityIs(authority, https, part, suffix)
  <2>1. \A i \in 1..Len(part) : part[i] # ":"
    BY <1>6 DEF Contains
  <2>2. CASE colon = 0
    <3>1. part = authority /\ suffix = <<>>
      BY <2>2
    <3> HIDE DEF part, suffix, colon
    <3> QED
      BY <1>7, <1>12, <2>1, <3>1 DEF AuthorityIs
  <2>3. CASE colon # 0
    <3>1. part = Before(authority, colon) /\ number
          /\ suffix = IF port = DefaultPort(https) THEN <<>> ELSE <<":", PortText[port]>>
      BY <1>6, <2>3
    <3> HIDE DEF part, suffix, colon
    <3>2. /\ Len(part) = colon - 1 /\ \A i \in 1..(colon - 1) : part[i] = authority[i]
          /\ Len(portTxt) = Len(authority) - colon
          /\ \A i \in 1..(Len(authority) - colon) : portTxt[i] = authority[colon + i]
      <4>1. /\ Len(portTxt) = Len(authority) - colon
            /\ \A i \in 1..(Len(authority) - colon) : portTxt[i] = authority[colon + i]
        BY <1>4, <1>5, BeforeAfter
      <4>2. Len(part) = colon - 1 /\ \A i \in 1..(colon - 1) : part[i] = authority[i]
        <5>1. colon \in 0..Len(authority) /\ colon # 0 /\ authority \in Seq(Ascii)
          BY <1>4, <1>5, <2>3
        <5>2. /\ Len(Before(authority, colon)) = colon - 1
              /\ \A i \in 1..(colon - 1) : Before(authority, colon)[i] = authority[i]
          BY <5>1, BeforeAfter
        <5> QED
          BY <3>1, <5>2
      <4> QED
        BY <4>1, <4>2
    <3>3. Len(portTxt) = 1 /\ portTxt[1] \in DOMAIN Numeral
      BY <3>1
    <3> HIDE DEF portTxt
    <3>4. /\ Len(authority) = Len(part) + 2 /\ Len(part) + 1 = colon /\ Len(part) + 2 = colon + 1
          /\ portTxt[1] = authority[colon + 1]
      <4>1. Len(authority) - colon = 1 /\ Len(part) = colon - 1
        BY <3>2, <3>3
      <4>2. portTxt[1] = authority[colon + 1]
        BY <3>2, <4>1
      <4> HIDE DEF portTxt
      <4> QED
        BY <1>4, <1>5, <4>1, <4>2
    <3>5. \A i \in 1..Len(part) : part[i] = authority[i] /\ part[i] # ":"
      BY <2>1, <3>2
    <3>6. suffix = IF Numeral[authority[Len(part) + 2]] = DefaultPort(https) THEN <<>>
                   ELSE <<":", PortText[Numeral[authority[Len(part) + 2]]]>>
      BY <3>1, <3>4
    <3>7. part \in TidyTexts \ {<<>>} /\ authority[Len(part) + 1] = ":"
          /\ authority[Len(part) + 2] \in DOMAIN Numeral
      BY <1>5, <1>7, <1>12, <2>3, <3>3, <3>4
    <3> QED
      BY <3>4, <3>5, <3>6, <3>7 DEF AuthorityIs
  <2> QED
    BY <2>2, <2>3
<1>14. ASSUME suffix = <<>> => part[Len(part)] # "."
       PROVE  /\ HostText(u) = Cat(lowered, suffix)
              /\ u.host \in Seq(Ascii) /\ u.tld \in Seq(Ascii)
  <2>1. suffix = <<>> => label[Len(label)] # "."
    <3>1. lowered[Len(lowered)] = "." => part[Len(part)] = "."
      <4> HIDE DEF part
      <4>1. Len(part) \in 1..Len(part)
        BY <1>8, <1>12, EmptySeq
      <4>2. part[Len(part)] \in Ascii
        BY <1>8, <4>1, ElementOfSeq
      <4> DEFINE c == part[Len(part)]
      <4>3. lowered[Len(part)] \in {HexUp(c), Lower(c)} 
            /\ ((lowered[Len(part)] = HexUp(c) /\ IsHex(c)) \/ lowered[Len(part)] = Lower(c))
        BY <4>1 DEF NormalizeHostEscapes
      <4> HIDE DEF c, lowered
      <4>4. CASE lowered[Len(part)] = HexUp(c) /\ IsHex(c)
        BY <1>10, <4>4, NoNewDelimiter DEF IsHex, Delimiters
      <4>5. CASE lowered[Len(part)] = Lower(c)
        <5>1. CASE c \in DOMAIN LowerOf
          BY <1>10, <4>5, <5>1, NoNewDelimiter DEF Delimiters
        <5>2. CASE c \notin DOMAIN LowerOf
          BY <1>10, <4>5, <5>2 DEF Lower, c
        <5> QED
          BY <5>1, <5>2
      <4> QED
        BY <4>3, <4>4, <4>5
    <3> HIDE DEF suffix, part, label, lowered
    <3> QED
      BY <1>11, <1>14, <3>1
  <2> HIDE DEF suffix, part, label, lowered, www
  <2>2. /\ Cat(split.host, IF split.tld = <<>> THEN <<>> ELSE Led(".", split.tld)) = Cat(label, suffix)
        /\ split.host \in Seq(Ascii) /\ split.tld \in Seq(Ascii)
    BY <1>6, <1>9, <1>11, <2>1, SplitHostShown
  <2> HIDE DEF split
  <2>3. PICK w \in Seq(Ascii \cup {"www"}), host \in Seq(Ascii \cup {"www"}), tail \in Seq(Ascii \cup {"www"}),
             l \in Seq(Ascii \cup {"www"}), x \in Seq(Ascii \cup {"www"}) :
          /\ w = (IF www THEN <<"www", ".">> ELSE <<>>) /\ host = split.host
          /\ tail = (IF split.tld = <<>> THEN <<>> ELSE Led(".", split.tld))
          /\ l = label /\ x = suffix
    <3> DEFINE X == Ascii \cup {"www"}
    <3>1. Ascii \subseteq X /\ "." \in X /\ "www" \in X
      BY NoNewDelimiter DEF Delimiters
    <3> HIDE DEF X
    <3>2. <<>> \in Seq(X) /\ <<"www", ".">> \in Seq(X)
      BY <3>1
    <3>3. split.host \in Seq(X) /\ split.tld \in Seq(X) /\ label \in Seq(X) /\ suffix \in Seq(X)
      BY <1>9, <1>11, <2>2, <3>1, SuffixType, SeqMonotonic
    <3>4. Led(".", split.tld) \in Seq(X)
      BY <3>1, <3>3, LedType
    <3> QED
      BY <3>2, <3>3, <3>4 DEF X
  <2>4. Cat(Cat(w, host), tail) = Cat(w, Cat(host, tail)) /\ Cat(Cat(w, l), x) = Cat(w, Cat(l, x))
    <3>1. /\ w \in Seq(Ascii \cup {"www"}) /\ host \in Seq(Ascii \cup {"www"}) /\ tail \in Seq(Ascii \cup {"www"})
          /\ l \in Seq(Ascii \cup {"www"}) /\ x \in Seq(Ascii \cup {"www"})
      BY <2>3
    <3> QED
      BY <3>1, CatTexts
  <2>5. u.www = www /\ u.host = split.host /\ u.tld = split.tld
    BY <1>3
  <2>6. Cat(host, tail) = Cat(l, x) /\ Cat(w, l) = lowered
    BY <1>11, <2>2, <2>3
  <2> QED
    BY <2>2, <2>3, <2>4, <2>5, <2>6 DEF HostText
<1> HIDE DEF part, suffix, u
<1> QED
  BY <1>9, <1>13, <1>14 DEF u

(* The characters that end an authority. *)
ResourceMarks == {"/", "?", "#"}

(* A text with a scheme of one word and "://". *)
Starts(t) ==
  /\ Len(t) >= 4 /\ Lower(t[1]) \in {"http", "https"}
  /\ t[2] = ":" /\ t[3] = "/" /\ t[4] = "/"

Secure(t) == Lower(t[1]) = "https"

(* The scheme of an accepted text is one word. *)
LEMMA SchemeShown ==
  ASSUME NEW s \in Seq(Characters), ParseUrl(s).ok
  PROVE  \E t \in ClosedTexts :
           /\ NormalizePercentEncoding(s).ok /\ t = NormalizePercentEncoding(s).url
           /\ Starts(t) /\ ParseUrl(s) = ParseRest(Secure(t), After(t, 4))
<1> DEFINE n == NormalizePercentEncoding(s)
           t == n.url
           end == SchemeEnd(t)
           scheme == SchemeOf(SubSeq(t, 1, end - 1))
           rest == SubSeq(t, end + 3, Len(t))
           parse == IF end = 0 \/ scheme \notin {<<"http">>, <<"https">>} THEN Invalid
                    ELSE ParseRest(scheme = <<"https">>, rest)
<1>1. ParseUrl(s) = IF n.ok THEN parse ELSE Invalid
  BY Zenon DEF ParseUrl
<1>2. Invalid.ok = FALSE
  BY DEF Invalid
<1>3. n.ok /\ parse.ok /\ ParseUrl(s) = parse
  <2> HIDE DEF n, parse
  <2> QED
    BY <1>1, <1>2
<1>4. t \in ClosedTexts
  BY <1>3, NormalIsClosed
<1> HIDE DEF n, t
<1>5. /\ end # 0 /\ scheme \in {<<"http">>, <<"https">>}
      /\ parse = ParseRest(scheme = <<"https">>, rest)
  <2> HIDE DEF scheme, end, rest
  <2> QED
    BY <1>2, <1>3
<1>6. t \in Seq(Ascii) /\ Len(t) \in Nat
  BY <1>4, LenProperties DEF ClosedTexts
<1>7. end \in 1..(Len(t) - 2) /\ SubSeq(t, end, end + 2) = <<":", "/", "/">>
  <2> DEFINE at(i) == SubSeq(t, i, i + 2) = <<":", "/", "/">>
             ends == {i \in 1..(Len(t) - 2) : at(i)}
             least == CHOOSE i \in ends : \A j \in ends : i <= j
  <2>1. SchemeEnd(t) = IF ends = {} THEN 0 ELSE least
    BY Zenon DEF SchemeEnd
  <2>3. ends \in SUBSET Nat /\ ends \subseteq 1..(Len(t) - 2) /\ ends # {}
    <3> HIDE DEF at, least
    <3> QED
      BY <1>5, <1>6, <2>1
  <2>4. least \in ends
    <3> HIDE DEF ends
    <3>1. PICK m \in ends : \A j \in ends : ~(j < m)
      BY <2>3, LeastElement
    <3>2. \A j \in ends : m <= j
      BY <2>3, <3>1
    <3> QED
      BY <3>2, Zenon
  <2>5. end \in ends
    <3> HIDE DEF ends, least
    <3> QED
      BY <2>1, <2>3, <2>4
  <2> HIDE DEF end
  <2>6. end \in 1..(Len(t) - 2) /\ at(end)
    BY <2>5
  <2> QED
    BY <2>6
<1> HIDE DEF end
<1>8. /\ SubSeq(t, 1, end - 1) \in Seq(Ascii) /\ Len(SubSeq(t, 1, end - 1)) = end - 1
      /\ \A i \in 1..(end - 1) : SubSeq(t, 1, end - 1)[i] = t[i]
  <2>1. 1 \in 1..(Len(t) + 1) /\ end - 1 \in (1 - 1)..Len(t) /\ (end - 1) - 1 + 1 = end - 1
        /\ \A i \in 1..(end - 1) : 1 + i - 1 = i
    BY <1>6, <1>7
  <2> QED
    BY <1>6, <2>1, PartOfText
<1>9. Len(scheme) = end - 1 /\ \A i \in 1..(end - 1) : scheme[i] = Lower(t[i])
  <2>1. PICK x : x = SubSeq(t, 1, end - 1)
    OBVIOUS
  <2>2. Len(x) = end - 1 /\ end - 1 \in Nat /\ \A i \in 1..(end - 1) : x[i] = t[i]
    BY <1>6, <1>7, <1>8, <2>1
  <2>3. scheme = [i \in 1..Len(x) |-> Lower(x[i])]
    BY <2>1 DEF SchemeOf
  <2> HIDE DEF scheme
  <2> QED
    BY <2>2, <2>3
<1> HIDE DEF scheme
<1>10. end = 2 /\ scheme[1] \in {"http", "https"} /\ (scheme = <<"https">> <=> scheme[1] = "https")
  <2>1. Len(<<"http">>) = 1 /\ Len(<<"https">>) = 1 /\ <<"http">>[1] = "http" /\ <<"https">>[1] = "https"
    OBVIOUS
  <2>2. Len(scheme) = 1 /\ scheme[1] \in {"http", "https"}
    BY <1>5, <2>1
  <2>3. scheme = <<"https">> <=> scheme[1] = "https"
    BY <1>5, <2>1
  <2>4. end = 2
    <3>1. Len(scheme) = end - 1 /\ end \in Int
      BY <1>6, <1>7, <1>9
    <3> QED
      BY <2>2, <3>1
  <2> QED
    BY <2>2, <2>3, <2>4
<1>11. /\ t[2] = ":" /\ t[3] = "/" /\ t[4] = "/" /\ Len(t) >= 4
  <2>1. Len(t) >= 4
    BY <1>6, <1>7, <1>10
  <2>2. 2 \in 1..(Len(t) + 1) /\ 4 \in (2 - 1)..Len(t) /\ 4 - 2 + 1 = 3
    BY <1>6, <2>1
  <2>3. \A i \in 1..3 : SubSeq(t, 2, 4)[i] = t[2 + i - 1]
    BY <1>6, <2>2, PartOfText
  <2>4. SubSeq(t, 2, 4) = <<":", "/", "/">>
    BY <1>7, <1>10
  <2>5. SubSeq(t, 2, 4)[1] = ":" /\ SubSeq(t, 2, 4)[2] = "/" /\ SubSeq(t, 2, 4)[3] = "/"
    <3>1. <<":", "/", "/">>[1] = ":" /\ <<":", "/", "/">>[2] = "/" /\ <<":", "/", "/">>[3] = "/"
      OBVIOUS
    <3> QED
      BY <2>4, <3>1, Zenon
  <2>6. SubSeq(t, 2, 4)[1] = t[2] /\ SubSeq(t, 2, 4)[2] = t[3] /\ SubSeq(t, 2, 4)[3] = t[4]
    BY <2>3
  <2> QED
    BY <2>1, <2>5, <2>6
<1>12. rest = After(t, 4) /\ scheme[1] = Lower(t[1])
  BY <1>9, <1>10 DEF After
<1> HIDE DEF rest
<1>13. Starts(t) /\ (scheme = <<"https">>) = Secure(t)
  BY <1>10, <1>11, <1>12 DEF Starts, Secure
<1> QED
  BY <1>3, <1>4, <1>5, <1>12, <1>13 DEF n, t

(* Where the authority ends. *)
Limits(t, last) ==
  /\ last \in 5..Len(t) /\ \A j \in 5..last : t[j] \notin ResourceMarks
  /\ last < Len(t) => t[last + 1] \in ResourceMarks

LEMMA LastIs ==
  ASSUME NEW t, Len(t) \in Nat, NEW last, Limits(t, last)
  PROVE  AuthorityLast(t) = last
<1> DEFINE good(i) == /\ \A j \in 5..i : t[j] \notin {"/", "?", "#"}
                      /\ i < Len(t) => t[i + 1] \in {"/", "?", "#"}
           chosen == CHOOSE i \in 5..Len(t) : good(i)
<1>1. AuthorityLast(t) = chosen
  BY Zenon DEF AuthorityLast, AuthorityFirst
<1>2. last \in 5..Len(t) /\ good(last)
  BY DEF Limits, ResourceMarks
<1>3. chosen \in 5..Len(t) /\ good(chosen)
  <2> HIDE DEF good
  <2> QED
    BY <1>2, Zenon
<1> HIDE DEF chosen
<1>4. chosen = last
  <2>1. CASE chosen < last
    <3>1. chosen + 1 \in 5..last /\ chosen < Len(t)
      BY <1>2, <1>3, <2>1
    <3> QED
      BY <1>2, <1>3, <3>1
  <2>2. CASE last < chosen
    <3>1. last + 1 \in 5..chosen /\ last < Len(t)
      BY <1>2, <1>3, <2>2
    <3> QED
      BY <1>2, <1>3, <3>1
  <2>3. last \in Nat /\ chosen \in Nat
    BY <1>2, <1>3
  <2> HIDE DEF good
  <2> QED
    BY <2>1, <2>2, <2>3
<1> QED
  BY <1>1, <1>4

(* b is the first m characters of s. *)
Beginning(b, s, m) == Len(b) = m /\ \A i \in 1..m : b[i] = s[i]

LEMMA BeforeIs ==
  ASSUME NEW A, NEW s \in Seq(A), NEW n \in 0..Len(s), n # 0
  PROVE  Before(s, n) \in Seq(A) /\ Beginning(Before(s, n), s, n - 1)
BY BeforeAfter DEF Beginning

(* The authority of a text, and where it ends. *)
Placed(authority, t, last) ==
  Len(authority) = last - 4 /\ \A i \in 1..Len(authority) : authority[i] = t[4 + i]

(* What ParseRest takes for the authority and the resource. *)
Divided(t, rest, stop, authority, resource) ==
  /\ rest = After(t, 4) /\ stop = Find(rest, ResourceMarks)
  /\ authority = (IF stop = 0 THEN rest ELSE Before(rest, stop))
  /\ resource = (IF stop = 0 THEN <<>> ELSE SubSeq(rest, stop, Len(rest)))

LEMMA RestCut ==
  ASSUME NEW t \in Seq(Ascii), Len(t) >= 4, NEW rest, NEW stop, NEW authority, NEW resource,
         Divided(t, rest, stop, authority, resource), authority # <<>>
  PROVE  \E last : /\ Limits(t, last) /\ Placed(authority, t, last)
                    /\ resource = After(t, last)
<1>0. /\ rest = After(t, 4) /\ stop = Find(rest, ResourceMarks)
      /\ authority = (IF stop = 0 THEN rest ELSE Before(rest, stop))
      /\ resource = (IF stop = 0 THEN <<>> ELSE SubSeq(rest, stop, Len(rest)))
  BY DEF Divided
<1> USE <1>0
<1>1. Len(t) \in Nat
  BY LenProperties
<1>2. rest \in Seq(Ascii) /\ Len(rest) = Len(t) - 4 /\ \A i \in 1..(Len(t) - 4) : rest[i] = t[4 + i]
  <2>1. 4 \in 0..Len(t)
    BY <1>1
  <2> QED
    BY <2>1, BeforeAfter
<1>3. /\ stop \in 0..Len(rest)
      /\ stop = 0 => \A i \in 1..Len(rest) : rest[i] \notin ResourceMarks
      /\ stop # 0 => rest[stop] \in ResourceMarks /\ \A i \in 1..(stop - 1) : rest[i] \notin ResourceMarks
  BY <1>2, FindFinds
<1>4. CASE stop = 0
  <2>1. Len(rest) \in Nat \ {0}
    BY <1>2, <1>4, EmptySeq
  <2>2. Len(t) \in 5..Len(t)
    BY <1>1, <1>2, <2>1
  <2>3. ASSUME NEW j \in 5..Len(t) PROVE t[j] \notin ResourceMarks
    <3>1. j - 4 \in 1..Len(rest) /\ 4 + (j - 4) = j /\ j - 4 \in 1..(Len(t) - 4)
      BY <1>1, <1>2
    <3> QED
      BY <1>2, <1>3, <1>4, <3>1
  <2>4. Limits(t, Len(t))
    BY <1>1, <2>2, <2>3 DEF Limits
  <2>5. SubSeq(t, Len(t) + 1, Len(t)) = <<>>
    BY <1>1, SubSeqEmpty
  <2>6. Placed(authority, t, Len(t))
    BY <1>2, <1>4 DEF Placed
  <2> QED
    BY <1>4, <2>4, <2>5, <2>6 DEF After
<1>5. CASE stop # 0
  <2> DEFINE last == 3 + stop
  <2>1. /\ authority \in Seq(Ascii) /\ Len(authority) = stop - 1
        /\ \A i \in 1..(stop - 1) : authority[i] = rest[i]
    <3>1. stop \in 0..Len(rest) /\ stop # 0 /\ rest \in Seq(Ascii)
      BY <1>2, <1>3, <1>5
    <3>2. Before(rest, stop) \in Seq(Ascii) /\ Beginning(Before(rest, stop), rest, stop - 1)
      BY <3>1, BeforeIs
    <3>3. authority = Before(rest, stop)
      BY <1>5
    <3>4. authority \in Seq(Ascii) /\ Beginning(authority, rest, stop - 1)
      BY <3>2, <3>3, Zenon
    <3> QED
      BY <3>4 DEF Beginning
  <2>2. stop - 1 \in Nat \ {0}
    BY <2>1, EmptySeq
  <2>0. Len(t) \in Nat /\ stop \in Nat /\ stop >= 2 /\ stop <= Len(t) - 4 /\ Len(rest) = Len(t) - 4
        /\ last = 3 + stop
    BY <1>1, <1>2, <1>3, <2>2
  <2>3. last \in 5..Len(t) /\ last < Len(t) /\ last + 1 = 4 + stop
    BY <1>1, <1>2, <1>3, <2>2
  <2>4. ASSUME NEW j \in 5..last PROVE t[j] \notin ResourceMarks
    <3>1. j - 4 \in 1..(stop - 1) /\ 4 + (j - 4) = j /\ j - 4 \in 1..(Len(t) - 4)
      BY <2>0
    <3> QED
      BY <1>2, <1>3, <1>5, <3>1
  <2>5. t[last + 1] = rest[stop]
    <3>1. stop \in 1..(Len(t) - 4)
      BY <1>1, <1>2, <1>3, <1>5
    <3> QED
      BY <1>2, <2>3, <3>1
  <2>6. Limits(t, last)
    BY <1>3, <1>5, <2>3, <2>4, <2>5 DEF Limits
  <2>7. SubSeq(rest, stop, Len(rest)) = SubSeq(t, last + 1, Len(t))
    <3> DEFINE x == SubSeq(rest, stop, Len(rest))
               y == SubSeq(t, last + 1, Len(t))
               m == Len(t) - (3 + stop)
    <3>1. /\ x \in Seq(Ascii) /\ Len(x) = Len(rest) - stop + 1
          /\ \A i \in 1..(Len(rest) - stop + 1) : x[i] = rest[stop + i - 1]
      <4>1. stop \in 1..(Len(rest) + 1) /\ Len(rest) \in (stop - 1)..Len(rest)
        BY <1>1, <1>2, <1>3, <1>5
      <4> QED
        BY <1>2, <4>1, PartOfText
    <3>2. /\ y \in Seq(Ascii) /\ Len(y) = Len(t) - (last + 1) + 1
          /\ \A i \in 1..(Len(t) - (last + 1) + 1) : y[i] = t[(last + 1) + i - 1]
      <4>1. last + 1 \in 1..(Len(t) + 1) /\ Len(t) \in ((last + 1) - 1)..Len(t)
        BY <1>1, <2>3
      <4> HIDE DEF last
      <4> QED
        BY <4>1, PartOfText
    <3> HIDE DEF x, y
    <3>3. Len(x) = m /\ Len(y) = m /\ m \in Nat
      <4>1. Len(x) = Len(rest) - stop + 1 /\ Len(y) = Len(t) - (last + 1) + 1
        BY <3>1, <3>2
      <4> QED
        BY ONLY <2>0, <4>1 DEF m
    <3>4. ASSUME NEW i \in 1..m PROVE x[i] = y[i]
      <4>1. stop + i - 1 \in 1..(Len(t) - 4) /\ 4 + (stop + i - 1) = (last + 1) + i - 1
            /\ i \in 1..(Len(rest) - stop + 1) /\ i \in 1..(Len(t) - (last + 1) + 1)
        <5>1. i \in Nat /\ i >= 1 /\ i <= Len(t) - (3 + stop)
          BY ONLY <2>0, i \in 1..m DEF m
        <5> QED
          BY ONLY <2>0, <5>1, SMTT(60)
      <4>2. x[i] = t[4 + (stop + i - 1)]
        BY <1>2, <3>1, <4>1
      <4>3. y[i] = t[(last + 1) + i - 1]
        BY <3>2, <4>1
      <4> QED
        BY <4>1, <4>2, <4>3
    <3>5. x = y
      <4>1. Len(x) = Len(y) /\ \A i \in 1..Len(x) : x[i] = y[i]
        BY <3>3, <3>4
      <4> QED
        BY <3>1, <3>2, <4>1, SeqEqual
    <3> QED
      BY <3>5 DEF x, y
  <2>8. Len(authority) = last - 4 /\ \A i \in 1..Len(authority) : authority[i] = t[4 + i]
    <3>1. \A i \in 1..(stop - 1) : i \in 1..(Len(t) - 4)
      BY <1>1, <1>2, <1>3, <2>2
    <3>2. Len(authority) = stop - 1 /\ last - 4 = stop - 1
      BY <2>0, <2>1
    <3>3. \A i \in 1..(stop - 1) : authority[i] = rest[i] /\ rest[i] = t[4 + i]
      BY <1>2, <2>1, <3>1
    <3> HIDE DEF last
    <3> QED
      BY <3>2, <3>3
  <2> HIDE DEF last
  <2>9. Placed(authority, t, last)
    BY <2>8 DEF Placed
  <2> QED
    BY <1>5, <2>6, <2>7, <2>9 DEF After
<1> QED
  BY <1>4, <1>5

(* Changing case makes no delimiter and takes none away. *)
LEMMA LowerDelimiters ==
  ASSUME NEW c \in Ascii
  PROVE  /\ Lower(c) \in Ascii
         /\ \A d \in Delimiters : Lower(c) = d <=> c = d
<1>1. CASE c \in DOMAIN LowerOf
  <2>1. Lower(c) \in ToSet(Lowers) /\ c \notin Delimiters
    BY <1>1, NoNewDelimiter
  <2> QED
    BY <2>1, NoNewDelimiter
<1>2. CASE c \notin DOMAIN LowerOf
  <2>1. Lower(c) = c
    BY <1>2 DEF Lower
  <2> QED
    BY <2>1
<1> QED
  BY <1>1, <1>2

(* l is t with its first last characters in lower case, but for escapes. *)
Lowered(l, t, last) ==
  /\ l \in Seq(Ascii) /\ Len(l) = Len(t)
  /\ \A i \in 1..Len(t) : l[i] = IF i <= last /\ ~InEscape(t, i) THEN Lower(t[i]) ELSE t[i]

LEMMA LowerHeadIs ==
  ASSUME NEW t \in Seq(Ascii), NEW last, Limits(t, last)
  PROVE  Lowered(LowerHead(t), t, last)
<1> DEFINE low(i) == IF i <= last /\ ~InEscape(t, i) THEN Lower(t[i]) ELSE t[i]
           l == [i \in 1..Len(t) |-> low(i)]
<1>1. Len(t) \in Nat
  BY LenProperties
<1>2. AuthorityLast(t) = last
  BY <1>1, LastIs
<1>3. LowerHead(t) = l
  BY <1>2 DEF LowerHead
<1>4. \A i \in 1..Len(t) : low(i) \in Ascii
  <2> TAKE i \in 1..Len(t)
  <2>1. t[i] \in Ascii
    BY <1>1, ElementOfSeq
  <2> QED
    BY <2>1, LowerDelimiters
<1>5. l \in Seq(Ascii) /\ Len(l) = Len(t) /\ \A i \in 1..Len(t) : l[i] = low(i)
  <2> HIDE DEF low
  <2> QED
    BY <1>1, <1>4
<1> HIDE DEF l
<1> QED
  BY <1>3, <1>5 DEF Lowered

LEMMA LoweredLimits ==
  ASSUME NEW t \in Seq(Ascii), NEW last, Limits(t, last), NEW l, Lowered(l, t, last)
  PROVE  Limits(l, last)
<1>1. Len(t) \in Nat /\ last \in 5..Len(t) /\ Len(l) = Len(t)
  BY LenProperties DEF Limits, Lowered
<1>2. ASSUME NEW i \in 1..Len(t) PROVE l[i] \in ResourceMarks <=> t[i] \in ResourceMarks
  <2>1. t[i] \in Ascii
    BY <1>1, ElementOfSeq
  <2>2. \A d \in ResourceMarks : Lower(t[i]) = d <=> t[i] = d
    BY <2>1, LowerDelimiters DEF Delimiters, ResourceMarks
  <2>3. l[i] = Lower(t[i]) \/ l[i] = t[i]
    BY DEF Lowered
  <2> QED
    BY <2>2, <2>3
<1>3. ASSUME NEW j \in 5..last PROVE l[j] \notin ResourceMarks
  <2>1. j \in 1..Len(t)
    BY <1>1
  <2> QED
    BY <1>2, <2>1 DEF Limits
<1>4. last < Len(l) => l[last + 1] \in ResourceMarks
  <2>1. last < Len(t) => last + 1 \in 1..Len(t)
    BY <1>1
  <2> QED
    BY <1>1, <1>2, <2>1 DEF Limits
<1> QED
  BY <1>1, <1>3, <1>4 DEF Limits

(* The scheme and the host label of the text, as LowerHead leaves them. *)
LEMMA SchemeType ==
  ASSUME NEW t \in Seq(Ascii), Starts(t)
  PROVE  /\ Scheme(Secure(t)) \in Seq(Ascii) /\ Len(Scheme(Secure(t))) = 4
         /\ Scheme(Secure(t))[1] = Lower(t[1]) /\ Scheme(Secure(t))[2] = t[2]
         /\ Scheme(Secure(t))[3] = t[3] /\ Scheme(Secure(t))[4] = t[4]
<1> DEFINE name == IF Secure(t) THEN "https" ELSE "http"
<1>1. t[1] \in Ascii /\ name = Lower(t[1])
  <2>1. 1 \in 1..Len(t)
    BY LenProperties DEF Starts
  <2>2. t[1] \in Ascii
    BY <2>1, ElementOfSeq
  <2> QED
    BY <2>2 DEF Starts, Secure
<1>2. name \in Ascii /\ ":" \in Ascii /\ "/" \in Ascii
  BY <1>1, LowerDelimiters, NoNewDelimiter DEF Delimiters
<1>3. Scheme(Secure(t)) = <<name, ":", "/", "/">>
  BY DEF Scheme
<1> HIDE DEF name
<1>4. PICK x : x = <<name, ":", "/", "/">>
  OBVIOUS
<1>5. x \in Seq(Ascii) /\ Len(x) = 4 /\ x[1] = name /\ x[2] = ":" /\ x[3] = "/" /\ x[4] = "/"
  BY <1>2, <1>4
<1> QED
  BY <1>1, <1>3, <1>4, <1>5 DEF Starts

LEMMA LoweredScheme ==
  ASSUME NEW t \in Seq(Ascii), Starts(t), NEW last, Limits(t, last), NEW l, Lowered(l, t, last)
  PROVE  l[1] = Lower(t[1]) /\ l[2] = t[2] /\ l[3] = t[3] /\ l[4] = t[4]
<1>1. Len(t) \in Nat /\ last \in 5..Len(t) /\ t[1] \in Ascii
  <2>1. Len(t) \in Nat /\ last \in 5..Len(t)
    BY LenProperties DEF Limits
  <2>2. 1 \in 1..Len(t)
    BY <2>1
  <2> QED
    BY <2>1, <2>2, ElementOfSeq
<1>2. t[1] # "%"
  <2>1. t[1] = "%" => Lower(t[1]) = "%"
    BY <1>1, LowerDelimiters DEF Delimiters
  <2> QED
    BY <2>1 DEF Starts
<1>3. \A i \in 1..4 : i \in 1..Len(t) /\ i <= last
  BY <1>1
<1>4. \A i \in 1..4 : ~InEscape(t, i)
  <2>1. \A i \in 1..4 : t[i] # "%"
    BY <1>2 DEF Starts
  <2>2. \A i \in 1..4 : \A k \in {1, 2} : i > k => i - k \in 1..4
    OBVIOUS
  <2> QED
    BY <2>1, <2>2 DEF InEscape
<1>5. \A i \in 1..4 : l[i] = Lower(t[i])
  BY <1>3, <1>4 DEF Lowered
<1>6. Lower(":") = ":" /\ Lower("/") = "/"
  <2>1. ":" \in Ascii /\ "/" \in Ascii /\ ":" \in Delimiters /\ "/" \in Delimiters
    BY NoNewDelimiter DEF Delimiters
  <2> QED
    BY <2>1, LowerDelimiters
<1> QED
  BY <1>5, <1>6 DEF Starts

LEMMA LoweredLabel ==
  ASSUME NEW t \in ClosedTexts, Starts(t), NEW last, Limits(t, last), NEW l, Lowered(l, t, last),
         NEW part \in Seq(Ascii), Len(part) <= last - 4,
         \A i \in 1..Len(part) : part[i] = t[4 + i],
         NEW i \in 1..Len(part)
  PROVE  l[4 + i] = NormalizeHostEscapes(part)[i]
<1> DEFINE inEscape == \E k \in 1..2 : i > k /\ part[i - k] = "%"
<1>1. t \in Seq(Ascii) /\ Closed(t) /\ Len(t) \in Nat /\ Len(part) \in Nat /\ last \in 5..Len(t)
  BY LenProperties DEF ClosedTexts, Limits
<1>2. i \in Nat /\ 4 + i \in 1..Len(t) /\ 4 + i <= last /\ part[i] = t[4 + i]
  BY <1>1
<1>3. ASSUME NEW k \in 1..2
      PROVE  (4 + i > k /\ t[(4 + i) - k] = "%") <=> (i > k /\ part[i - k] = "%")
  <2>1. CASE i > k
    <3>1. i - k \in 1..Len(part) /\ 4 + (i - k) = (4 + i) - k /\ 4 + i > k
      BY <1>1, <1>2, <2>1
    <3>2. part[i - k] = t[4 + (i - k)]
      BY <3>1
    <3> QED
      BY <2>1, <3>1, <3>2
  <2>2. CASE ~(i > k)
    <3>1. (4 + i) - k \in {3, 4}
      BY <1>2, <2>2
    <3>2. t[(4 + i) - k] = "/"
      BY <3>1 DEF Starts
    <3> QED
      BY <2>2, <3>2
  <2> QED
    BY <2>1, <2>2
<1>4. InEscape(t, 4 + i) <=> inEscape
  <2>1. {1, 2} = 1..2
    OBVIOUS
  <2> QED
    BY <1>3, <2>1 DEF InEscape
<1>5. l[4 + i] = IF ~inEscape THEN Lower(t[4 + i]) ELSE t[4 + i]
  <2> HIDE DEF inEscape
  <2> QED
    BY <1>2, <1>4 DEF Lowered
<1>6. NormalizeHostEscapes(part)[i] =
        IF inEscape /\ IsHex(part[i]) THEN HexUp(part[i]) ELSE Lower(part[i])
  BY DEF NormalizeHostEscapes
<1>7. inEscape => UpperDigit(t[4 + i])
  <2> SUFFICES ASSUME NEW k \in 1..2, i > k, part[i - k] = "%" PROVE UpperDigit(t[4 + i])
    OBVIOUS
  <2>1. t[(4 + i) - k] = "%"
    BY <1>3
  <2>2. (4 + i) - k \in 1..Len(t) /\ ((4 + i) - k) + k = 4 + i
    BY <1>1, <1>2
  <2>3. PICK j : j = (4 + i) - k
    OBVIOUS
  <2>4. j \in 1..Len(t) /\ t[j] = "%" /\ j + k = 4 + i
    BY <2>1, <2>2, <2>3
  <2>5. UpperDigit(t[j + 1]) /\ UpperDigit(t[j + 2])
    BY <1>1, <2>4 DEF Closed
  <2>6. k = 1 \/ k = 2
    OBVIOUS
  <2> QED
    BY <2>4, <2>5, <2>6
<1> HIDE DEF inEscape
<1> QED
  BY <1>2, <1>5, <1>6, <1>7 DEF UpperDigit, IsHex

(* The first n characters. *)
Upto(s, n) == SubSeq(s, 1, n)

LEMMA CutAt ==
  ASSUME NEW A, NEW s \in Seq(A), NEW n \in 0..Len(s)
  PROVE  /\ Upto(s, n) \in Seq(A) /\ Len(Upto(s, n)) = n /\ \A i \in 1..n : Upto(s, n)[i] = s[i]
         /\ After(s, n) \in Seq(A) /\ Len(After(s, n)) = Len(s) - n
         /\ \A i \in 1..(Len(s) - n) : After(s, n)[i] = s[n + i]
         /\ Cat(Upto(s, n), After(s, n)) = s
<1>1. Len(s) \in Nat
  BY LenProperties
<1>2. /\ 1 \in 1..(Len(s) + 1) /\ n \in (1 - 1)..Len(s) /\ n - 1 + 1 = n
      /\ \A i \in 1..n : 1 + i - 1 = i
  BY <1>1
<1>3. Upto(s, n) \in Seq(A) /\ Len(Upto(s, n)) = n /\ \A i \in 1..n : Upto(s, n)[i] = s[i]
  BY <1>2, PartOfText DEF Upto
<1>4. After(s, n) \in Seq(A) /\ Len(After(s, n)) = Len(s) - n
      /\ \A i \in 1..(Len(s) - n) : After(s, n)[i] = s[n + i]
  BY BeforeAfter
<1>5. Cat(Upto(s, n), After(s, n)) = s
  <2>1. PICK a : a = Upto(s, n)
    OBVIOUS
  <2>2. PICK b : b = After(s, n)
    OBVIOUS
  <2>3. a \in Seq(A) /\ b \in Seq(A)
    BY <1>3, <1>4, <2>1, <2>2
  <2>4. PICK c : c = Cat(a, b)
    OBVIOUS
  <2>5. c \in Seq(A) /\ CatIs(c, a, b)
    BY <2>3, <2>4, CatLength
  <2>6. Len(a) = n /\ Len(b) = Len(s) - n /\ (\A i \in 1..n : a[i] = s[i])
        /\ \A i \in 1..(Len(s) - n) : b[i] = s[n + i]
    BY <1>3, <1>4, <2>1, <2>2
  <2>7. Len(c) = Len(s)
    BY <1>1, <2>5, <2>6 DEF CatIs
  <2>8. ASSUME NEW i \in 1..Len(s) PROVE c[i] = s[i]
    <3>1. CASE i <= n
      <4>1. i \in 1..n
        BY <1>1, <3>1
      <4> QED
        BY <2>5, <2>6, <4>1 DEF CatIs
    <3>2. CASE ~(i <= n)
      <4>1. i - n \in 1..(Len(s) - n) /\ n + (i - n) = i
        BY <1>1, <3>2
      <4>2. c[n + (i - n)] = b[i - n] /\ b[i - n] = s[n + (i - n)]
        BY <2>5, <2>6, <4>1 DEF CatIs
      <4> QED
        BY <4>1, <4>2
    <3> QED
      BY <3>1, <3>2
  <2>9. Len(c) = Len(s) /\ \A i \in 1..Len(c) : c[i] = s[i]
    BY <2>7, <2>8
  <2>10. c = s
    BY <2>5, <2>9, SeqEqual
  <2> QED
    BY <2>1, <2>2, <2>4, <2>10
<1> QED
  BY <1>3, <1>4, <1>5

(* a is what follows the first n characters of s. *)
Ending(a, s, n) == Len(a) = Len(s) - n /\ \A i \in 1..(Len(s) - n) : a[i] = s[n + i]

LEMMA AfterIs ==
  ASSUME NEW A, NEW s \in Seq(A), NEW n \in 0..Len(s)
  PROVE  After(s, n) \in Seq(A) /\ Ending(After(s, n), s, n)
BY BeforeAfter DEF Ending

LEMMA UptoIs ==
  ASSUME NEW A, NEW s \in Seq(A), NEW n \in 0..Len(s)
  PROVE  Upto(s, n) \in Seq(A) /\ Beginning(Upto(s, n), s, n)
BY CutAt DEF Beginning

(* A text that consists of two others, character by character. *)
LEMMA CatFound ==
  ASSUME NEW A, NEW r \in Seq(A), NEW s \in Seq(A), NEW t \in Seq(A), CatIs(r, s, t)
  PROVE  r = Cat(s, t)
<1>1. PICK c : c = Cat(s, t)
  OBVIOUS
<1>2. c \in Seq(A) /\ CatIs(c, s, t)
  BY <1>1, CatLength
<1>3. Len(s) \in Nat /\ Len(t) \in Nat
  BY LenProperties
<1>4. Len(r) = Len(c) /\ Len(r) = Len(s) + Len(t)
  BY <1>2 DEF CatIs
<1>5. ASSUME NEW i \in 1..Len(r) PROVE r[i] = c[i]
  <2>1. CASE i <= Len(s)
    <3>1. i \in 1..Len(s)
      BY <1>3, <1>4, <2>1
    <3> QED
      BY <1>2, <3>1 DEF CatIs
  <2>2. CASE ~(i <= Len(s))
    <3>1. i - Len(s) \in 1..Len(t) /\ Len(s) + (i - Len(s)) = i
      BY <1>3, <1>4, <2>2
    <3>2. r[Len(s) + (i - Len(s))] = t[i - Len(s)] /\ c[Len(s) + (i - Len(s))] = t[i - Len(s)]
      BY <1>2, <3>1 DEF CatIs
    <3> QED
      BY <3>1, <3>2
  <2> QED
    BY <2>1, <2>2
<1>6. r = c
  BY <1>2, <1>4, <1>5, SeqEqual
<1> QED
  BY <1>1, <1>6

(* Scheme and host part in their normal form. *)
HeadText(t, part) == Cat(Scheme(Secure(t)), NormalizeHostEscapes(part))

LEMMA NormalHostType ==
  ASSUME NEW part \in TidyTexts
  PROVE  NormalizeHostEscapes(part) \in Seq(Ascii) /\ Len(NormalizeHostEscapes(part)) = Len(part)
<1>1. NormalizeHostEscapes(part) \in Seq(Ascii)
  BY HostEscapesTidy DEF TidyTexts
<1>2. part \in Seq(Ascii) /\ Len(part) \in Nat
  BY LenProperties DEF TidyTexts
<1>3. Len(NormalizeHostEscapes(part)) = Len(part)
  BY <1>2 DEF NormalizeHostEscapes
<1> QED
  BY <1>1, <1>3

LEMMA HeadShown ==
  ASSUME NEW t \in ClosedTexts, Starts(t), NEW last, Limits(t, last), NEW l, Lowered(l, t, last),
         NEW part \in TidyTexts, Len(part) <= last - 4,
         \A i \in 1..Len(part) : part[i] = t[4 + i]
  PROVE  /\ Upto(l, 4 + Len(part)) = HeadText(t, part)
         /\ HeadText(t, part) \in Seq(Ascii) /\ Len(HeadText(t, part)) = 4 + Len(part)
<1>1. t \in Seq(Ascii) /\ Len(t) \in Nat /\ last \in 5..Len(t) /\ l \in Seq(Ascii) /\ Len(l) = Len(t)
  BY LenProperties DEF ClosedTexts, Limits, Lowered
<1>2. PICK p : p = NormalizeHostEscapes(part)
  OBVIOUS
<1>3. p \in Seq(Ascii) /\ Len(p) = Len(part) /\ Len(part) \in Nat /\ part \in Seq(Ascii)
  BY <1>2, NormalHostType, LenProperties DEF TidyTexts
<1>4. PICK x : x = Scheme(Secure(t))
  OBVIOUS
<1>5. x \in Seq(Ascii) /\ Len(x) = 4 /\ x[1] = Lower(t[1]) /\ x[2] = t[2] /\ x[3] = t[3] /\ x[4] = t[4]
  BY <1>1, <1>4, SchemeType
<1>6. l[1] = Lower(t[1]) /\ l[2] = t[2] /\ l[3] = t[3] /\ l[4] = t[4]
  BY <1>1, LoweredScheme
<1>7. \A i \in 1..Len(part) : l[4 + i] = p[i]
  BY <1>2, <1>3, LoweredLabel
<1>8. PICK r : r = Upto(l, 4 + Len(part))
  OBVIOUS
<1>9. 4 + Len(part) \in 0..Len(l)
  BY <1>1, <1>3
<1>10. r \in Seq(Ascii) /\ Len(r) = 4 + Len(part) /\ \A i \in 1..(4 + Len(part)) : r[i] = l[i]
  BY <1>1, <1>8, <1>9, CutAt
<1>11. CatIs(r, x, p)
  <2>1. \A i \in 1..4 : i \in 1..(4 + Len(part))
    BY <1>3
  <2>2. \A i \in 1..Len(x) : r[i] = x[i]
    BY <1>5, <1>6, <1>10, <2>1
  <2>3. \A i \in 1..Len(part) : 4 + i \in 1..(4 + Len(part))
    BY <1>3
  <2>4. \A i \in 1..Len(p) : r[4 + i] = p[i]
    BY <1>3, <1>7, <1>10, <2>3
  <2> QED
    BY <1>3, <1>5, <1>10, <2>2, <2>4 DEF CatIs
<1>12. r = Cat(x, p) /\ Cat(x, p) \in Seq(Ascii)
  BY <1>3, <1>5, <1>10, <1>11, CatFound, CatLength
<1> QED
  BY <1>2, <1>4, <1>8, <1>10, <1>12 DEF HeadText

(* The text with its port as the parser writes it. *)
LEMMA CanonicalShown ==
  ASSUME NEW t \in ClosedTexts, Starts(t), NEW last, Limits(t, last),
         NEW authority, Placed(authority, t, last),
         NEW part, NEW suffix, AuthorityIs(authority, Secure(t), part, suffix),
         suffix \in PortTails
  PROVE  CanonicalPort(LowerHead(t)) = Cat(Cat(HeadText(t, part), suffix), After(t, last))
<1>1. /\ t \in Seq(Ascii) /\ Len(t) \in Nat /\ last \in 5..Len(t) /\ Closed(t)
      /\ part \in TidyTexts /\ Len(part) \in Nat
      /\ suffix \in Seq(Ascii)
  BY LenProperties, SuffixType DEF ClosedTexts, Limits, AuthorityIs, TidyTexts
<1>2. PICK l : l = LowerHead(t)
  OBVIOUS
<1>3. Lowered(l, t, last)
  BY <1>1, <1>2, LowerHeadIs
<1>4. Limits(l, last) /\ l \in Seq(Ascii) /\ Len(l) = Len(t)
  BY <1>1, <1>3, LoweredLimits DEF Lowered
<1>5. AuthorityLast(l) = last
  BY <1>1, <1>4, LastIs
<1>30. Len(authority) = last - 4 /\ \A i \in 1..Len(authority) : authority[i] = t[4 + i]
  BY DEF Placed
<1>6. Len(part) <= last - 4 /\ \A i \in 1..Len(part) : part[i] = t[4 + i]
  <2>1. Len(part) <= Len(authority)
    BY <1>1, <1>30 DEF AuthorityIs
  <2>2. \A i \in 1..Len(part) : i \in 1..Len(authority)
    BY <1>1, <2>1
  <2> QED
    BY <1>30, <2>1, <2>2 DEF AuthorityIs
<1>7. /\ Upto(l, 4 + Len(part)) = HeadText(t, part)
      /\ HeadText(t, part) \in Seq(Ascii) /\ Len(HeadText(t, part)) = 4 + Len(part)
  BY <1>1, <1>3, <1>6, HeadShown
<1>8. After(l, last) = After(t, last)
  <2>1. PICK x : x = After(l, last)
    OBVIOUS
  <2>2. PICK y : y = After(t, last)
    OBVIOUS
  <2>3. last \in 0..Len(t) /\ last \in 0..Len(l)
    BY <1>1, <1>4
  <2>4. x \in Seq(Ascii) /\ Ending(x, l, last)
    BY <1>4, <2>1, <2>3, AfterIs
  <2>5. y \in Seq(Ascii) /\ Ending(y, t, last)
    BY <1>1, <2>2, <2>3, AfterIs
  <2>6. \A i \in 1..(Len(t) - last) : last + i \in 1..Len(t) /\ ~(last + i <= last)
    BY <1>1
  <2>7. \A i \in 1..(Len(t) - last) : l[last + i] = t[last + i]
    BY <1>3, <2>6 DEF Lowered
  <2>8. Len(x) = Len(y) /\ \A i \in 1..Len(x) : x[i] = y[i]
    BY <1>4, <2>4, <2>5, <2>7 DEF Ending
  <2>9. x = y
    BY <2>4, <2>5, <2>8, SeqEqual
  <2> QED
    BY <2>1, <2>2, <2>9
<1>9. PICK b : b = After(t, last)
  OBVIOUS
<1>10. b \in Seq(Ascii) /\ b = After(l, last) /\ b = SubSeq(l, last + 1, Len(l))
  <2>1. last \in 0..Len(t)
    BY <1>1
  <2>2. b \in Seq(Ascii)
    BY <1>1, <1>9, <2>1, CutAt
  <2> QED
    BY <1>8, <1>9, <2>2 DEF After
<1>11. \A i \in 1..Len(part) : l[4 + i] # ":"
  <2> TAKE i \in 1..Len(part)
  <2>1. part[i] \in Ascii /\ part[i] # ":" /\ part[i] = t[4 + i]
    BY <1>1, <1>6, ElementOfSeq DEF AuthorityIs, TidyTexts
  <2>2. 4 + i \in 1..Len(t)
    BY <1>1, <1>6
  <2>3. l[4 + i] = Lower(t[4 + i]) \/ l[4 + i] = t[4 + i]
    BY <1>3, <2>2 DEF Lowered
  <2>4. Lower(part[i]) # ":"
    BY <2>1, LowerDelimiters DEF Delimiters
  <2> QED
    BY <2>1, <2>3, <2>4
<1> DEFINE hasPort == \E i \in 5..last : l[i] = ":"
           port    == Numeral[l[last]]
           default == port = IF l[1] = "https" THEN HttpsPort ELSE HttpPort
           shown   == IF default THEN <<>> ELSE <<":", PortText[port]>>
<1>12. CanonicalPort(l) =
         IF hasPort THEN SubSeq(l, 1, last - 2) \o shown \o b ELSE l
  BY <1>5, <1>10, Zenon DEF CanonicalPort, AuthorityFirst
<1> HIDE DEF hasPort
<1>13. PICK h : h = HeadText(t, part)
  OBVIOUS
<1>14. CASE Len(authority) = Len(part) /\ suffix = <<>>
  <2>1. last = 4 + Len(part)
    BY <1>1, <1>14, <1>30
  <2>2. ~hasPort
    <3>1. \A i \in 5..last : i - 4 \in 1..Len(part) /\ 4 + (i - 4) = i
      BY <1>1, <2>1
    <3> QED
      BY <1>11, <3>1 DEF hasPort
  <2>3. last \in 0..Len(l)
    BY <1>1, <1>4
  <2>4. Cat(Upto(l, last), After(l, last)) = l
    BY <1>4, <2>3, CutAt
  <2>5. Cat(h, suffix) = h
    BY <1>7, <1>13, <1>14, CatTexts
  <2> QED
    BY <1>2, <1>7, <1>8, <1>12, <1>13, <2>1, <2>2, <2>4, <2>5
<1>15. CASE Len(authority) = Len(part) + 2
  <2>1. last = 6 + Len(part) /\ last - 2 = 4 + Len(part)
    BY <1>1, <1>15, <1>30
  <2>2. authority[Len(part) + 1] = t[5 + Len(part)] /\ authority[Len(part) + 2] = t[last]
    <3>1. Len(part) + 1 \in 1..Len(authority) /\ Len(part) + 2 \in 1..Len(authority)
          /\ 4 + (Len(part) + 1) = 5 + Len(part) /\ 4 + (Len(part) + 2) = last
      BY <1>1, <1>15, <2>1
    <3> QED
      BY <1>30, <3>1
  <2>3. \/ Len(authority) = Len(part)
        \/ /\ authority[Len(part) + 1] = ":"
           /\ authority[Len(part) + 2] \in DOMAIN Numeral
           /\ suffix = IF Numeral[authority[Len(part) + 2]] = DefaultPort(Secure(t)) THEN <<>>
                       ELSE <<":", PortText[Numeral[authority[Len(part) + 2]]]>>
    BY DEF AuthorityIs
  <2>4. /\ t[5 + Len(part)] = ":" /\ t[last] \in DOMAIN Numeral
        /\ suffix = IF Numeral[t[last]] = DefaultPort(Secure(t)) THEN <<>>
                    ELSE <<":", PortText[Numeral[t[last]]]>>
    <3>1. Len(authority) # Len(part)
      BY <1>1, <1>15, <1>30
    <3> QED
      BY <2>2, <2>3, <3>1
  <2>5. 5 + Len(part) \in 5..last /\ 5 + Len(part) \in 1..Len(t) /\ last \in 1..Len(t)
    BY <1>1, <2>1
  <2>6. l[5 + Len(part)] = ":"
    <3>1. ":" \in Ascii /\ Lower(":") = ":"
      BY NoNewDelimiter, LowerDelimiters DEF Delimiters
    <3>2. l[5 + Len(part)] = Lower(t[5 + Len(part)]) \/ l[5 + Len(part)] = t[5 + Len(part)]
      BY <1>3, <2>5 DEF Lowered
    <3> QED
      BY <2>4, <3>1, <3>2
  <2>7. hasPort
    BY <2>5, <2>6 DEF hasPort
  <2>8. l[last] = t[last]
    <3>1. Lower(t[last]) = t[last]
      <4>1. t[last] \notin DOMAIN LowerOf
        BY <2>4, UppersStandAlone, CharacterSet
      <4> QED
        BY <4>1 DEF Lower
    <3>2. l[last] = Lower(t[last]) \/ l[last] = t[last]
      BY <1>3, <2>5 DEF Lowered
    <3> QED
      BY <3>1, <3>2
  <2>9. l[1] = "https" <=> Secure(t)
    <3>1. l[1] = Lower(t[1])
      BY <1>1, <1>3, LoweredScheme
    <3> QED
      BY <3>1 DEF Secure
  <2>10. shown = suffix
    BY <2>4, <2>8, <2>9 DEF DefaultPort
  <2> HIDE DEF shown
  <2>11. SubSeq(l, 1, last - 2) = h
    BY <1>7, <1>13, <2>1 DEF Upto
  <2> QED
    BY <1>2, <1>9, <1>12, <1>13, <2>7, <2>10, <2>11 DEF Cat
<1> QED
  BY <1>14, <1>15 DEF AuthorityIs

(* A dot that ends the host label ends the authority, unless a port does. *)
LEMMA DotSeen ==
  ASSUME NEW t \in ClosedTexts, Starts(t), NEW last, Limits(t, last),
         NEW authority, Placed(authority, t, last),
         NEW part, AuthorityIs(authority, Secure(t), part, <<>>),
         part[Len(part)] = ".",
         NEW c, c = CanonicalPort(LowerHead(t))
  PROVE  c[AuthorityLast(c)] = "."
<1> DEFINE m == 4 + Len(part)
<1>0. <<>> \in PortTails
  BY DEF PortTails
<1>1. /\ t \in Seq(Ascii) /\ Len(t) \in Nat /\ last \in 5..Len(t)
      /\ part \in TidyTexts /\ Len(part) \in Nat \ {0}
  BY LenProperties, EmptySeq DEF ClosedTexts, Limits, AuthorityIs, TidyTexts
<1>2. PICK l : l = LowerHead(t)
  OBVIOUS
<1>3. Lowered(l, t, last)
  BY <1>1, <1>2, LowerHeadIs
<1>4. Limits(l, last) /\ l \in Seq(Ascii) /\ Len(l) = Len(t)
  BY <1>1, <1>3, LoweredLimits DEF Lowered
<1>30. Len(authority) = last - 4 /\ \A i \in 1..Len(authority) : authority[i] = t[4 + i]
  BY DEF Placed
<1>6. Len(part) <= last - 4 /\ \A i \in 1..Len(part) : part[i] = t[4 + i]
  <2>1. Len(part) <= Len(authority)
    BY <1>1, <1>30 DEF AuthorityIs
  <2>2. \A i \in 1..Len(part) : i \in 1..Len(authority)
    BY <1>1, <2>1
  <2> QED
    BY <1>30, <2>1, <2>2 DEF AuthorityIs
<1>7. PICK h : h = HeadText(t, part)
  OBVIOUS
<1>8. h \in Seq(Ascii) /\ Len(h) = m /\ h = Upto(l, m)
  BY <1>1, <1>3, <1>6, <1>7, HeadShown
<1>9. m \in 5..last /\ m \in 0..Len(l) /\ m \in 1..Len(t)
  BY <1>1, <1>4, <1>6
<1>10. \A i \in 1..m : h[i] = l[i]
  <2> HIDE DEF m
  <2>1. Beginning(Upto(l, m), l, m)
    BY <1>4, <1>9, UptoIs
  <2> QED
    BY <1>8, <2>1 DEF Beginning
<1>11. PICK b : b = After(t, last)
  OBVIOUS
<1>12. b \in Seq(Ascii) /\ Ending(b, t, last)
  <2>1. last \in 0..Len(t)
    BY <1>1
  <2> QED
    BY <1>1, <1>11, <2>1, AfterIs
<1>13. c = Cat(h, b)
  <2>1. c = Cat(Cat(h, <<>>), b)
    BY <1>0, <1>7, <1>11, CanonicalShown
  <2>2. Cat(h, <<>>) = h
    <3>1. h \in Seq(Ascii)
      BY <1>8
    <3> QED
      BY <3>1, CatTexts
  <2> QED
    BY <2>1, <2>2
<1>14. c \in Seq(Ascii) /\ CatIs(c, h, b)
  BY <1>8, <1>12, <1>13, CatLength
<1>15. Len(c) = m + (Len(t) - last) /\ Len(c) \in Nat
  <2>1. Len(c) = Len(h) + Len(b) /\ Len(h) = m /\ Len(b) = Len(t) - last
    BY <1>8, <1>12, <1>14 DEF CatIs, Ending
  <2>2. m \in Nat /\ Len(t) - last \in Nat
    BY <1>1
  <2> HIDE DEF m
  <2> QED
    BY <2>1, <2>2
<1>16. \A i \in 1..m : c[i] = l[i]
  BY <1>8, <1>10, <1>14 DEF CatIs
<1>17. Limits(c, m)
  <2>1. m \in 5..Len(c)
    BY <1>1, <1>9, <1>15
  <2>2. ASSUME NEW j \in 5..m PROVE c[j] \notin ResourceMarks
    <3>1. j \in 1..m /\ j \in 5..last
      BY <1>1, <1>9
    <3> QED
      BY <1>4, <1>16, <3>1 DEF Limits
  <2>3. ASSUME m < Len(c) PROVE c[m + 1] \in ResourceMarks
    <3>1. last < Len(t)
      BY <1>1, <1>9, <1>15, <2>3
    <3>2. 1 \in 1..(Len(t) - last)
      BY <1>1, <3>1
    <3>3. Len(b) = Len(t) - last /\ b[1] = t[last + 1]
      BY <1>12, <3>2 DEF Ending
    <3>4. c[m + 1] = b[1]
      BY <1>8, <1>14, <3>2, <3>3 DEF CatIs
    <3> QED
      BY <3>1, <3>3, <3>4 DEF Limits
  <2> HIDE DEF m
  <2> QED
    BY <2>1, <2>2, <2>3 DEF Limits
<1>18. AuthorityLast(c) = m
  <2> HIDE DEF m
  <2> QED
    BY <1>15, <1>17, LastIs
<1>19. c[m] = l[m]
  <2>1. m \in 1..m
    BY <1>1
  <2> HIDE DEF m
  <2> QED
    BY <1>16, <2>1
<1>20. t[m] = "."
  <2>1. Len(part) \in 1..Len(part)
    BY <1>1
  <2> QED
    BY <1>6, <2>1
<1>21. l[m] = "."
  <2>1. "." \in Ascii /\ Lower(".") = "."
    BY NoNewDelimiter, LowerDelimiters DEF Delimiters
  <2>2. l[m] = Lower(t[m]) \/ l[m] = t[m]
    <3> HIDE DEF m
    <3> QED
      BY <1>3, <1>9 DEF Lowered
  <2> QED
    BY <1>20, <2>1, <2>2
<1> QED
  BY <1>18, <1>19, <1>21

(* The fragment mark is dropped when nothing follows it. *)
WithoutEmptyFragment(r) ==
  IF Find(r, {"#"}) # 0 /\ Find(r, {"#"}) = Len(r) THEN Before(r, Len(r)) ELSE r

LEMMA FragmentDropped ==
  ASSUME NEW g \in Seq(Ascii), \A i \in 1..Len(g) : g[i] # "#", NEW r \in Seq(Ascii)
  PROVE  DropEmptyFragment(Cat(g, r)) = Cat(g, WithoutEmptyFragment(r))
<1>1. PICK c : c = Cat(g, r)
  OBVIOUS
<1>2. c \in Seq(Ascii) /\ CatIs(c, g, r) /\ Len(g) \in Nat /\ Len(r) \in Nat /\ Len(c) \in Nat
      /\ Len(c) = Len(g) + Len(r)
  <2>1. c \in Seq(Ascii) /\ CatIs(c, g, r)
    BY <1>1, CatLength
  <2> QED
    BY <2>1, LenProperties DEF CatIs
<1> DEFINE hash == {i \in 1..Len(c) : c[i] = "#"}
           first == Find(r, {"#"})
<1>3. DropEmptyFragment(c) = IF hash = {Len(c)} THEN SubSeq(c, 1, Len(c) - 1) ELSE c
  BY DEF DropEmptyFragment
<1>4. /\ first \in 0..Len(r)
      /\ first = 0 => \A i \in 1..Len(r) : r[i] # "#"
      /\ first # 0 => r[first] = "#" /\ \A i \in 1..(first - 1) : r[i] # "#"
  BY FindFinds
<1> HIDE DEF first
<1>5. ASSUME NEW i \in hash PROVE i - Len(g) \in 1..Len(r) /\ r[i - Len(g)] = "#"
  <2>1. i \in 1..Len(c) /\ c[i] = "#"
    OBVIOUS
  <2>2. CASE i <= Len(g)
    <3>1. i \in 1..Len(g)
      BY <1>2, <2>1, <2>2
    <3>2. c[i] = g[i]
      BY <1>2, <3>1 DEF CatIs
    <3> QED
      BY <2>1, <3>1, <3>2
  <2>3. CASE ~(i <= Len(g))
    <3>1. i - Len(g) \in 1..Len(r) /\ Len(g) + (i - Len(g)) = i
      BY <1>2, <2>1, <2>3
    <3>2. c[Len(g) + (i - Len(g))] = r[i - Len(g)]
      BY <1>2, <3>1 DEF CatIs
    <3> QED
      BY <2>1, <3>1, <3>2
  <2> QED
    BY <2>2, <2>3
<1>6. ASSUME NEW j \in 1..Len(r), r[j] = "#" PROVE Len(g) + j \in hash
  <2>1. Len(g) + j \in 1..Len(c)
    BY <1>2
  <2>2. c[Len(g) + j] = r[j]
    BY <1>2 DEF CatIs
  <2> QED
    BY <1>6, <2>1, <2>2
<1> HIDE DEF hash
<1>7. CASE first # 0 /\ first = Len(r)
  <2>1. hash = {Len(c)}
    <3>1. Len(c) \in hash
      <4>1. Len(r) \in 1..Len(r) /\ r[Len(r)] = "#" /\ Len(g) + Len(r) = Len(c)
        BY <1>2, <1>4, <1>7
      <4>2. Len(g) + Len(r) \in hash
        BY <1>6, <4>1
      <4> QED
        BY <4>1, <4>2
    <3>2. ASSUME NEW i \in hash PROVE i = Len(c)
      <4>1. i - Len(g) \in 1..Len(r) /\ r[i - Len(g)] = "#"
        BY <1>5
      <4>2. i - Len(g) \notin 1..(first - 1)
        BY <1>4, <1>7, <4>1
      <4>3. i - Len(g) = Len(r)
        BY <1>2, <1>7, <4>1, <4>2
      <4>4. i \in Int
        BY DEF hash
      <4> QED
        BY <1>2, <4>3, <4>4
    <3> QED
      BY <3>1, <3>2
  <2>2. PICK b : b = Before(r, Len(r))
    OBVIOUS
  <2>3. b \in Seq(Ascii) /\ Beginning(b, r, Len(r) - 1)
    <3>1. Len(r) \in 0..Len(r) /\ Len(r) # 0
      BY <1>2, <1>4, <1>7
    <3> QED
      BY <2>2, <3>1, BeforeIs
  <2>4. PICK x : x = Upto(c, Len(c) - 1)
    OBVIOUS
  <2>5. Len(c) - 1 \in 0..Len(c) /\ Len(r) - 1 \in Nat /\ Len(c) - 1 = Len(g) + (Len(r) - 1)
    BY <1>2, <1>4, <1>7
  <2>6. x \in Seq(Ascii) /\ Len(x) = Len(c) - 1 /\ \A i \in 1..(Len(c) - 1) : x[i] = c[i]
    <3>1. x \in Seq(Ascii) /\ Beginning(x, c, Len(c) - 1)
      <4>1. c \in Seq(Ascii)
        BY <1>2
      <4> QED
        BY <2>4, <2>5, <4>1, UptoIs
    <3> QED
      BY <3>1 DEF Beginning
  <2>7. CatIs(x, g, b)
    <3>1. Len(b) = Len(r) - 1 /\ \A i \in 1..(Len(r) - 1) : b[i] = r[i]
      BY <2>3 DEF Beginning
    <3>2. ASSUME NEW i \in 1..Len(g) PROVE x[i] = g[i]
      <4>1. i \in 1..(Len(c) - 1)
        BY <1>2, <2>5
      <4> QED
        BY <1>2, <2>6, <4>1 DEF CatIs
    <3>3. ASSUME NEW i \in 1..(Len(r) - 1) PROVE x[Len(g) + i] = b[i]
      <4>1. Len(g) + i \in 1..(Len(c) - 1) /\ i \in 1..Len(r)
        BY <1>2, <2>5
      <4> QED
        BY <1>2, <2>6, <3>1, <4>1 DEF CatIs
    <3> QED
      BY <2>5, <2>6, <3>1, <3>2, <3>3 DEF CatIs
  <2>8. x = Cat(g, b)
    BY <2>3, <2>6, <2>7, CatFound
  <2>9. WithoutEmptyFragment(r) = b
    BY <1>7, <2>2 DEF WithoutEmptyFragment, first
  <2> QED
    BY <1>1, <1>3, <2>1, <2>4, <2>8, <2>9 DEF Upto
<1>8. CASE ~(first # 0 /\ first = Len(r))
  <2>1. hash # {Len(c)}
    <3>1. CASE first = 0
      BY <1>4, <1>5, <3>1
    <3>2. CASE first # 0
      <4>1. first \in 1..Len(r) /\ r[first] = "#" /\ first # Len(r)
        BY <1>4, <1>8, <3>2
      <4>2. Len(g) + first \in hash
        BY <1>6, <4>1
      <4>3. Len(g) + first # Len(c)
        BY <1>2, <4>1
      <4> QED
        BY <4>2, <4>3
    <3> QED
      BY <3>1, <3>2
  <2>2. WithoutEmptyFragment(r) = r
    BY <1>8 DEF WithoutEmptyFragment, first
  <2> QED
    BY <1>1, <1>3, <2>1, <2>2
<1> QED
  BY <1>7, <1>8

(* The path, the query and the fragment of a resource put it together again. *)
LEMMA ResourceShown ==
  ASSUME NEW r \in Seq(Ascii), r # <<>> => r[1] \in ResourceMarks,
         NEW hash, hash = Find(r, {"#"}),
         NEW pathQuery, pathQuery = (IF hash = 0 THEN r ELSE Before(r, hash)),
         NEW mark, mark = Find(pathQuery, {"?"}),
         NEW path, path = (IF mark = 0 THEN pathQuery ELSE Before(pathQuery, mark)),
         NEW fragment, fragment = (IF hash = 0 THEN <<>> ELSE After(r, hash)),
         NEW p, p = PathText(SplitPath(path)),
         NEW q, q = QueryText(SplitQuery(After(pathQuery, mark), mark # 0)),
         NEW f, f = FragmentText(SplitFragment(fragment))
  PROVE  /\ p \in Seq(Ascii) /\ q \in Seq(Ascii) /\ f \in Seq(Ascii)
         /\ Cat(Cat(p, q), f) = WithoutEmptyFragment(r)
<1>1. Len(r) \in Nat /\ "?" \in Ascii /\ "#" \in Ascii
  BY LenProperties, NoNewDelimiter DEF Delimiters
<1>2. hash \in 0..Len(r) /\ (hash # 0 => r[hash] = "#")
      /\ (hash = 0 => \A i \in 1..Len(r) : r[i] # "#")
      /\ \A i \in 1..(hash - 1) : hash # 0 => r[i] # "#"
  BY FindFinds
<1>3. pathQuery \in Seq(Ascii) /\ fragment \in Seq(Ascii)
  <2>1. CASE hash = 0
    BY <2>1, EmptySeq
  <2>2. CASE hash # 0
    <3>1. Before(r, hash) \in Seq(Ascii) /\ After(r, hash) \in Seq(Ascii)
      BY <1>2, <2>2, BeforeIs, AfterIs
    <3> QED
      BY <2>2, <3>1
  <2> QED
    BY <2>1, <2>2
<1>4. pathQuery # <<>> => pathQuery[1] = r[1] /\ r[1] \in {"/", "?"}
  <2>1. CASE hash = 0
    <3>1. pathQuery = r
      BY <2>1
    <3>2. r # <<>> => 1 \in 1..Len(r)
      BY <1>1, EmptySeq
    <3> QED
      BY <1>2, <2>1, <3>1, <3>2 DEF ResourceMarks
  <2>2. CASE hash # 0
    <3>1. Beginning(Before(r, hash), r, hash - 1)
      BY <1>2, <2>2, BeforeIs
    <3>2. pathQuery = Before(r, hash)
      BY <2>2
    <3>3. Beginning(pathQuery, r, hash - 1)
      BY <3>1, <3>2, Zenon
    <3>4. ASSUME pathQuery # <<>> PROVE pathQuery[1] = r[1] /\ r[1] # "#" /\ r # <<>>
      <4>1. Len(pathQuery) = hash - 1 /\ Len(pathQuery) \in Nat \ {0}
        BY <1>3, <3>3, <3>4, EmptySeq DEF Beginning
      <4>2. 1 \in 1..(hash - 1)
        BY <1>2, <4>1
      <4>3. r # <<>>
        BY <1>2, <2>2, EmptySeq
      <4> QED
        BY <1>2, <2>2, <3>3, <4>2, <4>3 DEF Beginning
    <3> QED
      BY <3>4 DEF ResourceMarks
  <2> QED
    BY <2>1, <2>2
<1>5. mark \in 0..Len(pathQuery) /\ (mark # 0 => pathQuery[mark] = "?")
      /\ (mark = 0 => \A i \in 1..Len(pathQuery) : pathQuery[i] # "?")
      /\ \A i \in 1..(mark - 1) : mark # 0 => pathQuery[i] # "?"
  BY <1>3, FindFinds
<1>6. Len(pathQuery) \in Nat
  BY <1>3, LenProperties
<1>7. path \in Seq(Ascii) /\ (path # <<>> => path[1] = "/")
  <2>1. CASE mark = 0
    <3>1. path = pathQuery
      BY <2>1
    <3>2. pathQuery # <<>> => 1 \in 1..Len(pathQuery)
      BY <1>3, <1>6, EmptySeq
    <3> QED
      BY <1>3, <1>4, <1>5, <2>1, <3>1, <3>2
  <2>2. CASE mark # 0
    <3>1. Before(pathQuery, mark) \in Seq(Ascii) /\ Beginning(Before(pathQuery, mark), pathQuery, mark - 1)
      BY <1>3, <1>5, <2>2, BeforeIs
    <3>2. path = Before(pathQuery, mark)
      BY <2>2
    <3>3. path \in Seq(Ascii) /\ Beginning(path, pathQuery, mark - 1)
      BY <3>1, <3>2, Zenon
    <3>4. ASSUME path # <<>> PROVE path[1] = "/"
      <4>1. Len(path) = mark - 1 /\ Len(path) \in Nat \ {0}
        BY <3>3, <3>4, EmptySeq DEF Beginning
      <4>2. 1 \in 1..(mark - 1)
        BY <1>5, <4>1
      <4>3. pathQuery # <<>>
        BY <1>3, <1>5, <2>2, EmptySeq
      <4>4. path[1] = pathQuery[1] /\ pathQuery[1] # "?"
        BY <1>5, <2>2, <3>3, <4>2 DEF Beginning
      <4> QED
        BY <1>4, <4>3, <4>4
    <3> QED
      BY <3>3, <3>4
  <2> QED
    BY <2>1, <2>2
<1>8. p = path
  BY <1>7, PathShown
<1>9. Cat(p, q) = pathQuery /\ q \in Seq(Ascii)
  <2>1. PICK query : query = After(pathQuery, mark)
    OBVIOUS
  <2>2. query \in Seq(Ascii)
    BY <1>3, <1>5, <2>1, AfterIs
  <2>3. CASE mark = 0
    <3>1. q = QueryText(SplitQuery(query, FALSE))
      BY <2>1, <2>3
    <3>2. q = <<>>
      BY <2>2, <3>1, QueryShown
    <3>3. path = pathQuery
      BY <2>3
    <3>4. Cat(pathQuery, <<>>) = pathQuery /\ <<>> \in Seq(Ascii)
      BY <1>3, CatTexts, EmptySeq
    <3> QED
      BY <1>8, <3>2, <3>3, <3>4
  <2>4. CASE mark # 0
    <3>1. q = QueryText(SplitQuery(query, TRUE))
      BY <2>1, <2>4
    <3>2. q = Led("?", query)
      BY <2>2, <3>1, QueryShown
    <3>3. path = Before(pathQuery, mark)
      BY <2>4
    <3>4. mark \in 1..Len(pathQuery)
      BY <1>5, <1>6, <2>4
    <3>5. Cat(Before(pathQuery, mark), Led(pathQuery[mark], After(pathQuery, mark))) = pathQuery
      BY <1>3, <3>4, CutShown
    <3>6. pathQuery[mark] = "?"
      BY <1>5, <2>4
    <3>7. Led("?", query) \in Seq(Ascii)
      BY <1>1, <2>2, LedType
    <3> QED
      BY <1>8, <2>1, <3>2, <3>3, <3>5, <3>6, <3>7, Zenon
  <2> QED
    BY <2>3, <2>4
<1>10. f = IF fragment = <<>> THEN <<>> ELSE Led("#", fragment)
  BY <1>3, FragmentShown
<1>11. f \in Seq(Ascii)
  <2>1. Led("#", fragment) \in Seq(Ascii) /\ <<>> \in Seq(Ascii)
    BY <1>1, <1>3, LedType, EmptySeq
  <2> QED
    BY <1>10, <2>1
<1>12. Cat(pathQuery, f) = WithoutEmptyFragment(r)
  <2>1. CASE hash = 0
    <3>1. f = <<>> /\ pathQuery = r /\ WithoutEmptyFragment(r) = r
      BY <1>10, <2>1 DEF WithoutEmptyFragment
    <3>2. Cat(r, <<>>) = r
      BY CatTexts, EmptySeq
    <3> QED
      BY <3>1, <3>2
  <2>2. CASE hash # 0
    <3>1. hash \in 1..Len(r)
      BY <1>1, <1>2, <2>2
    <3>2. pathQuery = Before(r, hash) /\ fragment = After(r, hash)
      BY <2>2
    <3>3. Ending(After(r, hash), r, hash)
      BY <1>2, AfterIs
    <3>4. Len(fragment) = Len(r) - hash
      BY <3>2, <3>3 DEF Ending
    <3>5. fragment = <<>> <=> hash = Len(r)
      <4>1. fragment = <<>> <=> Len(fragment) = 0
        BY <1>3, EmptySeq
      <4> QED
        BY <1>1, <3>1, <3>4, <4>1
    <3>6. CASE hash = Len(r)
      <4>1. f = <<>> /\ WithoutEmptyFragment(r) = pathQuery
        BY <1>10, <2>2, <3>2, <3>5, <3>6 DEF WithoutEmptyFragment
      <4>2. Cat(pathQuery, <<>>) = pathQuery
        BY <1>3, CatTexts, EmptySeq
      <4> QED
        BY <4>1, <4>2
    <3>7. CASE hash # Len(r)
      <4>1. f = Led("#", fragment) /\ WithoutEmptyFragment(r) = r
        BY <1>10, <3>5, <3>7 DEF WithoutEmptyFragment
      <4>2. Cat(Before(r, hash), Led(r[hash], After(r, hash))) = r
        BY <3>1, CutShown
      <4>3. r[hash] = "#"
        BY <1>2, <2>2
      <4> QED
        BY <3>2, <4>1, <4>2, <4>3, Zenon
    <3> QED
      BY <3>6, <3>7
  <2> QED
    BY <2>1, <2>2
<1> QED
  BY <1>7, <1>8, <1>9, <1>11, <1>12

LEMMA FourTexts ==
  ASSUME NEW A, NEW a \in Seq(A), NEW b \in Seq(A), NEW c \in Seq(A), NEW d \in Seq(A)
  PROVE  /\ Cat(Cat(Cat(a, b), c), d) = Cat(a, Cat(Cat(b, c), d))
         /\ Cat(Cat(Cat(a, b), c), d) \in Seq(A)
         /\ Cat(Cat(b, c), d) \in Seq(A)
<1>1. PICK bc \in Seq(A) : bc = Cat(b, c)
  BY CatTexts
<1>2. Cat(Cat(a, b), c) = Cat(a, bc)
  BY <1>1, CatTexts
<1>3. bc \in Seq(A)
  BY <1>1
<1>4. Cat(Cat(a, bc), d) = Cat(a, Cat(bc, d)) /\ Cat(bc, d) \in Seq(A)
  BY <1>3, CatTexts
<1>5. PICK e \in Seq(A) : e = Cat(bc, d)
  BY <1>4
<1>6. e \in Seq(A)
  BY <1>5
<1>7. Cat(a, e) \in Seq(A)
  BY <1>6, CatTexts
<1> QED
  BY <1>1, <1>2, <1>4, <1>5, <1>7

(* Display puts the scheme and the host first, then the resource. *)
LEMMA DisplayGrouped ==
  ASSUME NEW u, Scheme(u.https) \in Seq(Ascii), u.host \in Seq(Ascii), u.tld \in Seq(Ascii),
         PathText(u.path) \in Seq(Ascii), QueryText(u.query) \in Seq(Ascii),
         FragmentText(u.fragment) \in Seq(Ascii)
  PROVE  Display(u) = Cat(Cat(Scheme(u.https), HostText(u)),
                          Cat(Cat(PathText(u.path), QueryText(u.query)), FragmentText(u.fragment)))
<1> DEFINE X == Ascii \cup {"www"}
           www == IF u.www THEN <<"www", ".">> ELSE <<>>
           dotted == IF u.tld = <<>> THEN <<>> ELSE Led(".", u.tld)
<1>1. Display(u) = Cat(Cat(Cat(Cat(Cat(Cat(Scheme(u.https), www), u.host), dotted),
                               PathText(u.path)), QueryText(u.query)), FragmentText(u.fragment))
  BY Zenon DEF Display, Cat, Led, PathText, QueryText, FragmentText
<1>2. HostText(u) = Cat(Cat(www, u.host), dotted)
  BY DEF HostText
<1>3. Ascii \subseteq X /\ "." \in X /\ "www" \in X /\ "." \in Ascii
  BY NoNewDelimiter DEF Delimiters
<1> HIDE DEF X
<1>4. Seq(Ascii) \subseteq Seq(X)
  BY <1>3, SeqMonotonic
<1>5. www \in Seq(X) /\ dotted \in Seq(X)
  <2>1. <<>> \in Seq(X) /\ <<"www", ".">> \in Seq(X)
    BY <1>3
  <2>2. Led(".", u.tld) \in Seq(Ascii)
    BY <1>3, LedType
  <2> QED
    BY <1>4, <2>1, <2>2
<1> HIDE DEF www, dotted
<1>6. PICK s \in Seq(X), h \in Seq(X), p \in Seq(X), q \in Seq(X), f \in Seq(X) :
        /\ s = Scheme(u.https) /\ h = u.host
        /\ p = PathText(u.path) /\ q = QueryText(u.query) /\ f = FragmentText(u.fragment)
  BY <1>4
<1>7. PICK w \in Seq(X), d \in Seq(X) : w = www /\ d = dotted
  BY <1>5
<1>8. s \in Seq(X) /\ h \in Seq(X) /\ p \in Seq(X) /\ q \in Seq(X) /\ f \in Seq(X) /\ w \in Seq(X) /\ d \in Seq(X)
  BY <1>6, <1>7
<1>9. Cat(Cat(Cat(s, w), h), d) = Cat(s, Cat(Cat(w, h), d)) /\ Cat(Cat(Cat(s, w), h), d) \in Seq(X)
  BY <1>8, FourTexts
<1>10. PICK head \in Seq(X) : head = Cat(Cat(Cat(s, w), h), d)
  BY <1>9
<1>11. head \in Seq(X)
  BY <1>10
<1>12. Cat(Cat(Cat(head, p), q), f) = Cat(head, Cat(Cat(p, q), f))
  BY <1>8, <1>11, FourTexts
<1> QED
  BY <1>1, <1>2, <1>6, <1>7, <1>9, <1>10, <1>12

(* What is parsed after the scheme: an authority, then a resource. *)
RestIs(u, https, rest, authority, resource) ==
  /\ authority # <<>>
  /\ ParseAuthority(authority, https).ok
  /\ u.https = https
  /\ u.www = ParseAuthority(authority, https).url.www
  /\ u.host = ParseAuthority(authority, https).url.host
  /\ u.tld = ParseAuthority(authority, https).url.tld
  /\ PathText(u.path) \in Seq(Ascii) /\ QueryText(u.query) \in Seq(Ascii)
  /\ FragmentText(u.fragment) \in Seq(Ascii)
  /\ Cat(Cat(PathText(u.path), QueryText(u.query)), FragmentText(u.fragment))
       = WithoutEmptyFragment(resource)

LEMMA RestShown ==
  ASSUME NEW https, NEW rest \in Seq(Ascii), ParseRest(https, rest).ok,
         NEW stop, stop = Find(rest, ResourceMarks)
  PROVE  RestIs(ParseRest(https, rest).url, https, rest,
                IF stop = 0 THEN rest ELSE Before(rest, stop),
                IF stop = 0 THEN <<>> ELSE SubSeq(rest, stop, Len(rest)))
<1> DEFINE cut       == Find(rest, {"/", "?", "#"})
           authority == IF cut = 0 THEN rest ELSE Before(rest, cut)
           resource  == IF cut = 0 THEN <<>> ELSE SubSeq(rest, cut, Len(rest))
           hash      == Find(resource, {"#"})
           pathQuery == IF hash = 0 THEN resource ELSE Before(resource, hash)
           mark      == Find(pathQuery, {"?"})
           path      == IF mark = 0 THEN pathQuery ELSE Before(pathQuery, mark)
           query     == SplitQuery(After(pathQuery, mark), mark # 0)
           fragment  == IF hash = 0 THEN <<>> ELSE After(resource, hash)
           auth      == ParseAuthority(authority, https)
           u == [https    |-> https,
                 www      |-> auth.url.www,
                 host     |-> auth.url.host,
                 tld      |-> auth.url.tld,
                 index    |-> DetectIndexSuffix(SplitPath(path)),
                 path     |-> SplitPath(path),
                 query    |-> query,
                 fragment |-> SplitFragment(fragment)]
<1>1. ParseRest(https, rest) = IF ~auth.ok THEN Invalid ELSE Valid(u)
  BY Zenon DEF ParseRest
<1>2. auth.ok /\ ParseRest(https, rest).url = u
  <2> HIDE DEF auth, u
  <2> QED
    BY <1>1 DEF Invalid, Valid
<1>0. cut \in 0..Len(rest) /\ Len(rest) \in Nat /\ (cut # 0 => rest[cut] \in ResourceMarks)
  BY FindFinds, LenProperties DEF ResourceMarks
<1>8. stop = cut
  BY DEF ResourceMarks
<1> HIDE DEF cut
<1>3. authority # <<>>
  <2>1. CASE authority = <<>>
    <3>1. auth = Invalid
      BY <2>1, Zenon DEF ParseAuthority
    <3> HIDE DEF auth
    <3> QED
      BY <1>2, <3>1 DEF Invalid
  <2> QED
    BY <2>1
<1>4. resource \in Seq(Ascii) /\ (resource # <<>> => resource[1] \in ResourceMarks)
  <2>2. CASE cut = 0
    BY <2>2, EmptySeq
  <2>3. CASE cut # 0
    <3>1. cut \in 1..(Len(rest) + 1) /\ Len(rest) \in (cut - 1)..Len(rest)
          /\ 1 \in 1..(Len(rest) - cut + 1) /\ cut + 1 - 1 = cut
      BY <1>0, <2>3
    <3>2. SubSeq(rest, cut, Len(rest)) \in Seq(Ascii)
          /\ SubSeq(rest, cut, Len(rest))[1] = rest[cut + 1 - 1]
      BY <3>1, PartOfText
    <3> QED
      BY <1>0, <2>3, <3>1, <3>2
  <2> QED
    BY <2>2, <2>3
<1>5. u.https = https /\ u.www = auth.url.www /\ u.host = auth.url.host /\ u.tld = auth.url.tld
      /\ u.path = SplitPath(path) /\ u.query = query /\ u.fragment = SplitFragment(fragment)
  OBVIOUS
<1>6. /\ PathText(SplitPath(path)) \in Seq(Ascii) /\ QueryText(query) \in Seq(Ascii)
      /\ FragmentText(SplitFragment(fragment)) \in Seq(Ascii)
      /\ Cat(Cat(PathText(SplitPath(path)), QueryText(query)), FragmentText(SplitFragment(fragment)))
           = WithoutEmptyFragment(resource)
  <2>1. PICK r : r = resource
    OBVIOUS
  <2>2. r \in Seq(Ascii) /\ (r # <<>> => r[1] \in ResourceMarks)
    BY <1>4, <2>1
  <2> HIDE DEF resource
  <2>3. PICK h : h = Find(r, {"#"})
    OBVIOUS
  <2>4. PICK pq : pq = IF h = 0 THEN r ELSE Before(r, h)
    OBVIOUS
  <2>5. PICK m : m = Find(pq, {"?"})
    OBVIOUS
  <2>6. PICK w : w = IF m = 0 THEN pq ELSE Before(pq, m)
    OBVIOUS
  <2>7. PICK f : f = IF h = 0 THEN <<>> ELSE After(r, h)
    OBVIOUS
  <2>8. path = w /\ fragment = f /\ query = SplitQuery(After(pq, m), m # 0)
    BY <2>1, <2>3, <2>4, <2>5, <2>6, <2>7
  <2>9. PICK x : x = PathText(SplitPath(w))
    OBVIOUS
  <2>10. PICK y : y = QueryText(SplitQuery(After(pq, m), m # 0))
    OBVIOUS
  <2>11. PICK z : z = FragmentText(SplitFragment(f))
    OBVIOUS
  <2> HIDE DEF path, fragment, query, hash, mark, pathQuery
  <2>12. x \in Seq(Ascii) /\ y \in Seq(Ascii) /\ z \in Seq(Ascii) /\ Cat(Cat(x, y), z) = WithoutEmptyFragment(r)
    BY <2>2, <2>3, <2>4, <2>5, <2>6, <2>7, <2>9, <2>10, <2>11, ResourceShown
  <2> QED
    BY <2>1, <2>8, <2>9, <2>10, <2>11, <2>12
<1> HIDE DEF u
<1>7. RestIs(ParseRest(https, rest).url, https, rest, authority, resource)
  BY <1>2, <1>3, <1>5, <1>6 DEF RestIs
<1> QED
  BY <1>7, <1>8

(* Neither the scheme nor the host nor the port of a text has a "#". *)
LEMMA HeadHasNoHash ==
  ASSUME NEW t \in ClosedTexts, Starts(t), NEW last, Limits(t, last),
         NEW part \in TidyTexts, Len(part) <= last - 4,
         \A i \in 1..Len(part) : part[i] = t[4 + i],
         NEW suffix \in PortTails,
         NEW g, g = Cat(HeadText(t, part), suffix)
  PROVE  g \in Seq(Ascii) /\ \A i \in 1..Len(g) : g[i] # "#"
<1> DEFINE A == Ascii \ {"#"}
<1>1. t \in Seq(Ascii) /\ part \in Seq(Ascii) /\ Len(part) \in Nat /\ last \in 5..Len(t) /\ Len(t) \in Nat
  BY LenProperties DEF ClosedTexts, TidyTexts, Limits
<1>2. PICK n : n = NormalizeHostEscapes(part)
  OBVIOUS
<1>3. n \in Seq(A)
  <2>1. \A i \in 1..Len(part) : part[i] \notin {"#"}
    <3> TAKE i \in 1..Len(part)
    <3>1. 4 + i \in 5..last
      BY <1>1
    <3> QED
      BY <3>1 DEF Limits, ResourceMarks
  <2>2. part \in Seq(A)
    BY <1>1, <2>1, FewerCharacters
  <2>3. {"#"} \in SUBSET Delimiters
    BY DEF Delimiters
  <2> QED
    BY <1>2, <2>2, <2>3, HostEscapesKeep
<1>4. PICK x : x = Scheme(Secure(t))
  OBVIOUS
<1>5. x \in Seq(A)
  <2>1. x \in Seq(Ascii) /\ Len(x) = 4 /\ x[1] = Lower(t[1]) /\ x[2] = t[2] /\ x[3] = t[3] /\ x[4] = t[4]
    BY <1>1, <1>4, SchemeType
  <2>2. \A i \in 1..Len(x) : x[i] \notin {"#"}
    BY <2>1 DEF Starts
  <2> QED
    BY <2>1, <2>2, FewerCharacters
<1>6. suffix \in Seq(A)
  <2>1. CASE suffix = <<>>
    BY <2>1, EmptySeq
  <2>2. CASE suffix # <<>>
    <3>1. PICK p \in DOMAIN PortText : suffix = <<":", PortText[p]>>
      BY <2>2 DEF PortTails
    <3>2. PortText[p] \in DOMAIN Numeral
      BY CharacterSet
    <3>3. PortText[p] \in A /\ ":" \in A
      BY <3>2, NoNewDelimiter DEF Delimiters
    <3> HIDE DEF A
    <3> QED
      BY <3>1, <3>3
  <2> QED
    BY <2>1, <2>2
<1> HIDE DEF A
<1>7. PICK h : h = Cat(x, n)
  OBVIOUS
<1>8. h \in Seq(A)
  BY <1>3, <1>5, <1>7, CatLength
<1>9. g = Cat(h, suffix)
  BY <1>2, <1>4, <1>7 DEF HeadText
<1>10. g \in Seq(A)
  BY <1>6, <1>8, <1>9, CatLength
<1>11. A \subseteq Ascii /\ \A i \in 1..Len(g) : g[i] \in A
  <2>1. \A i \in 1..Len(g) : g[i] \in A
    BY <1>10, ElementOfSeq
  <2> QED
    BY <2>1 DEF A
<1>12. g \in Seq(Ascii)
  BY <1>10, <1>11, SeqMonotonic
<1> QED
  BY <1>11, <1>12 DEF A

(* The pieces of the text of an accepted URL: t is the text in normal form, *)
(* rest what follows the scheme, authority and r the parts of it stop       *)
(* divides, last the place in t the authority ends at, part and suffix the  *)
(* host and the port in the authority.                                      *)
UrlCut(s, t, rest, stop, authority, r, last, part, suffix) ==
  /\ t \in ClosedTexts /\ Starts(t) /\ Spell(s) = t
  /\ ParseUrl(s) = ParseRest(Secure(t), rest)
  /\ rest \in TidyTexts
  /\ Divided(t, rest, stop, authority, r)
  /\ authority # <<>> /\ authority \in TidyTexts /\ ParseAuthority(authority, Secure(t)).ok
  /\ Limits(t, last) /\ Placed(authority, t, last) /\ r = After(t, last)
  /\ AuthorityIs(authority, Secure(t), part, suffix)
  /\ suffix \in PortTails
  /\ (suffix = <<>> => part[Len(part)] # ".") =>
       /\ HostText(ParseAuthority(authority, Secure(t)).url)
            = Cat(NormalizeHostEscapes(part), suffix)
       /\ ParseAuthority(authority, Secure(t)).url.host \in Seq(Ascii)
       /\ ParseAuthority(authority, Secure(t)).url.tld \in Seq(Ascii)

LEMMA UrlIsCut ==
  ASSUME NEW s \in Seq(Characters), ParseUrl(s).ok
  PROVE  \E t, rest, stop, authority, r, last, part, suffix :
           UrlCut(s, t, rest, stop, authority, r, last, part, suffix)
<1>1. PICK t \in ClosedTexts :
        /\ NormalizePercentEncoding(s).ok /\ t = NormalizePercentEncoding(s).url
        /\ Starts(t) /\ ParseUrl(s) = ParseRest(Secure(t), After(t, 4))
  BY SchemeShown
<1>2. Spell(s) = t
  BY <1>1, SpellIsNormal
<1>3. PICK rest : rest = After(t, 4)
  OBVIOUS
<1>4. t \in TidyTexts /\ t \in Seq(Ascii) /\ Len(t) \in Nat /\ Len(t) >= 4 /\ 4 \in 0..Len(t)
  BY <1>1, ClosedIsTidy, LenProperties DEF ClosedTexts, TidyTexts, Starts
<1>5. rest \in TidyTexts /\ rest \in Seq(Ascii) /\ Len(rest) \in Nat
  <2>1. rest \in TidyTexts
    BY <1>3, <1>4, TidyCuts
  <2> QED
    BY <2>1, LenProperties DEF TidyTexts
<1>6. PICK u : u = ParseUrl(s).url
  OBVIOUS
<1>7. PICK secure : secure = Secure(t)
  OBVIOUS
<1>8. ParseRest(secure, rest).ok /\ u = ParseRest(secure, rest).url
  BY <1>1, <1>3, <1>6, <1>7
<1>9. PICK stop : stop = Find(rest, ResourceMarks)
  OBVIOUS
<1>10. PICK authority : authority = IF stop = 0 THEN rest ELSE Before(rest, stop)
  OBVIOUS
<1>11. PICK r : r = IF stop = 0 THEN <<>> ELSE SubSeq(rest, stop, Len(rest))
  OBVIOUS
<1>12. RestIs(u, secure, rest, authority, r)
  BY <1>5, <1>8, <1>9, <1>10, <1>11, RestShown
<1>13. authority # <<>> /\ ParseAuthority(authority, secure).ok
  BY <1>12 DEF RestIs
<1>14. authority \in TidyTexts
  <2>1. stop \in 0..Len(rest)
    BY <1>5, <1>9, FindFinds
  <2>2. stop # 0 => Before(rest, stop) \in TidyTexts
    BY <1>5, <2>1, TidyCuts
  <2> QED
    BY <1>5, <1>10, <2>2
<1>15. Divided(t, rest, stop, authority, r)
  BY <1>3, <1>9, <1>10, <1>11 DEF Divided
<1>16. PICK last : Limits(t, last) /\ Placed(authority, t, last) /\ r = After(t, last)
  BY <1>4, <1>13, <1>15, RestCut
<1>17. PICK part, suffix :
         /\ AuthorityIs(authority, secure, part, suffix)
         /\ suffix \in PortTails
         /\ (suffix = <<>> => part[Len(part)] # ".") =>
              /\ HostText(ParseAuthority(authority, secure).url)
                   = Cat(NormalizeHostEscapes(part), suffix)
              /\ ParseAuthority(authority, secure).url.host \in Seq(Ascii)
              /\ ParseAuthority(authority, secure).url.tld \in Seq(Ascii)
  BY <1>13, <1>14, AuthorityShown
<1>18. UrlCut(s, t, rest, stop, authority, r, last, part, suffix)
  BY <1>1, <1>2, <1>3, <1>5, <1>7, <1>13, <1>14, <1>15, <1>16, <1>17 DEF UrlCut
<1> QED
  BY <1>18

(* The host is the part of t after the scheme. *)
LEMMA HostPlaced ==
  ASSUME NEW t, NEW last, NEW authority, Placed(authority, t, last), authority \in Seq(Ascii),
         NEW https, NEW part, NEW suffix, AuthorityIs(authority, https, part, suffix)
  PROVE  Len(part) <= last - 4 /\ \A i \in 1..Len(part) : part[i] = t[4 + i]
<1>1. Len(part) \in Nat /\ (Len(authority) = Len(part) \/ Len(authority) = Len(part) + 2)
  BY LenProperties DEF AuthorityIs, TidyTexts
<1>2. Len(part) <= Len(authority) /\ \A i \in 1..Len(part) : i \in 1..Len(authority)
  BY <1>1
<1>3. \A i \in 1..Len(part) : part[i] = authority[i]
  BY DEF AuthorityIs
<1> QED
  BY <1>2, <1>3 DEF Placed

(* The normal text of an accepted URL: its head without a default port and *)
(* in lower case, its resource without an empty fragment.                  *)
LEMMA NormalTextIs ==
  ASSUME NEW s, NEW t, NEW rest, NEW stop, NEW authority, NEW r, NEW last, NEW part, NEW suffix,
         UrlCut(s, t, rest, stop, authority, r, last, part, suffix)
  PROVE  NormalText(s) = Cat(Cat(HeadText(t, part), suffix), WithoutEmptyFragment(r))
<1>1. /\ t \in ClosedTexts /\ Starts(t) /\ Spell(s) = t /\ Limits(t, last)
      /\ Placed(authority, t, last) /\ r = After(t, last)
      /\ AuthorityIs(authority, Secure(t), part, suffix) /\ suffix \in PortTails
  BY DEF UrlCut
<1>2. authority \in Seq(Ascii) /\ part \in TidyTexts /\ t \in Seq(Ascii)
  BY <1>1 DEF UrlCut, AuthorityIs, TidyTexts, ClosedTexts
<1>3. PICK c : c = CanonicalPort(LowerHead(t))
  OBVIOUS
<1>4. PICK g : g = Cat(HeadText(t, part), suffix)
  OBVIOUS
<1>5. c = Cat(g, r)
  <2>1. CanonicalPort(LowerHead(t)) = Cat(Cat(HeadText(t, part), suffix), After(t, last))
    BY <1>1, CanonicalShown
  <2> QED
    BY <1>1, <1>3, <1>4, <2>1
<1>6. g \in Seq(Ascii) /\ \A i \in 1..Len(g) : g[i] # "#"
  <2>1. Len(part) <= last - 4 /\ \A i \in 1..Len(part) : part[i] = t[4 + i]
    BY <1>1, <1>2, HostPlaced
  <2> QED
    BY <1>1, <1>2, <1>4, <2>1, HeadHasNoHash
<1>7. r \in Seq(Ascii)
  <2>1. last \in 0..Len(t)
    BY <1>1, <1>2, LenProperties DEF Limits
  <2> QED
    BY <1>1, <1>2, <2>1, AfterIs
<1>8. DropEmptyFragment(Cat(g, r)) = Cat(g, WithoutEmptyFragment(r))
  BY <1>6, <1>7, FragmentDropped
<1>9. NormalText(s) = DropEmptyFragment(c)
  BY <1>1, <1>3 DEF NormalText
<1> QED
  BY <1>4, <1>5, <1>8, <1>9

(* The fields of an accepted URL, put together again, are its normal text. *)
LEMMA DisplayShown ==
  ASSUME NEW s \in Seq(Characters), ParseUrl(s).ok, ~HasTrailingDot(s)
  PROVE  Display(ParseUrl(s).url) = NormalText(s)
<1>1. PICK t, rest, stop, authority, r, last, part, suffix :
        UrlCut(s, t, rest, stop, authority, r, last, part, suffix)
  BY UrlIsCut
<1>2. /\ t \in ClosedTexts /\ Starts(t) /\ Spell(s) = t /\ Limits(t, last)
      /\ rest \in TidyTexts /\ Divided(t, rest, stop, authority, r)
      /\ Placed(authority, t, last) /\ suffix \in PortTails
  BY <1>1 DEF UrlCut
<1>3. PICK u : u = ParseUrl(s).url
  OBVIOUS
<1>4. PICK secure : secure = Secure(t)
  OBVIOUS
<1>5. AuthorityIs(authority, secure, part, suffix)
  BY <1>1, <1>4 DEF UrlCut
<1>6. RestIs(u, secure, rest, authority, r)
  <2>1. ParseRest(secure, rest).ok /\ u = ParseRest(secure, rest).url /\ rest \in Seq(Ascii)
    BY <1>1, <1>2, <1>3, <1>4 DEF UrlCut, TidyTexts
  <2>2. /\ stop = Find(rest, ResourceMarks)
        /\ authority = (IF stop = 0 THEN rest ELSE Before(rest, stop))
        /\ r = (IF stop = 0 THEN <<>> ELSE SubSeq(rest, stop, Len(rest)))
    BY <1>2 DEF Divided
  <2> QED
    BY <2>1, <2>2, RestShown
<1>7. suffix = <<>> => part[Len(part)] # "."
  <2> SUFFICES ASSUME suffix = <<>>, part[Len(part)] = "." PROVE FALSE
    OBVIOUS
  <2>1. AuthorityIs(authority, Secure(t), part, <<>>)
    BY <1>4, <1>5
  <2>2. PICK c : c = CanonicalPort(LowerHead(t))
    OBVIOUS
  <2>3. c[AuthorityLast(c)] = "."
    BY <1>2, <2>1, <2>2, DotSeen
  <2>4. HasTrailingDot(s)
    BY <1>2, <2>2, <2>3 DEF HasTrailingDot
  <2> QED
    BY <2>4
<1>8. /\ HostText(u) = Cat(NormalizeHostEscapes(part), suffix)
      /\ u.host \in Seq(Ascii) /\ u.tld \in Seq(Ascii) /\ u.https = secure
  <2>1. HostText(u) = HostText(ParseAuthority(authority, secure).url)
        /\ u.host = ParseAuthority(authority, secure).url.host
        /\ u.tld = ParseAuthority(authority, secure).url.tld /\ u.https = secure
    BY <1>6 DEF RestIs, HostText
  <2>2. /\ HostText(ParseAuthority(authority, secure).url) = Cat(NormalizeHostEscapes(part), suffix)
        /\ ParseAuthority(authority, secure).url.host \in Seq(Ascii)
        /\ ParseAuthority(authority, secure).url.tld \in Seq(Ascii)
    BY <1>1, <1>4, <1>7 DEF UrlCut
  <2> QED
    BY <2>1, <2>2
<1>9. PICK x : x = Scheme(secure)
  OBVIOUS
<1>10. x \in Seq(Ascii)
  BY <1>2, <1>4, <1>9, SchemeType DEF ClosedTexts
<1>11. Display(u) = Cat(Cat(x, HostText(u)), WithoutEmptyFragment(r))
  <2>1. /\ PathText(u.path) \in Seq(Ascii) /\ QueryText(u.query) \in Seq(Ascii)
        /\ FragmentText(u.fragment) \in Seq(Ascii)
        /\ Cat(Cat(PathText(u.path), QueryText(u.query)), FragmentText(u.fragment)) = WithoutEmptyFragment(r)
    BY <1>6 DEF RestIs
  <2>2. Scheme(u.https) = x
    BY <1>8, <1>9
  <2>3. Scheme(u.https) \in Seq(Ascii)
    BY <1>10, <2>2
  <2>4. Display(u) = Cat(Cat(Scheme(u.https), HostText(u)),
                         Cat(Cat(PathText(u.path), QueryText(u.query)), FragmentText(u.fragment)))
    BY <1>8, <2>1, <2>3, DisplayGrouped
  <2> QED
    BY <2>1, <2>2, <2>4
<1>12. PICK n : n = NormalizeHostEscapes(part)
  OBVIOUS
<1>13. n \in Seq(Ascii) /\ suffix \in Seq(Ascii)
  <2>1. part \in TidyTexts
    BY <1>5 DEF AuthorityIs
  <2> QED
    BY <1>2, <1>12, <2>1, NormalHostType, SuffixType
<1>14. Cat(x, HostText(u)) = Cat(HeadText(t, part), suffix)
  <2>1. Cat(Cat(x, n), suffix) = Cat(x, Cat(n, suffix))
    BY <1>10, <1>13, CatTexts
  <2> QED
    BY <1>4, <1>8, <1>9, <1>12, <2>1 DEF HeadText
<1>15. NormalText(s) = Cat(Cat(HeadText(t, part), suffix), WithoutEmptyFragment(r))
  BY <1>1, NormalTextIs
<1> QED
  BY <1>3, <1>11, <1>14, <1>15

(* What normalisation leaves is not changed by another normalisation. *)
LEMMA LowerTwice ==
  ASSUME NEW c \in Ascii
  PROVE  Lower(Lower(c)) = Lower(c)
<1>1. CASE c \in DOMAIN LowerOf
  <2>1. Lower(c) \in ToSet(Lowers)
    BY <1>1, NoNewDelimiter
  <2>2. Lower(c) \notin DOMAIN LowerOf
    BY <2>1, UppersStandAlone, CharacterSet
  <2>3. PICK d : d = Lower(c)
    OBVIOUS
  <2>4. Lower(d) = d
    BY <2>2, <2>3 DEF Lower
  <2> QED
    BY <2>3, <2>4
<1>2. CASE c \notin DOMAIN LowerOf
  <2>1. Lower(c) = c
    BY <1>2 DEF Lower
  <2> QED
    BY <2>1
<1> QED
  BY <1>1, <1>2

(* Character i of a host is in an escape. *)
InHostEscape(s, i) == \E k \in 1..2 : i > k /\ s[i - k] = "%"

(* Normalising a host: an escape stays, the rest goes to lower case. *)
LEMMA HostEscapesAt ==
  ASSUME NEW part \in TidyTexts, NEW n, n = NormalizeHostEscapes(part), NEW i \in 1..Len(part)
  PROVE  /\ n[i] = IF InHostEscape(part, i) THEN part[i] ELSE Lower(part[i])
         /\ InHostEscape(part, i) => UpperDigit(part[i])
         /\ n[i] = "%" <=> part[i] = "%"
<1>1. part \in Seq(Ascii) /\ Tidy(part) /\ Len(part) \in Nat /\ part[i] \in Ascii
  BY ElementOfSeq, LenProperties DEF TidyTexts
<1>2. n[i] = IF InHostEscape(part, i) /\ IsHex(part[i]) THEN HexUp(part[i]) ELSE Lower(part[i])
  BY DEF NormalizeHostEscapes, InHostEscape
<1>3. InHostEscape(part, i) => UpperDigit(part[i])
  <2> SUFFICES ASSUME NEW k \in 1..2, i > k, part[i - k] = "%" PROVE UpperDigit(part[i])
    BY DEF InHostEscape
  <2>1. PICK j : j = i - k
    OBVIOUS
  <2>2. j \in 1..Len(part) /\ j + k = i /\ part[j] = "%"
    BY <1>1, <2>1
  <2> QED
    BY <1>1, <2>2 DEF Tidy
<1>4. n[i] = IF InHostEscape(part, i) THEN part[i] ELSE Lower(part[i])
  BY <1>2, <1>3 DEF UpperDigit, IsHex
<1>5. n[i] = "%" <=> part[i] = "%"
  <2>1. Lower(part[i]) = "%" <=> part[i] = "%"
    BY <1>1, LowerDelimiters DEF Delimiters
  <2> QED
    BY <1>4, <2>1
<1> QED
  BY <1>3, <1>4, <1>5

(* A host in normal form is its own. *)
LEMMA HostEscapesTwice ==
  ASSUME NEW part \in TidyTexts
  PROVE  NormalizeHostEscapes(NormalizeHostEscapes(part)) = NormalizeHostEscapes(part)
<1>1. PICK n : n = NormalizeHostEscapes(part)
  OBVIOUS
<1>2. PICK m : m = NormalizeHostEscapes(n)
  OBVIOUS
<1>3. part \in Seq(Ascii) /\ Len(part) \in Nat
  BY LenProperties DEF TidyTexts
<1>4. n \in TidyTexts /\ n \in Seq(Ascii) /\ Len(n) = Len(part)
  BY <1>1, NormalHostType, HostEscapesTidy
<1>5. m \in Seq(Ascii) /\ Len(m) = Len(n)
  BY <1>2, <1>4, NormalHostType
<1>6. ASSUME NEW i \in 1..Len(part) PROVE n[i] = "%" <=> part[i] = "%"
  BY <1>1, HostEscapesAt
<1>7. ASSUME NEW i \in 1..Len(part) PROVE m[i] = n[i]
  <2>1. InHostEscape(n, i) <=> InHostEscape(part, i)
    <3>1. \A k \in 1..2 : i > k => i - k \in 1..Len(part)
      BY <1>3
    <3>2. \A k \in 1..2 : i > k => (n[i - k] = "%" <=> part[i - k] = "%")
      BY <1>6, <3>1
    <3> QED
      BY <3>2 DEF InHostEscape
  <2>2. n[i] = IF InHostEscape(part, i) THEN part[i] ELSE Lower(part[i])
    BY <1>1, HostEscapesAt
  <2>3. m[i] = IF InHostEscape(n, i) THEN n[i] ELSE Lower(n[i])
    <3>1. i \in 1..Len(n)
      BY <1>4
    <3> QED
      BY <1>2, <1>4, <3>1, HostEscapesAt
  <2>4. part[i] \in Ascii
    BY <1>3, ElementOfSeq
  <2>5. Lower(Lower(part[i])) = Lower(part[i])
    BY <2>4, LowerTwice
  <2> QED
    BY <2>1, <2>2, <2>3, <2>5
<1>8. Len(m) = Len(n) /\ \A i \in 1..Len(m) : m[i] = n[i]
  BY <1>4, <1>5, <1>7
<1>9. m = n
  BY <1>4, <1>5, <1>8, SeqEqual
<1> QED
  BY <1>1, <1>2, <1>9

(* The rest of a text from a character on. *)
Onward(t, i) == SubSeq(t, i, Len(t))

(* It is its first character and the rest from the next one on. *)
LEMMA OnwardLed ==
  ASSUME NEW A, NEW t \in Seq(A), NEW i \in 1..Len(t)
  PROVE  /\ Onward(t, i) = Cat(One(t[i]), Onward(t, i + 1))
         /\ One(t[i]) \in Seq(A) /\ Onward(t, i + 1) \in Seq(A)
<1>1. Len(t) \in Nat /\ t[i] \in A
  BY LenProperties, ElementOfSeq
<1>2. PICK r : r = Onward(t, i)
  OBVIOUS
<1>3. PICK b : b = Onward(t, i + 1)
  OBVIOUS
<1>4. PICK a : a = One(t[i])
  OBVIOUS
<1>5. a \in Seq(A) /\ Len(a) = 1 /\ a[1] = t[i]
  <2>1. <<t[i]>> \in Seq(A) /\ Len(<<t[i]>>) = 1 /\ <<t[i]>>[1] = t[i]
    BY <1>1
  <2> QED
    BY <1>4, <2>1 DEF One
<1>6. /\ i \in 0..Len(t) /\ i - 1 \in 0..Len(t)
      /\ Onward(t, i) = After(t, i - 1) /\ Onward(t, i + 1) = After(t, i)
  <2>1. (i - 1) + 1 = i /\ i \in 0..Len(t) /\ i - 1 \in 0..Len(t)
    BY <1>1
  <2> QED
    BY <2>1 DEF Onward, After
<1>7. r \in Seq(A) /\ Ending(r, t, i - 1)
  BY <1>2, <1>6, AfterIs
<1>8. b \in Seq(A) /\ Ending(b, t, i)
  BY <1>3, <1>6, AfterIs
<1>9. CatIs(r, a, b)
  <2>1. Len(r) = Len(t) - (i - 1) /\ \A j \in 1..(Len(t) - (i - 1)) : r[j] = t[(i - 1) + j]
    BY <1>7 DEF Ending
  <2>2. Len(b) = Len(t) - i /\ \A j \in 1..(Len(t) - i) : b[j] = t[i + j]
    BY <1>8 DEF Ending
  <2>3. Len(r) = 1 + Len(b)
    BY <1>1, <2>1, <2>2
  <2>4. r[1] = t[i]
    <3>1. 1 \in 1..(Len(t) - (i - 1)) /\ (i - 1) + 1 = i
      BY <1>1
    <3> QED
      BY <2>1, <3>1
  <2>5. ASSUME NEW j \in 1..Len(b) PROVE r[1 + j] = b[j]
    <3>1. 1 + j \in 1..(Len(t) - (i - 1)) /\ (i - 1) + (1 + j) = i + j /\ j \in 1..(Len(t) - i)
      BY <1>1, <2>2
    <3>2. r[1 + j] = t[(i - 1) + (1 + j)] /\ b[j] = t[i + j]
      BY <2>1, <2>2, <3>1
    <3> QED
      BY <3>1, <3>2
  <2>6. \A j \in 1..Len(a) : r[j] = a[j]
    BY <1>5, <2>4
  <2> QED
    BY <1>5, <2>3, <2>5, <2>6 DEF CatIs
<1>10. r = Cat(a, b)
  BY <1>5, <1>7, <1>8, <1>9, CatFound
<1> QED
  BY <1>2, <1>3, <1>4, <1>5, <1>8, <1>10

(* The scan leaves a text it has scanned as it is. *)
LEMMA NormalTwice ==
  ASSUME NEW t \in ClosedTexts
  PROVE  NormalizePercentEncoding(t) = Valid(t)
<1> DEFINE N == Len(t)
           M == N + 3
<1>0. t \in Seq(Ascii) /\ Closed(t) /\ N \in Nat /\ M \in Nat /\ M = N + 3
  BY LenProperties DEF ClosedTexts
<1>1. t \in Seq(Characters)
  <2>1. Ascii \subseteq Characters
    BY ClassesAreAscii
  <2> QED
    BY <1>0, <2>1, SeqMonotonic
<1>2. PICK from : NormalGoes(from, t)
  BY <1>1, NormalSteps
<1> DEFINE Good(i) == from[i] = Valid(Onward(t, i))
           T == {i \in 1..M : Good(i)}
<1>3. ASSUME NEW i \in 1..M
      PROVE  from[i] = IF i > N THEN Valid(<<>>)
                       ELSE IF t[i] = "%" /\ ~WellFormed(t, i) THEN Invalid
                       ELSE IF from[NextAt(t, i)].ok
                       THEN Valid(Cat(HeadAt(t, i), from[NextAt(t, i)].url)) ELSE Invalid
  BY <1>2 DEF NormalGoes, Cat
<1>4. \A i \in (N + 1)..M : i \in T
  <2> SUFFICES ASSUME NEW i \in (N + 1)..M PROVE i \in T
    OBVIOUS
  <2>1. i \in 1..M /\ i > N
    BY <1>0
  <2>2. from[i] = Valid(<<>>)
    BY <1>3, <2>1
  <2>3. Onward(t, i) = <<>>
    <3>1. i \in Int /\ Len(t) \in Int /\ i > Len(t)
      BY <1>0, <2>1
    <3>2. SubSeq(t, i, Len(t)) = <<>>
      BY <3>1, <1>0, SubSeqEmpty
    <3> QED
      BY <3>2 DEF Onward
  <2> QED
    BY <2>1, <2>2, <2>3
<1>5. ASSUME NEW i \in 1..N, \A j \in (i + 1)..M : j \in T PROVE i \in T
  <2>1. i \in 1..M /\ ~(i > N) /\ i \in 1..Len(t)
    BY <1>0
  <2>2. PICK o1 : o1 = Onward(t, i + 1)
    OBVIOUS
  <2>3. Onward(t, i) = Cat(One(t[i]), o1) /\ o1 \in Seq(Ascii) /\ t[i] \in Ascii
    BY <1>0, <2>1, <2>2, OnwardLed, ElementOfSeq
  <2>4. CASE t[i] # "%"
    <3>1. NextAt(t, i) = i + 1 /\ i + 1 \in (i + 1)..M
      BY <1>0, <2>4 DEF NextAt
    <3>2. from[i + 1] = Valid(o1)
      BY <1>5, <2>2, <3>1
    <3>3. HeadAt(t, i) = One(t[i])
      <4>1. t[i] \notin DOMAIN Utf8
        BY <2>3, CharacterSet
      <4> QED
        BY <2>4, <4>1 DEF HeadAt, One
    <3>4. from[i] = Valid(Cat(One(t[i]), o1))
      <4>1. from[NextAt(t, i)] = Valid(o1)
        BY <3>1, <3>2
      <4>2. from[NextAt(t, i)].ok /\ from[NextAt(t, i)].url = o1
        BY <4>1 DEF Valid
      <4> HIDE DEF N, M
      <4> QED
        BY <1>3, <2>1, <2>4, <3>3, <4>2
    <3> QED
      BY <2>1, <2>3, <3>4
  <2>5. CASE t[i] = "%"
    <3>1. i + 2 <= N /\ UpperDigit(t[i + 1]) /\ UpperDigit(t[i + 2])
      BY <1>0, <2>1, <2>5 DEF Closed
    <3>2. i + 1 \in 1..Len(t) /\ i + 2 \in 1..Len(t) /\ (i + 1) + 1 = i + 2 /\ (i + 2) + 1 = i + 3
          /\ i + 3 \in (i + 1)..M
      BY <1>0, <3>1
    <3>3. NextAt(t, i) = i + 3 /\ WellFormed(t, i)
      BY <2>5, <3>1 DEF NextAt, WellFormed, UpperDigit, IsHex
    <3>4. PICK o2 : o2 = Onward(t, i + 2)
      OBVIOUS
    <3>5. PICK o3 : o3 = Onward(t, i + 3)
      OBVIOUS
    <3>6. o1 = Cat(One(t[i + 1]), o2) /\ t[i + 1] \in Ascii
      BY <1>0, <2>2, <3>2, <3>4, OnwardLed, ElementOfSeq
    <3>7. o2 = Cat(One(t[i + 2]), o3) /\ t[i + 2] \in Ascii /\ o3 \in Seq(Ascii)
      BY <1>0, <3>2, <3>4, <3>5, OnwardLed, ElementOfSeq
    <3>8. PICK a : a = One(t[i])
      OBVIOUS
    <3>9. PICK b : b = One(t[i + 1])
      OBVIOUS
    <3>10. PICK c : c = One(t[i + 2])
      OBVIOUS
    <3>11. a \in Seq(Ascii) /\ b \in Seq(Ascii) /\ c \in Seq(Ascii)
      BY <2>3, <3>6, <3>7, <3>8, <3>9, <3>10 DEF One
    <3>12. HeadAt(t, i) = Triple(t[i], t[i + 1], t[i + 2])
      <4>1. HeadAt(t, i) = Triple("%", HexUp(t[i + 1]), HexUp(t[i + 2]))
        <5>1. t[i] \notin DOMAIN Utf8
          BY <2>3, CharacterSet
        <5> QED
          BY <2>5, <5>1 DEF HeadAt, Triple
      <4>2. HexUp(t[i + 1]) = t[i + 1] /\ HexUp(t[i + 2]) = t[i + 2]
        BY <3>1 DEF UpperDigit
      <4> QED
        BY <2>5, <4>1, <4>2
    <3>13. Triple(t[i], t[i + 1], t[i + 2]) = Cat(Cat(a, b), c)
      <4>1. PICK x, y, z : x = t[i] /\ y = t[i + 1] /\ z = t[i + 2]
        OBVIOUS
      <4>2. x \in Ascii /\ y \in Ascii /\ z \in Ascii
        BY <2>3, <3>6, <3>7, <4>1
      <4>3. Triple(x, y, z) = Cat(Cat(One(x), One(y)), One(z))
        BY <4>2, TripleBuilt
      <4> QED
        BY <3>8, <3>9, <3>10, <4>1, <4>3
    <3>14. Cat(Cat(Cat(a, b), c), o3) = Cat(a, Cat(Cat(b, c), o3))
      BY <3>7, <3>11, FourTexts
    <3>15. Cat(Cat(b, c), o3) = Cat(b, Cat(c, o3))
      BY <3>7, <3>11, CatTexts
    <3>16. Onward(t, i) = Cat(HeadAt(t, i), o3)
      BY <2>3, <3>6, <3>7, <3>8, <3>9, <3>10, <3>12, <3>13, <3>14, <3>15
    <3>17. from[i] = Valid(Cat(HeadAt(t, i), o3))
      <4>1. from[NextAt(t, i)] = Valid(o3)
        BY <1>5, <3>2, <3>3, <3>5
      <4>2. from[NextAt(t, i)].ok /\ from[NextAt(t, i)].url = o3
        BY <4>1 DEF Valid
      <4> HIDE DEF N, M
      <4> QED
        BY <1>3, <2>1, <3>3, <4>2
    <3> QED
      BY <2>1, <3>16, <3>17
  <2> QED
    BY <2>4, <2>5
<1> HIDE DEF T
<1>6. \A i \in 1..M : i \in T
  <2> HIDE DEF N, M
  <2> QED
    BY <1>0, <1>4, <1>5, DownFrom
<1>7. from[1] = Valid(Onward(t, 1))
  <2>1. 1 \in 1..M
    BY <1>0
  <2> QED
    BY <1>6, <2>1 DEF T
<1>8. Onward(t, 1) = t
  <2>1. SubSeq(t, 1, Len(t)) = t
    BY <1>0, SubSeqFull
  <2> QED
    BY <2>1 DEF Onward
<1> QED
  BY <1>2, <1>7, <1>8 DEF NormalGoes

(* What ParseAuthority makes of a host part in lower case and its port. *)
Outcome(lowered, suffix) ==
  LET www   == IsPrefix(<<"www", ".">>, lowered)
      label == IF www THEN SubSeq(lowered, 3, Len(lowered)) ELSE lowered
      split == SplitHost(label, suffix)
  IN  IF label = <<>> \/ split.host = <<>> THEN Invalid
      ELSE Valid([www |-> www, host |-> split.host, tld |-> split.tld])

(* What ParseAuthority refuses before it looks at the host. *)
Barred(authority) == Contains(authority, "@") \/ authority[1] = "["

(* ParseAuthority of a host part and the port behind it. *)
LEMMA AuthorityBuilt ==
  ASSUME NEW authority \in Seq(Ascii), NEW https, NEW part, NEW suffix,
         AuthorityIs(authority, https, part, suffix)
  PROVE  ParseAuthority(authority, https) =
           IF Barred(authority) THEN Invalid ELSE Outcome(NormalizeHostEscapes(part), suffix)
<1> DEFINE colon   == RFind(authority, {":"})
           portTxt == After(authority, colon)
           number  == Len(portTxt) = 1 /\ portTxt[1] \in DOMAIN Numeral
           port    == Numeral[portTxt[1]]
           tail    == IF colon = 0 \/ port = DefaultPort(https) THEN <<>>
                      ELSE <<":", PortText[port]>>
           name    == IF colon = 0 THEN authority ELSE Before(authority, colon)
           lowered == NormalizeHostEscapes(name)
           www     == IsPrefix(<<"www", ".">>, lowered)
           label   == IF www THEN SubSeq(lowered, 3, Len(lowered)) ELSE lowered
           split   == SplitHost(label, tail)
<1>1. ParseAuthority(authority, https) =
        IF \/ authority = <<>> \/ Contains(authority, "@") \/ authority[1] = "["
           \/ colon # 0 /\ ~number
           \/ Contains(name, ":")
           \/ label = <<>> \/ split.host = <<>>
        THEN Invalid
        ELSE Valid([www |-> www, host |-> split.host, tld |-> split.tld])
  BY Zenon DEF ParseAuthority
<1>2. Outcome(lowered, tail) = IF label = <<>> \/ split.host = <<>> THEN Invalid
                               ELSE Valid([www |-> www, host |-> split.host, tld |-> split.tld])
  BY Zenon DEF Outcome
<1> HIDE DEF www, label, split
<1>3. ParseAuthority(authority, https) =
        IF authority = <<>> \/ Barred(authority) \/ (colon # 0 /\ ~number) \/ Contains(name, ":")
        THEN Invalid ELSE Outcome(lowered, tail)
  <2> HIDE DEF colon, number, name, lowered, tail
  <2> QED
    BY <1>1, <1>2 DEF Barred
<1>4. /\ part \in Seq(Ascii) /\ Len(part) \in Nat \ {0} /\ Len(authority) \in Nat
      /\ \A i \in 1..Len(part) : part[i] = authority[i] /\ part[i] # ":"
  BY EmptySeq, LenProperties DEF AuthorityIs, TidyTexts
<1>5. authority # <<>>
  <2>1. Len(authority) # 0
    BY <1>4 DEF AuthorityIs
  <2> QED
    BY <2>1, EmptySeq
<1>6. /\ colon \in 0..Len(authority)
      /\ colon = 0 => \A i \in 1..Len(authority) : authority[i] \notin {":"}
      /\ colon # 0 => /\ authority[colon] \in {":"}
                      /\ \A i \in (colon + 1)..Len(authority) : authority[i] \notin {":"}
  BY RFindFinds
<1> HIDE DEF colon, number, name, lowered, tail
<1>7. name = part /\ tail = suffix /\ ~(colon # 0 /\ ~number)
  <2>1. CASE Len(authority) = Len(part) /\ suffix = <<>>
    <3>1. colon = 0
      BY <1>4, <1>6, <2>1
    <3>2. authority = part
      BY <1>4, <2>1, SeqEqual
    <3> QED
      BY <2>1, <3>1, <3>2 DEF name, tail
  <2>2. CASE /\ Len(authority) = Len(part) + 2
             /\ authority[Len(part) + 1] = ":"
             /\ authority[Len(part) + 2] \in DOMAIN Numeral
             /\ suffix = IF Numeral[authority[Len(part) + 2]] = DefaultPort(https) THEN <<>>
                         ELSE <<":", PortText[Numeral[authority[Len(part) + 2]]]>>
    <3>1. colon = Len(part) + 1
      <4>1. authority[Len(part) + 2] # ":"
        BY <2>2, NoNewDelimiter DEF Delimiters
      <4>2. colon # 0
        <5>1. Len(part) + 1 \in 1..Len(authority)
          BY <1>4, <2>2
        <5> QED
          BY <1>6, <2>2, <5>1
      <4>3. colon > Len(part)
        <5>1. ~(colon \in 1..Len(part))
          BY <1>4, <1>6, <4>2
        <5> QED
          BY <1>4, <1>6, <4>2, <5>1
      <4>4. colon # Len(part) + 2
        BY <1>6, <4>1, <4>2
      <4>5. Len(authority) = Len(part) + 2
        BY <2>2
      <4> QED
        BY <1>4, <1>6, <4>3, <4>4, <4>5
    <3>2. colon \in 0..Len(authority) /\ colon # 0
      BY <1>4, <1>6, <3>1
    <3>3. PICK b : b = Before(authority, colon)
      OBVIOUS
    <3>4. b \in Seq(Ascii) /\ Beginning(b, authority, colon - 1)
      BY <3>2, <3>3, BeforeIs
    <3>5. b = part
      <4>1. colon - 1 = Len(part)
        BY <1>4, <3>1
      <4>2. Len(b) = Len(part) /\ \A i \in 1..Len(b) : b[i] = part[i]
        BY <1>4, <3>4, <4>1 DEF Beginning
      <4> QED
        BY <1>4, <3>4, <4>2, SeqEqual
    <3>6. PICK p : p = After(authority, colon)
      OBVIOUS
    <3>7. p \in Seq(Ascii) /\ Ending(p, authority, colon)
      BY <3>2, <3>6, AfterIs
    <3>8. Len(p) = 1 /\ p[1] = authority[Len(part) + 2]
      <4>1. Len(authority) - colon = 1 /\ colon + 1 = Len(part) + 2 /\ 1 \in 1..(Len(authority) - colon)
        BY <1>4, <2>2, <3>1
      <4> QED
        BY <3>7, <4>1 DEF Ending
    <3>9. number
      BY <2>2, <3>6, <3>8 DEF number
    <3>10. tail = suffix
      BY <2>2, <3>2, <3>6, <3>8 DEF tail
    <3>11. name = part
      BY <3>2, <3>3, <3>5 DEF name
    <3> QED
      BY <3>9, <3>10, <3>11
  <2> QED
    BY <2>1, <2>2 DEF AuthorityIs
<1>8. ~Contains(name, ":")
  <2>1. name[1] = name[1] /\ \A i \in 1..Len(name) : name[i] # ":"
    BY <1>4, <1>7
  <2> QED
    BY <2>1 DEF Contains
<1> QED
  BY <1>3, <1>5, <1>7, <1>8 DEF lowered

(* What ParseRest makes of the authority and the resource. *)
Assembled(https, auth, resource) ==
  LET hash      == Find(resource, {"#"})
      pathQuery == IF hash = 0 THEN resource ELSE Before(resource, hash)
      mark      == Find(pathQuery, {"?"})
      path      == SplitPath(IF mark = 0 THEN pathQuery ELSE Before(pathQuery, mark))
  IN  IF ~auth.ok THEN Invalid
      ELSE Valid([https    |-> https,
                  www      |-> auth.url.www,
                  host     |-> auth.url.host,
                  tld      |-> auth.url.tld,
                  index    |-> DetectIndexSuffix(path),
                  path     |-> path,
                  query    |-> SplitQuery(After(pathQuery, mark), mark # 0),
                  fragment |-> SplitFragment(IF hash = 0 THEN <<>>
                                             ELSE After(resource, hash))])

(* ParseRest is that, of the two parts it cuts the text into. *)
LEMMA RestAssembled ==
  ASSUME NEW https, NEW rest, NEW stop, stop = Find(rest, ResourceMarks)
  PROVE  ParseRest(https, rest) =
           Assembled(https, ParseAuthority(IF stop = 0 THEN rest ELSE Before(rest, stop), https),
                     IF stop = 0 THEN <<>> ELSE SubSeq(rest, stop, Len(rest)))
<1> DEFINE cut == Find(rest, {"/", "?", "#"})
<1>1. ParseRest(https, rest) =
        Assembled(https, ParseAuthority(IF cut = 0 THEN rest ELSE Before(rest, cut), https),
                  IF cut = 0 THEN <<>> ELSE SubSeq(rest, cut, Len(rest)))
  BY Zenon DEF ParseRest, Assembled
<1>2. cut = stop
  BY DEF ResourceMarks
<1> HIDE DEF cut
<1> QED
  BY <1>1, <1>2

(* An empty fragment has no segment, with or without its mark. *)
LEMMA AssembledTwice ==
  ASSUME NEW https, NEW auth, NEW r \in Seq(Ascii)
  PROVE  Assembled(https, auth, WithoutEmptyFragment(r)) = Assembled(https, auth, r)
<1>1. PICK hash : hash = Find(r, {"#"})
  OBVIOUS
<1>2. CASE ~(hash # 0 /\ hash = Len(r))
  BY <1>1, <1>2 DEF WithoutEmptyFragment
<1>3. CASE hash # 0 /\ hash = Len(r)
  <2>1. hash \in 1..Len(r) /\ hash \in 0..Len(r) /\ \A i \in 1..(hash - 1) : r[i] # "#"
    <3>1. Len(r) \in Nat /\ hash \in 0..Len(r) /\ \A i \in 1..(hash - 1) : r[i] \notin {"#"}
      BY <1>1, <1>3, FindFinds, LenProperties
    <3> QED
      BY <1>3, <3>1
  <2>2. PICK b : b = Before(r, hash)
    OBVIOUS
  <2>3. b \in Seq(Ascii) /\ Beginning(b, r, hash - 1)
    BY <1>3, <2>1, <2>2, BeforeIs
  <2>4. WithoutEmptyFragment(r) = b
    BY <1>1, <1>3, <2>2 DEF WithoutEmptyFragment
  <2>5. Find(b, {"#"}) = 0
    <3>1. \A i \in 1..Len(b) : b[i] # "#"
      BY <2>1, <2>3 DEF Beginning
    <3>2. PICK f : f = Find(b, {"#"})
      OBVIOUS
    <3>3. f \in 0..Len(b) /\ (f # 0 => b[f] \in {"#"})
      BY <2>3, <3>2, FindFinds
    <3>4. Len(b) \in Nat
      BY <2>3, LenProperties
    <3> QED
      BY <3>1, <3>2, <3>3, <3>4
  <2>6. After(r, hash) = <<>>
    <3>1. After(r, hash) \in Seq(Ascii) /\ Ending(After(r, hash), r, hash)
      BY <2>1, AfterIs
    <3>2. Len(After(r, hash)) = 0
      BY <1>3, <2>1, <3>1, LenProperties DEF Ending
    <3> QED
      BY <3>1, <3>2, EmptySeq
  <2> DEFINE mark == Find(b, {"?"})
             path == SplitPath(IF mark = 0 THEN b ELSE Before(b, mark))
             whole == IF ~auth.ok THEN Invalid
                      ELSE Valid([https    |-> https,
                                  www      |-> auth.url.www,
                                  host     |-> auth.url.host,
                                  tld      |-> auth.url.tld,
                                  index    |-> DetectIndexSuffix(path),
                                  path     |-> path,
                                  query    |-> SplitQuery(After(b, mark), mark # 0),
                                  fragment |-> SplitFragment(<<>>)])
  <2>7. Assembled(https, auth, b) = whole
    BY <2>5 DEF Assembled
  <2>8. Assembled(https, auth, r) = whole
    BY <1>1, <1>3, <2>2, <2>6 DEF Assembled
  <2> QED
    BY <2>4, <2>7, <2>8
<1> QED
  BY <1>2, <1>3

(* A text without a character of cs, and one that begins with such a character. *)
LEMMA FindAfter ==
  ASSUME NEW A, NEW a \in Seq(A), NEW b \in Seq(A), NEW cs,
         \A i \in 1..Len(a) : a[i] \notin cs, b # <<>> => b[1] \in cs,
         NEW c, c = Cat(a, b)
  PROVE  Find(c, cs) = IF b = <<>> THEN 0 ELSE Len(a) + 1
<1>1. c \in Seq(A) /\ CatIs(c, a, b) /\ Len(a) \in Nat /\ Len(b) \in Nat /\ Len(c) \in Nat
  <2>1. c \in Seq(A) /\ CatIs(c, a, b)
    BY CatLength
  <2> QED
    BY <2>1, LenProperties
<1>2. PICK f : f = Find(c, cs)
  OBVIOUS
<1>3. /\ f \in 0..Len(c)
      /\ f = 0 => \A i \in 1..Len(c) : c[i] \notin cs
      /\ f # 0 => c[f] \in cs /\ \A i \in 1..(f - 1) : c[i] \notin cs
  BY <1>1, <1>2, FindFinds
<1>4. ~(f \in 1..Len(a))
  <2> SUFFICES ASSUME f \in 1..Len(a) PROVE FALSE
    OBVIOUS
  <2>1. c[f] = a[f]
    BY <1>1 DEF CatIs
  <2>2. f # 0
    BY <1>1
  <2> QED
    BY <1>3, <2>1, <2>2
<1>5. CASE b = <<>>
  <2>1. Len(c) = Len(a)
    BY <1>1, <1>5 DEF CatIs
  <2> QED
    BY <1>1, <1>2, <1>3, <1>4, <1>5, <2>1
<1>6. CASE b # <<>>
  <2>1. Len(b) # 0
    BY <1>6, EmptySeq
  <2>2. Len(a) + 1 \in 1..Len(c) /\ 1 \in 1..Len(b) /\ Len(c) = Len(a) + Len(b)
    BY <1>1, <2>1 DEF CatIs
  <2>3. c[Len(a) + 1] \in cs
    <3>1. c[Len(a) + 1] = b[1]
      BY <1>1, <2>2 DEF CatIs
    <3> QED
      BY <1>6, <3>1
  <2>4. f # 0
    BY <1>3, <2>2, <2>3
  <2>5. ~(Len(a) + 1 \in 1..(f - 1))
    BY <1>3, <2>3, <2>4
  <2>6. f = Len(a) + 1
    BY <1>1, <1>3, <1>4, <2>4, <2>5
  <2> QED
    BY <1>2, <1>6, <2>6
<1> QED
  BY <1>5, <1>6

(* Two texts put together and cut again. *)
LEMMA CatCut ==
  ASSUME NEW A, NEW a \in Seq(A), NEW b \in Seq(A), NEW c, c = Cat(a, b)
  PROVE  After(c, Len(a)) = b /\ (b # <<>> => Before(c, Len(a) + 1) = a)
<1>1. c \in Seq(A) /\ CatIs(c, a, b) /\ Len(a) \in Nat /\ Len(b) \in Nat /\ Len(c) \in Nat
  <2>1. c \in Seq(A) /\ CatIs(c, a, b)
    BY CatLength
  <2> QED
    BY <2>1, LenProperties
<1>2. Len(c) = Len(a) + Len(b)
  BY <1>1 DEF CatIs
<1>3. After(c, Len(a)) = b
  <2>1. PICK x : x = After(c, Len(a))
    OBVIOUS
  <2>2. Len(a) \in 0..Len(c)
    BY <1>1, <1>2
  <2>3. x \in Seq(A) /\ Ending(x, c, Len(a))
    BY <1>1, <2>1, <2>2, AfterIs
  <2>4. Len(c) - Len(a) = Len(b)
    BY <1>1, <1>2
  <2>5. Len(x) = Len(b) /\ \A i \in 1..Len(x) : x[i] = b[i]
    BY <1>1, <2>3, <2>4 DEF Ending, CatIs
  <2>6. x = b
    BY <2>3, <2>5, SeqEqual
  <2> QED
    BY <2>1, <2>6
<1>4. ASSUME b # <<>> PROVE Before(c, Len(a) + 1) = a
  <2>1. PICK x : x = Before(c, Len(a) + 1)
    OBVIOUS
  <2>2. Len(b) # 0
    BY <1>4, EmptySeq
  <2>3. Len(a) + 1 \in 0..Len(c) /\ Len(a) + 1 # 0 /\ (Len(a) + 1) - 1 = Len(a)
    BY <1>1, <1>2, <2>2
  <2>4. x \in Seq(A) /\ Beginning(x, c, (Len(a) + 1) - 1)
    BY <1>1, <2>1, <2>3, BeforeIs
  <2>5. Len(x) = Len(a) /\ \A i \in 1..Len(x) : x[i] = a[i]
    BY <1>1, <2>3, <2>4 DEF Beginning, CatIs
  <2>6. x = a
    BY <2>4, <2>5, SeqEqual
  <2> QED
    BY <2>1, <2>6
<1> QED
  BY <1>3, <1>4

(* The first "://" of a text is behind its first word. *)
LEMMA SchemeEndIs ==
  ASSUME NEW A, NEW t \in Seq(A), Len(t) >= 4, t[1] # ":", t[2] = ":", t[3] = "/", t[4] = "/"
  PROVE  SchemeEnd(t) = 2
<1> DEFINE at(i) == SubSeq(t, i, i + 2) = <<":", "/", "/">>
           ends == {i \in 1..(Len(t) - 2) : at(i)}
           least == CHOOSE i \in ends : \A j \in ends : i <= j
<1>1. SchemeEnd(t) = IF ends = {} THEN 0 ELSE least
  BY Zenon DEF SchemeEnd
<1>2. Len(t) \in Nat
  BY LenProperties
<1>3. ASSUME NEW i \in 1..(Len(t) - 2)
      PROVE  /\ SubSeq(t, i, i + 2) \in Seq(A) /\ Len(SubSeq(t, i, i + 2)) = 3
             /\ SubSeq(t, i, i + 2)[1] = t[i] /\ SubSeq(t, i, i + 2)[2] = t[i + 1]
             /\ SubSeq(t, i, i + 2)[3] = t[i + 2]
  <2>1. /\ i \in 1..(Len(t) + 1) /\ i + 2 \in (i - 1)..Len(t) /\ (i + 2) - i + 1 = 3
        /\ i + 1 - 1 = i /\ i + 2 - 1 = i + 1 /\ i + 3 - 1 = i + 2
    BY <1>2
  <2>2. PICK b : b = SubSeq(t, i, i + 2)
    OBVIOUS
  <2>3. b \in Seq(A) /\ Len(b) = 3 /\ \A k \in 1..3 : b[k] = t[i + k - 1]
    BY <2>1, <2>2, PartOfText
  <2> QED
    BY <2>1, <2>2, <2>3
<1>4. 2 \in ends
  <2>1. 2 \in 1..(Len(t) - 2)
    BY <1>2
  <2>2. PICK b : b = SubSeq(t, 2, 2 + 2)
    OBVIOUS
  <2>3. b \in Seq(A) /\ Len(b) = 3 /\ b[1] = ":" /\ b[2] = "/" /\ b[3] = "/"
    <3>1. b \in Seq(A) /\ Len(b) = 3 /\ b[1] = t[2] /\ b[2] = t[2 + 1] /\ b[3] = t[2 + 2]
      BY <1>3, <2>1, <2>2
    <3>2. t[2 + 1] = t[3] /\ t[2 + 2] = t[4]
      OBVIOUS
    <3> QED
      BY <3>1, <3>2
  <2>4. b = <<":", "/", "/">>
    BY <2>3
  <2> QED
    BY <2>1, <2>2, <2>4
<1>5. 1 \notin ends
  <2> SUFFICES ASSUME 1 \in ends PROVE FALSE
    OBVIOUS
  <2>1. 1 \in 1..(Len(t) - 2) /\ SubSeq(t, 1, 1 + 2) = <<":", "/", "/">>
    OBVIOUS
  <2>2. SubSeq(t, 1, 1 + 2)[1] = ":"
    <3>1. <<":", "/", "/">>[1] = ":"
      OBVIOUS
    <3> QED
      BY <2>1, <3>1, Zenon
  <2> QED
    BY <1>3, <2>1, <2>2
<1>6. \A j \in ends : 2 <= j
  <2> TAKE j \in ends
  <2>1. j \in 1..(Len(t) - 2) /\ j # 1
    BY <1>5
  <2> QED
    BY <1>2, <2>1
<1>7. ends \subseteq Int
  OBVIOUS
<1>8. least \in ends /\ \A j \in ends : least <= j
  <2> HIDE DEF ends
  <2> QED
    BY <1>4, <1>6, Zenon
<1> HIDE DEF ends, least
<1>9. least = 2
  BY <1>4, <1>6, <1>7, <1>8
<1> QED
  BY <1>1, <1>4, <1>9

(* Where its scan begins as a URL a text is parsed from the scheme on. *)
LEMMA ParsedFrom ==
  ASSUME NEW s, NEW t \in Seq(Ascii), NormalizePercentEncoding(s) = Valid(t), Starts(t)
  PROVE  ParseUrl(s) = ParseRest(Secure(t), After(t, 4))
<1> DEFINE n == NormalizePercentEncoding(s)
           end == SchemeEnd(n.url)
           scheme == SchemeOf(SubSeq(n.url, 1, end - 1))
           rest == SubSeq(n.url, end + 3, Len(n.url))
           parse == IF end = 0 \/ scheme \notin {<<"http">>, <<"https">>} THEN Invalid
                    ELSE ParseRest(scheme = <<"https">>, rest)
<1>1. ParseUrl(s) = IF n.ok THEN parse ELSE Invalid
  BY Zenon DEF ParseUrl
<1>2. n.ok /\ n.url = t
  BY DEF Valid
<1>3. ParseUrl(s) = parse
  <2> HIDE DEF n, parse
  <2> QED
    BY <1>1, <1>2
<1> HIDE DEF n
<1>4. Len(t) \in Nat /\ Len(t) >= 4
  BY LenProperties DEF Starts
<1>5. end = 2
  <2>1. t[1] # ":"
    <3> SUFFICES ASSUME t[1] = ":" PROVE FALSE
      OBVIOUS
    <3>1. Lower(t[1]) = ":"
      <4>1. ":" \in Ascii /\ ":" \in Delimiters
        BY NoNewDelimiter DEF Delimiters
      <4> QED
        BY <4>1, LowerDelimiters
    <3> QED
      BY <3>1 DEF Starts
  <2>2. SchemeEnd(t) = 2
    BY <1>4, <2>1, SchemeEndIs DEF Starts
  <2> QED
    BY <1>2, <2>2
<1> HIDE DEF end
<1>6. rest = After(t, 4)
  BY <1>2, <1>5 DEF After
<1>7. scheme = <<Lower(t[1])>>
  <2>1. PICK x : x = SubSeq(t, 1, 1)
    OBVIOUS
  <2>2. Len(x) = 1 /\ x[1] = t[1]
    <3>1. 1 \in 1..(Len(t) + 1) /\ 1 \in (1 - 1)..Len(t) /\ 1 - 1 + 1 = 1
      BY <1>4
    <3>2. Len(x) = 1 /\ \A i \in 1..1 : x[i] = t[1 + i - 1]
      BY <1>4, <2>1, <3>1, PartOfText
    <3> QED
      BY <3>2
  <2>3. scheme = [i \in 1..Len(x) |-> Lower(x[i])]
    BY <1>2, <1>5, <2>1 DEF SchemeOf
  <2> HIDE DEF scheme
  <2>4. PICK y : y = Lower(t[1])
    OBVIOUS
  <2>5. scheme = [i \in 1..1 |-> y]
    BY <2>2, <2>3, <2>4
  <2> QED
    BY <2>4, <2>5
<1> HIDE DEF rest, scheme
<1>8. PICK y : y = Lower(t[1])
  OBVIOUS
<1>9. scheme = <<y>> /\ y \in {"http", "https"} /\ Secure(t) = (y = "https")
  BY <1>7, <1>8 DEF Starts, Secure
<1>10. scheme \in {<<"http">>, <<"https">>} /\ (scheme = <<"https">>) = (y = "https")
  <2>1. CASE y = "http"
    BY <1>9, <2>1
  <2>2. CASE y = "https"
    BY <1>9, <2>2
  <2> QED
    BY <1>9, <2>1, <2>2
<1> QED
  BY <1>3, <1>5, <1>6, <1>9, <1>10

(* A text that is in normal form and begins as a URL is parsed at once. *)
LEMMA SchemeParsed ==
  ASSUME NEW t \in ClosedTexts, Starts(t)
  PROVE  ParseUrl(t) = ParseRest(Secure(t), After(t, 4))
BY NormalTwice, ParsedFrom DEF ClosedTexts

(* A part of a closed text that ends before a delimiter is closed. *)
CutClean(s, m) == m < Len(s) => ~UpperDigit(s[m + 1])

LEMMA ClosedBeginning ==
  ASSUME NEW s \in TidyTexts, NEW a \in ClosedTexts, NEW m \in 0..Len(a),
         CutClean(a, m), Beginning(s, a, m)
  PROVE  s \in ClosedTexts
<1>1. a \in Seq(Ascii) /\ Closed(a) /\ Len(a) \in Nat /\ m \in Nat /\ m <= Len(a)
  BY LenProperties DEF ClosedTexts
<1>2. s \in Seq(Ascii) /\ Len(s) = m /\ \A i \in 1..m : s[i] = a[i]
  BY DEF TidyTexts, Beginning
<1>3. ASSUME NEW i \in 1..Len(s), s[i] = "%"
      PROVE  i + 2 <= Len(s) /\ UpperDigit(s[i + 1]) /\ UpperDigit(s[i + 2])
  <2>1. i \in 1..m /\ i \in 1..Len(a) /\ a[i] = "%"
    BY <1>1, <1>2, <1>3
  <2>2. i + 2 <= Len(a) /\ UpperDigit(a[i + 1]) /\ UpperDigit(a[i + 2])
    BY <1>1, <2>1 DEF Closed
  <2>3. i # m
    <3> SUFFICES ASSUME i = m PROVE FALSE
      OBVIOUS
    <3>1. m < Len(a)
      BY <1>1, <2>1, <2>2
    <3> QED
      BY <2>2, <3>1 DEF CutClean
  <2>4. i + 1 # m
    <3> SUFFICES ASSUME i + 1 = m PROVE FALSE
      OBVIOUS
    <3>1. m < Len(a) /\ i + 2 = m + 1
      BY <1>1, <2>1, <2>2
    <3> QED
      BY <2>2, <3>1 DEF CutClean
  <2>5. i + 2 <= m /\ i + 1 \in 1..m /\ i + 2 \in 1..m
    BY <1>1, <2>1, <2>3, <2>4
  <2> QED
    BY <1>2, <2>2, <2>5
<1> QED
  BY <1>2, <1>3 DEF ClosedTexts, Closed

(* What is left of a closed text from a place no escape reaches over. *)
LEMMA ClosedEnding ==
  ASSUME NEW a \in ClosedTexts, NEW m \in 0..Len(a), NEW s, s = After(a, m)
  PROVE  s \in ClosedTexts
<1>1. a \in Seq(Ascii) /\ Closed(a) /\ Len(a) \in Nat
  BY LenProperties DEF ClosedTexts
<1>2. s \in Seq(Ascii) /\ Ending(s, a, m)
  BY <1>1, AfterIs
<1>3. Len(s) = Len(a) - m /\ \A i \in 1..(Len(a) - m) : s[i] = a[m + i]
  BY <1>2 DEF Ending
<1>4. ASSUME NEW i \in 1..Len(s), s[i] = "%"
      PROVE  i + 2 <= Len(s) /\ UpperDigit(s[i + 1]) /\ UpperDigit(s[i + 2])
  <2>1. m + i \in 1..Len(a) /\ a[m + i] = "%"
    BY <1>1, <1>3, <1>4
  <2>2. (m + i) + 2 <= Len(a) /\ UpperDigit(a[(m + i) + 1]) /\ UpperDigit(a[(m + i) + 2])
    BY <1>1, <2>1 DEF Closed
  <2>3. i + 2 <= Len(a) - m /\ i + 1 \in 1..(Len(a) - m) /\ i + 2 \in 1..(Len(a) - m)
        /\ (m + i) + 1 = m + (i + 1) /\ (m + i) + 2 = m + (i + 2)
    BY <1>1, <2>1, <2>2
  <2> QED
    BY <1>3, <2>2, <2>3
<1> QED
  BY <1>2, <1>4 DEF ClosedTexts, Closed

(* The host in normal form is closed where the host was. *)
LEMMA ClosedHost ==
  ASSUME NEW part \in ClosedTexts
  PROVE  NormalizeHostEscapes(part) \in ClosedTexts
<1>1. PICK n : n = NormalizeHostEscapes(part)
  OBVIOUS
<1>2. part \in TidyTexts /\ part \in Seq(Ascii) /\ Closed(part) /\ Len(part) \in Nat
  BY ClosedIsTidy, LenProperties DEF ClosedTexts, TidyTexts
<1>3. n \in Seq(Ascii) /\ Len(n) = Len(part)
  BY <1>1, <1>2, NormalHostType
<1>4. ASSUME NEW i \in 1..Len(n), n[i] = "%"
      PROVE  i + 2 <= Len(n) /\ UpperDigit(n[i + 1]) /\ UpperDigit(n[i + 2])
  <2>1. i \in 1..Len(part) /\ part[i] = "%"
    BY <1>1, <1>2, <1>3, <1>4, HostEscapesAt
  <2>2. i + 2 <= Len(part) /\ UpperDigit(part[i + 1]) /\ UpperDigit(part[i + 2])
    BY <1>2, <2>1 DEF Closed
  <2>3. i + 1 \in 1..Len(part) /\ i + 2 \in 1..Len(part)
        /\ (i + 1) - 1 = i /\ (i + 2) - 2 = i /\ i + 1 > 1 /\ i + 2 > 2
    BY <1>2, <2>1, <2>2
  <2>4. InHostEscape(part, i + 1) /\ InHostEscape(part, i + 2)
    <3>1. 1 \in 1..2 /\ 2 \in 1..2
      OBVIOUS
    <3>2. part[(i + 1) - 1] = "%" /\ part[(i + 2) - 2] = "%"
      BY <2>1, <2>3
    <3> QED
      BY <2>3, <3>1, <3>2 DEF InHostEscape
  <2>5. n[i + 1] = part[i + 1] /\ n[i + 2] = part[i + 2]
    <3>1. PICK j : j = i + 1
      OBVIOUS
    <3>2. PICK k : k = i + 2
      OBVIOUS
    <3>3. j \in 1..Len(part) /\ k \in 1..Len(part) /\ InHostEscape(part, j) /\ InHostEscape(part, k)
      BY <2>3, <2>4, <3>1, <3>2
    <3>4. n[j] = part[j] /\ n[k] = part[k]
      BY <1>1, <1>2, <3>3, HostEscapesAt
    <3> QED
      BY <3>1, <3>2, <3>4
  <2> QED
    BY <1>3, <2>2, <2>5
<1>5. n \in ClosedTexts
  BY <1>3, <1>4 DEF ClosedTexts, Closed
<1> QED
  BY <1>1, <1>5

(* A text without "%" is closed. *)
LEMMA PlainIsClosed ==
  ASSUME NEW s \in Seq(Ascii), \A i \in 1..Len(s) : s[i] # "%"
  PROVE  s \in ClosedTexts
BY DEF ClosedTexts, Closed

(* Dropping an empty fragment leaves a closed text closed. *)
LEMMA ClosedWithoutFragment ==
  ASSUME NEW r \in ClosedTexts
  PROVE  WithoutEmptyFragment(r) \in ClosedTexts
<1>1. PICK hash : hash = Find(r, {"#"})
  OBVIOUS
<1>2. CASE ~(hash # 0 /\ hash = Len(r))
  BY <1>1, <1>2 DEF WithoutEmptyFragment
<1>3. CASE hash # 0 /\ hash = Len(r)
  <2>1. r \in Seq(Ascii) /\ r \in TidyTexts /\ Len(r) \in Nat /\ Len(r) # 0
        /\ Len(r) \in 0..Len(r) /\ Len(r) - 1 \in 0..Len(r) /\ (Len(r) - 1) + 1 = Len(r)
    BY <1>3, ClosedIsTidy, LenProperties DEF ClosedTexts, TidyTexts
  <2>2. r[Len(r)] = "#"
    <3>1. r[hash] \in {"#"}
      BY <1>1, <1>3, <2>1, FindFinds
    <3> QED
      BY <1>3, <3>1
  <2>3. PICK b : b = Before(r, Len(r))
    OBVIOUS
  <2>4. b \in TidyTexts /\ Beginning(b, r, Len(r) - 1)
    <3>1. b \in TidyTexts
      BY <2>1, <2>3, TidyCuts
    <3>2. Beginning(b, r, Len(r) - 1)
      BY <2>1, <2>3, BeforeIs
    <3> QED
      BY <3>1, <3>2
  <2>5. CutClean(r, Len(r) - 1)
    <3>1. ~UpperDigit("#")
      BY NoNewDelimiter DEF UpperDigit, Delimiters
    <3> QED
      BY <2>1, <2>2, <3>1 DEF CutClean
  <2>6. b \in ClosedTexts
    <3>1. PICK m : m = Len(r) - 1
      OBVIOUS
    <3>2. m \in 0..Len(r) /\ CutClean(r, m) /\ Beginning(b, r, m)
      BY <2>1, <2>4, <2>5, <3>1
    <3> QED
      BY <2>4, <3>2, ClosedBeginning
  <2> QED
    BY <1>1, <1>3, <2>3, <2>6 DEF WithoutEmptyFragment
<1> QED
  BY <1>2, <1>3

(* The host of an accepted URL ends where no escape goes on. *)
LEMMA PartIsClosed ==
  ASSUME NEW t \in ClosedTexts, Starts(t), NEW last, Limits(t, last),
         NEW authority \in Seq(Ascii), Placed(authority, t, last),
         NEW https, NEW part, NEW suffix, AuthorityIs(authority, https, part, suffix)
  PROVE  part \in ClosedTexts
<1>1. /\ t \in Seq(Ascii) /\ Len(t) \in Nat /\ last \in 5..Len(t) /\ 4 \in 0..Len(t)
      /\ part \in TidyTexts /\ Len(part) \in Nat
  BY LenProperties DEF ClosedTexts, Starts, Limits, AuthorityIs, TidyTexts
<1>2. PICK a : a = After(t, 4)
  OBVIOUS
<1>3. a \in ClosedTexts
  BY <1>1, <1>2, ClosedEnding
<1>4. Ending(a, t, 4)
  BY <1>1, <1>2, AfterIs
<1>5. Len(a) = Len(t) - 4 /\ \A i \in 1..(Len(t) - 4) : a[i] = t[4 + i]
  BY <1>4 DEF Ending
<1>6. Len(part) <= last - 4 /\ \A i \in 1..Len(part) : part[i] = t[4 + i]
  BY HostPlaced
<1>7. PICK m : m = Len(part)
  OBVIOUS
<1>8. m \in 0..Len(a) /\ Beginning(part, a, m)
  <2>1. m \in 0..Len(a) /\ \A i \in 1..m : i \in 1..(Len(t) - 4)
    BY <1>1, <1>5, <1>6, <1>7
  <2> QED
    BY <1>5, <1>6, <1>7, <2>1 DEF Beginning
<1>9. CutClean(a, m)
  <2> SUFFICES ASSUME m < Len(a) PROVE ~UpperDigit(a[m + 1])
    BY DEF CutClean
  <2>1. m + 1 \in 1..(Len(t) - 4) /\ a[m + 1] = t[4 + (m + 1)]
    <3>1. m + 1 \in 1..(Len(t) - 4)
      BY <1>1, <1>5, <1>7
    <3> QED
      BY <1>5, <3>1
  <2>2. t[4 + (m + 1)] \in Delimiters
    <3>1. CASE Len(authority) = Len(part)
      <4>1. last + 1 = 4 + (m + 1) /\ last < Len(t)
        BY <1>1, <1>5, <1>7, <2>1, <3>1 DEF Placed
      <4> QED
        BY <4>1 DEF Limits, ResourceMarks, Delimiters
    <3>2. CASE Len(authority) = Len(part) + 2 /\ authority[Len(part) + 1] = ":"
      <4>1. m + 1 \in 1..Len(authority)
        BY <1>1, <1>7, <3>2
      <4>2. authority[m + 1] = t[4 + (m + 1)]
        BY <4>1 DEF Placed
      <4> QED
        BY <1>7, <3>2, <4>2 DEF Delimiters
    <3> QED
      BY <3>1, <3>2 DEF AuthorityIs
  <2> QED
    BY <2>1, <2>2, NoNewDelimiter DEF UpperDigit
<1> QED
  BY <1>1, <1>3, <1>8, <1>9, ClosedBeginning

(* A host in normal form has the delimiters it had, where it had them. *)
LEMMA HostDelimiters ==
  ASSUME NEW part \in TidyTexts, NEW n, n = NormalizeHostEscapes(part),
         NEW i \in 1..Len(part), NEW d \in Delimiters
  PROVE  n[i] = d <=> part[i] = d
<1>1. part[i] \in Ascii
  BY ElementOfSeq DEF TidyTexts
<1>2. n[i] = part[i] \/ n[i] = Lower(part[i])
  BY HostEscapesAt
<1>3. Lower(part[i]) = d <=> part[i] = d
  BY <1>1, LowerDelimiters
<1> QED
  BY <1>2, <1>3

(* A port suffix is ":" and a numeral. *)
LEMMA SuffixPlain ==
  ASSUME NEW suffix \in PortTails, suffix # <<>>
  PROVE  \E p \in DOMAIN PortText :
           /\ suffix = <<":", PortText[p]>> /\ Len(suffix) = 2
           /\ suffix[1] = ":" /\ suffix[2] = PortText[p]
           /\ PortText[p] \in DOMAIN Numeral /\ Numeral[PortText[p]] = p
           /\ PortText[p] \notin Delimiters
<1>1. PICK p \in DOMAIN PortText : suffix = <<":", PortText[p]>>
  BY DEF PortTails
<1>2. PortText[p] \in DOMAIN Numeral /\ Numeral[PortText[p]] = p
  BY CharacterSet
<1>3. PortText[p] \notin Delimiters
  BY <1>2, NoNewDelimiter
<1>4. PICK y : y = PortText[p]
  OBVIOUS
<1>5. Len(suffix) = 2 /\ suffix[1] = ":" /\ suffix[2] = y
  BY <1>1, <1>4
<1> QED
  BY <1>1, <1>2, <1>3, <1>4, <1>5

(* The characters of a port suffix. *)
LEMMA SuffixCharacters ==
  ASSUME NEW suffix \in PortTails, NEW i \in 1..Len(suffix)
  PROVE  suffix[i] \notin Delimiters \ {":"}
<1>1. CASE suffix = <<>>
  BY <1>1, EmptySeq
<1>2. CASE suffix # <<>>
  <2>1. PICK p \in DOMAIN PortText :
          /\ Len(suffix) = 2 /\ suffix[1] = ":" /\ suffix[2] = PortText[p]
          /\ PortText[p] \notin Delimiters
    BY <1>2, SuffixPlain
  <2>2. i = 1 \/ i = 2
    BY <2>1
  <2> QED
    BY <2>1, <2>2
<1> QED
  BY <1>1, <1>2

(* The authority in normal form has the same host and the same port. *)
LEMMA AuthorityAgainIs ==
  ASSUME NEW authority \in TidyTexts, NEW https, NEW part, NEW suffix \in PortTails,
         AuthorityIs(authority, https, part, suffix),
         NEW n, n = NormalizeHostEscapes(part), NEW a, a = Cat(n, suffix)
  PROVE  a \in Seq(Ascii) /\ AuthorityIs(a, https, n, suffix)
<1>1. /\ part \in TidyTexts \ {<<>>} /\ part \in TidyTexts /\ Len(part) \in Nat
      /\ \A i \in 1..Len(part) : part[i] = authority[i] /\ part[i] # ":"
  BY LenProperties DEF AuthorityIs, TidyTexts
<1>2. n \in TidyTexts /\ n \in Seq(Ascii) /\ Len(n) = Len(part) /\ n # <<>>
  <2>1. n \in TidyTexts /\ n \in Seq(Ascii) /\ Len(n) = Len(part)
    BY <1>1, HostEscapesTidy, NormalHostType
  <2>2. part \in Seq(Ascii) /\ part # <<>>
    BY <1>1 DEF TidyTexts
  <2> QED
    BY <2>1, <2>2, EmptySeq
<1>3. suffix \in Seq(Ascii) /\ Len(suffix) \in Nat
  BY SuffixType
<1>4. a \in Seq(Ascii) /\ CatIs(a, n, suffix)
  BY <1>2, <1>3, CatLength
<1>5. /\ Len(a) = Len(n) + Len(suffix)
      /\ \A i \in 1..Len(n) : a[i] = n[i]
      /\ \A i \in 1..Len(suffix) : a[Len(n) + i] = suffix[i]
  BY <1>4 DEF CatIs
<1>6. \A i \in 1..Len(n) : n[i] = a[i] /\ n[i] # ":"
  <2> TAKE i \in 1..Len(n)
  <2>1. i \in 1..Len(part) /\ ":" \in Delimiters
    BY <1>2 DEF Delimiters
  <2>2. n[i] # ":"
    BY <1>1, <2>1, HostDelimiters
  <2> QED
    BY <1>5, <2>2
<1>7. \/ Len(a) = Len(n) /\ suffix = <<>>
      \/ /\ Len(a) = Len(n) + 2
         /\ a[Len(n) + 1] = ":"
         /\ a[Len(n) + 2] \in DOMAIN Numeral
         /\ suffix = IF Numeral[a[Len(n) + 2]] = DefaultPort(https) THEN <<>>
                     ELSE <<":", PortText[Numeral[a[Len(n) + 2]]]>>
  <2>1. CASE suffix = <<>>
    <3>1. Len(suffix) = 0
      BY <2>1, EmptySeq
    <3> QED
      BY <1>1, <1>2, <1>5, <2>1, <3>1
  <2>2. CASE suffix # <<>>
    <3>1. PICK p \in DOMAIN PortText :
            /\ suffix = <<":", PortText[p]>> /\ Len(suffix) = 2
            /\ suffix[1] = ":" /\ suffix[2] = PortText[p]
            /\ PortText[p] \in DOMAIN Numeral /\ Numeral[PortText[p]] = p
      BY <2>2, SuffixPlain
    <3>2. a[Len(n) + 1] = ":" /\ a[Len(n) + 2] = PortText[p] /\ Len(a) = Len(n) + 2
      <4>1. 1 \in 1..Len(suffix) /\ 2 \in 1..Len(suffix)
        BY <3>1
      <4> QED
        BY <1>5, <3>1, <4>1
    <3>3. p # DefaultPort(https)
      <4>1. PICK q : q = Numeral[authority[Len(part) + 2]]
        OBVIOUS
      <4>2. q # DefaultPort(https) /\ suffix = <<":", PortText[q]>>
            /\ authority[Len(part) + 2] \in DOMAIN Numeral
        BY <2>2, <4>1 DEF AuthorityIs
      <4>3. q \in DOMAIN PortText /\ Numeral[PortText[q]] = q
        BY <4>1, <4>2, CharacterSet
      <4>4. PICK y : y = PortText[q]
        OBVIOUS
      <4>5. suffix[2] = y
        BY <4>2, <4>4
      <4>6. PortText[q] = PortText[p]
        BY <3>1, <4>4, <4>5
      <4>7. p = q
        BY <3>1, <4>3, <4>6
      <4> QED
        BY <4>2, <4>7
    <3> QED
      BY <3>1, <3>2, <3>3
  <2> QED
    BY <2>1, <2>2
<1> QED
  BY <1>2, <1>4, <1>6, <1>7 DEF AuthorityIs

(* What the parser makes of the authority in normal form is what it made  *)
(* of the authority.                                                      *)
LEMMA AuthorityAgain ==
  ASSUME NEW authority \in TidyTexts, NEW https, NEW part, NEW suffix \in PortTails,
         AuthorityIs(authority, https, part, suffix), ParseAuthority(authority, https).ok,
         NEW n, n = NormalizeHostEscapes(part), NEW a, a = Cat(n, suffix)
  PROVE  ParseAuthority(a, https) = ParseAuthority(authority, https)
<1>1. a \in Seq(Ascii) /\ AuthorityIs(a, https, n, suffix)
  BY AuthorityAgainIs
<1>2. authority \in Seq(Ascii) /\ part \in TidyTexts /\ Len(part) \in Nat \ {0}
      /\ \A i \in 1..Len(part) : part[i] = authority[i]
  BY LenProperties, EmptySeq DEF AuthorityIs, TidyTexts
<1>3. PICK o : o = Outcome(n, suffix)
  OBVIOUS
<1>4. ParseAuthority(authority, https) = IF Barred(authority) THEN Invalid ELSE o
  BY <1>2, <1>3, AuthorityBuilt
<1>5. ~Barred(authority)
  <2>1. ~Invalid.ok
    BY DEF Invalid
  <2> QED
    BY <1>4, <2>1
<1>6. ParseAuthority(a, https) = IF Barred(a) THEN Invalid ELSE o
  <2>1. NormalizeHostEscapes(n) = n
    BY <1>2, HostEscapesTwice
  <2>2. ParseAuthority(a, https) = IF Barred(a) THEN Invalid ELSE Outcome(NormalizeHostEscapes(n), suffix)
    BY <1>1, AuthorityBuilt
  <2> QED
    BY <1>3, <2>1, <2>2
<1>7. /\ n \in Seq(Ascii) /\ Len(n) = Len(part) /\ suffix \in Seq(Ascii) /\ Len(suffix) \in Nat
      /\ CatIs(a, n, suffix)
  <2>1. n \in Seq(Ascii) /\ Len(n) = Len(part) /\ suffix \in Seq(Ascii) /\ Len(suffix) \in Nat
    BY <1>2, NormalHostType, SuffixType
  <2> QED
    BY <2>1, CatLength
<1>8. Len(authority) \in Nat /\ Len(authority) >= Len(part)
  BY <1>2, LenProperties DEF AuthorityIs
<1>9. ~Barred(a)
  <2>1. a[1] # "["
    <3>1. 1 \in 1..Len(part) /\ "[" \in Delimiters /\ a[1] = n[1]
      <4>1. 1 \in 1..Len(part)
        BY <1>2
      <4> QED
        BY <1>7, <4>1 DEF CatIs, Delimiters
    <3>2. n[1] = "[" <=> part[1] = "["
      BY <1>2, <3>1, HostDelimiters
    <3>3. part[1] = authority[1]
      BY <1>2, <3>1
    <3> QED
      BY <1>5, <3>1, <3>2, <3>3 DEF Barred
  <2>2. ASSUME NEW i \in 1..Len(a) PROVE a[i] # "@"
    <3>1. CASE i <= Len(n)
      <4>1. i \in 1..Len(n) /\ i \in 1..Len(part) /\ i \in 1..Len(authority) /\ "@" \in Delimiters
        BY <1>2, <1>7, <1>8, <3>1 DEF Delimiters
      <4>2. a[i] = n[i] /\ part[i] = authority[i]
        BY <1>2, <1>7, <4>1 DEF CatIs
      <4>3. n[i] = "@" <=> part[i] = "@"
        BY <1>2, <4>1, HostDelimiters
      <4>4. authority[i] # "@"
        BY <1>5, <4>1 DEF Barred, Contains
      <4> QED
        BY <4>2, <4>3, <4>4
    <3>2. CASE ~(i <= Len(n))
      <4>1. PICK j : j = i - Len(n)
        OBVIOUS
      <4>2. j \in 1..Len(suffix) /\ i = Len(n) + j
        BY <1>2, <1>7, <3>2, <4>1 DEF CatIs
      <4>3. a[i] = suffix[j]
        BY <1>7, <4>2 DEF CatIs
      <4>4. suffix[j] \notin Delimiters \ {":"}
        BY <4>2, SuffixCharacters
      <4> QED
        BY <4>3, <4>4 DEF Delimiters
    <3> QED
      BY <3>1, <3>2
  <2> QED
    BY <2>1, <2>2 DEF Barred, Contains
<1> QED
  BY <1>4, <1>5, <1>6, <1>9

(* Texts whose escapes are whole, put together. *)
LEMMA CatClosed ==
  ASSUME NEW s \in ClosedTexts, NEW t \in ClosedTexts
  PROVE  Cat(s, t) \in ClosedTexts
BY ClosedJoin DEF Cat

(* The resource starts with a mark, and is left one by its empty fragment. *)
LEMMA ResourceLed ==
  ASSUME NEW t \in ClosedTexts, NEW last, Limits(t, last), NEW r, r = After(t, last),
         NEW w, w = WithoutEmptyFragment(r)
  PROVE  r \in ClosedTexts /\ w \in ClosedTexts /\ (w # <<>> => w[1] \in ResourceMarks)
<1>1. t \in Seq(Ascii) /\ Len(t) \in Nat /\ last \in 5..Len(t) /\ last \in 0..Len(t)
  BY LenProperties DEF ClosedTexts, Limits
<1>2. r \in ClosedTexts /\ w \in ClosedTexts
  BY <1>1, ClosedEnding, ClosedWithoutFragment
<1>3. r \in Seq(Ascii) /\ w \in Seq(Ascii) /\ Len(r) \in Nat /\ Len(w) \in Nat
  BY <1>2, LenProperties DEF ClosedTexts
<1>4. Len(r) = Len(t) - last /\ \A i \in 1..(Len(t) - last) : r[i] = t[last + i]
  <2>1. Ending(r, t, last)
    BY <1>1, AfterIs
  <2> QED
    BY <2>1 DEF Ending
<1>5. ASSUME w # <<>> PROVE w[1] \in ResourceMarks
  <2>1. Len(w) # 0
    BY <1>3, <1>5, EmptySeq
  <2>2. Len(r) # 0 /\ w[1] = r[1]
    <3>1. CASE w = r
      BY <2>1, <3>1
    <3>2. CASE Find(r, {"#"}) # 0 /\ Find(r, {"#"}) = Len(r) /\ w = Before(r, Len(r))
      <4>1. Len(r) \in 0..Len(r) /\ Len(r) # 0
        BY <1>3, <3>2
      <4>2. Beginning(w, r, Len(r) - 1)
        BY <1>3, <3>2, <4>1, BeforeIs
      <4>3. 1 \in 1..(Len(r) - 1)
        BY <1>3, <2>1, <4>2 DEF Beginning
      <4> QED
        BY <4>1, <4>2, <4>3 DEF Beginning
    <3> QED
      BY <3>1, <3>2 DEF WithoutEmptyFragment
  <2>3. last < Len(t) /\ 1 \in 1..(Len(t) - last)
    BY <1>1, <1>3, <1>4, <2>2
  <2>4. t[last + 1] \in ResourceMarks
    BY <2>3 DEF Limits
  <2> QED
    BY <1>4, <2>2, <2>3, <2>4
<1> QED
  BY <1>2, <1>5

(* Nor does the authority in normal form hold one. *)
LEMMA AuthorityUnmarked ==
  ASSUME NEW t, NEW last, Limits(t, last), last \in Int,
         NEW part \in TidyTexts, Len(part) <= last - 4,
         \A i \in 1..Len(part) : part[i] = t[4 + i],
         NEW suffix \in PortTails,
         NEW n, n = NormalizeHostEscapes(part), NEW a, a = Cat(n, suffix),
         NEW i \in 1..Len(a)
  PROVE  a[i] \notin ResourceMarks
<1>1. /\ n \in Seq(Ascii) /\ Len(n) = Len(part) /\ suffix \in Seq(Ascii) /\ Len(suffix) \in Nat
      /\ Len(part) \in Nat /\ CatIs(a, n, suffix)
  <2>1. n \in Seq(Ascii) /\ Len(n) = Len(part) /\ suffix \in Seq(Ascii) /\ Len(suffix) \in Nat
    BY NormalHostType, SuffixType
  <2>2. Len(part) \in Nat
    BY LenProperties DEF TidyTexts
  <2> QED
    BY <2>1, <2>2, CatLength
<1>2. CASE i <= Len(n)
  <2>1. i \in 1..Len(n) /\ i \in 1..Len(part) /\ 4 + i \in 5..last
    BY <1>1, <1>2 DEF CatIs
  <2>2. a[i] = n[i] /\ part[i] \notin ResourceMarks
    BY <1>1, <2>1 DEF CatIs, Limits
  <2>3. \A d \in ResourceMarks : n[i] = d <=> part[i] = d
    BY <2>1, HostDelimiters DEF ResourceMarks, Delimiters
  <2> QED
    BY <2>2, <2>3
<1>3. CASE ~(i <= Len(n))
  <2>1. PICK j : j = i - Len(n)
    OBVIOUS
  <2>2. j \in 1..Len(suffix) /\ i = Len(n) + j
    BY <1>1, <1>3, <2>1 DEF CatIs
  <2>3. a[i] = suffix[j] /\ suffix[j] \notin Delimiters \ {":"}
    BY <1>1, <2>2, SuffixCharacters DEF CatIs
  <2> QED
    BY <2>3 DEF Delimiters, ResourceMarks
<1> QED
  BY <1>2, <1>3

(* The rest of a URL, put together from an authority and a resource, is cut *)
(* back into the two.                                                       *)
LEMMA RestRebuilt ==
  ASSUME NEW https, NEW a \in Seq(Ascii), \A i \in 1..Len(a) : a[i] \notin ResourceMarks,
         NEW w \in Seq(Ascii), w # <<>> => w[1] \in ResourceMarks,
         NEW rest, rest = Cat(a, w)
  PROVE  ParseRest(https, rest) = Assembled(https, ParseAuthority(a, https), w)
<1>1. rest \in Seq(Ascii) /\ Len(a) \in Nat
  BY CatLength, LenProperties
<1>2. PICK stop : stop = Find(rest, ResourceMarks)
  OBVIOUS
<1>3. stop = IF w = <<>> THEN 0 ELSE Len(a) + 1
  BY <1>2, FindAfter
<1>4. (IF stop = 0 THEN rest ELSE Before(rest, stop)) = a
  <2>1. CASE w = <<>>
    <3>1. Cat(a, <<>>) = a
      BY CatTexts
    <3>2. stop = 0
      BY <1>3, <2>1
    <3> QED
      BY <2>1, <3>1, <3>2
  <2>2. CASE w # <<>>
    <3>1. Before(rest, Len(a) + 1) = a
      BY <2>2, CatCut
    <3>2. stop = Len(a) + 1 /\ stop # 0
      BY <1>1, <1>3, <2>2
    <3> QED
      BY <3>1, <3>2
  <2> QED
    BY <2>1, <2>2
<1>5. (IF stop = 0 THEN <<>> ELSE SubSeq(rest, stop, Len(rest))) = w
  <2>1. CASE w = <<>>
    BY <1>3, <2>1
  <2>2. CASE w # <<>>
    <3>1. After(rest, Len(a)) = w
      BY CatCut
    <3>2. stop = Len(a) + 1 /\ stop # 0
      BY <1>1, <1>3, <2>2
    <3> QED
      BY <3>1, <3>2 DEF After
  <2> QED
    BY <2>1, <2>2
<1> QED
  BY <1>2, <1>4, <1>5, RestAssembled

(* The normal text of an accepted URL is parsed to the fields of the URL. *)
LEMMA ParsedAgain ==
  ASSUME NEW s, NEW t, NEW rest, NEW stop, NEW authority, NEW r, NEW last, NEW part, NEW suffix,
         UrlCut(s, t, rest, stop, authority, r, last, part, suffix),
         NEW d, d = Cat(Cat(HeadText(t, part), suffix), WithoutEmptyFragment(r))
  PROVE  ParseUrl(d) = ParseUrl(s)
<1>1. /\ t \in ClosedTexts /\ Starts(t) /\ Limits(t, last) /\ Placed(authority, t, last)
      /\ authority \in TidyTexts /\ r = After(t, last) /\ suffix \in PortTails
      /\ AuthorityIs(authority, Secure(t), part, suffix)
      /\ ParseAuthority(authority, Secure(t)).ok
  BY DEF UrlCut
<1>2. t \in Seq(Ascii) /\ Len(t) >= 4 /\ authority \in Seq(Ascii) /\ last \in Int /\ t[1] \in Ascii
  <2>1. t \in Seq(Ascii) /\ Len(t) >= 4 /\ authority \in Seq(Ascii) /\ last \in Int
    BY <1>1 DEF ClosedTexts, Starts, TidyTexts, Limits
  <2>2. 1 \in 1..Len(t)
    BY <2>1, LenProperties
  <2> QED
    BY <2>1, <2>2, ElementOfSeq
<1>3. PICK https : https = Secure(t)
  OBVIOUS
<1>4. PICK n : n = NormalizeHostEscapes(part)
  OBVIOUS
<1>5. PICK a : a = Cat(n, suffix)
  OBVIOUS
<1>6. PICK w : w = WithoutEmptyFragment(r)
  OBVIOUS
<1>7. PICK x : x = Scheme(https)
  OBVIOUS
<1>8. PICK back : back = Cat(a, w)
  OBVIOUS
<1>9. part \in ClosedTexts /\ part \in TidyTexts
  <2>1. part \in ClosedTexts
    BY <1>1, <1>2, PartIsClosed
  <2> QED
    BY <1>1, <2>1 DEF AuthorityIs
<1>10. n \in ClosedTexts
  BY <1>4, <1>9, ClosedHost
<1>11. suffix \in ClosedTexts
  <2>1. \A i \in 1..Len(suffix) : suffix[i] # "%"
    BY <1>1, SuffixCharacters DEF Delimiters
  <2>2. suffix \in Seq(Ascii)
    BY <1>1, SuffixType
  <2> QED
    BY <2>1, <2>2, PlainIsClosed
<1>12. /\ x \in Seq(Ascii) /\ Len(x) = 4 /\ x[1] = Lower(t[1])
       /\ x[2] = ":" /\ x[3] = "/" /\ x[4] = "/"
  BY <1>1, <1>2, <1>3, <1>7, SchemeType DEF Starts
<1>13. x \in ClosedTexts
  <2>1. ASSUME NEW i \in 1..Len(x) PROVE x[i] # "%"
    <3>1. i = 1 \/ i = 2 \/ i = 3 \/ i = 4
      BY <1>12
    <3>2. Lower(t[1]) # "%"
      BY <1>1 DEF Starts
    <3> QED
      BY <1>12, <3>1, <3>2
  <2> QED
    BY <1>12, <2>1, PlainIsClosed
<1>14. r \in ClosedTexts /\ w \in ClosedTexts /\ (w # <<>> => w[1] \in ResourceMarks)
  BY <1>1, <1>6, ResourceLed
<1>15. a \in ClosedTexts
  BY <1>5, <1>10, <1>11, CatClosed
<1>16. back \in ClosedTexts
  BY <1>8, <1>14, <1>15, CatClosed
<1>17. /\ x \in Seq(Ascii) /\ n \in Seq(Ascii) /\ suffix \in Seq(Ascii) /\ w \in Seq(Ascii)
       /\ a \in Seq(Ascii) /\ back \in Seq(Ascii) /\ r \in Seq(Ascii)
  BY <1>10, <1>11, <1>13, <1>14, <1>15, <1>16 DEF ClosedTexts
<1>18. d = Cat(x, back)
  <2>1. Cat(Cat(Cat(x, n), suffix), w) = Cat(x, Cat(Cat(n, suffix), w))
    BY <1>17, FourTexts
  <2> QED
    BY <1>3, <1>4, <1>5, <1>6, <1>7, <1>8, <2>1 DEF HeadText
<1>19. d \in ClosedTexts
  BY <1>13, <1>16, <1>18, CatClosed
<1>20. /\ Len(d) >= 4 /\ d[1] = Lower(t[1])
       /\ d[2] = ":" /\ d[3] = "/" /\ d[4] = "/"
  <2>1. CatIs(d, x, back) /\ Len(back) \in Nat
    BY <1>17, <1>18, CatLength, LenProperties
  <2>2. 1 \in 1..Len(x) /\ 2 \in 1..Len(x) /\ 3 \in 1..Len(x) /\ 4 \in 1..Len(x)
    BY <1>12
  <2> QED
    BY <1>12, <2>1, <2>2 DEF CatIs
<1>21. Starts(d) /\ Secure(d) = https
  <2>1. Lower(d[1]) = Lower(t[1])
    BY <1>2, <1>20, LowerTwice
  <2> QED
    BY <1>1, <1>3, <1>20, <2>1 DEF Starts, Secure
<1>22. After(d, 4) = back
  <2>1. After(d, Len(x)) = back
    BY <1>17, <1>18, CatCut
  <2> QED
    BY <1>12, <2>1
<1>23. ParseUrl(d) = ParseRest(https, back)
  BY <1>19, <1>21, <1>22, SchemeParsed
<1>24. \A i \in 1..Len(a) : a[i] \notin ResourceMarks
  <2>1. Len(part) <= last - 4 /\ \A i \in 1..Len(part) : part[i] = t[4 + i]
    BY <1>1, <1>2, HostPlaced
  <2> QED
    BY <1>1, <1>2, <1>4, <1>5, <1>9, <2>1, AuthorityUnmarked
<1>25. ParseRest(https, back) = Assembled(https, ParseAuthority(a, https), w)
  BY <1>8, <1>14, <1>17, <1>24, RestRebuilt
<1>26. ParseAuthority(a, https) = ParseAuthority(authority, https)
  BY <1>1, <1>3, <1>4, <1>5, AuthorityAgain
<1>27. PICK auth : auth = ParseAuthority(authority, https)
  OBVIOUS
<1>28. Assembled(https, auth, w) = Assembled(https, auth, r)
  BY <1>6, <1>17, AssembledTwice
<1>29. ParseUrl(s) = Assembled(https, auth, r)
  <2>1. /\ stop = Find(rest, ResourceMarks)
        /\ authority = (IF stop = 0 THEN rest ELSE Before(rest, stop))
        /\ r = (IF stop = 0 THEN <<>> ELSE SubSeq(rest, stop, Len(rest)))
    BY DEF UrlCut, Divided
  <2>2. ParseRest(https, rest) = Assembled(https, auth, r)
    BY <1>27, <2>1, RestAssembled
  <2> QED
    BY <1>3, <2>2 DEF UrlCut
<1> QED
  BY <1>23, <1>25, <1>26, <1>27, <1>28, <1>29

(* A text without the characters that end an authority. *)
Unmarked == Seq(Ascii \ ResourceMarks)

(* An encoded character begins with "%" and has no such character. *)
LEMMA EscapesUnmarked ==
  ASSUME NEW c \in DOMAIN Utf8
  PROVE  Escapes(c) \in Unmarked /\ Escapes(c) # <<>> /\ Escapes(c)[1] = "%"
<1> DEFINE piece(k) == Escape(Utf8[c][k])
           n == Len(Utf8[c])
           seqs == [k \in 1..n |-> piece(k)]
           A == Ascii \ ResourceMarks
<1>1. Utf8[c] \in Seq(0..(Pow2[2 * HexBits] - 1)) /\ n \in Nat /\ n # 0
  BY CharacterSet, LenProperties, EmptySeq
<1>2. ASSUME NEW k \in 1..n PROVE piece(k) \in Seq(A) /\ Len(piece(k)) = 3 /\ piece(k)[1] = "%"
  <2>1. Utf8[c][k] \in 0..(Pow2[2 * HexBits] - 1)
    BY <1>1, ElementOfSeq
  <2>2. PICK h, l \in DOMAIN HexVal : piece(k) = <<"%", h, l>>
    BY <2>1, EscapeSpelled
  <2>3. {"%", h, l} \subseteq A
    BY NoNewDelimiter DEF Delimiters, ResourceMarks
  <2>4. PICK p : p = <<"%", h, l>>
    OBVIOUS
  <2> HIDE DEF A, piece
  <2>5. p \in Seq(A) /\ Len(p) = 3 /\ p[1] = "%"
    BY <2>3, <2>4
  <2> QED
    BY <2>2, <2>4, <2>5
<1>3. PICK e : e = Escapes(c)
  OBVIOUS
<1>4. e = FlattenSeq(seqs)
  BY <1>3 DEF Escapes
<1>5. Len(seqs) = n /\ \A k \in 1..n : seqs[k] = piece(k)
  BY <1>1
<1> HIDE DEF piece, n, A
<1>6. seqs \in Seq(Seq(A))
  <2> DEFINE S == Seq(A)
  <2>1. \A k \in 1..n : piece(k) \in S
    BY <1>2
  <2> HIDE DEF S
  <2>2. seqs \in Seq(S)
    BY <1>1, <2>1
  <2> QED
    BY <2>2 DEF S
<1> HIDE DEF seqs
<1>7. e \in Seq(A) /\ \E at : LaidOut(at, seqs, e)
  BY <1>4, <1>6, FlattenLaysOut
<1>8. e # <<>> /\ e[1] = "%"
  <2>1. PICK at : LaidOut(at, seqs, e)
    BY <1>7
  <2>2. 1 \in 1..n
    BY <1>1
  <2>3. Len(seqs[1]) = 3 /\ seqs[1][1] = "%"
    BY <1>2, <1>5, <2>2
  <2>4. 0 \in 0..(Len(seqs) - 1) /\ 0 + 1 = 1 /\ 1 \in 1..Len(seqs[1])
    BY <1>1, <1>5, <2>3
  <2>5. at[0] = 0 /\ at[0 + 1] = at[0] + Len(seqs[0 + 1])
        /\ (\A j \in 1..Len(seqs[0 + 1]) : e[at[0] + j] = seqs[0 + 1][j])
        /\ at[0 + 1] \in 0..Len(e)
    BY <1>5, <2>1, <2>2, <2>4 DEF LaidOut
  <2>6. at[1] = 3 /\ at[1] \in 0..Len(e) /\ e[1] = seqs[1][1]
    <3>1. at[1] = 0 + Len(seqs[1]) /\ at[1] \in 0..Len(e)
      BY <2>4, <2>5
    <3>2. e[0 + 1] = seqs[1][1]
      BY <2>4, <2>5
    <3> QED
      BY <2>3, <3>1, <3>2
  <2>7. Len(e) # 0
    BY <2>6
  <2> QED
    BY <1>7, <2>3, <2>6, <2>7, EmptySeq
<1> QED
  BY <1>3, <1>7, <1>8 DEF Unmarked, A

(* The scan adds no mark and takes none away. *)
LEMMA HeadUnmarked ==
  ASSUME NEW s \in Seq(Characters), NEW i \in 1..Len(s), s[i] \notin ResourceMarks,
         s[i] = "%" => WellFormed(s, i)
  PROVE  HeadAt(s, i) \in Unmarked
<1>1. CASE s[i] = "%"
  <2>1. PICK a, b : a = HexUp(s[i + 1]) /\ b = HexUp(s[i + 2])
    OBVIOUS
  <2>2. {"%", a, b} \subseteq Ascii \ ResourceMarks
    BY <1>1, <2>1, NoNewDelimiter DEF WellFormed, IsHex, Delimiters, ResourceMarks
  <2>3. s[i] \notin DOMAIN Utf8
    BY <1>1, <2>2, CharacterSet
  <2>4. HeadAt(s, i) = <<"%", a, b>>
    BY <1>1, <2>1, <2>3 DEF HeadAt
  <2> QED
    BY <2>2, <2>4 DEF Unmarked
<1>2. CASE s[i] # "%" /\ s[i] \in DOMAIN Utf8
  BY <1>2, EscapesUnmarked DEF HeadAt
<1>3. CASE s[i] # "%" /\ s[i] \notin DOMAIN Utf8
  <2>1. s[i] \in Ascii
    BY <1>3, ElementOfSeq DEF Characters
  <2>2. HeadAt(s, i) = <<s[i]>>
    BY <1>3 DEF HeadAt
  <2> QED
    BY <2>1, <2>2 DEF Unmarked
<1> QED
  BY <1>1, <1>2, <1>3

(* A character that is no escape and ASCII is left as it is. *)
LEMMA HeadPlain ==
  ASSUME NEW s, NEW i, s[i] \in Ascii, s[i] # "%"
  PROVE  HeadAt(s, i) = One(s[i]) /\ NextAt(s, i) = i + 1
<1>1. s[i] \notin DOMAIN Utf8
  BY CharacterSet
<1> QED
  BY <1>1 DEF HeadAt, NextAt, One

(* One step of the scan. *)
LEMMA ScanStep ==
  ASSUME NEW s \in Seq(Characters), NEW from, NormalGoes(from, s), NEW i \in 1..(Len(s) + 3)
  PROVE  from[i] = IF i > Len(s) THEN Valid(<<>>)
                   ELSE IF s[i] = "%" /\ ~WellFormed(s, i) THEN Invalid
                   ELSE IF from[NextAt(s, i)].ok
                   THEN Valid(Cat(HeadAt(s, i), from[NextAt(s, i)].url)) ELSE Invalid
BY DEF NormalGoes, Cat

(* What is scanned from a character on is the scan of the rest. *)
LEMMA ScanSuffix ==
  ASSUME NEW s \in Seq(Characters), NEW from, NormalGoes(from, s), NEW n \in 0..Len(s),
         NEW v, v = After(s, n)
  PROVE  v \in Seq(Characters) /\ NormalizePercentEncoding(v) = from[n + 1]
<1>1. v \in Seq(Characters) /\ Ending(v, s, n) /\ Len(s) \in Nat /\ Len(v) \in Nat
  BY AfterIs, LenProperties
<1>2. Len(v) = Len(s) - n /\ \A i \in 1..(Len(s) - n) : v[i] = s[n + i]
  BY <1>1 DEF Ending
<1>3. PICK g : NormalGoes(g, v)
  BY <1>1, NormalSteps
<1> DEFINE N == Len(v)
           M == N + 3
           T == {i \in 1..M : g[i] = from[n + i]}
<1>4. N \in Nat /\ M \in Nat /\ M = N + 3 /\ Len(s) = n + N /\ n \in Nat
  BY <1>1, <1>2
<1>5. \A i \in (N + 1)..M : i \in T
  <2> SUFFICES ASSUME NEW i \in (N + 1)..M PROVE i \in T
    OBVIOUS
  <2>1. i \in 1..M /\ i \in 1..(Len(v) + 3) /\ i > Len(v) /\ n + i \in 1..(Len(s) + 3) /\ n + i > Len(s)
    BY <1>4
  <2>2. g[i] = Valid(<<>>)
    BY <1>1, <1>3, <2>1, ScanStep
  <2>3. from[n + i] = Valid(<<>>)
    <3>1. PICK k : k = n + i
      OBVIOUS
    <3> QED
      BY <2>1, <3>1, ScanStep
  <2> QED
    BY <2>1, <2>2, <2>3
<1>6. ASSUME NEW i \in 1..N, \A j \in (i + 1)..M : j \in T PROVE i \in T
  <2>1. PICK k : k = n + i
    OBVIOUS
  <2>2. /\ i \in 1..M /\ i \in 1..(Len(v) + 3) /\ ~(i > Len(v))
        /\ k \in 1..(Len(s) + 3) /\ ~(k > Len(s)) /\ v[i] = s[k]
    BY <1>2, <1>4, <2>1
  <2>3. /\ i + 2 <= Len(v) <=> k + 2 <= Len(s)
        /\ i + 1 <= Len(v) => v[i + 1] = s[k + 1]
        /\ i + 2 <= Len(v) => v[i + 2] = s[k + 2]
    <3>1. i + 2 <= Len(v) <=> k + 2 <= Len(s)
      BY <1>4, <2>1
    <3>2. i + 1 <= Len(v) => i + 1 \in 1..(Len(s) - n) /\ n + (i + 1) = k + 1
      BY <1>4, <2>1
    <3>3. i + 2 <= Len(v) => i + 2 \in 1..(Len(s) - n) /\ n + (i + 2) = k + 2
      BY <1>4, <2>1
    <3> QED
      BY <1>2, <3>1, <3>2, <3>3
  <2>4. WellFormed(v, i) <=> WellFormed(s, k)
    <3>1. i + 2 <= Len(v) => i + 1 <= Len(v)
      BY <1>4
    <3> QED
      BY <2>3, <3>1 DEF WellFormed
  <2>5. NextAt(v, i) \in (i + 1)..M /\ n + NextAt(v, i) = NextAt(s, k)
    BY <1>4, <2>1, <2>2 DEF NextAt
  <2>6. PICK a : a = NextAt(v, i)
    OBVIOUS
  <2>7. PICK b : b = NextAt(s, k)
    OBVIOUS
  <2>8. g[a] = from[b]
    <3>1. a \in (i + 1)..M /\ n + a = b
      BY <2>5, <2>6, <2>7
    <3>2. a \in T
      BY <1>6, <3>1
    <3> QED
      BY <3>1, <3>2
  <2>9. g[i] = IF v[i] = "%" /\ ~WellFormed(v, i) THEN Invalid
               ELSE IF g[a].ok THEN Valid(Cat(HeadAt(v, i), g[a].url)) ELSE Invalid
    BY <1>1, <1>3, <2>2, <2>6, ScanStep
  <2>10. from[k] = IF s[k] = "%" /\ ~WellFormed(s, k) THEN Invalid
                   ELSE IF from[b].ok THEN Valid(Cat(HeadAt(s, k), from[b].url)) ELSE Invalid
    BY <2>2, <2>7, ScanStep
  <2>11. v[i] = "%" /\ WellFormed(v, i) => HeadAt(v, i) = HeadAt(s, k)
    <3> SUFFICES ASSUME v[i] = "%", WellFormed(v, i) PROVE HeadAt(v, i) = HeadAt(s, k)
      OBVIOUS
    <3>1. v[i + 1] = s[k + 1] /\ v[i + 2] = s[k + 2]
      BY <1>4, <2>3 DEF WellFormed
    <3> QED
      BY <2>2, <3>1 DEF HeadAt
  <2>12. v[i] # "%" => HeadAt(v, i) = HeadAt(s, k)
    BY <2>2 DEF HeadAt
  <2>13. g[i] = from[k]
    <3> HIDE DEF N, M, T
    <3> QED
      BY <2>2, <2>4, <2>8, <2>9, <2>10, <2>11, <2>12
  <2> QED
    BY <2>1, <2>2, <2>13
<1> HIDE DEF T
<1>7. \A i \in 1..M : i \in T
  <2> HIDE DEF N, M
  <2>1. N \in Nat /\ M \in Nat
    BY <1>4
  <2>2. \A i \in 1..N : (\A j \in (i + 1)..M : j \in T) => i \in T
    BY <1>6
  <2> QED
    BY <1>5, <2>1, <2>2, DownFrom
<1>8. g[1] = from[n + 1]
  <2>1. 1 \in 1..M
    BY <1>4
  <2> QED
    BY <1>7, <2>1 DEF T
<1> QED
  BY <1>1, <1>3, <1>8 DEF NormalGoes

(* A text without escapes ahead of another is scanned as it is. *)
LEMMA PlainAhead ==
  ASSUME NEW p \in Seq(Ascii), \A i \in 1..Len(p) : p[i] # "%",
         NEW v \in Seq(Characters), NEW w \in Seq(Ascii), NormalizePercentEncoding(v) = Valid(w),
         NEW k, k = Cat(p, v)
  PROVE  k \in Seq(Characters) /\ NormalizePercentEncoding(k) = Valid(Cat(p, w))
<1> DEFINE N == Len(p)
           M == N + 1
<1>1. p \in Seq(Characters) /\ N \in Nat /\ M \in Nat /\ M = N + 1
  <2>1. Ascii \subseteq Characters
    BY ClassesAreAscii
  <2> QED
    BY <2>1, SeqMonotonic, LenProperties
<1>2. k \in Seq(Characters) /\ CatIs(k, p, v) /\ After(k, N) = v /\ Len(k) \in Nat /\ Len(v) \in Nat
  BY <1>1, CatLength, CatCut, LenProperties
<1>3. Len(k) = N + Len(v) /\ \A i \in 1..N : k[i] = p[i]
  BY <1>2 DEF CatIs
<1>4. PICK from : NormalGoes(from, k)
  BY <1>2, NormalSteps
<1>5. from[M] = Valid(w)
  <2>1. N \in 0..Len(k)
    BY <1>1, <1>2, <1>3
  <2>2. NormalizePercentEncoding(v) = from[N + 1]
    <3>1. PICK n : n = N
      OBVIOUS
    <3>2. n \in 0..Len(k) /\ v = After(k, n)
      BY <1>2, <2>1, <3>1
    <3>3. NormalizePercentEncoding(v) = from[n + 1]
      BY <1>2, <1>4, <3>2, ScanSuffix
    <3> QED
      BY <3>1, <3>3
  <2> QED
    BY <1>1, <2>2
<1> DEFINE Good(i) == from[i] = Valid(Cat(Onward(p, i), w))
           T == {i \in 1..M : Good(i)}
<1>6. \A i \in (N + 1)..M : i \in T
  <2>1. Good(M)
    <3>1. Onward(p, M) = <<>>
      <4>1. M \in Int /\ Len(p) \in Int /\ M > Len(p)
        BY <1>1
      <4> HIDE DEF M
      <4>2. SubSeq(p, M, Len(p)) = <<>>
        BY <4>1, SubSeqEmpty
      <4> QED
        BY <4>2 DEF Onward
    <3>2. Cat(<<>>, w) = w
      BY CatTexts
    <3> QED
      BY <1>5, <3>1, <3>2
  <2>2. \A i \in (N + 1)..M : i = M /\ i \in 1..M
    BY <1>1
  <2> HIDE DEF Good
  <2> QED
    BY <2>1, <2>2
<1>7. ASSUME NEW i \in 1..N, \A j \in (i + 1)..M : j \in T PROVE i \in T
  <2>1. i \in 1..M /\ i + 1 \in (i + 1)..M /\ i \in 1..Len(p) /\ i \in 1..(Len(k) + 3) /\ ~(i > Len(k))
    BY <1>1, <1>2, <1>3
  <2>2. k[i] = p[i] /\ p[i] \in Ascii /\ p[i] # "%"
    BY <1>3, <2>1, ElementOfSeq
  <2>3. HeadAt(k, i) = One(p[i]) /\ NextAt(k, i) = i + 1
    BY <2>2, HeadPlain
  <2>4. PICK o : o = Onward(p, i + 1)
    OBVIOUS
  <2>5. Onward(p, i) = Cat(One(p[i]), o) /\ One(p[i]) \in Seq(Ascii) /\ o \in Seq(Ascii)
    BY <2>1, <2>4, OnwardLed
  <2>6. from[i + 1] = Valid(Cat(o, w))
    BY <1>7, <2>1, <2>4
  <2>7. from[i] = IF from[i + 1].ok THEN Valid(Cat(One(p[i]), from[i + 1].url)) ELSE Invalid
    BY <1>2, <1>4, <2>1, <2>2, <2>3, ScanStep
  <2>8. from[i + 1].ok /\ from[i + 1].url = Cat(o, w)
    BY <2>6 DEF Valid
  <2>9. Cat(Cat(One(p[i]), o), w) = Cat(One(p[i]), Cat(o, w))
    BY <2>5, CatTexts
  <2>10. Good(i)
    <3> HIDE DEF N, M, T
    <3> QED
      BY <2>5, <2>7, <2>8, <2>9
  <2> QED
    BY <2>1, <2>10
<1> HIDE DEF T
<1>8. \A i \in 1..M : i \in T
  <2> HIDE DEF N, M
  <2>1. N \in Nat /\ M \in Nat
    BY <1>1
  <2>2. \A i \in 1..N : (\A j \in (i + 1)..M : j \in T) => i \in T
    BY <1>7
  <2> QED
    BY <1>6, <2>1, <2>2, DownFrom
<1>9. from[1] = Valid(Cat(Onward(p, 1), w))
  <2>1. 1 \in 1..M
    BY <1>1
  <2> QED
    BY <1>8, <2>1 DEF T
<1>10. Onward(p, 1) = p
  <2>1. SubSeq(p, 1, Len(p)) = p
    BY SubSeqFull
  <2> QED
    BY <2>1 DEF Onward
<1> QED
  BY <1>2, <1>4, <1>9, <1>10 DEF NormalGoes

(* from[i] is what the scan makes of the text from character i on. *)
Scanned(from, s) ==
  NormalGoes(from, s) /\ \A i \in 1..(Len(s) + 3) : from[i] \in AsciiResults

(* A character of the scanned text that is no "%" is one of the text. *)
LEMMA PlainStep ==
  ASSUME NEW s \in Seq(Characters), NEW from, Scanned(from, s), NEW i \in 1..(Len(s) + 3),
         NEW t \in Seq(Ascii), NEW j \in 1..Len(t), t[j] # "%", from[i] = Valid(Onward(t, j))
  PROVE  i <= Len(s) /\ s[i] = t[j] /\ from[i + 1] = Valid(Onward(t, j + 1))
<1>1. PICK x : x = Onward(t, j)
  OBVIOUS
<1>2. x = Cat(One(t[j]), Onward(t, j + 1)) /\ Onward(t, j + 1) \in Seq(Ascii) /\ One(t[j]) \in Seq(Ascii)
  BY <1>1, OnwardLed
<1>3. PICK o : o = Onward(t, j + 1)
  OBVIOUS
<1>4. x \in Seq(Ascii) /\ Len(x) # 0 /\ x[1] = t[j] /\ After(x, 1) = o
  <2>1. PICK h : h = One(t[j])
    OBVIOUS
  <2>2. h \in Seq(Ascii) /\ Len(h) = 1 /\ h[1] = t[j]
    <3>1. PICK y : y = t[j]
      OBVIOUS
    <3>2. <<y>>[1] = y /\ Len(<<y>>) = 1
      OBVIOUS
    <3> QED
      BY <1>2, <2>1, <3>1, <3>2 DEF One
  <2>3. x = Cat(h, o) /\ o \in Seq(Ascii)
    BY <1>2, <1>3, <2>1
  <2>4. x \in Seq(Ascii) /\ CatIs(x, h, o) /\ After(x, Len(h)) = o /\ Len(o) \in Nat
    BY <2>2, <2>3, CatLength, CatCut, LenProperties
  <2>5. 1 \in 1..Len(h)
    BY <2>2
  <2> QED
    BY <2>2, <2>4, <2>5 DEF CatIs
<1>5. from[i].ok /\ from[i].url = x /\ from[i] # Invalid
  <2>1. Valid(x).ok /\ Valid(x).url = x /\ ~Invalid.ok
    BY DEF Valid, Invalid
  <2> QED
    BY <1>1, <2>1
<1>6. PICK m : m = NextAt(s, i)
  OBVIOUS
<1>7. from[i] = IF i > Len(s) THEN Valid(<<>>)
                ELSE IF s[i] = "%" /\ ~WellFormed(s, i) THEN Invalid
                ELSE IF from[m].ok THEN Valid(Cat(HeadAt(s, i), from[m].url)) ELSE Invalid
  BY <1>6, ScanStep DEF Scanned
<1>8. ~(i > Len(s))
  <2> SUFFICES ASSUME i > Len(s) PROVE FALSE
    OBVIOUS
  <2>1. from[i] = Valid(<<>>)
    BY <1>7
  <2>2. x = <<>>
    BY <1>5, <2>1 DEF Valid
  <2> QED
    BY <1>4, <2>2, EmptySeq
<1>9. i \in 1..Len(s) /\ s[i] \in Characters /\ Len(s) \in Nat
  BY <1>8, ElementOfSeq, LenProperties
<1>10. (s[i] = "%" => WellFormed(s, i)) /\ from[m].ok /\ x = Cat(HeadAt(s, i), from[m].url)
  <2>1. Valid(Cat(HeadAt(s, i), from[m].url)).url = Cat(HeadAt(s, i), from[m].url)
    BY DEF Valid
  <2> QED
    BY <1>5, <1>7, <1>8, <2>1
<1>11. PICK y : y = from[m].url
  OBVIOUS
<1>12. y \in Seq(Ascii) /\ from[m] = Valid(y)
  <2>1. from[m] # Invalid
    BY <1>10 DEF Invalid
  <2>0. m \in 1..(Len(s) + 3)
    BY <1>6, <1>9 DEF NextAt
  <2>2. PICK z \in Seq(Ascii) : from[m] = Valid(z)
    BY <2>0, <2>1 DEF AsciiResults, Scanned
  <2>3. y = z
    BY <1>11, <2>2 DEF Valid
  <2> QED
    BY <2>2, <2>3
<1>13. PICK h : h = HeadAt(s, i)
  OBVIOUS
<1>14. h \in Seq(Ascii) /\ CatIs(x, h, y)
  <2>1. h \in Seq(Ascii)
    BY <1>9, <1>10, <1>13, HeadIsAscii
  <2> QED
    BY <1>10, <1>11, <1>12, <1>13, <2>1, CatLength
<1>15. s[i] # "%"
  <2> SUFFICES ASSUME s[i] = "%" PROVE FALSE
    OBVIOUS
  <2>1. PICK a, b : a = HexUp(s[i + 1]) /\ b = HexUp(s[i + 2])
    OBVIOUS
  <2>2. h = <<"%", a, b>>
    <3>1. s[i] \notin DOMAIN Utf8
      BY NoNewDelimiter, CharacterSet DEF Delimiters
    <3> QED
      BY <1>13, <2>1, <3>1 DEF HeadAt
  <2>3. Len(h) = 3 /\ h[1] = "%"
    BY <2>2
  <2>4. x[1] = "%"
    BY <1>14, <2>3 DEF CatIs
  <2> QED
    BY <1>4, <2>4
<1>16. s[i] \notin DOMAIN Utf8
  <2> SUFFICES ASSUME s[i] \in DOMAIN Utf8 PROVE FALSE
    OBVIOUS
  <2>1. h = Escapes(s[i])
    BY <1>13, <1>15 DEF HeadAt
  <2>2. h # <<>> /\ h[1] = "%"
    BY <2>1, EscapesUnmarked
  <2>3. Len(h) \in Nat /\ Len(h) # 0
    BY <1>14, <2>2, EmptySeq, LenProperties
  <2>4. 1 \in 1..Len(h)
    BY <2>3
  <2>5. x[1] = h[1]
    BY <1>14, <2>4 DEF CatIs
  <2> QED
    BY <1>4, <2>2, <2>5
<1>17. s[i] \in Ascii
  BY <1>9, <1>16 DEF Characters
<1>18. h = One(s[i]) /\ m = i + 1
  BY <1>6, <1>13, <1>15, <1>17, HeadPlain
<1>19. Len(h) = 1 /\ h[1] = s[i]
  <2>1. PICK c : c = s[i]
    OBVIOUS
  <2>2. <<c>>[1] = c /\ Len(<<c>>) = 1
    OBVIOUS
  <2> QED
    BY <1>18, <2>1, <2>2 DEF One
<1>20. x[1] = s[i]
  BY <1>14, <1>19 DEF CatIs
<1>21. o = y
  <2>1. x = Cat(h, y)
    BY <1>10, <1>11, <1>13
  <2>2. After(x, Len(h)) = y
    BY <1>12, <1>14, <2>1, CatCut
  <2> QED
    BY <1>4, <1>19, <2>2
<1>22. from[i + 1] = Valid(o)
  BY <1>12, <1>18, <1>21
<1> QED
  BY <1>3, <1>4, <1>8, <1>9, <1>20, <1>22

(* The authority is left without a mark by the scan, and the rest begins with *)
(* the mark that ends it.                                                     *)
FirstMark(s, i, m) ==
  /\ m \in i..(Len(s) + 1) /\ \A j \in i..(m - 1) : s[j] \notin ResourceMarks
  /\ m <= Len(s) => s[m] \in ResourceMarks

(* w follows an authority in x. *)
Behind(x, w) == \E b \in Unmarked : x = Cat(b, w)

(* A scan that succeeds gives a text. *)
LEMMA ScanResult ==
  ASSUME NEW s, NEW from, Scanned(from, s), NEW i \in 1..(Len(s) + 3), from[i].ok
  PROVE  from[i].url \in Seq(Ascii) /\ from[i] = Valid(from[i].url)
<1>1. from[i] # Invalid /\ from[i] \in AsciiResults
  BY DEF Invalid, Scanned
<1>2. PICK z \in Seq(Ascii) : from[i] = Valid(z)
  BY <1>1 DEF AsciiResults
<1> QED
  BY <1>2 DEF Valid

(* An authority is scanned to an authority: no escape it is given is a mark. *)
LEMMA AuthorityScanned ==
  ASSUME NEW s \in Seq(Characters), NEW from, Scanned(from, s), NEW first \in 1..(Len(s) + 1),
         NEW m, FirstMark(s, first, m), from[first].ok
  PROVE  from[m].ok /\ Behind(from[first].url, from[m].url)
<1> DEFINE Good(i) == from[i].ok => from[m].ok /\ Behind(from[i].url, from[m].url)
           N == m - 1
           T == {i \in 1..m : i >= first => Good(i)}
<1>1. Len(s) \in Nat /\ m \in Nat /\ m >= first /\ m <= Len(s) + 1 /\ N \in Nat /\ m = N + 1
      /\ m \in 1..(Len(s) + 3) /\ first \in Nat
  BY LenProperties DEF FirstMark
<1>2. Good(m)
  <2> SUFFICES ASSUME from[m].ok PROVE Behind(from[m].url, from[m].url)
    OBVIOUS
  <2>1. PICK w : w = from[m].url
    OBVIOUS
  <2>2. w \in Seq(Ascii)
    BY <1>1, <2>1, ScanResult
  <2>3. w = Cat(<<>>, w)
    BY <2>2, CatTexts
  <2>4. <<>> \in Unmarked
    BY EmptySeq DEF Unmarked
  <2> QED
    BY <2>1, <2>3, <2>4 DEF Behind
<1>3. \A i \in (N + 1)..m : i \in T
  <2>1. \A i \in (N + 1)..m : i = m /\ i \in 1..m
    BY <1>1
  <2> HIDE DEF Good
  <2> QED
    BY <1>2, <2>1
<1>4. ASSUME NEW i \in 1..N, \A j \in (i + 1)..m : j \in T PROVE i \in T
  <2>1. i \in 1..m
    BY <1>1
  <2>2. ASSUME i >= first, from[i].ok PROVE from[m].ok /\ Behind(from[i].url, from[m].url)
    <3>1. /\ i \in 1..Len(s) /\ i \in 1..(Len(s) + 3) /\ ~(i > Len(s)) /\ i \in first..(m - 1)
      BY <1>1, <2>2
    <3>2. PICK n : n = NextAt(s, i)
      OBVIOUS
    <3>3. from[i] = IF s[i] = "%" /\ ~WellFormed(s, i) THEN Invalid
                    ELSE IF from[n].ok THEN Valid(Cat(HeadAt(s, i), from[n].url)) ELSE Invalid
      BY <3>1, <3>2, ScanStep DEF Scanned
    <3>4. (s[i] = "%" => WellFormed(s, i)) /\ from[n].ok /\ from[i].url = Cat(HeadAt(s, i), from[n].url)
      <4>1. ~Invalid.ok /\ Valid(Cat(HeadAt(s, i), from[n].url)).url = Cat(HeadAt(s, i), from[n].url)
        BY DEF Invalid, Valid
      <4> QED
        BY <2>2, <3>3, <4>1
    <3>5. s[i] \notin ResourceMarks
      BY <3>1 DEF FirstMark
    <3>6. n \in (i + 1)..m
      <4>1. CASE s[i] # "%"
        BY <1>1, <3>1, <3>2, <4>1 DEF NextAt
      <4>2. CASE s[i] = "%"
        <5>1. n = i + 3 /\ i + 2 <= Len(s)
          BY <3>2, <3>4, <4>2 DEF NextAt, WellFormed
        <5>2. s[i + 1] \notin ResourceMarks /\ s[i + 2] \notin ResourceMarks
          BY <3>4, <4>2, NoNewDelimiter DEF WellFormed, IsHex, Delimiters, ResourceMarks
        <5>3. m # i + 1 /\ m # i + 2
          <6>1. i + 1 <= Len(s) /\ i + 2 <= Len(s)
            BY <1>1, <3>1, <5>1
          <6> QED
            BY <5>2, <6>1 DEF FirstMark
        <5>4. m <= Len(s) + 1 /\ m >= i + 1
          BY <1>1, <3>1
        <5>5. m >= i + 3
          BY <1>1, <3>1, <5>3, <5>4
        <5> QED
          BY <1>1, <3>1, <5>1, <5>5
      <4> QED
        BY <4>1, <4>2
    <3>7. n \in T /\ n \in 1..(Len(s) + 3) /\ n >= first
      <4>1. n \in T
        BY <1>4, <3>6
      <4>2. n \in 1..(Len(s) + 3) /\ n >= first
        BY <1>1, <3>1, <3>6
      <4> QED
        BY <4>1, <4>2
    <3>8. from[m].ok /\ Behind(from[n].url, from[m].url)
      BY <3>4, <3>7
    <3>9. PICK b \in Unmarked : from[n].url = Cat(b, from[m].url)
      BY <3>8 DEF Behind
    <3>10. PICK h : h = HeadAt(s, i)
      OBVIOUS
    <3>11. h \in Unmarked
      BY <3>1, <3>4, <3>5, <3>10, HeadUnmarked
    <3>12. PICK w : w = from[m].url
      OBVIOUS
    <3>13. w \in Seq(Ascii)
      BY <1>1, <3>8, <3>12, ScanResult
    <3>14. Cat(h, b) \in Unmarked /\ Cat(Cat(h, b), w) = Cat(h, Cat(b, w))
      <4>1. Unmarked \subseteq Seq(Ascii)
        <5>1. (Ascii \ ResourceMarks) \subseteq Ascii
          OBVIOUS
        <5> QED
          BY <5>1, SeqMonotonic DEF Unmarked
      <4>2. Cat(h, b) \in Unmarked
        BY <3>9, <3>11, CatTexts DEF Unmarked
      <4>3. h \in Seq(Ascii) /\ b \in Seq(Ascii)
        BY <3>9, <3>11, <4>1
      <4>4. Cat(Cat(h, b), w) = Cat(h, Cat(b, w))
        BY <3>13, <4>3, CatTexts
      <4> QED
        BY <4>2, <4>4
    <3>15. from[i].url = Cat(Cat(h, b), w)
      BY <3>4, <3>9, <3>10, <3>12, <3>14
    <3>16. Behind(from[i].url, w)
      BY <3>14, <3>15 DEF Behind
    <3> QED
      BY <3>8, <3>12, <3>16
  <2> QED
    BY <2>1, <2>2
<1> HIDE DEF T
<1>5. \A i \in 1..m : i \in T
  <2> HIDE DEF N
  <2>1. N \in Nat /\ m \in Nat
    BY <1>1
  <2>2. \A i \in 1..N : (\A j \in (i + 1)..m : j \in T) => i \in T
    BY <1>4
  <2> QED
    BY <1>3, <2>1, <2>2, DownFrom
<1>6. Good(first)
  <2>1. first \in 1..m /\ first >= first
    BY <1>1
  <2>2. first \in T
    BY <1>5, <2>1
  <2> QED
    BY <2>1, <2>2 DEF T
<1> QED
  BY <1>6

(* A mark is scanned to itself. *)
LEMMA MarkLeads ==
  ASSUME NEW s \in Seq(Characters), NEW from, Scanned(from, s), NEW first \in 1..(Len(s) + 1),
         NEW m, FirstMark(s, first, m), from[m].ok, NEW w, w = from[m].url
  PROVE  w \in Seq(Ascii) /\ (w # <<>> => w[1] \in ResourceMarks)
<1>1. Len(s) \in Nat /\ m \in 1..(Len(s) + 1) /\ m \in 1..(Len(s) + 3)
  BY LenProperties DEF FirstMark
<1>2. w \in Seq(Ascii)
  BY <1>1, ScanResult
<1>3. CASE m > Len(s)
  <2>1. from[m] = Valid(<<>>)
    BY <1>1, <1>3, ScanStep DEF Scanned
  <2>2. w = <<>>
    BY <2>1 DEF Valid
  <2> QED
    BY <1>2, <2>2
<1>4. CASE ~(m > Len(s))
  <2>1. m \in 1..Len(s) /\ s[m] \in ResourceMarks
    BY <1>1, <1>4 DEF FirstMark
  <2>2. s[m] \in Ascii /\ s[m] # "%"
    BY <2>1, NoNewDelimiter DEF Delimiters, ResourceMarks
  <2>3. HeadAt(s, m) = One(s[m]) /\ NextAt(s, m) = m + 1
    BY <2>2, HeadPlain
  <2>4. from[m] = IF from[m + 1].ok THEN Valid(Cat(One(s[m]), from[m + 1].url)) ELSE Invalid
    BY <1>1, <1>4, <2>2, <2>3, ScanStep DEF Scanned
  <2>5. from[m + 1].ok /\ w = Cat(One(s[m]), from[m + 1].url)
    <3>1. ~Invalid.ok /\ Valid(Cat(One(s[m]), from[m + 1].url)).url = Cat(One(s[m]), from[m + 1].url)
      BY DEF Invalid, Valid
    <3> QED
      BY <2>4, <3>1
  <2>6. PICK y : y = from[m + 1].url
    OBVIOUS
  <2>7. y \in Seq(Ascii)
    <3>1. PICK k : k = m + 1
      OBVIOUS
    <3>2. k \in 1..(Len(s) + 3)
      BY <1>1, <3>1
    <3> QED
      BY <2>5, <2>6, <3>1, <3>2, ScanResult
  <2>8. PICK c : c = s[m]
    OBVIOUS
  <2>9. One(c) \in Seq(Ascii) /\ Len(One(c)) = 1 /\ One(c)[1] = c
    BY <2>2, <2>8 DEF One
  <2>10. CatIs(w, One(c), y)
    BY <2>5, <2>6, <2>7, <2>8, <2>9, CatLength
  <2>11. w[1] = c
    BY <2>9, <2>10 DEF CatIs
  <2> QED
    BY <1>2, <2>1, <2>8, <2>11
<1> QED
  BY <1>3, <1>4

(* Where a text is cut at its first mark. *)
Resource(x) ==
  IF Find(x, ResourceMarks) = 0 THEN <<>> ELSE SubSeq(x, Find(x, ResourceMarks), Len(x))

(* The resource is what follows the authority. *)
LEMMA ResourceBehind ==
  ASSUME NEW x, NEW w \in Seq(Ascii), w # <<>> => w[1] \in ResourceMarks, Behind(x, w)
  PROVE  Resource(x) = w
<1>1. PICK b \in Unmarked : x = Cat(b, w)
  BY DEF Behind
<1>2. b \in Seq(Ascii) /\ \A i \in 1..Len(b) : b[i] \notin ResourceMarks
  <2>1. (Ascii \ ResourceMarks) \subseteq Ascii
    OBVIOUS
  <2>2. \A i \in 1..Len(b) : b[i] \in Ascii \ ResourceMarks
    BY <1>1, ElementOfSeq DEF Unmarked
  <2>3. b \in Seq(Ascii)
    BY <1>1, <2>1, SeqMonotonic DEF Unmarked
  <2> QED
    BY <2>2, <2>3
<1>3. PICK stop : stop = Find(x, ResourceMarks)
  OBVIOUS
<1>4. stop = IF w = <<>> THEN 0 ELSE Len(b) + 1
  BY <1>1, <1>2, <1>3, FindAfter
<1>5. Len(b) \in Nat
  BY <1>2, LenProperties
<1>6. CASE w = <<>>
  BY <1>3, <1>4, <1>6 DEF Resource
<1>7. CASE w # <<>>
  <2>1. After(x, Len(b)) = w
    BY <1>1, <1>2, CatCut
  <2>2. stop = Len(b) + 1 /\ stop # 0
    BY <1>4, <1>5, <1>7
  <2> QED
    BY <1>3, <2>1, <2>2 DEF After, Resource
<1> QED
  BY <1>6, <1>7

(* The resource of the raw text is a rest of it. *)
LEMMA LineCut ==
  ASSUME NEW s \in Seq(Characters), Len(s) >= 4, NEW rest, rest = After(s, 4)
  PROVE  \E m : FirstMark(s, 5, m) /\ Resource(rest) = After(s, m - 1)
<1>1. Len(s) \in Nat /\ 4 \in 0..Len(s)
  BY LenProperties
<1>2. rest \in Seq(Characters) /\ Ending(rest, s, 4) /\ Len(rest) \in Nat
  BY <1>1, AfterIs, LenProperties
<1>3. Len(rest) = Len(s) - 4 /\ \A i \in 1..(Len(s) - 4) : rest[i] = s[4 + i]
  BY <1>2 DEF Ending
<1>4. PICK stop : stop = Find(rest, ResourceMarks)
  OBVIOUS
<1>5. /\ stop \in 0..Len(rest)
      /\ stop = 0 => \A i \in 1..Len(rest) : rest[i] \notin ResourceMarks
      /\ stop # 0 => rest[stop] \in ResourceMarks /\ \A i \in 1..(stop - 1) : rest[i] \notin ResourceMarks
  BY <1>2, <1>4, FindFinds
<1>6. CASE stop = 0
  <2>1. PICK m : m = Len(s) + 1
    OBVIOUS
  <2>2. \A j \in 5..(m - 1) : s[j] \notin ResourceMarks
    <3> TAKE j \in 5..(m - 1)
    <3>1. j - 4 \in 1..Len(rest) /\ j - 4 \in 1..(Len(s) - 4) /\ 4 + (j - 4) = j
      BY <1>1, <1>3, <2>1
    <3> QED
      BY <1>3, <1>5, <1>6, <3>1
  <2>3. FirstMark(s, 5, m)
    BY <1>1, <2>1, <2>2 DEF FirstMark
  <2>4. After(s, m - 1) = <<>>
    <3>1. m - 1 = Len(s) /\ Len(s) + 1 \in Int /\ Len(s) + 1 > Len(s)
      BY <1>1, <2>1
    <3>2. SubSeq(s, Len(s) + 1, Len(s)) = <<>>
      BY <1>1, <3>1, SubSeqEmpty
    <3> QED
      BY <3>1, <3>2 DEF After
  <2>5. Resource(rest) = <<>>
    BY <1>4, <1>6 DEF Resource
  <2> QED
    BY <2>3, <2>4, <2>5
<1>7. CASE stop # 0
  <2>1. PICK m : m = 4 + stop
    OBVIOUS
  <2>2. stop \in 1..Len(rest) /\ m - 1 \in 0..Len(s) /\ m \in 5..Len(s) /\ m - 1 = 3 + stop
    BY <1>1, <1>2, <1>3, <1>5, <1>7, <2>1
  <2>3. \A j \in 5..(m - 1) : s[j] \notin ResourceMarks
    <3> TAKE j \in 5..(m - 1)
    <3>1. j - 4 \in 1..(stop - 1) /\ j - 4 \in 1..(Len(s) - 4) /\ 4 + (j - 4) = j
      BY <1>1, <1>3, <2>1, <2>2
    <3> QED
      BY <1>3, <1>5, <1>7, <3>1
  <2>4. s[m] \in ResourceMarks
    <3>1. stop \in 1..(Len(s) - 4)
      BY <1>3, <2>2
    <3> QED
      BY <1>3, <1>5, <1>7, <2>1, <3>1
  <2>5. FirstMark(s, 5, m)
    <3>1. m \in 5..(Len(s) + 1)
      BY <1>1, <2>2
    <3> QED
      BY <2>3, <2>4, <3>1 DEF FirstMark
  <2>6. PICK p : p = SubSeq(rest, stop, Len(rest))
    OBVIOUS
  <2>7. PICK q : q = After(s, m - 1)
    OBVIOUS
  <2>8. /\ p \in Seq(Characters) /\ Len(p) = Len(rest) - stop + 1
        /\ \A i \in 1..(Len(rest) - stop + 1) : p[i] = rest[stop + i - 1]
    <3>1. stop \in 1..(Len(rest) + 1) /\ Len(rest) \in (stop - 1)..Len(rest)
      BY <1>2, <2>2
    <3> QED
      BY <1>2, <2>6, <3>1, PartOfText
  <2>9. q \in Seq(Characters) /\ Ending(q, s, m - 1)
    BY <2>2, <2>7, AfterIs
  <2>10. Len(q) = Len(s) - (m - 1) /\ \A i \in 1..(Len(s) - (m - 1)) : q[i] = s[(m - 1) + i]
    BY <2>9 DEF Ending
  <2>11. Len(p) = Len(q)
    BY <1>1, <1>2, <1>3, <2>2, <2>8, <2>10
  <2>12. ASSUME NEW i \in 1..Len(p) PROVE p[i] = q[i]
    <3>1. /\ i \in 1..(Len(rest) - stop + 1) /\ i \in 1..(Len(s) - (m - 1))
          /\ stop + i - 1 \in 1..(Len(s) - 4) /\ 4 + (stop + i - 1) = (m - 1) + i
      BY <1>1, <1>2, <1>3, <2>2, <2>8, <2>10, <2>11
    <3> QED
      BY <1>3, <2>8, <2>10, <3>1
  <2>13. p = q
    BY <2>8, <2>9, <2>11, <2>12, SeqEqual
  <2>14. Resource(rest) = p
    BY <1>4, <1>7, <2>6 DEF Resource
  <2> QED
    BY <2>5, <2>7, <2>13, <2>14
<1> QED
  BY <1>6, <1>7

(* The words of the address that the corpus check puts ahead of a resource. *)
LEMMA CorpusWords ==
  /\ {"http", "a", ":", "/"} \subseteq Ascii
  /\ Lower("http") = "http" /\ Lower("a") = "a" /\ "a" \notin Delimiters
<1>1. {"http", "a"} \subseteq ToSet(Lowers)
  BY CorpusAddress
<1>2. "http" \notin DOMAIN LowerOf /\ "a" \notin DOMAIN LowerOf
  BY <1>1, UppersStandAlone, CharacterSet
<1>3. {":", "/"} \subseteq Delimiters
  BY DEF Delimiters
<1> QED
  BY <1>1, <1>2, <1>3, NoNewDelimiter DEF Lower

(* That address is parsed, with any resource behind it. *)
LEMMA CorpusHostParsed == ParseAuthority(One("a"), FALSE).ok
<1>1. PICK p : p = One("a")
  OBVIOUS
<1>2. p \in Seq(Ascii) /\ Len(p) = 1 /\ p[1] = "a" /\ p # <<>>
  BY <1>1, CorpusWords DEF One
<1>3. p \in TidyTexts
  <2>1. \A i \in 1..Len(p) : p[i] # "%"
    BY <1>2
  <2>2. p \in ClosedTexts
    BY <1>2, <2>1, PlainIsClosed
  <2> QED
    BY <2>2, ClosedIsTidy DEF ClosedTexts, TidyTexts
<1>4. AuthorityIs(p, FALSE, p, <<>>)
  <2>1. \A i \in 1..Len(p) : p[i] = p[i] /\ p[i] # ":"
    BY <1>2
  <2> QED
    BY <1>2, <1>3, <2>1 DEF AuthorityIs
<1>5. NormalizeHostEscapes(p) = p
  <2>1. PICK n : n = NormalizeHostEscapes(p)
    OBVIOUS
  <2>2. n \in Seq(Ascii) /\ Len(n) = 1
    BY <1>2, <1>3, <2>1, NormalHostType
  <2>3. n[1] = "a"
    <3>1. 1 \in 1..Len(p) /\ ~InHostEscape(p, 1)
      BY <1>2 DEF InHostEscape
    <3>2. n[1] = Lower(p[1])
      BY <1>3, <2>1, <3>1, HostEscapesAt
    <3> QED
      BY <1>2, <3>2, CorpusWords
  <2>4. n = p
    BY <1>2, <2>2, <2>3, SeqEqual
  <2> QED
    BY <2>1, <2>4
<1>6. ~Barred(p)
  BY <1>2 DEF Barred, Contains
<1>7. ParseAuthority(p, FALSE) = Outcome(p, <<>>)
  <2>1. PICK https : https = FALSE
    OBVIOUS
  <2>2. PICK suffix : suffix = <<>>
    OBVIOUS
  <2>3. p \in Seq(Ascii) /\ AuthorityIs(p, https, p, suffix)
    BY <1>2, <1>4, <2>1, <2>2
  <2>4. ParseAuthority(p, https) =
          IF Barred(p) THEN Invalid ELSE Outcome(NormalizeHostEscapes(p), suffix)
    BY <2>3, AuthorityBuilt
  <2> QED
    BY <1>5, <1>6, <2>1, <2>2, <2>4
<1>8. Outcome(p, <<>>).ok
  <2> DEFINE www   == IsPrefix(<<"www", ".">>, p)
             label == IF www THEN SubSeq(p, 3, Len(p)) ELSE p
             split == SplitHost(label, <<>>)
  <2>1. Outcome(p, <<>>) = IF label = <<>> \/ split.host = <<>> THEN Invalid
                           ELSE Valid([www |-> www, host |-> split.host, tld |-> split.tld])
    BY Zenon DEF Outcome
  <2>2. ~www
    <3>1. Len(<<"www", ".">>) = 2
      OBVIOUS
    <3> QED
      BY <1>2, <3>1 DEF IsPrefix
  <2>3. label = p
    BY <2>2
  <2> HIDE DEF www, label
  <2>4. SplitHost(p, <<>>).host = p
    <3>1. PICK full : full = p \o <<>>
      OBVIOUS
    <3>2. full = p
      <4>1. Cat(p, <<>>) = p
        BY <1>2, CatTexts
      <4> QED
        BY <3>1, <4>1 DEF Cat
    <3>3. RFind(p, {"."}) = 0
      <4>1. RFind(p, {"."}) \in 0..Len(p)
            /\ (RFind(p, {"."}) # 0 => p[RFind(p, {"."})] \in {"."})
        BY <1>2, RFindFinds
      <4>2. RFind(p, {"."}) \in 0..1
        BY <1>2, <4>1
      <4> QED
        BY <1>2, <4>1, <4>2
    <3> QED
      BY <3>1, <3>2, <3>3 DEF SplitHost
  <2>5. Valid([www |-> www, host |-> split.host, tld |-> split.tld]).ok
    BY DEF Valid
  <2> HIDE DEF split
  <2>6. split.host = p
    BY <2>3, <2>4 DEF split
  <2> QED
    BY <1>2, <2>1, <2>3, <2>5, <2>6
<1> QED
  BY <1>1, <1>7, <1>8

(* Path, query and fragment are those of the resource, whatever is before it. *)
SameResource(x, y) ==
  /\ x.url.path = y.url.path
  /\ x.url.query = y.url.query
  /\ x.url.fragment = y.url.fragment

(* They depend on neither the scheme nor the authority. *)
LEMMA ResourceAlone ==
  ASSUME NEW h1, NEW h2, NEW auth1, NEW auth2, NEW r, auth1.ok, auth2.ok
  PROVE  /\ Assembled(h1, auth1, r).ok
         /\ SameResource(Assembled(h1, auth1, r), Assembled(h2, auth2, r))
<1> DEFINE hash      == Find(r, {"#"})
           pathQuery == IF hash = 0 THEN r ELSE Before(r, hash)
           mark      == Find(pathQuery, {"?"})
           path      == SplitPath(IF mark = 0 THEN pathQuery ELSE Before(pathQuery, mark))
           index     == DetectIndexSuffix(path)
           query     == SplitQuery(After(pathQuery, mark), mark # 0)
           fragment  == SplitFragment(IF hash = 0 THEN <<>> ELSE After(r, hash))
<1>1. ASSUME NEW https, NEW auth
      PROVE  Assembled(https, auth, r) =
               IF ~auth.ok THEN Invalid
               ELSE Valid([https |-> https, www |-> auth.url.www, host |-> auth.url.host,
                           tld |-> auth.url.tld, index |-> index, path |-> path,
                           query |-> query, fragment |-> fragment])
  BY Zenon DEF Assembled
<1> HIDE DEF index, path, query, fragment
<1>2. ASSUME NEW https, NEW auth, auth.ok
      PROVE  /\ Assembled(https, auth, r).ok
             /\ Assembled(https, auth, r).url.path = path
             /\ Assembled(https, auth, r).url.query = query
             /\ Assembled(https, auth, r).url.fragment = fragment
  BY <1>1, <1>2 DEF Valid
<1> QED
  BY <1>2 DEF SameResource

(* A text with the corpus address ahead of a scanned resource. *)
LEMMA CorpusAddressParsed ==
  ASSUME NEW v \in Seq(Characters), NEW w \in Seq(Ascii), NormalizePercentEncoding(v) = Valid(w),
         w # <<>> => w[1] \in ResourceMarks,
         NEW k, k = Cat(<<"http", ":", "/", "/", "a">>, v)
  PROVE  ParseUrl(k) = Assembled(FALSE, ParseAuthority(One("a"), FALSE), w)
<1>1. PICK p : p = <<"http", ":", "/", "/", "a">>
  OBVIOUS
<1>2. PICK x : x = <<"http", ":", "/", "/">>
  OBVIOUS
<1>3. p \in Seq(Ascii) /\ Len(p) = 5 /\ \A i \in 1..Len(p) : p[i] # "%"
  <2>1. p \in Seq(Ascii) /\ Len(p) = 5 /\ p[1] = "http" /\ p[2] = ":" /\ p[3] = "/" /\ p[4] = "/"
        /\ p[5] = "a"
    BY <1>1, CorpusWords
  <2> QED
    BY <2>1
<1>4. x \in Seq(Ascii) /\ Len(x) = 4 /\ x[1] = "http" /\ x[2] = ":" /\ x[3] = "/" /\ x[4] = "/"
  BY <1>2, CorpusWords
<1>5. PICK a : a = One("a")
  OBVIOUS
<1>6. a \in Seq(Ascii) /\ Len(a) = 1 /\ a[1] = "a"
  BY <1>5, CorpusWords DEF One
<1>7. p = Cat(x, a)
  BY <1>1, <1>2, <1>5 DEF Cat, One
<1>8. NormalizePercentEncoding(k) = Valid(Cat(p, w))
  BY <1>1, <1>3, PlainAhead
<1>9. PICK t : t = Cat(p, w)
  OBVIOUS
<1>10. PICK rest : rest = Cat(a, w)
  OBVIOUS
<1>11. t = Cat(x, rest) /\ rest \in Seq(Ascii) /\ t \in Seq(Ascii)
  <2>1. Cat(Cat(x, a), w) = Cat(x, Cat(a, w)) /\ Cat(a, w) \in Seq(Ascii)
    BY <1>4, <1>6, CatTexts
  <2>2. Cat(p, w) \in Seq(Ascii)
    BY <1>3, CatTexts
  <2> QED
    BY <1>7, <1>9, <1>10, <2>1, <2>2
<1>12. After(t, 4) = rest
  <2>1. x \in Seq(Ascii) /\ rest \in Seq(Ascii) /\ t = Cat(x, rest)
    BY <1>4, <1>11
  <2>2. After(t, Len(x)) = rest
    BY <2>1, CatCut
  <2> QED
    BY <1>4, <2>2
<1>13. Starts(t) /\ Secure(t) = FALSE
  <2>1. CatIs(t, x, rest) /\ Len(rest) \in Nat
    BY <1>4, <1>11, CatLength, LenProperties
  <2>2. 1 \in 1..Len(x) /\ 2 \in 1..Len(x) /\ 3 \in 1..Len(x) /\ 4 \in 1..Len(x)
    BY <1>4
  <2>3. Len(t) >= 4 /\ t[1] = "http" /\ t[2] = ":" /\ t[3] = "/" /\ t[4] = "/"
    BY <1>4, <2>1, <2>2 DEF CatIs
  <2> QED
    BY <2>3, CorpusWords DEF Starts, Secure
<1>14. ParseUrl(k) = ParseRest(FALSE, rest)
  <2>1. NormalizePercentEncoding(k) = Valid(t)
    BY <1>8, <1>9
  <2>2. ParseUrl(k) = ParseRest(Secure(t), After(t, 4))
    BY <1>11, <1>13, <2>1, ParsedFrom
  <2> QED
    BY <1>12, <1>13, <2>2
<1>15. \A i \in 1..Len(a) : a[i] \notin ResourceMarks
  BY <1>6 DEF ResourceMarks
<1>16. ParseRest(FALSE, rest) = Assembled(FALSE, ParseAuthority(a, FALSE), w)
  BY <1>6, <1>10, <1>15, RestRebuilt
<1> QED
  BY <1>5, <1>14, <1>16

(* What parse_corpus keeps of an accepted URL is scanned to its resource. *)
LEMMA CorpusLineScanned ==
  ASSUME NEW s \in Seq(Characters), NEW t \in ClosedTexts, NormalizePercentEncoding(s).ok,
         t = NormalizePercentEncoding(s).url, Starts(t)
  PROVE  /\ ParseCorpusLine(s) \in Seq(Characters)
         /\ \E w \in Seq(Ascii) :
              /\ NormalizePercentEncoding(ParseCorpusLine(s)) = Valid(w)
              /\ w # <<>> => w[1] \in ResourceMarks
              /\ Resource(After(t, 4)) = w
<1>1. t \in Seq(Ascii) /\ Len(t) \in Nat /\ Len(t) >= 4 /\ Len(s) \in Nat
  BY LenProperties DEF ClosedTexts, Starts
<1>2. PICK from : Scanned(from, s)
  BY NormalSteps DEF Scanned
<1>3. from[1] = Valid(Onward(t, 1)) /\ 1 \in 1..(Len(s) + 3)
  <2>1. from[1] = NormalizePercentEncoding(s) /\ 1 \in 1..(Len(s) + 3)
    BY <1>1, <1>2 DEF Scanned, NormalGoes
  <2>2. from[1] = Valid(from[1].url)
    BY <1>2, <2>1, ScanResult
  <2>3. Onward(t, 1) = t
    <3>1. SubSeq(t, 1, Len(t)) = t
      BY <1>1, SubSeqFull
    <3> QED
      BY <3>1 DEF Onward
  <2> QED
    BY <2>1, <2>2, <2>3
<1>4. t[1] # "%" /\ t[1] # ":"
  <2>1. "%" \in Delimiters /\ ":" \in Delimiters /\ "%" \in Ascii /\ ":" \in Ascii
    BY NoNewDelimiter DEF Delimiters
  <2>2. Lower("%") = "%" /\ Lower(":") = ":"
    BY <2>1, LowerDelimiters
  <2> QED
    BY <2>2 DEF Starts
<1>5. t[2] # "%" /\ t[3] # "%" /\ t[4] # "%"
  BY DEF Starts
<1>6. 1 <= Len(s) /\ s[1] = t[1] /\ from[2] = Valid(Onward(t, 2))
  <2>1. 1 \in 1..Len(t) /\ 1 + 1 = 2
    BY <1>1
  <2>2. 1 <= Len(s) /\ s[1] = t[1] /\ from[1 + 1] = Valid(Onward(t, 1 + 1))
    BY <1>1, <1>2, <1>3, <1>4, <2>1, PlainStep
  <2> QED
    BY <2>1, <2>2
<1>7. 2 <= Len(s) /\ s[2] = t[2] /\ from[3] = Valid(Onward(t, 3))
  <2>1. 2 \in 1..Len(t) /\ 2 + 1 = 3 /\ 2 \in 1..(Len(s) + 3)
    BY <1>1, <1>6
  <2>2. 2 <= Len(s) /\ s[2] = t[2] /\ from[2 + 1] = Valid(Onward(t, 2 + 1))
    BY <1>1, <1>2, <1>5, <1>6, <2>1, PlainStep
  <2> QED
    BY <2>1, <2>2
<1>8. 3 <= Len(s) /\ s[3] = t[3] /\ from[4] = Valid(Onward(t, 4))
  <2>1. 3 \in 1..Len(t) /\ 3 + 1 = 4 /\ 3 \in 1..(Len(s) + 3)
    BY <1>1, <1>7
  <2>2. 3 <= Len(s) /\ s[3] = t[3] /\ from[3 + 1] = Valid(Onward(t, 3 + 1))
    BY <1>1, <1>2, <1>5, <1>7, <2>1, PlainStep
  <2> QED
    BY <2>1, <2>2
<1>9. 4 <= Len(s) /\ s[4] = t[4] /\ from[5] = Valid(Onward(t, 5))
  <2>1. 4 \in 1..Len(t) /\ 4 + 1 = 5 /\ 4 \in 1..(Len(s) + 3)
    BY <1>1, <1>8
  <2>2. 4 <= Len(s) /\ s[4] = t[4] /\ from[4 + 1] = Valid(Onward(t, 4 + 1))
    BY <1>1, <1>2, <1>5, <1>8, <2>1, PlainStep
  <2> QED
    BY <2>1, <2>2
<1>10. SchemeEnd(s) = 2
  <2>1. Len(s) >= 4 /\ s[1] # ":" /\ s[2] = ":" /\ s[3] = "/" /\ s[4] = "/"
    BY <1>1, <1>4, <1>6, <1>7, <1>8, <1>9 DEF Starts
  <2> QED
    BY <2>1, SchemeEndIs
<1>11. PICK rest : rest = After(s, 4)
  OBVIOUS
<1>12. ParseCorpusLine(s) = Resource(rest)
  <2> DEFINE cut == SubSeq(s, SchemeEnd(s) + 3, Len(s))
             stop == Find(cut, {"/", "?", "#"})
  <2>1. ParseCorpusLine(s) = IF SchemeEnd(s) = 0 THEN s
                             ELSE IF stop = 0 THEN <<>> ELSE SubSeq(cut, stop, Len(cut))
    BY Zenon DEF ParseCorpusLine
  <2>2. cut = rest
    BY <1>10, <1>11 DEF After
  <2>3. stop = Find(rest, ResourceMarks)
    BY <2>2 DEF ResourceMarks
  <2> HIDE DEF cut, stop
  <2> QED
    BY <1>10, <2>1, <2>2, <2>3 DEF Resource
<1>13. PICK m : FirstMark(s, 5, m) /\ Resource(rest) = After(s, m - 1)
  BY <1>1, <1>9, <1>11, LineCut
<1>14. PICK v : v = After(s, m - 1)
  OBVIOUS
<1>15. m \in 5..(Len(s) + 1) /\ m \in 1..(Len(s) + 3) /\ m - 1 \in 0..Len(s) /\ (m - 1) + 1 = m
       /\ 5 \in 1..(Len(s) + 1) /\ 5 \in 1..(Len(s) + 3)
  BY <1>1, <1>9, <1>13 DEF FirstMark
<1>16. from[5].ok /\ from[5].url = After(t, 4)
  <2>1. After(t, 4) = Onward(t, 5)
    <3>1. 4 + 1 = 5
      OBVIOUS
    <3> QED
      BY <3>1 DEF After, Onward
  <2> QED
    BY <1>9, <2>1 DEF Valid
<1>17. from[m].ok /\ Behind(After(t, 4), from[m].url)
  BY <1>2, <1>13, <1>15, <1>16, AuthorityScanned
<1>18. PICK w : w = from[m].url
  OBVIOUS
<1>19. w \in Seq(Ascii) /\ (w # <<>> => w[1] \in ResourceMarks)
  BY <1>2, <1>13, <1>15, <1>17, <1>18, MarkLeads
<1>20. from[m] = Valid(w)
  BY <1>2, <1>15, <1>17, <1>18, ScanResult
<1>21. Resource(After(t, 4)) = w
  BY <1>17, <1>18, <1>19, ResourceBehind
<1>22. v \in Seq(Characters) /\ NormalizePercentEncoding(v) = Valid(w)
  <2>1. PICK n : n = m - 1
    OBVIOUS
  <2>2. n \in 0..Len(s) /\ n + 1 = m /\ v = After(s, n) /\ NormalGoes(from, s)
    BY <1>2, <1>14, <1>15, <2>1 DEF Scanned
  <2>3. v \in Seq(Characters) /\ NormalizePercentEncoding(v) = from[n + 1]
    BY <2>2, ScanSuffix
  <2> QED
    BY <1>20, <2>2, <2>3
<1>23. ParseCorpusLine(s) = v
  BY <1>12, <1>13, <1>14
<1> QED
  BY <1>19, <1>21, <1>22, <1>23

-----------------------------------------------------------------------------
(* parse_corpus: the lines of a text, one after the other. *)

(* A character more: it ends the last part of a split or goes on with it. *)
PartsGrown(parts, a, c) ==
  IF a = c THEN Append(parts, <<>>)
  ELSE [parts EXCEPT ![Len(parts)] = Append(parts[Len(parts)], a)]

(* Parts ahead of the last one do not matter to it. *)
LEMMA PartsGrownBehind ==
  ASSUME NEW A, NEW p \in Seq(Seq(A)), NEW q \in Seq(Seq(A)), q # <<>>, NEW a \in A, NEW c
  PROVE  Cat(p, PartsGrown(q, a, c)) = PartsGrown(Cat(p, q), a, c)
<1> DEFINE S == Seq(A)
<1>1. p \in Seq(S) /\ q \in Seq(S) /\ <<>> \in S /\ \A x \in S : Append(x, a) \in S
  BY AppendProperties, EmptySeq
<1> HIDE DEF S
<1>2. Len(p) \in Nat /\ Len(q) \in Nat \ {0}
  BY <1>1, LenProperties, EmptySeq
<1>3. CASE a = c
  <2>1. Cat(p, Append(q, <<>>)) = Append(Cat(p, q), <<>>)
    <3>1. PICK e : e = <<>>
      OBVIOUS
    <3>2. e \in S
      BY <1>1, <3>1
    <3>3. One(e) \in Seq(S)
      BY <3>2 DEF One
    <3>4. Append(q, e) = Cat(q, One(e)) /\ Cat(p, q) \in Seq(S)
      BY <1>1, <3>2, AppendOne, CatTexts
    <3>5. Append(Cat(p, q), e) = Cat(Cat(p, q), One(e))
      BY <3>2, <3>4, AppendOne
    <3>6. Cat(Cat(p, q), One(e)) = Cat(p, Cat(q, One(e)))
      BY <1>1, <3>3, CatTexts
    <3> QED
      BY <3>1, <3>4, <3>5, <3>6
  <2> QED
    BY <1>3, <2>1 DEF PartsGrown
<1>4. CASE a # c
  <2>1. PICK pq : pq = Cat(p, q)
    OBVIOUS
  <2>2. pq \in Seq(S) /\ CatIs(pq, p, q)
    BY <1>1, <2>1, CatLength
  <2>3. PICK last : last = q[Len(q)]
    OBVIOUS
  <2>4. last \in S /\ Append(last, a) \in S
    BY <1>1, <1>2, <2>3, ElementOfSeq
  <2>5. PICK grown : grown = Append(last, a)
    OBVIOUS
  <2>6. PICK q1 : q1 = [q EXCEPT ![Len(q)] = grown]
    OBVIOUS
  <2>7. /\ q1 \in Seq(S) /\ Len(q1) = Len(q)
        /\ \A i \in 1..Len(q) : q1[i] = IF i = Len(q) THEN grown ELSE q[i]
    BY <1>1, <1>2, <2>4, <2>5, <2>6, ExceptSeq
  <2>8. Len(pq) = Len(p) + Len(q) /\ Len(pq) \in 1..Len(pq) /\ pq[Len(pq)] = last
    <3>1. Len(pq) = Len(p) + Len(q) /\ Len(q) \in 1..Len(q)
      BY <1>2, <2>2 DEF CatIs
    <3>2. pq[Len(p) + Len(q)] = q[Len(q)]
      BY <2>2, <3>1 DEF CatIs
    <3> QED
      BY <1>2, <2>3, <3>1, <3>2
  <2>9. PICK pq1 : pq1 = [pq EXCEPT ![Len(pq)] = grown]
    OBVIOUS
  <2>10. /\ pq1 \in Seq(S) /\ Len(pq1) = Len(pq)
         /\ \A i \in 1..Len(pq) : pq1[i] = IF i = Len(pq) THEN grown ELSE pq[i]
    BY <2>2, <2>4, <2>5, <2>8, <2>9, ExceptSeq
  <2>11. PICK both : both = Cat(p, q1)
    OBVIOUS
  <2>12. both \in Seq(S) /\ CatIs(both, p, q1)
    BY <1>1, <2>7, <2>11, CatLength
  <2>13. Len(both) = Len(pq1)
    BY <2>7, <2>8, <2>10, <2>12 DEF CatIs
  <2>14. ASSUME NEW i \in 1..Len(both) PROVE both[i] = pq1[i]
    <3>1. i \in 1..(Len(p) + Len(q)) /\ i \in 1..Len(pq)
      BY <2>8, <2>10, <2>13, <2>14
    <3>2. CASE i \in 1..Len(p)
      <4>1. both[i] = p[i] /\ pq[i] = p[i]
        BY <2>2, <2>12, <3>2 DEF CatIs
      <4>2. i # Len(pq)
        BY <1>2, <2>8, <3>2
      <4> QED
        BY <2>10, <3>1, <4>1, <4>2
    <3>3. CASE i \notin 1..Len(p)
      <4>1. PICK j : j = i - Len(p)
        OBVIOUS
      <4>2. j \in 1..Len(q) /\ i = Len(p) + j
        BY <1>2, <3>1, <3>3, <4>1
      <4>3. both[i] = q1[j] /\ pq[i] = q[j]
        BY <2>2, <2>7, <2>12, <4>2 DEF CatIs
      <4>4. PICK l \in Nat, n \in Nat : l = Len(p) /\ n = Len(q)
        BY <1>2
      <4>5. i = l + j /\ Len(pq) = l + n /\ j \in Nat
        BY <2>8, <4>2, <4>4
      <4>6. CASE j = n
        BY <2>7, <2>10, <3>1, <4>2, <4>3, <4>4, <4>5, <4>6
      <4>7. CASE j # n
        <5>1. i # Len(pq)
          BY <4>5, <4>7
        <5> QED
          BY <2>7, <2>10, <3>1, <4>2, <4>3, <4>4, <4>7, <5>1
      <4> QED
        BY <4>6, <4>7
    <3> QED
      BY <3>2, <3>3
  <2>15. both = pq1
    BY <2>10, <2>12, <2>13, <2>14, SeqEqual
  <2>16. PartsGrown(q, a, c) = q1 /\ PartsGrown(pq, a, c) = pq1
    BY <1>4, <2>3, <2>5, <2>6, <2>8, <2>9 DEF PartsGrown
  <2> QED
    BY <2>1, <2>11, <2>15, <2>16
<1> QED
  BY <1>3, <1>4

(* split, each character growing the parts of those before it. *)
Growing(parts, s, c, A) ==
  /\ parts[0] = One(<<>>)
  /\ \A k \in 1..Len(s) : parts[k] = PartsGrown(parts[k - 1], s[k], c)
  /\ Split(s, c) = parts[Len(s)]
  /\ \A k \in 0..Len(s) : parts[k] \in Seq(Seq(A)) /\ parts[k] # <<>>

LEMMA SplitGrows ==
  ASSUME NEW A, NEW s \in Seq(A), NEW c
  PROVE  \E parts : Growing(parts, s, c, A)
<1> DEFINE P == Seq(A \ {c})
           X == Seq(A)
<1>1. PICK parts : SplitGoes(parts, s, c) /\ \A k \in 0..Len(s) : parts[k] \in Seq(P) \ {<<>>}
  BY SplitSteps
<1>2. Seq(P) \subseteq Seq(X)
  <2>1. P \subseteq X
    <3>1. A \ {c} \subseteq A
      OBVIOUS
    <3> QED
      BY <3>1, SeqMonotonic
  <2> HIDE DEF P, X
  <2> QED
    BY <2>1, SeqMonotonic
<1> HIDE DEF P
<1>3. \A k \in 0..Len(s) : parts[k] \in Seq(X) /\ parts[k] # <<>>
  BY <1>1, <1>2
<1>4. parts[0] = One(<<>>) /\ Split(s, c) = parts[Len(s)]
  BY <1>1 DEF SplitGoes, One
<1>5. \A k \in 1..Len(s) : parts[k] = PartsGrown(parts[k - 1], s[k], c)
  BY <1>1 DEF SplitGoes, PartsGrown
<1>6. Growing(parts, s, c, A)
  BY <1>3, <1>4, <1>5 DEF Growing
<1> QED
  BY <1>6

(* The parts on both sides of a delimiter are those of the two texts. *)
LEMMA SplitApart ==
  ASSUME NEW A, NEW x \in Seq(A), NEW y \in Seq(A), NEW c \in A, NEW z,
         z = Cat(x, Cat(One(c), y))
  PROVE  Split(z, c) = Cat(Split(x, c), Split(y, c))
<1> DEFINE m == Len(x)
           n == Len(y)
           X == Seq(A)
<1>1. m \in Nat /\ n \in Nat
  BY LenProperties
<1>2. /\ z \in Seq(A) /\ Len(z) = m + 1 + n /\ z[m + 1] = c
      /\ \A i \in 1..m : z[i] = x[i]
      /\ \A i \in 1..n : z[m + 1 + i] = y[i]
  <2>1. PICK l : l = Cat(One(c), y)
    OBVIOUS
  <2>2. /\ l \in Seq(A) /\ Len(l) = n + 1 /\ l[1] = c
        /\ \A i \in 1..n : l[1 + i] = y[i]
    <3>1. l = Led(c, y)
      BY <2>1 DEF Led, Cat, One
    <3>2. /\ Led(c, y) \in Seq(A) /\ Len(Led(c, y)) = Len(y) + 1 /\ Led(c, y)[1] = c
          /\ \A i \in 1..Len(y) : Led(c, y)[1 + i] = y[i]
      BY LedType
    <3> QED
      BY <3>1, <3>2
  <2>3. z \in Seq(A) /\ CatIs(z, x, l)
    BY <2>1, <2>2, CatLength
  <2>4. Len(z) = m + 1 + n
    BY <1>1, <2>2, <2>3 DEF CatIs
  <2>5. z[m + 1] = c
    <3>1. 1 \in 1..Len(l)
      BY <1>1, <2>2
    <3> QED
      BY <2>2, <2>3, <3>1 DEF CatIs
  <2>6. ASSUME NEW i \in 1..n PROVE z[m + 1 + i] = y[i]
    <3>1. 1 + i \in 1..Len(l) /\ m + (1 + i) = m + 1 + i
      BY <1>1, <2>2
    <3>2. z[m + (1 + i)] = l[1 + i]
      BY <2>3, <3>1 DEF CatIs
    <3> QED
      BY <2>2, <3>1, <3>2
  <2> QED
    BY <2>3, <2>4, <2>5, <2>6 DEF CatIs
<1>3. PICK ps : Growing(ps, x, c, A)
  BY SplitGrows
<1>4. PICK qs : Growing(qs, y, c, A)
  BY SplitGrows
<1>5. PICK rs : Growing(rs, z, c, A)
  BY <1>2, SplitGrows
<1>6. \A i \in 1..n : y[i] \in A
  BY ElementOfSeq
<1> HIDE DEF m, n, X
<1>7. rs[m] = ps[m]
  <2> DEFINE T == {k \in 0..m : rs[k] = ps[k]}
  <2>1. 0 \in T
    BY <1>1, <1>3, <1>5 DEF Growing
  <2>2. ASSUME NEW k \in 0..(m - 1), k \in T PROVE k + 1 \in T
    <3>1. k + 1 \in 0..m /\ k + 1 \in 1..m /\ k + 1 \in 1..Len(z) /\ (k + 1) - 1 = k
      <4>1. Len(z) = m + 1 + n /\ m \in Nat /\ n \in Nat
        BY <1>1, <1>2
      <4> QED
        BY <4>1
    <3>2. z[k + 1] = x[k + 1] /\ k + 1 \in 1..Len(x)
      BY <1>2, <3>1 DEF m
    <3>3. rs[k + 1] = PartsGrown(rs[k], z[k + 1], c) /\ ps[k + 1] = PartsGrown(ps[k], x[k + 1], c)
      BY <1>3, <1>5, <3>1, <3>2 DEF Growing
    <3> QED
      BY <2>2, <3>1, <3>2, <3>3
  <2> HIDE DEF T
  <2>3. \A k \in 0..m : k \in T
    BY <1>1, <2>1, <2>2, UpTo
  <2>4. m \in T
    BY <1>1, <2>3
  <2> QED
    BY <2>4 DEF T
<1>8. PICK p : p = ps[m]
  OBVIOUS
<1>9. p \in Seq(Seq(A)) /\ p = Split(x, c)
  <2>1. Len(x) \in 0..Len(x)
    BY <1>1 DEF m
  <2> QED
    BY <1>3, <1>8, <2>1 DEF m, Growing
<1>10. rs[m + 1] = Cat(p, qs[0])
  <2>1. m + 1 \in 1..Len(z) /\ (m + 1) - 1 = m
    BY <1>1, <1>2
  <2>2. rs[m + 1] = PartsGrown(p, c, c)
    BY <1>2, <1>5, <1>7, <1>8, <2>1 DEF Growing
  <2>3. PartsGrown(p, c, c) = Append(p, <<>>)
    BY DEF PartsGrown
  <2>4. Cat(p, One(<<>>)) = Append(p, <<>>)
    BY DEF Cat, One
  <2> QED
    BY <1>4, <2>2, <2>3, <2>4 DEF Growing
<1>11. rs[m + 1 + n] = Cat(p, qs[n])
  <2> DEFINE T == {k \in 0..n : rs[m + 1 + k] = Cat(p, qs[k])}
  <2>1. 0 \in T
    BY <1>1, <1>10
  <2>2. ASSUME NEW k \in 0..(n - 1), k \in T PROVE k + 1 \in T
    <3>0. Len(z) = m + 1 + n /\ m \in Nat /\ n \in Nat
      BY <1>1, <1>2
    <3>a. k + 1 \in 0..n /\ k + 1 \in 1..n /\ (k + 1) - 1 = k /\ k \in 0..n
          /\ m + 1 + (k + 1) \in 1..Len(z) /\ (m + 1 + (k + 1)) - 1 = m + 1 + k
      BY <3>0
    <3>1. k + 1 \in 0..n /\ k + 1 \in 1..Len(y) /\ (k + 1) - 1 = k
          /\ m + 1 + (k + 1) \in 1..Len(z) /\ (m + 1 + (k + 1)) - 1 = m + 1 + k /\ k \in 0..Len(y)
      BY <3>a DEF n
    <3>2. z[m + 1 + (k + 1)] = y[k + 1] /\ y[k + 1] \in A
      BY <1>2, <1>6, <3>1 DEF n
    <3>3. rs[m + 1 + (k + 1)] = PartsGrown(rs[m + 1 + k], y[k + 1], c)
      BY <1>5, <3>1, <3>2 DEF Growing
    <3>4. qs[k + 1] = PartsGrown(qs[k], y[k + 1], c) /\ qs[k] \in Seq(Seq(A)) /\ qs[k] # <<>>
      BY <1>4, <3>1 DEF Growing
    <3>5. rs[m + 1 + k] = Cat(p, qs[k])
      BY <2>2
    <3>6. Cat(p, PartsGrown(qs[k], y[k + 1], c)) = PartsGrown(Cat(p, qs[k]), y[k + 1], c)
      BY <1>9, <3>2, <3>4, PartsGrownBehind
    <3> QED
      BY <3>1, <3>3, <3>4, <3>5, <3>6
  <2> HIDE DEF T
  <2>3. \A k \in 0..n : k \in T
    BY <1>1, <2>1, <2>2, UpTo
  <2>4. n \in T
    BY <1>1, <2>3
  <2> QED
    BY <2>4 DEF T
<1> QED
  BY <1>2, <1>4, <1>5, <1>9, <1>11 DEF n, Growing

(* A text without the delimiter is the one part of its split. *)
LEMMA SplitWhole ==
  ASSUME NEW A, NEW s \in Seq(A), NEW c \in A, \A i \in 1..Len(s) : s[i] # c
  PROVE  Split(s, c) = One(s)
<1> DEFINE X == Seq(A)
<1>1. PICK ps : ps = Split(s, c)
  OBVIOUS
<1>2. ps \in Seq(X) /\ ps # <<>> /\ Join(ps, c) = s
  BY <1>1, SplitTexts, JoinSplit
<1>3. PICK e : Cuts(e, ps, s, Len(s), c)
  BY <1>1, SplitCuts
<1>4. \A j \in 0..Len(ps) : e[j] \in -1..Len(s)
  BY <1>2, <1>3, CutsAreParts
<1> HIDE DEF X
<1>5. Len(ps) \in Nat \ {0} /\ Len(s) \in Nat /\ \A j \in 1..Len(ps) : ps[j] \in X
  BY <1>2, LenProperties, EmptySeq, ElementOfSeq
<1>6. Len(ps) = 1
  <2> SUFFICES ASSUME Len(ps) # 1 PROVE FALSE
    OBVIOUS
  <2>1. 1 \in 1..Len(ps) /\ 2 \in 1..Len(ps) /\ 1 < Len(ps) /\ 2 - 1 = 1 /\ 1 - 1 = 0
        /\ 2 \in 0..Len(ps)
    <3>1. PICK n \in Nat : n = Len(ps) /\ n # 0 /\ n # 1
      BY <1>5
    <3>2. 1 \in 1..n /\ 2 \in 1..n /\ 1 < n /\ 2 - 1 = 1 /\ 1 - 1 = 0 /\ 2 \in 0..n
      BY <3>1
    <3> QED
      BY <3>1, <3>2
  <2>2. e[0] = -1 /\ e[1] = e[0] + 1 + Len(ps[1]) /\ e[2] = e[1] + 1 + Len(ps[2])
        /\ s[e[1] + 1] = c
    BY <1>3, <2>1 DEF Cuts
  <2>3. Len(ps[1]) \in Nat /\ Len(ps[2]) \in Nat
    <3>1. ps[1] \in Seq(A) /\ ps[2] \in Seq(A)
      BY <1>5, <2>1 DEF X
    <3> QED
      BY <3>1, LenProperties
  <2>4. e[2] \in -1..Len(s)
    BY <1>4, <2>1
  <2>5. e[1] + 1 \in 1..Len(s)
    <3>1. PICK a \in Nat, b \in Nat : a = Len(ps[1]) /\ b = Len(ps[2])
      BY <2>3
    <3>2. e[1] = a /\ e[2] = a + 1 + b
      <4>1. PICK x, y : x = e[1] /\ y = e[2]
        OBVIOUS
      <4>2. x = -1 + 1 + a /\ y = x + 1 + b
        BY <2>2, <3>1, <4>1
      <4>3. x = a /\ y = a + 1 + b
        BY <4>2
      <4> QED
        BY <4>1, <4>3
    <3>3. PICK l \in Nat : l = Len(s)
      BY <1>5
    <3>4. a + 1 + b <= l
      <4>1. a + 1 + b \in -1..l
        BY <2>4, <3>2, <3>3
      <4> QED
        BY <4>1
    <3>5. a + 1 \in 1..l
      BY <3>4
    <3> QED
      BY <3>2, <3>3, <3>5
  <2> QED
    BY <2>2, <2>5
<1>7. PICK joined : JoinGoes(joined, ps, c)
  <2>1. ps \in Seq(Seq(A))
    BY <1>2 DEF X
  <2> QED
    BY <2>1, JoinSteps
<1>8. ps[1] = s
  <2>1. 1 \in 1..Len(ps)
    BY <1>6
  <2>2. Join(ps, c) = joined[1] /\ joined[1] = ps[1]
    BY <1>6, <1>7, <2>1 DEF JoinGoes
  <2> QED
    BY <1>2, <2>2
<1>9. PICK o : o = One(s)
  OBVIOUS
<1>10. s \in X
  BY DEF X
<1>11. o \in Seq(X) /\ Len(o) = 1 /\ o[1] = s
  BY <1>9, <1>10 DEF One
<1>12. \A i \in 1..Len(ps) : ps[i] = o[i]
  BY <1>6, <1>8, <1>11
<1> QED
  BY <1>1, <1>2, <1>6, <1>9, <1>11, <1>12, SeqEqual

(* What two sequences of pieces are put together to, one after the other.  *)
LEMMA FlattenApart ==
  ASSUME NEW A, NEW a \in Seq(Seq(A)), NEW b \in Seq(Seq(A))
  PROVE  /\ FlattenSeq(Cat(a, b)) = Cat(FlattenSeq(a), FlattenSeq(b))
         /\ FlattenSeq(a) \in Seq(A)
<1> DEFINE X == Seq(A)
<1>1. PICK c : c = Cat(a, b)
  OBVIOUS
<1>2. /\ c \in Seq(X) /\ CatIs(c, a, b) /\ Len(a) \in Nat /\ Len(b) \in Nat
      /\ \A i \in 1..Len(b) : b[i] \in X
  <2>1. a \in Seq(X) /\ b \in Seq(X)
    OBVIOUS
  <2> HIDE DEF X
  <2> QED
    BY <1>1, <2>1, CatLength, LenProperties, ElementOfSeq
<1>3. PICK ja : Joined(ja, a, A)
  BY FlattenJoins
<1>4. PICK jb : Joined(jb, b, A)
  BY FlattenJoins
<1>5. PICK jc : Joined(jc, c, A)
  BY <1>2, FlattenJoins
<1>6. PICK m \in Nat, n \in Nat : m = Len(a) /\ n = Len(b) /\ Len(c) = m + n
  BY <1>2 DEF CatIs
<1>7. jc[m] = ja[m]
  <2> DEFINE T == {k \in 0..m : jc[k] = ja[k]}
  <2>1. 0 \in T
    BY <1>3, <1>5 DEF Joined
  <2>2. ASSUME NEW k \in 0..(m - 1), k \in T PROVE k + 1 \in T
    <3>1. k + 1 \in 0..m /\ k + 1 \in 1..m /\ k \in 0..((m + n) - 1)
      BY <1>6
    <3>2. jc[k + 1] = jc[k] \o c[k + 1]
      BY <1>5, <1>6, <3>1 DEF Joined
    <3>3. ja[k + 1] = ja[k] \o a[k + 1]
      BY <1>3, <1>6, <3>1 DEF Joined
    <3>4. c[k + 1] = a[k + 1]
      BY <1>2, <1>6, <3>1 DEF CatIs
    <3> QED
      BY <2>2, <3>1, <3>2, <3>3, <3>4
  <2> HIDE DEF T
  <2>3. \A k \in 0..m : k \in T
    BY <2>1, <2>2, UpTo
  <2>4. m \in T
    BY <2>3
  <2> QED
    BY <2>4 DEF T
<1>8. PICK p : p = ja[m]
  OBVIOUS
<1>9. p \in Seq(A) /\ FlattenSeq(a) = p
  <2>1. m \in 0..Len(a)
    BY <1>6
  <2> QED
    BY <1>3, <1>6, <1>8, <2>1 DEF Joined
<1>10. jc[m + n] = Cat(p, jb[n])
  <2> DEFINE T == {k \in 0..n : jc[m + k] = Cat(p, jb[k])}
  <2>1. 0 \in T
    <3>1. PICK none : none = jb[0]
      OBVIOUS
    <3>2. none = <<>>
      BY <1>4, <3>1 DEF Joined
    <3>3. Cat(p, <<>>) = p
      BY <1>9, CatTexts
    <3>4. m + 0 = m /\ 0 \in 0..n
      OBVIOUS
    <3> QED
      BY <1>7, <1>8, <3>1, <3>2, <3>3, <3>4
  <2>2. ASSUME NEW k \in 0..(n - 1), k \in T PROVE k + 1 \in T
    <3>1. k + 1 \in 0..n /\ k + 1 \in 1..n /\ k \in 0..n /\ m + k \in 0..((m + n) - 1)
          /\ (m + k) + 1 = m + (k + 1)
      BY <1>6
    <3>2. jc[(m + k) + 1] = jc[m + k] \o c[(m + k) + 1]
      BY <1>5, <1>6, <3>1 DEF Joined
    <3>3. jb[k + 1] = jb[k] \o b[k + 1]
      BY <1>4, <1>6, <3>1 DEF Joined
    <3>4. c[m + (k + 1)] = b[k + 1] /\ b[k + 1] \in Seq(A)
      BY <1>2, <1>6, <3>1 DEF CatIs
    <3>5. jb[k] \in Seq(A)
      BY <1>4, <1>6, <3>1 DEF Joined
    <3>6. jc[m + k] = Cat(p, jb[k])
      BY <2>2
    <3>7. Cat(Cat(p, jb[k]), b[k + 1]) = Cat(p, Cat(jb[k], b[k + 1]))
      <4>1. PICK u, v : u = jb[k] /\ v = b[k + 1]
        OBVIOUS
      <4>2. u \in Seq(A) /\ v \in Seq(A)
        BY <3>4, <3>5, <4>1
      <4>3. Cat(Cat(p, u), v) = Cat(p, Cat(u, v))
        BY <1>9, <4>2, CatTexts
      <4> QED
        BY <4>1, <4>3
    <3>8. jc[m + (k + 1)] = Cat(jc[m + k], b[k + 1]) /\ jb[k + 1] = Cat(jb[k], b[k + 1])
      BY <3>1, <3>2, <3>3, <3>4 DEF Cat
    <3> QED
      BY <3>1, <3>6, <3>7, <3>8
  <2> HIDE DEF T
  <2>3. \A k \in 0..n : k \in T
    BY <2>1, <2>2, UpTo
  <2>4. n \in T
    BY <2>3
  <2> QED
    BY <2>4 DEF T
<1>11. FlattenSeq(c) = jc[m + n] /\ FlattenSeq(b) = jb[n]
  BY <1>4, <1>5, <1>6 DEF Joined
<1> QED
  BY <1>1, <1>9, <1>10, <1>11

(* One piece is what it is put together to. *)
LEMMA FlattenOne ==
  ASSUME NEW A, NEW v \in Seq(A)
  PROVE  FlattenSeq(One(v)) = v
<1> DEFINE X == Seq(A)
<1>1. PICK o : o = One(v)
  OBVIOUS
<1>2. o \in Seq(X) /\ Len(o) = 1 /\ o[1] = v
  <2>1. v \in X
    OBVIOUS
  <2> HIDE DEF X
  <2> QED
    BY <1>1, <2>1 DEF One
<1>3. PICK joined : Joined(joined, o, A)
  BY <1>2, FlattenJoins
<1>4. 0 \in 0..(Len(o) - 1) /\ 0 + 1 = 1
  BY <1>2
<1>5. joined[0] = <<>> /\ joined[0 + 1] = joined[0] \o o[0 + 1] /\ FlattenSeq(o) = joined[Len(o)]
  BY <1>3, <1>4 DEF Joined
<1>6. <<>> \o v = v
  BY ConcatEmptySeq
<1>7. joined[1] = v
  BY <1>2, <1>4, <1>5, <1>6
<1> QED
  BY <1>1, <1>2, <1>5, <1>7

(* trim and the cut leave a text of the character set. *)
LEMMA TrimType ==
  ASSUME NEW s \in Seq(Characters)
  PROVE  Trim(s) \in Seq(Characters)
<1>1. PICK i, j : i = Find(s, Solid) /\ j = RFind(s, Solid)
  OBVIOUS
<1>2. i \in 0..Len(s) /\ j \in 0..Len(s) /\ Len(s) \in Nat
  BY <1>1, FindFinds, RFindFinds, LenProperties
<1>3. CASE i = 0
  <2>1. Trim(s) = <<>>
    BY <1>1, <1>3 DEF Trim
  <2> QED
    BY <2>1, EmptySeq
<1>4. CASE i # 0
  <2>1. Trim(s) = SubSeq(s, i, j)
    BY <1>1, <1>4 DEF Trim
  <2>2. \A k \in i..j : s[k] \in Characters
    <3>1. \A k \in i..j : k \in 1..Len(s)
      BY <1>2, <1>4
    <3> QED
      BY <3>1, ElementOfSeq
  <2> QED
    BY <1>2, <2>1, <2>2, SubSeqProperties
<1> QED
  BY <1>3, <1>4

LEMMA LineType ==
  ASSUME NEW s \in Seq(Characters)
  PROVE  ParseCorpusLine(s) \in Seq(Characters)
<1> DEFINE at(i) == SubSeq(s, i, i + 2) = <<":", "/", "/">>
           ends == {i \in 1..(Len(s) - 2) : at(i)}
           least == CHOOSE i \in ends : \A j \in ends : i <= j
           rest == SubSeq(s, SchemeEnd(s) + 3, Len(s))
           stop == Find(rest, {"/", "?", "#"})
<1>1. SchemeEnd(s) = IF ends = {} THEN 0 ELSE least
  BY Zenon DEF SchemeEnd
<1>2. ParseCorpusLine(s) = IF SchemeEnd(s) = 0 THEN s
                           ELSE IF stop = 0 THEN <<>> ELSE SubSeq(rest, stop, Len(rest))
  BY Zenon DEF ParseCorpusLine
<1>3. Len(s) \in Nat
  BY LenProperties
<1>4. CASE ends # {}
  <2>1. ends \in SUBSET Nat
    BY <1>3
  <2>2. \E i \in ends : \A j \in ends : i <= j
    <3> HIDE DEF ends
    <3>1. PICK i \in ends : \A j \in ends : ~(j < i)
      BY <1>4, <2>1, LeastElement
    <3> QED
      BY <2>1, <3>1
  <2>3. SchemeEnd(s) \in ends
    <3> HIDE DEF ends
    <3> QED
      BY <1>1, <1>4, <2>2
  <2>4. PICK n : n = SchemeEnd(s) + 2
    OBVIOUS
  <2>5. n \in 0..Len(s) /\ SchemeEnd(s) + 3 = n + 1
    BY <1>3, <2>3, <2>4
  <2>6. rest \in Seq(Characters)
    <3>1. rest = After(s, n)
      BY <2>5 DEF After
    <3>2. After(s, n) \in Seq(Characters)
      BY <2>5, BeforeAfter
    <3> QED
      BY <3>1, <3>2
  <2> HIDE DEF rest
  <2>7. stop \in 0..Len(rest) /\ Len(rest) \in Nat
    BY <2>6, FindFinds, LenProperties
  <2> HIDE DEF stop
  <2>8. CASE stop # 0
    <3>1. PICK k : k = stop - 1
      OBVIOUS
    <3>2. k \in 0..Len(rest) /\ k + 1 = stop
      BY <2>7, <2>8, <3>1
    <3>3. After(rest, k) \in Seq(Characters)
      BY <2>6, <3>2, BeforeAfter
    <3>4. After(rest, k) = SubSeq(rest, stop, Len(rest))
      BY <3>2 DEF After
    <3> QED
      BY <1>2, <2>8, <3>3, <3>4
  <2> QED
    BY <1>2, <2>8, EmptySeq
<1>5. CASE ends = {}
  BY <1>1, <1>2, <1>5
<1> QED
  BY <1>4, <1>5

(* The resources of the lines of a text. *)
Resources(lines) == [k \in 1..Len(lines) |-> ParseCorpusLine(Trim(lines[k]))]

LEMMA CorpusFlattens ==
  ASSUME NEW s
  PROVE  ParseCorpus(s) = FlattenSeq(Resources(Split(s, "LF")))
BY DEF ParseCorpus, Resources

LEMMA ResourcesType ==
  ASSUME NEW ps \in Seq(Seq(Characters))
  PROVE  /\ Resources(ps) \in Seq(Seq(Characters)) /\ Len(Resources(ps)) = Len(ps)
         /\ \A k \in 1..Len(ps) : Resources(ps)[k] = ParseCorpusLine(Trim(ps[k]))
<1> DEFINE X == Seq(Characters)
<1>1. Len(ps) \in Nat /\ \A k \in 1..Len(ps) : ps[k] \in X
  <2>1. ps \in Seq(X)
    OBVIOUS
  <2> HIDE DEF X
  <2> QED
    BY <2>1, ElementOfSeq, LenProperties
<1>2. \A k \in 1..Len(ps) : ParseCorpusLine(Trim(ps[k])) \in X
  BY <1>1, TrimType, LineType
<1> HIDE DEF X
<1>3. Resources(ps) \in [1..Len(ps) -> X]
  BY <1>2 DEF Resources
<1>4. Resources(ps) \in Seq(X) /\ Len(Resources(ps)) = Len(ps)
  <2>1. PICK n \in Nat : n = Len(ps)
    BY <1>1
  <2>2. PICK f : f = Resources(ps)
    OBVIOUS
  <2>3. f \in [1..n -> X]
    BY <1>3, <2>1, <2>2
  <2>4. f \in Seq(X) /\ Len(f) = n
    BY <2>3
  <2> QED
    BY <2>1, <2>2, <2>4
<1> QED
  BY <1>4 DEF Resources, X

LEMMA ResourcesApart ==
  ASSUME NEW a \in Seq(Seq(Characters)), NEW b \in Seq(Seq(Characters))
  PROVE  Resources(Cat(a, b)) = Cat(Resources(a), Resources(b))
<1> DEFINE X == Seq(Characters)
<1>1. PICK c : c = Cat(a, b)
  OBVIOUS
<1>2. PICK ra, rb, rc : ra = Resources(a) /\ rb = Resources(b) /\ rc = Resources(c)
  OBVIOUS
<1>3. c \in Seq(X) /\ CatIs(c, a, b)
  <2>1. a \in Seq(X) /\ b \in Seq(X)
    OBVIOUS
  <2> HIDE DEF X
  <2> QED
    BY <1>1, <2>1, CatLength
<1>4. /\ ra \in Seq(X) /\ Len(ra) = Len(a)
      /\ \A k \in 1..Len(a) : ra[k] = ParseCorpusLine(Trim(a[k]))
  BY <1>2, ResourcesType
<1>5. /\ rb \in Seq(X) /\ Len(rb) = Len(b)
      /\ \A k \in 1..Len(b) : rb[k] = ParseCorpusLine(Trim(b[k]))
  BY <1>2, ResourcesType
<1>6. /\ rc \in Seq(X) /\ Len(rc) = Len(c)
      /\ \A k \in 1..Len(c) : rc[k] = ParseCorpusLine(Trim(c[k]))
  BY <1>2, <1>3, ResourcesType
<1> HIDE DEF X
<1>7. PICK d : d = Cat(ra, rb)
  OBVIOUS
<1>8. d \in Seq(X) /\ CatIs(d, ra, rb)
  BY <1>4, <1>5, <1>7, CatLength
<1>9. PICK m \in Nat, n \in Nat : m = Len(a) /\ n = Len(b) /\ Len(c) = m + n /\ Len(d) = m + n
  <2>1. Len(a) \in Nat /\ Len(b) \in Nat
    BY <1>4, <1>5, LenProperties
  <2>2. Len(c) = Len(a) + Len(b) /\ Len(d) = Len(a) + Len(b)
    BY <1>3, <1>4, <1>5, <1>8 DEF CatIs
  <2> QED
    BY <2>1, <2>2
<1>10. ASSUME NEW k \in 1..(m + n) PROVE d[k] = rc[k]
  <2>1. CASE k <= m
    <3>1. k \in 1..m
      BY <1>9, <2>1
    <3>2. d[k] = ra[k] /\ c[k] = a[k]
      BY <1>3, <1>4, <1>8, <1>9, <3>1 DEF CatIs
    <3> QED
      BY <1>4, <1>6, <1>9, <3>1, <3>2
  <2>2. CASE ~(k <= m)
    <3>1. PICK j : j = k - m
      OBVIOUS
    <3>2. j \in 1..n /\ k = m + j
      BY <1>9, <2>2, <3>1
    <3>3. d[k] = rb[j] /\ c[k] = b[j]
      BY <1>3, <1>4, <1>5, <1>8, <1>9, <3>2 DEF CatIs
    <3> QED
      BY <1>5, <1>6, <1>9, <3>2, <3>3
  <2> QED
    BY <2>1, <2>2
<1>11. d = rc
  BY <1>6, <1>8, <1>9, <1>10, SeqEqual
<1> QED
  BY <1>1, <1>2, <1>7, <1>11

(* The lines after a line break add their training text to that before it. *)
LEMMA CorpusApart ==
  ASSUME NEW x \in Seq(Characters), NEW y \in Seq(Characters), NEW z,
         z = Cat(x, Cat(One("LF"), y))
  PROVE  /\ ParseCorpus(z) = Cat(ParseCorpus(x), ParseCorpus(y))
         /\ ParseCorpus(x) \in Seq(Characters)
<1>1. "LF" \in Characters
  BY WhiteSpace
<1>2. PICK a, b : a = Split(x, "LF") /\ b = Split(y, "LF")
  OBVIOUS
<1>3. a \in Seq(Seq(Characters)) /\ b \in Seq(Seq(Characters))
  BY <1>2, SplitTexts
<1>4. Split(z, "LF") = Cat(a, b)
  BY <1>1, <1>2, SplitApart
<1>5. PICK ra, rb : ra = Resources(a) /\ rb = Resources(b)
  OBVIOUS
<1>6. ra \in Seq(Seq(Characters)) /\ rb \in Seq(Seq(Characters))
  BY <1>3, <1>5, ResourcesType
<1>7. Resources(Cat(a, b)) = Cat(ra, rb)
  BY <1>3, <1>5, ResourcesApart
<1>8. FlattenSeq(Cat(ra, rb)) = Cat(FlattenSeq(ra), FlattenSeq(rb)) /\ FlattenSeq(ra) \in Seq(Characters)
  BY <1>6, FlattenApart
<1> QED
  BY <1>2, <1>4, <1>5, <1>7, <1>8, CorpusFlattens

(* A single line: its resource. *)
LEMMA CorpusOfLine ==
  ASSUME NEW s \in Seq(Characters), \A i \in 1..Len(s) : s[i] # "LF"
  PROVE  ParseCorpus(s) = ParseCorpusLine(Trim(s))
<1>1. Split(s, "LF") = One(s)
  BY WhiteSpace, SplitWhole
<1>2. PICK v : v = ParseCorpusLine(Trim(s))
  OBVIOUS
<1>3. v \in Seq(Characters)
  BY <1>2, TrimType, LineType
<1>4. Resources(One(s)) = One(v)
  BY <1>2 DEF Resources, One
<1>5. FlattenSeq(One(v)) = v
  BY <1>3, FlattenOne
<1> QED
  BY <1>1, <1>2, <1>4, <1>5, CorpusFlattens

(* The end of a corpus behind its last line break adds nothing. *)
LEMMA CorpusOfNothing == ParseCorpus(<<>>) = <<>>
<1>1. PICK s : s = <<>>
  OBVIOUS
<1>2. s \in Seq(Characters) /\ Len(s) = 0
  BY <1>1, EmptySeq
<1>3. ParseCorpus(s) = ParseCorpusLine(Trim(s))
  <2>1. \A i \in 1..Len(s) : s[i] # "LF"
    BY <1>2
  <2> QED
    BY <1>2, <2>1, CorpusOfLine
<1>4. Trim(s) = s
  <2>1. Find(s, Solid) \in 0..Len(s)
    BY <1>2, FindFinds
  <2>2. Find(s, Solid) = 0
    BY <1>2, <2>1
  <2> QED
    BY <1>1, <2>2 DEF Trim
<1>5. SchemeEnd(s) = 0
  <2> DEFINE at(i) == SubSeq(s, i, i + 2) = <<":", "/", "/">>
             ends == {i \in 1..(Len(s) - 2) : at(i)}
             least == CHOOSE i \in ends : \A j \in ends : i <= j
  <2>1. SchemeEnd(s) = IF ends = {} THEN 0 ELSE least
    BY Zenon DEF SchemeEnd
  <2>2. ends = {}
    BY <1>2
  <2> QED
    BY <2>1, <2>2
<1>6. ParseCorpusLine(s) = s
  <2> DEFINE rest == SubSeq(s, SchemeEnd(s) + 3, Len(s))
             stop == Find(rest, {"/", "?", "#"})
  <2>1. ParseCorpusLine(s) = IF SchemeEnd(s) = 0 THEN s
                             ELSE IF stop = 0 THEN <<>> ELSE SubSeq(rest, stop, Len(rest))
    BY Zenon DEF ParseCorpusLine
  <2> QED
    BY <1>5, <2>1
<1> QED
  BY <1>1, <1>3, <1>4, <1>6

(* The training text of a corpus whose last line is s. *)
LEMMA CorpusGrows ==
  ASSUME NEW first \in Seq(Characters), NEW s \in Seq(Characters),
         \A i \in 1..Len(s) : s[i] # "LF",
         NEW text, text = first \o <<"LF">> \o s \o <<"LF">>
  PROVE  /\ ParseCorpus(text) = Cat(ParseCorpus(first), ParseCorpusLine(Trim(s)))
         /\ ParseCorpus(first) \in Seq(Characters)
<1>1. PICK o : o = One("LF")
  OBVIOUS
<1>2. PICK none : none = <<>>
  OBVIOUS
<1>3. o \in Seq(Characters) /\ none \in Seq(Characters)
  <2>1. "LF" \in Characters
    BY WhiteSpace
  <2> HIDE DEF Characters
  <2> QED
    BY <1>1, <1>2, <2>1, EmptySeq DEF One
<1>4. PICK y : y = Cat(s, Cat(o, none))
  OBVIOUS
<1>5. y \in Seq(Characters) /\ y = Cat(s, o) /\ Cat(o, y) \in Seq(Characters)
  <2>1. Cat(o, none) = o
    BY <1>2, <1>3, CatTexts
  <2>2. Cat(s, o) \in Seq(Characters)
    BY <1>3, CatTexts
  <2>3. y = Cat(s, o)
    BY <1>4, <2>1
  <2> QED
    BY <1>3, <2>2, <2>3, CatTexts
<1>6. text = Cat(first, Cat(o, y))
  <2>1. text = Cat(Cat(Cat(first, o), s), o)
    BY <1>1 DEF Cat, One
  <2>2. Cat(first, o) \in Seq(Characters)
    BY <1>3, CatTexts
  <2>3. Cat(Cat(Cat(first, o), s), o) = Cat(Cat(first, o), Cat(s, o))
    BY <1>3, <2>2, CatTexts
  <2>4. Cat(Cat(first, o), y) = Cat(first, Cat(o, y))
    BY <1>3, <1>5, CatTexts
  <2> QED
    BY <1>5, <2>1, <2>3, <2>4
<1>7. ParseCorpus(y) = Cat(ParseCorpus(s), ParseCorpus(none)) /\ ParseCorpus(s) \in Seq(Characters)
  BY <1>1, <1>3, <1>4, CorpusApart
<1>8. ParseCorpus(text) = Cat(ParseCorpus(first), ParseCorpus(y)) /\ ParseCorpus(first) \in Seq(Characters)
  <2>1. text = Cat(first, Cat(One("LF"), y)) /\ y \in Seq(Characters)
    BY <1>1, <1>5, <1>6
  <2> QED
    BY <2>1, CorpusApart
<1>9. ParseCorpus(y) = ParseCorpus(s)
  <2>1. ParseCorpus(none) = <<>>
    BY <1>2, CorpusOfNothing
  <2>2. Cat(ParseCorpus(s), <<>>) = ParseCorpus(s)
    BY <1>7, CatTexts
  <2> QED
    BY <1>7, <2>1, <2>2
<1> QED
  BY <1>8, <1>9, CorpusOfLine

(* The first of two texts is a prefix of both together. *)
LEMMA CatPrefix ==
  ASSUME NEW A, NEW a \in Seq(A), NEW b \in Seq(A), NEW c, c = Cat(a, b)
  PROVE  IsPrefix(a, c)
<1>1. c \in Seq(A) /\ CatIs(c, a, b) /\ Len(a) \in Nat /\ Len(b) \in Nat
  <2>1. c \in Seq(A) /\ CatIs(c, a, b)
    BY CatLength
  <2> QED
    BY <2>1, LenProperties
<1>2. Len(c) = Len(a) + Len(b)
  BY <1>1 DEF CatIs
<1>3. Len(a) \in 0..Len(c) /\ Len(a) <= Len(c)
  BY <1>1, <1>2
<1>4. PICK x : x = SubSeq(c, 1, Len(a))
  OBVIOUS
<1>5. x \in Seq(A) /\ Len(x) = Len(a) /\ \A i \in 1..Len(a) : x[i] = c[i]
  <2>1. x = Upto(c, Len(a))
    BY <1>4 DEF Upto
  <2>2. Upto(c, Len(a)) \in Seq(A) /\ Beginning(Upto(c, Len(a)), c, Len(a))
    BY <1>1, <1>3, UptoIs
  <2> QED
    BY <2>1, <2>2 DEF Beginning
<1>6. \A i \in 1..Len(a) : x[i] = a[i]
  BY <1>1, <1>5 DEF CatIs
<1>7. x = a
  BY <1>5, <1>6, SeqEqual
<1>8. SubSeq(a, 1, Len(a)) = a
  BY SubSeqFull
<1> QED
  BY <1>3, <1>4, <1>7, <1>8 DEF IsPrefix

-----------------------------------------------------------------------------
(* The typed text is one of the character set, and parsed is its parse.    *)
ParsingInv == address \in Seq(Characters) /\ parsed = ParseUrl(address)

LEMMA ParsingAlways == ParsingSpec => []ParsingInv
<1>1. ParsingInit => ParsingInv
  BY TypedCharacters DEF ParsingInit, ParsingInv
<1>2. ParsingInv /\ [ParsingNext]_pvars => ParsingInv'
  <2> SUFFICES ASSUME ParsingInv, [ParsingNext]_pvars PROVE ParsingInv'
    OBVIOUS
  <2>1. CASE Continue
    <3>1. PICK c \in Typed : address' = Append(address, c)
      BY <2>1 DEF Continue
    <3>2. address' \in Seq(Characters)
      BY <3>1, TypedCharacters, AppendProperties DEF ParsingInv
    <3> QED
      BY <2>1, <3>2 DEF Continue, ParsingInv
  <2>2. CASE UNCHANGED pvars
    BY <2>2 DEF pvars, ParsingInv
  <2> QED
    BY <2>1, <2>2 DEF ParsingNext
<1> QED
  BY <1>1, <1>2, PTL DEF ParsingSpec

(* Whatever the character set and however a text goes on: no field of an   *)
(* accepted URL holds a character at which the text it is put back into    *)
(* would be cut.                                                           *)
THEOREM FieldsAreFreeOfDelimiters == ParsingSpec => []FieldsHoldNoDelimiter
<1>1. ParsingInv => FieldsHoldNoDelimiter
  <2> DEFINE u == parsed.url
             H == HostCharacters
             Free(s, cs) == ToSet(s) \cap cs = {}
  <2> SUFFICES ASSUME ParsingInv, parsed.ok
               PROVE  /\ Free(u.host \o u.tld, {"/", "?", "#", "@"}) /\ Free(u.tld, {"."})
                      /\ \A s \in ToSet(u.path) : Free(s, {"/", "?", "#"})
                      /\ \A p \in ToSet(u.query) :
                           Free(p.key, {"&", "=", "#"}) /\ Free(p.value.text, {"&", "#"})
                      /\ \A s \in ToSet(u.fragment) : Free(s, {"/"})
    BY Zenon DEF FieldsHoldNoDelimiter
  <2>1. CleanUrl(u)
    BY UrlIsClean DEF ParsingInv
  <2> HIDE DEF u
  <2>2. Free(u.host \o u.tld, {"/", "?", "#", "@"}) /\ Free(u.tld, {"."})
    <3>1. u.host \in Seq(H) /\ u.tld \in Seq(H \ {"."})
      BY <2>1 DEF CleanUrl
    <3>2. u.tld \in Seq(H)
      <4>1. H \ {"."} \subseteq H
        OBVIOUS
      <4> HIDE DEF H
      <4> QED
        BY <3>1, <4>1, SeqMonotonic
    <3>3. u.host \o u.tld \in Seq(H)
      BY <3>1, <3>2, ConcatProperties
    <3>4. H = Ascii \ {"/", "?", "#", "@"}
      BY DEF HostCharacters
    <3> QED
      BY <3>1, <3>3, <3>4, FreeOf
  <2>3. ASSUME NEW s \in ToSet(u.path) PROVE Free(s, {"/", "?", "#"})
    <3>1. u.path \in Seq(Seq((WithoutHash \ {"?"}) \ {"/"}))
      BY <2>1 DEF CleanUrl
    <3>2. s \in Seq((WithoutHash \ {"?"}) \ {"/"})
      BY <3>1, ElementOfSeq, LenProperties DEF ToSet
    <3>3. (WithoutHash \ {"?"}) \ {"/"} = Ascii \ {"/", "?", "#"}
      BY DEF WithoutHash
    <3>4. s \in Seq(Ascii \ {"/", "?", "#"})
      BY <3>2, <3>3
    <3> QED
      BY <3>4, FreeOf
  <2>4. ASSUME NEW p \in ToSet(u.query)
        PROVE  Free(p.key, {"&", "=", "#"}) /\ Free(p.value.text, {"&", "#"})
    <3>1. PICK i \in 1..Len(u.query) : p = u.query[i]
      BY <2>1 DEF CleanUrl, ToSet
    <3>2. CleanPair(p)
      BY <2>1, <3>1 DEF CleanUrl
    <3>3. (WithoutHash \ {"&"}) \ {"="} = Ascii \ {"&", "=", "#"}
          /\ WithoutHash \ {"&"} = Ascii \ {"&", "#"}
      BY DEF WithoutHash
    <3>4. p.key \in Seq(Ascii \ {"&", "=", "#"}) /\ p.value.text \in Seq(Ascii \ {"&", "#"})
      BY <3>2, <3>3 DEF CleanPair
    <3> QED
      BY <3>4, FreeOf
  <2>5. ASSUME NEW s \in ToSet(u.fragment) PROVE Free(s, {"/"})
    <3>1. u.fragment \in Seq(Seq(Ascii \ {"/"}))
      BY <2>1 DEF CleanUrl
    <3>2. s \in Seq(Ascii \ {"/"})
      BY <3>1, ElementOfSeq, LenProperties DEF ToSet
    <3> QED
      BY <3>2, FreeOf
  <2> QED
    BY <2>2, <2>3, <2>4, <2>5
<1> QED
  BY <1>1, ParsingAlways, PTL

(* Parsing is lossless: the fields of an accepted URL, put together again, *)
(* give the text in its normal form, for every character set and text.     *)
THEOREM DisplaysNormalText == ParsingSpec => []DisplayIsNormalForm
<1>1. ParsingInv => DisplayIsNormalForm
  BY DisplayShown DEF ParsingInv, DisplayIsNormalForm, Kept
<1> QED
  BY <1>1, ParsingAlways, PTL

(* Parsing is stable: the displayed URL is accepted again, with the same   *)
(* fields, for every character set and text.                               *)
THEOREM DisplayedIsParsedBack == ParsingSpec => []DisplayParsesBack
<1>1. ASSUME NEW s \in Seq(Characters), ParseUrl(s).ok, ~HasTrailingDot(s)
      PROVE  ParseUrl(Display(ParseUrl(s).url)) = ParseUrl(s)
  <2>1. PICK t, rest, stop, authority, r, last, part, suffix :
          UrlCut(s, t, rest, stop, authority, r, last, part, suffix)
    BY <1>1, UrlIsCut
  <2>2. PICK d : d = Display(ParseUrl(s).url)
    OBVIOUS
  <2>3. d = Cat(Cat(HeadText(t, part), suffix), WithoutEmptyFragment(r))
    BY <1>1, <2>1, <2>2, DisplayShown, NormalTextIs
  <2> QED
    BY <2>1, <2>2, <2>3, ParsedAgain
<1>2. ParsingInv => DisplayParsesBack
  BY <1>1 DEF ParsingInv, DisplayParsesBack, Kept
<1> QED
  BY <1>2, ParsingAlways, PTL

(* A codebook is trained on what it will encode: to the training text of   *)
(* whatever lines come before, parse_corpus adds, for a line with an       *)
(* accepted URL and white space around it, what parses to the path, query  *)
(* and fragment of that URL, for every character set and text.             *)
THEOREM CorpusIsTheResource == ParsingSpec => []CorpusKeepsTheResource
<1>1. ASSUME NEW s \in Seq(Characters), ParseUrl(s).ok,
             NEW k, k = <<"http", ":", "/", "/", "a">> \o ParseCorpusLine(s)
      PROVE  ParseUrl(k).ok /\ SameResource(ParseUrl(k), ParseUrl(s))
  <2>1. PICK t \in ClosedTexts :
          /\ NormalizePercentEncoding(s).ok /\ t = NormalizePercentEncoding(s).url
          /\ Starts(t) /\ ParseUrl(s) = ParseRest(Secure(t), After(t, 4))
    BY <1>1, SchemeShown
  <2>2. PICK v : v = ParseCorpusLine(s)
    OBVIOUS
  <2>3. PICK w \in Seq(Ascii) :
          /\ v \in Seq(Characters) /\ NormalizePercentEncoding(v) = Valid(w)
          /\ w # <<>> => w[1] \in ResourceMarks
          /\ Resource(After(t, 4)) = w
    BY <2>1, <2>2, CorpusLineScanned
  <2>4. k = Cat(<<"http", ":", "/", "/", "a">>, v)
    BY <1>1, <2>2 DEF Cat
  <2>5. ParseUrl(k) = Assembled(FALSE, ParseAuthority(One("a"), FALSE), w)
    BY <2>3, <2>4, CorpusAddressParsed
  <2>6. PICK rest : rest = After(t, 4)
    OBVIOUS
  <2>7. PICK stop : stop = Find(rest, ResourceMarks)
    OBVIOUS
  <2>8. PICK authority : authority = IF stop = 0 THEN rest ELSE Before(rest, stop)
    OBVIOUS
  <2>9. PICK auth : auth = ParseAuthority(authority, Secure(t))
    OBVIOUS
  <2>10. ParseUrl(s) = Assembled(Secure(t), auth, w)
    <3>1. ParseRest(Secure(t), rest) =
            Assembled(Secure(t), ParseAuthority(IF stop = 0 THEN rest ELSE Before(rest, stop), Secure(t)),
                      IF stop = 0 THEN <<>> ELSE SubSeq(rest, stop, Len(rest)))
      BY <2>7, RestAssembled
    <3>2. (IF stop = 0 THEN <<>> ELSE SubSeq(rest, stop, Len(rest))) = w
      BY <2>3, <2>6, <2>7 DEF Resource
    <3> QED
      BY <2>1, <2>6, <2>8, <2>9, <3>1, <3>2
  <2>11. auth.ok
    <3> SUFFICES ASSUME ~auth.ok PROVE FALSE
      OBVIOUS
    <3>1. Assembled(Secure(t), auth, w) = Invalid
      BY DEF Assembled
    <3> QED
      BY <1>1, <2>10, <3>1 DEF Invalid
  <2>12. PICK auth1 : auth1 = ParseAuthority(One("a"), FALSE)
    OBVIOUS
  <2>13. auth1.ok
    BY <2>12, CorpusHostParsed
  <2>14. /\ Assembled(FALSE, auth1, w).ok
         /\ SameResource(Assembled(FALSE, auth1, w), Assembled(Secure(t), auth, w))
    BY <2>11, <2>13, ResourceAlone
  <2> QED
    BY <2>5, <2>10, <2>12, <2>14
<1>2. ParsingInv => CorpusKeepsTheResource
  <2> DEFINE url == ParseUrl(Trim(address))
  <2> SUFFICES ASSUME ParsingInv, url.ok, "LF" \notin ToSet(address), NEW first \in Openings
               PROVE  LET before == ParseCorpus(first)
                          all    == ParseCorpus(first \o <<"LF">> \o address \o <<"LF">>)
                          kept   == ParseUrl(<<"http", ":", "/", "/", "a">> \o After(all, Len(before)))
                      IN  /\ IsPrefix(before, all)
                          /\ kept.ok
                          /\ kept.url.path = url.url.path
                          /\ kept.url.query = url.url.query
                          /\ kept.url.fragment = url.url.fragment
    BY Zenon DEF CorpusKeepsTheResource
  <2>1. PICK all : all = ParseCorpus(first \o <<"LF">> \o address \o <<"LF">>)
    OBVIOUS
  <2>2. PICK before : before = ParseCorpus(first)
    OBVIOUS
  <2>3. PICK line : line = Trim(address)
    OBVIOUS
  <2>4. PICK v : v = ParseCorpusLine(line)
    OBVIOUS
  <2>5. address \in Seq(Characters) /\ first \in Seq(Characters) /\ line \in Seq(Characters)
    BY <2>3, TrimType, TypedCharacters DEF ParsingInv
  <2>6. before \in Seq(Characters) /\ v \in Seq(Characters) /\ all = Cat(before, v)
    <3>1. \A i \in 1..Len(address) : address[i] # "LF"
      BY DEF ToSet
    <3>2. v \in Seq(Characters)
      BY <2>4, <2>5, LineType
    <3> QED
      BY <2>1, <2>2, <2>3, <2>4, <2>5, <3>1, <3>2, CorpusGrows
  <2>7. After(all, Len(before)) = v
    BY <2>6, CatCut
  <2>8. IsPrefix(before, all)
    BY <2>6, CatPrefix
  <2>9. PICK k : k = <<"http", ":", "/", "/", "a">> \o v
    OBVIOUS
  <2>10. ParseUrl(line).ok /\ url = ParseUrl(line)
    BY <2>3
  <2>11. ParseUrl(k).ok /\ SameResource(ParseUrl(k), ParseUrl(line))
    <3>1. k = <<"http", ":", "/", "/", "a">> \o ParseCorpusLine(line)
      BY <2>4, <2>9
    <3> QED
      BY <1>1, <2>5, <2>10, <3>1
  <2> HIDE DEF url
  <2> QED
    BY <2>1, <2>2, <2>7, <2>8, <2>9, <2>10, <2>11 DEF SameResource
<1> QED
  BY <1>2, ParsingAlways, PTL

=============================================================================
