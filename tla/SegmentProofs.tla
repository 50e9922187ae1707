--------------------------- MODULE SegmentProofs ---------------------------
(***************************************************************************)
(* write_segment and read_segment are inverse to each other: for every     *)
(* character set, codebook and limit, every segment that is accepted comes *)
(* back whole, and the reader stops where the segment ends.  Before that,  *)
(* no read leaves the stream: whatever the bits, a read of the wire format *)
(* that starts inside them ends inside them.  One lemma per reader, each   *)
(* resting on the ones it calls, and one section per form of the payload.  *)
(***************************************************************************)
EXTENDS SegmentCoding, WireFormat, ParserProofs, FiniteSetTheorems

-----------------------------------------------------------------------------
(* Reads. *)

(* A failed read stays where it was. *)
LEMMA FailInside ==
  ASSUME NEW bits, NEW r, Inside(r, bits)
  PROVE  Inside(ReadFail(r), bits) /\ Inside(TextFail(r), bits)
BY DEF Inside, ReadFail, TextFail

LEMMA TextInside ==
  ASSUME NEW bits, NEW p \in 0..Len(bits), NEW s
  PROVE  Inside(Text(p, s), bits)
BY DEF Inside, Text

-----------------------------------------------------------------------------
(* What the readers return: a text of at most n characters. *)

Spells(s, n) == s \in Seq(Characters) /\ Len(s) <= n

LEMMA EmptySpells ==
  ASSUME NEW n \in Nat
  PROVE  Spells(<<>>, n)
BY EmptySeq DEF Spells

LEMMA ConcatSpells ==
  ASSUME NEW m \in Nat, NEW n \in Nat, NEW s, Spells(s, m), NEW t, Spells(t, n)
  PROVE  Spells(s \o t, m + n)
<1>1. s \in Seq(Characters) /\ t \in Seq(Characters)
  BY DEF Spells
<1>2. Len(s) \in Nat /\ Len(t) \in Nat /\ Len(s \o t) = Len(s) + Len(t)
      /\ s \o t \in Seq(Characters)
  BY <1>1, LenProperties, ConcatProperties
<1> QED
  BY <1>2 DEF Spells

LEMMA LongerSpells ==
  ASSUME NEW m \in Nat, NEW n \in Nat, m <= n, NEW s, Spells(s, m)
  PROVE  Spells(s, n)
<1>1. Len(s) \in Nat
  BY LenProperties DEF Spells
<1> QED
  BY <1>1 DEF Spells

LEMMA CharacterSpells ==
  ASSUME NEW c \in Characters
  PROVE  Spells(<<c>>, 1)
BY DEF Spells

(* A text of at most n ASCII characters. *)
SpellsAscii(s, n) == s \in Seq(Ascii) /\ Len(s) <= n

LEMMA AsciiSpells ==
  ASSUME NEW n \in Nat
  PROVE  /\ SpellsAscii(<<>>, n)
         /\ \A s : SpellsAscii(s, n) => Spells(s, n)
<1>1. ASSUME NEW s, SpellsAscii(s, n) PROVE Spells(s, n)
  BY <1>1, ClassesAreAscii, SeqMonotonic DEF SpellsAscii, Spells
<1>2. SpellsAscii(<<>>, n)
  BY EmptySeq DEF SpellsAscii
<1> QED
  BY <1>1, <1>2

-----------------------------------------------------------------------------
(* read_segment and the readers of its payload *)

LEMMA IndexFinds ==
  ASSUME NEW T, NEW chars \in Seq(T), NEW c \in ToSet(chars)
  PROVE  Index(c, chars) \in 0..(Len(chars) - 1) /\ chars[Index(c, chars) + 1] = c
<1> DEFINE at(i) == chars[i] = c
           i == CHOOSE j \in 1..Len(chars) : at(j)
<1>1. \E j \in 1..Len(chars) : at(j)
  BY DEF ToSet
<1>2. Index(c, chars) = i - 1
  BY DEF Index
<1>3. i \in 1..Len(chars) /\ at(i)
  <2> HIDE DEF at
  <2> QED
    BY <1>1, Zenon
<1> HIDE DEF i
<1>4. i - 1 \in 0..(Len(chars) - 1) /\ (i - 1) + 1 = i
  BY <1>3, LenProperties
<1> QED
  BY <1>2, <1>3, <1>4

LEMMA AsciiOrderType ==
  AsciiOrder \in Seq(Ascii) /\ ToSet(AsciiOrder) = Ascii
<1>1. \A s, t \in Seq(Ascii) : s \o t \in Seq(Ascii)
  BY ConcatProperties
<1>2. /\ Digits \in Seq(Ascii) /\ Lowers \in Seq(Ascii) /\ Uppers \in Seq(Ascii)
      /\ Syms \in Seq(Ascii) /\ Others \in Seq(Ascii)
  BY ClassesAreAscii
<1> QED
  BY <1>1, <1>2 DEF AsciiOrder, Ascii

LEMMA AlphabetsAreAscii ==
  ASSUME NEW id \in 0..4
  PROVE  Alphabet[id] \in Seq(Ascii)
<1> DEFINE two   == Digits \o Lowers
           three == (Digits \o Uppers) \o Lowers
           four  == ((Uppers \o Lowers) \o Digits) \o Syms
<1>1. /\ Digits \in Seq(Ascii) /\ Lowers \in Seq(Ascii) /\ two \in Seq(Ascii)
      /\ three \in Seq(Ascii) /\ four \in Seq(Ascii)
  BY ClassesAreAscii, ConcatProperties
<1>2. Alphabet[id] = <<Digits, Lowers, two, three, four>>[id + 1]
  BY DEF Alphabet
<1>3. id = 0 \/ id = 1 \/ id = 2 \/ id = 3 \/ id = 4
  OBVIOUS
<1> HIDE DEF two, three, four
<1> QED
  BY <1>1, <1>2, <1>3

(* A symbol of an alphabet takes at most a byte. *)
LEMMA AlphabetSizes ==
  ASSUME NEW id \in 0..4
  PROVE  Len(Alphabet[id]) \in Nat /\ Len(Alphabet[id]) <= Pow2[ByteBits]
<1> DEFINE two   == Digits \o Lowers
           three == (Digits \o Uppers) \o Lowers
           four  == ((Uppers \o Lowers) \o Digits) \o Syms
           all   == (((Digits \o Lowers) \o Uppers) \o Syms) \o Others
<1>1. \A s, t \in Seq(Ascii) : s \o t \in Seq(Ascii) /\ Len(s \o t) = Len(s) + Len(t)
  BY ConcatProperties
<1>2. /\ Digits \in Seq(Ascii) /\ Lowers \in Seq(Ascii) /\ Uppers \in Seq(Ascii)
      /\ Syms \in Seq(Ascii) /\ Others \in Seq(Ascii)
  BY ClassesAreAscii
<1>3. /\ Len(two) = Len(Digits) + Len(Lowers)
      /\ Len(three) = Len(Digits) + Len(Uppers) + Len(Lowers)
      /\ Len(four) = Len(Uppers) + Len(Lowers) + Len(Digits) + Len(Syms)
      /\ Len(all) = Len(Digits) + Len(Lowers) + Len(Uppers) + Len(Syms) + Len(Others)
  BY <1>1, <1>2
<1>4. /\ Len(Digits) \in Nat /\ Len(Lowers) \in Nat /\ Len(Uppers) \in Nat
      /\ Len(Syms) \in Nat /\ Len(Others) \in Nat
  BY <1>2, LenProperties
<1>5. Len(all) <= Pow2[ByteBits] /\ Pow2[ByteBits] \in Nat
  BY Utf8Encoding, BitWidths, Pow2Type DEF AsciiOrder
<1>6. Alphabet[id] = <<Digits, Lowers, two, three, four>>[id + 1]
  BY DEF Alphabet
<1>7. id = 0 \/ id = 1 \/ id = 2 \/ id = 3 \/ id = 4
  OBVIOUS
<1> HIDE DEF two, three, four, all
<1>8. Len(Alphabet[id]) \in {Len(Digits), Len(Lowers), Len(two), Len(three), Len(four)}
  BY <1>6, <1>7
<1> QED
  BY <1>3, <1>4, <1>5, <1>8

(* The width of a fixed-width payload holds every value of its symbols, and*)
(* is the least that does; a byte for each symbol is always enough.        *)
LEMMA FixedBitLenFits ==
  ASSUME NEW id \in 0..4, NEW n \in Nat, n > 0
  PROVE  /\ FixedBitLen(id, n) \in 0..(ByteBits * n)
         /\ Power(Len(Alphabet[id]), n) <= Pow2[FixedBitLen(id, n)]
         /\ \A less \in 0..(FixedBitLen(id, n) - 1) : Pow2[less] < Power(Len(Alphabet[id]), n)
<1> DEFINE b == Len(Alphabet[id])
           values == Power(b, n)
           T == {w \in Nat : values <= Pow2[w]}
           fits(w) == values <= Pow2[w] /\ \A less \in 0..(w - 1) : Pow2[less] < values
<1>1. b \in Nat /\ b <= Pow2[ByteBits] /\ ByteBits \in Nat /\ ByteBits * n \in Nat
  BY AlphabetSizes, BitWidths
<1> HIDE DEF b
<1>2. values \in Nat /\ values <= Pow2[ByteBits * n]
  BY <1>1, PowerType, PowerBits
<1> HIDE DEF values
<1>3. PICK w \in T : \A m \in T : ~(m < w)
  <2>1. T # {} /\ T \in SUBSET Nat
    BY <1>1, <1>2
  <2> HIDE DEF T
  <2> QED
    BY <2>1, LeastElement
<1>4. w \in 0..(ByteBits * n)
  BY <1>1, <1>2, <1>3
<1>5. \A less \in 0..(w - 1) : Pow2[less] < values
  <2>1. ASSUME NEW less \in 0..(w - 1) PROVE Pow2[less] < values
    <3>1. less \in Nat /\ less < w
      BY <1>4
    <3>2. Pow2[less] \in Nat /\ ~(values <= Pow2[less])
      BY <1>3, <3>1, Pow2Type
    <3> QED
      BY <1>2, <3>2
  <2> QED
    BY <2>1
<1>6. values <= Pow2[w]
  BY <1>3
<1>7. FixedBitLen(id, n) = CHOOSE u \in 0..(ByteBits * n) : fits(u)
  BY DEF FixedBitLen, IsBase, values, b
<1>8. fits(w)
  BY <1>5, <1>6
<1> HIDE DEF fits
<1>9. FixedBitLen(id, n) \in 0..(ByteBits * n) /\ fits(FixedBitLen(id, n))
  BY <1>4, <1>7, <1>8, Zenon
<1> QED
  BY <1>9 DEF fits, values, b

LEMMA FixedBitLenType ==
  ASSUME NEW id, NEW n \in Nat
  PROVE  FixedBitLen(id, n) \in Nat
<1>1. ByteBits * n \in Nat
  BY BitWidths
<1>2. CASE IsBase(id) /\ n > 0
  <2>1. id \in 0..4 /\ n > 0
    BY <1>2 DEF IsBase
  <2>2. FixedBitLen(id, n) \in 0..(ByteBits * n)
    BY <2>1, FixedBitLenFits
  <2> QED
    BY <2>2
<1>3. CASE ~(IsBase(id) /\ n > 0)
  BY <1>1, <1>3 DEF FixedBitLen
<1> QED
  BY <1>2, <1>3

(* Fixed-width radix coding. *)
LEMMA ReadBaseInside ==
  ASSUME NEW bits \in Seq(Bit), NEW r, Inside(r, bits), NEW id, NEW n \in Nat
  PROVE  Inside(ReadBase(bits, r, id, n), bits)
<1> DEFINE width == FixedBitLen(id, n)
<1>1. width \in Nat
  BY FixedBitLenType
<1> HIDE DEF width
<1>2. r.pos \in 0..Len(bits)
  BY DEF Inside
<1>3. CASE n # 0 /\ ~(r.pos + width > Len(bits))
  <2>1. r.pos + width \in 0..Len(bits)
    BY <1>1, <1>2, <1>3
  <2> QED
    BY <1>3, <2>1, FailInside, TextInside DEF ReadBase, width
<1>4. CASE n = 0 \/ r.pos + width > Len(bits)
  BY <1>2, <1>4, FailInside, TextInside DEF ReadBase, width
<1> QED
  BY <1>3, <1>4

(* Whole bytes: raw text and percent escapes. *)
LEMMA ReadUnitsInside ==
  ASSUME NEW bits \in Seq(Bit), NEW r, Inside(r, bits), NEW id, NEW n \in Nat
  PROVE  Inside(ReadUnits(bits, r, id, n), bits)
<1> DEFINE end == r.pos + n * ByteBits
<1>1. n * ByteBits \in Nat /\ r.pos \in 0..Len(bits)
  BY BitWidths DEF Inside
<1>2. CASE ~(end > Len(bits))
  <2>1. end \in 0..Len(bits)
    BY <1>1, <1>2
  <2> QED
    BY <1>2, <2>1, FailInside, TextInside DEF ReadUnits
<1>3. CASE end > Len(bits)
  BY <1>3, FailInside DEF ReadUnits
<1> QED
  BY <1>2, <1>3

(* decode_from takes the prefix code symbol by symbol. *)
NextSymbols(bits, p) ==
  {c \in DOMAIN HuffCode : IsPrefix(HuffCode[c], SubSeq(bits, p + 1, Len(bits)))}

NextSymbol(bits, p) == CHOOSE c \in NextSymbols(bits, p) : TRUE

AfterSymbol(bits, prev) ==
  IF ~prev.ok \/ NextSymbols(bits, prev.pos) = {} THEN TextFail(prev)
  ELSE Text(prev.pos + Len(HuffCode[NextSymbol(bits, prev.pos)]),
            Append(prev.val, NextSymbol(bits, prev.pos)))

SymbolsTaken(read, bits, r, n) ==
  /\ read[0] = Text(r.pos, <<>>)
  /\ \A k \in 0..(n - 1) : read[k + 1] = AfterSymbol(bits, read[k])
  /\ ReadHuffman(bits, r, n) = read[n]

LEMMA ReadHuffmanTakes ==
  ASSUME NEW bits, NEW r, NEW n \in Nat
  PROVE  \E read : SymbolsTaken(read, bits, r, n)
<1> DEFINE next(p) == {c \in DOMAIN HuffCode :
                         IsPrefix(HuffCode[c], SubSeq(bits, p + 1, Len(bits)))}
           first == Text(r.pos, <<>>)
           symbol(prev) == CHOOSE c \in next(prev.pos) : TRUE
           after(prev) ==
             IF ~prev.ok \/ next(prev.pos) = {} THEN TextFail(prev)
             ELSE Text(prev.pos + Len(HuffCode[symbol(prev)]),
                       Append(prev.val, symbol(prev)))
           chain(f, m) == [k \in 0..m |-> IF k = 0 THEN first ELSE after(f[k - 1])]
           read == CHOOSE f : f = chain(f, n)
<1>1. ReadHuffman(bits, r, n) = read[n]
  BY Zenon DEF ReadHuffman
<1>2. ASSUME NEW prev PROVE after(prev) = AfterSymbol(bits, prev)
  BY Zenon DEF AfterSymbol, NextSymbol, NextSymbols
<1> HIDE DEF first, after
<1>3. \E f : f = chain(f, n)
  <2> DEFINE T == {m \in Nat : \E f : f = chain(f, m)}
  <2>1. 0 \in T
    <3>1. [k \in 0..0 |-> first] = chain([k \in 0..0 |-> first], 0)
      OBVIOUS
    <3> QED
      BY <3>1
  <2>2. ASSUME NEW m \in T PROVE m + 1 \in T
    <3>1. PICK f : f = chain(f, m)
      OBVIOUS
    <3> DEFINE g == [k \in 0..(m + 1) |-> IF k <= m THEN f[k] ELSE after(f[m])]
    <3>2. ASSUME NEW k \in 0..(m + 1)
          PROVE  g[k] = IF k = 0 THEN first ELSE after(g[k - 1])
      BY <3>1
    <3>3. g = chain(g, m + 1)
      BY <3>2
    <3> HIDE DEF g, chain
    <3> QED
      BY <3>3
  <2>3. T \in SUBSET Nat
    OBVIOUS
  <2> HIDE DEF T
  <2>4. T = Nat
    BY <2>1, <2>2, <2>3, NatSetInduction
  <2> QED
    BY <2>4 DEF T
<1>4. read = chain(read, n)
  BY <1>3, Zenon
<1> HIDE DEF read
<1>5. read[0] = first /\ \A k \in 0..(n - 1) : read[k + 1] = after(read[k])
  BY <1>4
<1> QED
  BY <1>1, <1>2, <1>5 DEF SymbolsTaken, first

(* The prefix code: every symbol's code is found inside the stream, and    *)
(* each adds one character.                                                *)
LEMMA ReadHuffmanInside ==
  ASSUME NEW bits \in Seq(Bit), NEW r, Inside(r, bits), NEW n \in Nat
  PROVE  Inside(ReadHuffman(bits, r, n), bits) /\ SpellsAscii(ReadHuffman(bits, r, n).val, n)
<1> DEFINE first == Text(r.pos, <<>>)
           next(p) == NextSymbols(bits, p)
           symbol(prev) == NextSymbol(bits, prev.pos)
           after(prev) == AfterSymbol(bits, prev)
<1>1. PICK read : SymbolsTaken(read, bits, r, n)
  BY ReadHuffmanTakes
<1>2. Inside(first, bits) /\ SpellsAscii(first.val, 0)
  <2>1. first.val = <<>>
    BY DEF Text
  <2> QED
    BY <2>1, TextInside, AsciiSpells DEF Inside
<1>3. ASSUME NEW prev, NEW k \in Nat, Inside(prev, bits), SpellsAscii(prev.val, k)
      PROVE  Inside(after(prev), bits) /\ SpellsAscii(after(prev).val, k + 1)
  <2>1. CASE ~prev.ok \/ next(prev.pos) = {}
    <3>1. after(prev) = TextFail(prev)
      BY <2>1 DEF AfterSymbol
    <3>2. TextFail(prev).val = <<>>
      BY DEF TextFail
    <3> HIDE DEF after
    <3> QED
      BY <1>3, <3>1, <3>2, FailInside, AsciiSpells
  <2>2. CASE ~(~prev.ok \/ next(prev.pos) = {})
    <3> DEFINE c    == symbol(prev)
               rest == SubSeq(bits, prev.pos + 1, Len(bits))
    <3>1. c \in DOMAIN HuffCode /\ IsPrefix(HuffCode[c], rest)
      BY <2>2, Zenon DEF NextSymbol, NextSymbols
    <3>2. Len(HuffCode[c]) \in Nat
      BY <3>1, SegmentLimits, LenProperties
    <3>3. prev.pos \in 0..Len(bits) /\ Len(bits) \in Nat
      BY <1>3, LenProperties DEF Inside
    <3>4. Len(rest) = Len(bits) - prev.pos
      BY <3>3, SubSeqProperties
    <3>5. Len(HuffCode[c]) <= Len(rest)
      BY <3>1, Zenon DEF IsPrefix
    <3> HIDE DEF c, rest
    <3>6. prev.pos + Len(HuffCode[c]) \in 0..Len(bits)
      BY <3>2, <3>3, <3>4, <3>5
    <3>7. after(prev) = Text(prev.pos + Len(HuffCode[c]), Append(prev.val, c))
      BY <2>2, Zenon DEF c, AfterSymbol
    <3>8. Append(prev.val, c) \in Seq(Ascii) /\ Len(Append(prev.val, c)) = Len(prev.val) + 1
          /\ Len(prev.val) \in Nat /\ Len(prev.val) <= k
      <4>1. c \in Ascii /\ prev.val \in Seq(Ascii)
        BY <1>3, <3>1, SegmentLimits DEF SpellsAscii
      <4>2. Len(prev.val) \in Nat /\ Len(prev.val) <= k
        BY <1>3, <4>1, LenProperties DEF SpellsAscii
      <4> QED
        BY <4>1, <4>2, AppendProperties
    <3>9. SpellsAscii(Append(prev.val, c), k + 1)
      BY <3>8 DEF SpellsAscii
    <3>10. Text(prev.pos + Len(HuffCode[c]), Append(prev.val, c)).val = Append(prev.val, c)
      BY DEF Text
    <3> HIDE DEF after
    <3> QED
      BY <3>6, <3>7, <3>9, <3>10, TextInside
  <2> QED
    BY <2>1, <2>2, Zenon
<1> HIDE DEF first, after
<1>4. read[0] = first /\ \A k \in 0..(n - 1) : read[k + 1] = after(read[k])
  BY <1>1 DEF SymbolsTaken, first, after
<1>5. Inside(read[n], bits) /\ SpellsAscii(read[n].val, n)
  <2> DEFINE T == {k \in 0..n : Inside(read[k], bits) /\ SpellsAscii(read[k].val, k)}
  <2>1. 0 \in T
    BY <1>2, <1>4
  <2>2. ASSUME NEW k \in 0..(n - 1), k \in T PROVE k + 1 \in T
    <3>1. read[k + 1] = after(read[k]) /\ k \in Nat /\ k + 1 \in 0..n
      BY <1>4
    <3> QED
      BY <1>3, <2>2, <3>1
  <2> HIDE DEF T
  <2>3. \A k \in 0..n : k \in T
    BY <2>1, <2>2, UpTo
  <2> QED
    BY <2>3 DEF T
<1> QED
  BY <1>1, <1>5 DEF SymbolsTaken

(* read_segment *)
LEMMA ReadSegmentInside ==
  ASSUME NEW bits \in Seq(Bit), NEW r, Inside(r, bits)
  PROVE  Inside(ReadSegment(bits, r), bits)
<1> DEFINE id    == ReadBits(bits, r, IdBits)
           count == ReadCompactCount(bits, id)
<1>1. Inside(id, bits) /\ Inside(count, bits)
  BY ReadBitsInside, ReadCompactCountInside DEF IdBits
<1> HIDE DEF id, count
<1>2. CASE count.ok /\ count.val \in 0..MaxSymbols
  <2>1. count.val \in Nat
    BY <1>2, SegmentLimits
  <2>2. Inside(ReadPayload(bits, count, id.val, count.val), bits)
    BY <1>1, <2>1, ReadUnitsInside, ReadHuffmanInside, ReadBaseInside DEF ReadPayload
  <2> QED
    BY <1>2, <2>2 DEF ReadSegment, id, count
<1>3. CASE ~(count.ok /\ count.val \in 0..MaxSymbols)
  BY <1>3, FailInside DEF ReadSegment, id, count
<1> QED
  BY <1>2, <1>3

(* A dictionary index. *)
LEMMA ReadIndexInside ==
  ASSUME NEW bits \in Seq(Bit), NEW r, Inside(r, bits), NEW dict, NEW width \in Nat
  PROVE  Inside(ReadIndex(bits, r, dict, width), bits)
<1> DEFINE i == ReadBits(bits, r, width)
<1>1. Inside(i, bits) /\ i.pos \in 0..Len(bits)
  BY ReadBitsInside DEF Inside
<1> QED
  BY <1>1, FailInside, TextInside DEF ReadIndex

(* An entry, in the dictionary or spelt out. *)
LEMMA ReadEntryInside ==
  ASSUME NEW bits \in Seq(Bit), NEW r, Inside(r, bits), NEW dict, NEW width \in Nat
  PROVE  Inside(ReadEntry(bits, r, dict, width), bits)
<1>1. Inside(ReadBits(bits, r, 1), bits)
  BY ReadBitsInside
<1> QED
  BY <1>1, ReadIndexInside, ReadSegmentInside DEF ReadEntry

LEMMA ReadBaseSpells ==
  ASSUME NEW bits \in Seq(Bit), NEW r, Inside(r, bits), NEW id \in 0..4, NEW n \in Nat
  PROVE  SpellsAscii(ReadBase(bits, r, id, n).val, n)
<1> DEFINE chars == Alphabet[id]
           width == FixedBitLen(id, n)
           field == SubSeq(bits, r.pos + 1, r.pos + width)
           value == BitsToNat(field)
<1>1. chars \in Seq(Ascii) /\ Len(chars) \in Nat /\ width \in Nat
      /\ r.pos \in 0..Len(bits) /\ Len(bits) \in Nat
  BY AlphabetsAreAscii, LenProperties, FixedBitLenType DEF Inside
<1> HIDE DEF chars, width
<1>2. CASE n = 0 \/ r.pos + width > Len(bits) \/ value >= Power(Len(chars), n)
  <2>1. ReadBase(bits, r, id, n).val = <<>>
    BY <1>2 DEF ReadBase, Text, TextFail, chars, width
  <2> QED
    BY <2>1, AsciiSpells
<1>3. CASE ~(n = 0 \/ r.pos + width > Len(bits) \/ value >= Power(Len(chars), n))
  <2>1. ReadBase(bits, r, id, n).val = SymbolsOf(value, n, chars)
    BY <1>3 DEF ReadBase, Text, chars, width
  <2>2. field \in Seq(Bit)
    <3>1. \A i \in (r.pos + 1)..(r.pos + width) : bits[i] \in Bit
      BY <1>1, <1>3, ElementOfSeq
    <3>2. r.pos + 1 \in Int /\ r.pos + width \in Int
      BY <1>1
    <3> QED
      BY <3>1, <3>2, SubSeqProperties
  <2> HIDE DEF field
  <2>3. value \in Nat
    <3>1. Pow2[Len(field)] \in Nat
      BY <2>2, LenProperties, Pow2Type
    <3> QED
      BY <2>2, <3>1, BitsToNatBound
  <2> HIDE DEF value
  <2>4. Len(chars) > 0
    <3>1. SUFFICES ASSUME Len(chars) = 0 PROVE FALSE
      BY <1>1
    <3>2. Power(Len(chars), n) = 0
      BY <1>3, <3>1, PowerType
    <3> QED
      BY <1>3, <2>3, <3>2
  <2> DEFINE digit(i) == (value \div Power(Len(chars), n - i)) % Len(chars)
  <2>5. ASSUME NEW i \in 1..n
        PROVE  chars[digit(i) + 1] \in Ascii
    <3> DEFINE d == Power(Len(chars), n - i)
    <3>1. d \in Nat /\ d > 0
      <4>1. n - i \in Nat
        OBVIOUS
      <4> QED
        BY <1>1, <2>4, <4>1, PowerType
    <3> HIDE DEF d
    <3>2. value \div d \in Nat
      BY <2>3, <3>1, DivMod
    <3> DEFINE q == value \div d
    <3> HIDE DEF q
    <3>3. q % Len(chars) \in 0..(Len(chars) - 1)
      BY <1>1, <2>4, <3>2 DEF q
    <3>4. (q % Len(chars)) + 1 \in 1..Len(chars)
      BY <1>1, <3>3
    <3>5. chars[(q % Len(chars)) + 1] \in Ascii
      BY <1>1, <3>4, ElementOfSeq
    <3> QED
      BY <3>5 DEF q, d
  <2>6. SymbolsOf(value, n, chars) = [i \in 1..n |-> chars[digit(i) + 1]]
    BY DEF SymbolsOf
  <2> HIDE DEF digit
  <2> DEFINE c(i) == chars[digit(i) + 1]
  <2> HIDE DEF c
  <2>7. [i \in 1..n |-> c(i)] \in Seq(Ascii) /\ Len([i \in 1..n |-> c(i)]) = n
    <3>1. \A i \in 1..n : c(i) \in Ascii
      BY <2>5 DEF c
    <3> QED
      BY <3>1
  <2> QED
    BY <2>1, <2>6, <2>7 DEF SpellsAscii, c
<1> QED
  BY <1>2, <1>3

(* The whole bytes of a field. *)
LEMMA ReadBytesType ==
  ASSUME NEW bits \in Seq(Bit), NEW r, Inside(r, bits), NEW n \in Nat,
         r.pos + n * ByteBits <= Len(bits)
  PROVE  /\ ReadBytes(bits, r, n) \in Seq(0..(Pow2[ByteBits] - 1))
         /\ Len(ReadBytes(bits, r, n)) = n
<1> DEFINE field(k) == SubSeq(bits, r.pos + (k - 1) * ByteBits + 1, r.pos + k * ByteBits)
<1>1. r.pos \in Nat /\ Len(bits) \in Nat /\ ByteBits \in Nat /\ ByteBits > 0
  BY LenProperties, BitWidths DEF Inside
<1>2. ASSUME NEW k \in 1..n PROVE BitsToNat(field(k)) \in 0..(Pow2[ByteBits] - 1)
  <2>1. \A b \in Nat : /\ (k - 1) * b \in Nat /\ k * b \in Nat
                       /\ k * b = (k - 1) * b + b
    OBVIOUS
  <2>2. \A b \in Nat : k * b <= n * b /\ n * b \in Nat
    <3>1. ASSUME NEW b \in Nat PROVE k * b <= n * b /\ n * b \in Nat
      <4>1. n - k \in Nat
        OBVIOUS
      <4>2. (n - k) * b \in Nat
        BY <4>1
      <4>3. (n - k) * b = n * b - k * b
        OBVIOUS
      <4> QED
        BY <4>2, <4>3
    <3> QED
      BY <3>1
  <2> DEFINE from == (k - 1) * ByteBits
             to   == k * ByteBits
  <2>3. /\ from \in Nat /\ to \in Nat /\ to = from + ByteBits
        /\ r.pos + to <= Len(bits)
    <3>1. from \in Nat /\ to \in Nat /\ to = from + ByteBits
      BY <1>1, <2>1
    <3>2. to <= n * ByteBits /\ n * ByteBits \in Nat
      BY <1>1, <2>2
    <3> HIDE DEF to, from
    <3> QED
      BY <1>1, <3>1, <3>2
  <2> HIDE DEF from, to
  <2>4. \A i \in (r.pos + from + 1)..(r.pos + to) : bits[i] \in Bit
    BY <1>1, <2>3, ElementOfSeq
  <2>5. r.pos + from + 1 \in Int /\ r.pos + to \in Int
    BY <1>1, <2>3
  <2>6. field(k) \in Seq(Bit) /\ Len(field(k)) = ByteBits
    <3>1. field(k) = SubSeq(bits, r.pos + from + 1, r.pos + to)
      BY DEF from, to
    <3> DEFINE a == r.pos + from + 1
               b == r.pos + to
    <3>2. a \in Int /\ b \in Int /\ a <= b /\ b - a + 1 = ByteBits
          /\ \A i \in a..b : bits[i] \in Bit
      BY <1>1, <2>3, <2>4, <2>5
    <3> HIDE DEF a, b
    <3>3. SubSeq(bits, a, b) \in Seq(Bit) /\ Len(SubSeq(bits, a, b)) = ByteBits
      BY <3>2, SubSeqProperties
    <3> QED
      BY <3>1, <3>3 DEF a, b
  <2> HIDE DEF field
  <2> QED
    BY <2>6, BitsToNatBound
<1> DEFINE byte(k) == BitsToNat(field(k))
<1>3. ReadBytes(bits, r, n) = [k \in 1..n |-> byte(k)]
  BY DEF ReadBytes
<1>4. \A k \in 1..n : byte(k) \in 0..(Pow2[ByteBits] - 1)
  BY <1>2
<1> HIDE DEF byte
<1> QED
  BY <1>3, <1>4

(* An escaped byte: a percent sign and two hex digits. *)
LEMMA EscapeSpells ==
  ASSUME NEW byte \in 0..(Pow2[ByteBits] - 1)
  PROVE  Escape(byte) \in Seq(Characters) /\ Len(Escape(byte)) = 3
<1>1. byte \in 0..(Pow2[2 * HexBits] - 1)
  BY SegmentLimits
<1>2. PICK h, l \in DOMAIN HexVal : Escape(byte) = <<"%", h, l>>
  BY <1>1, EscapeSpelled
<1>3. {"%", h, l} \subseteq Characters
  BY NoNewDelimiter, ClassesAreAscii DEF Delimiters
<1> QED
  BY <1>2, <1>3

(* The texts of a sequence of pieces of three characters, put together. *)
LEMMA FlattenThrees ==
  ASSUME NEW seqs \in Seq(Seq(Characters)), \A k \in 1..Len(seqs) : Len(seqs[k]) = 3
  PROVE  Spells(FlattenSeq(seqs), 3 * Len(seqs))
<1>1. PICK at : LaidOut(at, seqs, FlattenSeq(seqs))
  BY FlattenLaysOut
<1>2. Len(seqs) \in Nat /\ FlattenSeq(seqs) \in Seq(Characters)
  BY FlattenLaysOut, LenProperties
<1>3. at[Len(seqs)] = 3 * Len(seqs)
  <2>1. \A k \in 0..Len(seqs) : at[k] = 3 * k
    <3>1. 3 \in Nat
      OBVIOUS
    <3> QED
      BY <1>1, <3>1, LaidOutEvenly, ZenonT(60)
  <2> QED
    BY <1>2, <2>1
<1>4. Len(FlattenSeq(seqs)) = 3 * Len(seqs)
  BY <1>1, <1>3 DEF LaidOut
<1> QED
  BY <1>2, <1>4 DEF Spells

LEMMA EncodePurePercentSpells ==
  ASSUME NEW raw \in Seq(0..(Pow2[ByteBits] - 1)), NEW n \in Nat, Len(raw) = n
  PROVE  Spells(EncodePurePercent(raw), 3 * n)
<1> DEFINE piece(k) == Escape(raw[k])
           escapes == [k \in 1..n |-> piece(k)]
<1>1. \A k \in 1..n : piece(k) \in Seq(Characters) /\ Len(piece(k)) = 3
  <2>1. \A k \in 1..n : raw[k] \in 0..(Pow2[ByteBits] - 1)
    BY ElementOfSeq
  <2> QED
    BY <2>1, EscapeSpells
<1>2. EncodePurePercent(raw) = FlattenSeq(escapes)
  BY DEF EncodePurePercent
<1> HIDE DEF piece
<1>3. escapes \in Seq(Seq(Characters)) /\ Len(escapes) = n
      /\ \A k \in 1..n : Len(escapes[k]) = 3
  BY <1>1
<1> HIDE DEF escapes
<1> QED
  BY <1>2, <1>3, FlattenThrees

(* from_utf8 goes forward in the bytes, by as many as the character found  *)
(* has; text[i] is what it makes of the bytes from the i-th on.            *)
StartsAt(raw, i) ==
  {c \in Characters : IsPrefix(Utf8Bytes(c), SubSeq(raw, i, Len(raw)))}

CharAt(raw, i) == CHOOSE c \in StartsAt(raw, i) : TRUE

NextChar(raw, i) == i + Len(Utf8Bytes(CharAt(raw, i)))

Put(c, rest) == [rest EXCEPT !.val = <<c>> \o @]

TextsFrom(text, raw) ==
  /\ \A i \in 1..(Len(raw) + 1) :
       text[i] = IF i > Len(raw) THEN [ok |-> TRUE, val |-> <<>>]
                 ELSE IF StartsAt(raw, i) = {} THEN [ok |-> FALSE, val |-> <<>>]
                 ELSE Put(CharAt(raw, i), text[NextChar(raw, i)])
  /\ FromUtf8(raw) = text[1]

LEMMA Utf8BytesType ==
  ASSUME NEW c \in Characters
  PROVE  Utf8Bytes(c) \in Seq(0..(Pow2[ByteBits] - 1)) /\ Len(Utf8Bytes(c)) \in Nat \ {0}
<1> DEFINE B == 0..(Pow2[ByteBits] - 1)
<1>1. CASE c \in Ascii
  <2>1. Byte(c) \in B
    <3>1. AsciiOrder \in Seq(Ascii) /\ c \in ToSet(AsciiOrder)
      BY <1>1, AsciiOrderType
    <3>2. Byte(c) \in 0..(Len(AsciiOrder) - 1)
      BY <3>1, IndexFinds DEF Byte
    <3>3. Len(AsciiOrder) \in Nat /\ Pow2[ByteBits] \in Nat
      BY <3>1, LenProperties, Pow2Type, BitWidths
    <3> QED
      BY <3>2, <3>3, Utf8Encoding
  <2>2. Utf8Bytes(c) = <<Byte(c)>>
    BY <1>1 DEF Utf8Bytes
  <2> HIDE DEF B
  <2> QED
    BY <2>1, <2>2 DEF B
<1>2. CASE c \notin Ascii
  <2>1. c \in DOMAIN Utf8
    BY <1>2 DEF Characters
  <2>2. Utf8[c] \in Seq(Len(AsciiOrder)..(Pow2[ByteBits] - 1)) \ {<<>>}
    BY <2>1, Utf8Encoding
  <2>3. Len(AsciiOrder) \in Nat
    BY AsciiOrderType, LenProperties
  <2> DEFINE Above == Len(AsciiOrder)..(Pow2[ByteBits] - 1)
  <2>4. Above \subseteq B
    BY <2>3
  <2>5. Utf8[c] \in Seq(B)
    <3>1. Utf8[c] \in Seq(Above)
      BY <2>2
    <3> HIDE DEF Above, B
    <3> QED
      BY <3>1, <2>4, SeqMonotonic
  <2>6. Len(Utf8[c]) \in Nat \ {0}
    BY <2>2, EmptySeq
  <2> QED
    BY <1>2, <2>5, <2>6 DEF Utf8Bytes
<1> QED
  BY <1>1, <1>2

LEMMA FromUtf8Advances ==
  ASSUME NEW S, NEW raw \in Seq(S), NEW i \in 1..Len(raw), StartsAt(raw, i) # {}
  PROVE  CharAt(raw, i) \in Characters /\ NextChar(raw, i) \in (i + 1)..(Len(raw) + 1)
<1> DEFINE N    == Len(raw)
           rest == SubSeq(raw, i, Len(raw))
           c    == CharAt(raw, i)
<1>1. c \in Characters /\ IsPrefix(Utf8Bytes(c), rest)
  BY Zenon DEF CharAt, StartsAt
<1>2. N \in Nat
  BY LenProperties
<1>3. Len(rest) = N - i + 1
  <2>1. \A k \in i..N : raw[k] \in S
    BY <1>2, ElementOfSeq
  <2>2. i \in Int /\ N \in Int /\ i <= N
    BY <1>2
  <2> QED
    BY <2>1, <2>2, SubSeqProperties
<1> HIDE DEF c, rest, N
<1>4. Len(Utf8Bytes(c)) \in Nat \ {0}
  BY <1>1, Utf8BytesType
<1>5. Len(Utf8Bytes(c)) <= Len(rest)
  BY <1>1, Zenon DEF IsPrefix
<1>6. i + Len(Utf8Bytes(c)) \in (i + 1)..(N + 1)
  BY <1>2, <1>3, <1>4, <1>5
<1> QED
  BY <1>1, <1>6 DEF NextChar, c, N

LEMMA FromUtf8Goes ==
  ASSUME NEW S, NEW raw \in Seq(S)
  PROVE  \E text : TextsFrom(text, raw)
<1> DEFINE N == Len(raw)
           starts(i) == {c \in Characters :
                           IsPrefix(Utf8Bytes(c), SubSeq(raw, i, Len(raw)))}
           stuck(i) == starts(i) = {}
           char(i)  == CHOOSE c \in starts(i) : TRUE
           jump(i)  == i + Len(Utf8Bytes(char(i)))
           done     == [ok |-> TRUE, val |-> <<>>]
           none     == [ok |-> FALSE, val |-> <<>>]
           more(i, rest)  == [rest EXCEPT !.val = <<char(i)>> \o @]
           chain(f, m) == [i \in (N + 1 - m)..(N + 1) |->
                             IF i > N THEN done
                             ELSE IF stuck(i) THEN none ELSE more(i, f[jump(i)])]
           eq(f) == [i \in 1..(N + 1) |->
                       IF i > N THEN done
                       ELSE IF stuck(i) THEN none ELSE more(i, f[jump(i)])]
           from == CHOOSE f : f = eq(f)
<1>1. FromUtf8(raw) = from[1]
  BY Zenon DEF FromUtf8
<1>2. N \in Nat
  BY LenProperties
<1>3. ASSUME NEW i \in 1..N, ~stuck(i) PROVE jump(i) \in (i + 1)..(N + 1)
  <2>1. StartsAt(raw, i) # {} /\ jump(i) = NextChar(raw, i)
    BY <1>3, Zenon DEF StartsAt, CharAt, NextChar
  <2> HIDE DEF jump
  <2> QED
    BY <2>1, FromUtf8Advances
<1>4. ASSUME NEW i, NEW rest
      PROVE  /\ stuck(i) <=> (StartsAt(raw, i) = {})
             /\ more(i, rest) = Put(CharAt(raw, i), rest)
             /\ jump(i) = NextChar(raw, i)
  BY Zenon DEF StartsAt, CharAt, NextChar, Put
<1> HIDE DEF N, done, none, more, jump, stuck
<1>6. \E f : f = eq(f)
  <2> DEFINE T == {m \in 0..N : \E f : f = chain(f, m)}
  <2>1. 0 \in T
    <3>1. [i \in (N + 1)..(N + 1) |-> done] = chain([i \in (N + 1)..(N + 1) |-> done], 0)
      BY <1>2
    <3> HIDE DEF chain
    <3> QED
      BY <1>2, <3>1
  <2>2. ASSUME NEW m \in 0..(N - 1), m \in T PROVE m + 1 \in T
    <3>1. PICK f : f = chain(f, m)
      BY <2>2
    <3> DEFINE a == N - m
               g == [i \in a..(N + 1) |->
                       IF i > a THEN f[i]
                       ELSE IF stuck(i) THEN none ELSE more(i, f[jump(i)])]
    <3>2. a \in 1..N /\ N + 1 - m = a + 1 /\ N + 1 - (m + 1) = a
      BY <1>2
    <3> HIDE DEF a
    <3>3. ASSUME NEW i \in a..(N + 1)
          PROVE  g[i] = IF i > N THEN done
                        ELSE IF stuck(i) THEN none ELSE more(i, g[jump(i)])
      <4>1. CASE i = a
        <5>1. g[i] = IF stuck(i) THEN none ELSE more(i, f[jump(i)])
          BY <4>1
        <5>2. ~stuck(i) => g[jump(i)] = f[jump(i)]
          <6>1. ~stuck(i) => jump(i) \in (a + 1)..(N + 1)
            BY <1>3, <3>2, <4>1
          <6> QED
            BY <1>2, <3>2, <6>1
        <5> HIDE DEF g
        <5> QED
          BY <1>2, <3>2, <4>1, <5>1, <5>2
      <4>2. CASE i > a
        <5>1. i \in (a + 1)..(N + 1) /\ g[i] = f[i]
          BY <1>2, <3>2, <4>2
        <5>2. f[i] = IF i > N THEN done
                     ELSE IF stuck(i) THEN none ELSE more(i, f[jump(i)])
          BY <3>1, <3>2, <5>1
        <5>3. ~(i > N) /\ ~stuck(i) => g[jump(i)] = f[jump(i)]
          <6>1. ~(i > N) /\ ~stuck(i) => jump(i) \in (i + 1)..(N + 1)
            <7>1. ~(i > N) => i \in 1..N
              BY <1>2, <3>2, <5>1
            <7> QED
              BY <1>3, <7>1
          <6> QED
            BY <1>2, <3>2, <5>1, <6>1
        <5> HIDE DEF g
        <5> QED
          BY <5>1, <5>2, <5>3
      <4> QED
        BY <1>2, <3>2, <4>1, <4>2
    <3>4. g = chain(g, m + 1)
      BY <3>2, <3>3
    <3> HIDE DEF g, chain
    <3> QED
      BY <1>2, <3>4
  <2> HIDE DEF T
  <2>3. \A m \in 0..N : m \in T
    BY <1>2, <2>1, <2>2, UpTo
  <2>4. PICK f : f = chain(f, N)
    BY <1>2, <2>3 DEF T
  <2>5. (N + 1 - N) = 1
    BY <1>2
  <2>6. f = eq(f)
    BY <2>4, <2>5
  <2> HIDE DEF eq
  <2> QED
    BY <2>6
<1>7. from = eq(from)
  <2> HIDE DEF eq
  <2> QED
    BY <1>6, Zenon
<1> HIDE DEF from
<1>8. ASSUME NEW i \in 1..(N + 1)
      PROVE  from[i] = IF i > N THEN done
                       ELSE IF stuck(i) THEN none ELSE more(i, from[jump(i)])
  BY <1>7
<1>9. \A i \in 1..(N + 1) :
        from[i] = IF i > N THEN done
                  ELSE IF StartsAt(raw, i) = {} THEN none
                  ELSE Put(CharAt(raw, i), from[NextChar(raw, i)])
  BY <1>4, <1>8, Zenon
<1>10. TextsFrom(from, raw)
  BY <1>1, <1>9, Zenon DEF TextsFrom, N, done, none
<1> QED
  BY <1>10

(* ... and finds at most a character for each byte. *)
LEMMA FromUtf8Spells ==
  ASSUME NEW S, NEW raw \in Seq(S)
  PROVE  Spells(FromUtf8(raw).val, Len(raw))
<1> DEFINE N == Len(raw)
           stuck(i) == StartsAt(raw, i) = {}
           char(i)  == CharAt(raw, i)
           jump(i)  == NextChar(raw, i)
           done     == [ok |-> TRUE, val |-> <<>>]
           none     == [ok |-> FALSE, val |-> <<>>]
           more(i, rest)  == Put(CharAt(raw, i), rest)
<1>1. PICK from : TextsFrom(from, raw)
  BY FromUtf8Goes
<1>2. N \in Nat
  BY LenProperties
<1>3. ASSUME NEW i \in 1..N, ~stuck(i)
      PROVE  char(i) \in Characters /\ jump(i) \in (i + 1)..(N + 1)
  BY <1>3, FromUtf8Advances
<1> DEFINE good(t, n) == t = [ok |-> t.ok, val |-> t.val] /\ Spells(t.val, n)
<1>4. good(done, 0) /\ \A n \in Nat : good(none, n)
  BY EmptySpells
<1>5. ASSUME NEW i \in 1..N, ~stuck(i), NEW t, NEW n \in Nat, good(t, n)
      PROVE  good(more(i, t), n + 1)
  <2> DEFINE c == char(i)
  <2>1. <<c>> \in Seq(Characters) /\ Spells(<<c>>, 1)
    BY <1>3, <1>5, CharacterSpells
  <2> HIDE DEF c
  <2>2. more(i, t) = [ok |-> t.ok, val |-> <<c>> \o t.val]
    <3>1. \A o, v, w : [[ok |-> o, val |-> v] EXCEPT !.val = w] = [ok |-> o, val |-> w]
      OBVIOUS
    <3>2. PICK o, v : t = [ok |-> o, val |-> v]
      BY <1>5, Zenon
    <3>3. t.ok = o /\ t.val = v
      BY <3>2
    <3>4. more(i, t) = [t EXCEPT !.val = <<c>> \o t.val]
      BY Zenon DEF c, Put
    <3> HIDE DEF more, good
    <3> QED
      BY <3>1, <3>2, <3>3, <3>4
  <2>3. Spells(<<c>> \o t.val, 1 + n)
    BY <1>5, <2>1, ConcatSpells
  <2> HIDE DEF more
  <2> QED
    BY <2>2, <2>3
<1> HIDE DEF N, done, none, more, jump, stuck, good
<1>8. ASSUME NEW i \in 1..(N + 1)
      PROVE  from[i] = IF i > N THEN done
                       ELSE IF stuck(i) THEN none ELSE more(i, from[jump(i)])
  BY <1>1, Zenon DEF TextsFrom, N, done, none, more, jump, stuck
<1> DEFINE T == {m \in 0..N : \A i \in (N + 1 - m)..(N + 1) : good(from[i], N + 1 - i)}
<1>9. 0 \in T
  <2>1. ASSUME NEW i \in (N + 1 - 0)..(N + 1) PROVE good(from[i], N + 1 - i)
    <3>1. i = N + 1 /\ N + 1 - i = 0 /\ i > N /\ i \in 1..(N + 1)
      BY <1>2
    <3>2. from[i] = done
      BY <1>8, <3>1
    <3> QED
      BY <1>4, <3>1, <3>2
  <2> QED
    BY <1>2, <2>1
<1>10. ASSUME NEW m \in 0..(N - 1), m \in T PROVE m + 1 \in T
  <2>1. ASSUME NEW i \in (N + 1 - (m + 1))..(N + 1) PROVE good(from[i], N + 1 - i)
    <3>1. CASE i \in (N + 1 - m)..(N + 1)
      BY <1>10, <3>1
    <3>2. CASE i = N - m
      <4>1. i \in 1..N /\ i \in 1..(N + 1) /\ ~(i > N) /\ N + 1 - i \in Nat
        BY <1>2, <3>2
      <4>2. CASE stuck(i)
        BY <1>4, <1>8, <4>1, <4>2
      <4>3. CASE ~stuck(i)
        <5>1. jump(i) \in (i + 1)..(N + 1) /\ char(i) \in Characters
          BY <1>3, <4>1, <4>3
        <5>2. jump(i) \in (N + 1 - m)..(N + 1)
          BY <1>2, <3>2, <5>1
        <5>3. good(from[jump(i)], N + 1 - jump(i))
          BY <1>10, <5>2
        <5>4. from[i] = more(i, from[jump(i)])
          BY <1>8, <4>1, <4>3
        <5>5. N + 1 - jump(i) \in Nat /\ N - i \in Nat /\ N + 1 - jump(i) <= N - i
              /\ (N - i) + 1 = N + 1 - i
          BY <1>2, <4>1, <5>1
        <5>6. good(from[jump(i)], N - i)
          BY <5>3, <5>5, LongerSpells DEF good
        <5>7. good(more(i, from[jump(i)]), (N - i) + 1)
          BY <1>5, <4>1, <4>3, <5>5, <5>6
        <5> QED
          BY <5>4, <5>5, <5>7
      <4> QED
        BY <4>2, <4>3
    <3> QED
      BY <1>2, <3>1, <3>2
  <2>2. m + 1 \in 0..N
    BY <1>2
  <2> QED
    BY <2>1, <2>2
<1> HIDE DEF T
<1>11. N \in T
  <2>1. \A m \in 0..N : m \in T
    BY <1>2, <1>9, <1>10, UpTo
  <2> QED
    BY <1>2, <2>1
<1>12. good(from[1], N)
  <2>1. 1 \in (N + 1 - N)..(N + 1) /\ N + 1 - 1 = N
    BY <1>2
  <2>2. good(from[1], N + 1 - 1)
    BY <1>11, <2>1 DEF T
  <2> QED
    BY <2>1, <2>2
<1> QED
  BY <1>1, <1>12 DEF TextsFrom, good, N

LEMMA ReadUnitsSpells ==
  ASSUME NEW bits \in Seq(Bit), NEW r, Inside(r, bits), NEW id, NEW n \in Nat
  PROVE  Spells(ReadUnits(bits, r, id, n).val, 3 * n)
<1> DEFINE raw == ReadBytes(bits, r, n)
           end == r.pos + n * ByteBits
<1>1. CASE end > Len(bits)
  <2>1. ReadUnits(bits, r, id, n).val = <<>>
    BY <1>1 DEF ReadUnits, TextFail
  <2> QED
    BY <2>1, EmptySpells
<1>2. CASE ~(end > Len(bits))
  <2>1. raw \in Seq(0..(Pow2[ByteBits] - 1)) /\ Len(raw) = n
    <3>1. end \in Nat /\ Len(bits) \in Nat
      BY BitWidths, LenProperties DEF Inside
    <3>2. end <= Len(bits)
      BY <1>2, <3>1
    <3> QED
      BY <3>2, ReadBytesType
  <2> HIDE DEF raw
  <2>2. CASE id = PctBytes
    <3>1. ReadUnits(bits, r, id, n).val = EncodePurePercent(raw)
      BY <1>2, <2>2 DEF ReadUnits, Text, raw
    <3> QED
      BY <2>1, <3>1, EncodePurePercentSpells
  <2>3. CASE id # PctBytes
    <3>1. Spells(FromUtf8(raw).val, 3 * n)
      <4>1. Spells(FromUtf8(raw).val, n)
        BY <2>1, FromUtf8Spells
      <4>2. n <= 3 * n /\ 3 * n \in Nat
        OBVIOUS
      <4> QED
        BY <4>1, <4>2, LongerSpells
    <3>2. ReadUnits(bits, r, id, n).val = IF FromUtf8(raw).ok THEN FromUtf8(raw).val ELSE <<>>
      BY <1>2, <2>3 DEF ReadUnits, Text, TextFail, raw
    <3>3. 3 * n \in Nat
      OBVIOUS
    <3> QED
      BY <3>1, <3>2, <3>3, EmptySpells
  <2> QED
    BY <2>2, <2>3
<1> QED
  BY <1>1, <1>2

(* read_segment: at most three characters for each of MAX_SYMBOL_COUNT     *)
(* symbols.                                                                *)
LEMMA ReadSegmentSpells ==
  ASSUME NEW bits \in Seq(Bit), NEW r, Inside(r, bits)
  PROVE  Spells(ReadSegment(bits, r).val, 3 * MaxSymbols)
<1> DEFINE id    == ReadBits(bits, r, IdBits)
           count == ReadCompactCount(bits, id)
           n     == count.val
<1>1. Inside(id, bits) /\ id.val \in 0..7 /\ Inside(count, bits)
  <2>1. Inside(id, bits) /\ id.val \in 0..(Pow2[3] - 1)
    BY ReadBitsInside DEF IdBits
  <2>2. Pow2[3] = 8
    BY SmallPowers
  <2> HIDE DEF id
  <2> QED
    BY <2>1, <2>2, ReadCompactCountInside
<1> HIDE DEF id, count
<1>2. 3 * MaxSymbols \in Nat /\ MaxSymbols \in Nat
  BY SegmentLimits
<1>3. CASE count.ok /\ n \in 0..MaxSymbols
  <2>1. n \in Nat /\ n <= 3 * MaxSymbols /\ 3 * n <= 3 * MaxSymbols
    BY <1>2, <1>3
  <2>2. ReadSegment(bits, r) = ReadPayload(bits, count, id.val, n)
    BY <1>3, Zenon DEF ReadSegment, id, count
  <2>3. CASE id.val \in {Raw, PctBytes}
    <3>1. Spells(ReadUnits(bits, count, id.val, n).val, 3 * n)
      BY <1>1, <2>1, ReadUnitsSpells
    <3> QED
      BY <1>2, <2>1, <2>2, <2>3, <3>1, LongerSpells DEF ReadPayload
  <2>4. CASE id.val = Huffman
    <3>1. Spells(ReadHuffman(bits, count, n).val, n)
      BY <1>1, <2>1, ReadHuffmanInside, AsciiSpells
    <3> QED
      BY <1>2, <2>1, <2>2, <2>4, <3>1, LongerSpells DEF ReadPayload, Huffman, Raw, PctBytes
  <2>5. CASE id.val \notin {Raw, PctBytes} /\ id.val # Huffman
    <3>1. id.val \in 0..4
      BY <1>1, <2>5 DEF Huffman, Raw, PctBytes
    <3>2. Spells(ReadBase(bits, count, id.val, n).val, n)
      BY <1>1, <2>1, <3>1, ReadBaseSpells, AsciiSpells
    <3> QED
      BY <1>2, <2>1, <2>2, <2>5, <3>2, LongerSpells DEF ReadPayload
  <2> QED
    BY <2>3, <2>4, <2>5
<1>4. CASE ~(count.ok /\ n \in 0..MaxSymbols)
  <2>1. ReadSegment(bits, r).val = <<>>
    BY <1>4 DEF ReadSegment, TextFail, id, count
  <2> QED
    BY <1>2, <2>1, EmptySpells
<1> QED
  BY <1>3, <1>4

(* No entry of the dictionary is longer than n characters. *)
EntriesUpTo(dict, n) == \A i \in 1..Len(dict) : Spells(dict[i], n)

LEMMA ReadIndexSpells ==
  ASSUME NEW bits \in Seq(Bit), NEW r, Inside(r, bits), NEW width \in Nat,
         NEW n \in Nat, NEW dict \in Seq(Seq(Ascii)), EntriesUpTo(dict, n)
  PROVE  Spells(ReadIndex(bits, r, dict, width).val, n)
<1> DEFINE i == ReadBits(bits, r, width)
<1>1. i.val \in Nat
  <2>1. i.val \in 0..(Pow2[width] - 1) /\ Pow2[width] \in Nat
    BY ReadBitsInside, Pow2Type
  <2> HIDE DEF i
  <2> QED
    BY <2>1
<1>2. CASE i.ok /\ i.val < Len(dict)
  <2>1. ReadIndex(bits, r, dict, width).val = dict[i.val + 1]
    BY <1>2 DEF ReadIndex, Text
  <2>2. i.val + 1 \in 1..Len(dict)
    <3>1. Len(dict) \in Nat
      BY LenProperties
    <3> HIDE DEF i
    <3> QED
      BY <1>1, <1>2, <3>1
  <2> HIDE DEF i
  <2> QED
    BY <2>1, <2>2 DEF EntriesUpTo
<1>3. CASE ~(i.ok /\ i.val < Len(dict))
  <2>1. ReadIndex(bits, r, dict, width).val = <<>>
    BY <1>3 DEF ReadIndex, TextFail
  <2> QED
    BY <2>1, EmptySpells
<1> QED
  BY <1>2, <1>3

LEMMA ReadEntrySpells ==
  ASSUME NEW bits \in Seq(Bit), NEW r, Inside(r, bits), NEW width \in Nat,
         NEW n \in Nat, 3 * MaxSymbols <= n,
         NEW dict \in Seq(Seq(Ascii)), EntriesUpTo(dict, n)
  PROVE  Spells(ReadEntry(bits, r, dict, width).val, n)
<1> DEFINE flag == ReadBits(bits, r, 1)
<1>1. Inside(flag, bits)
  BY ReadBitsInside
<1> HIDE DEF flag
<1>2. Spells(ReadIndex(bits, flag, dict, width).val, n)
  BY <1>1, ReadIndexSpells
<1>3. Spells(ReadSegment(bits, flag).val, n)
  <2>1. 3 * MaxSymbols \in Nat
    BY SegmentLimits
  <2> QED
    BY <1>1, <2>1, ReadSegmentSpells, LongerSpells
<1> QED
  BY <1>2, <1>3 DEF ReadEntry, flag

-----------------------------------------------------------------------------
(* Digits and numbers. *)

(* The number of a text is reached digit by digit, and the first i digits  *)
(* make a number below the i-th power of the radix.                        *)
NumbersOf(val, s, chars) ==
  /\ val[0] = 0
  /\ \A i \in 0..Len(s) : val[i] \in Nat /\ val[i] < Power(Len(chars), i)
  /\ \A i \in 0..(Len(s) - 1) : val[i + 1] = val[i] * Len(chars) + Index(s[i + 1], chars)
  /\ ValueOf(s, chars) = val[Len(s)]

(* value_to_biguint adds digit by digit: the partial numbers exist.        *)
LEMMA ValueOfDigits ==
  ASSUME NEW T, NEW chars \in Seq(T), NEW s \in Seq(ToSet(chars))
  PROVE  \E val : NumbersOf(val, s, chars)
<1> DEFINE n == Len(s)
           b == Len(chars)
           digit(i) == Index(s[i], chars)
           eq(f) == [i \in 0..n |-> IF i = 0 THEN 0 ELSE f[i - 1] * b + digit(i)]
           step  == [i \in 1..n |-> [x \in Nat |-> x * b + digit(i)]]
           val   == CHOOSE f : f = eq(f)
<1>1. n \in Nat /\ b \in Nat /\ \A i \in 1..n : digit(i) \in 0..(b - 1)
  <2>1. ASSUME NEW i \in 1..n PROVE digit(i) \in 0..(b - 1)
    <3>1. s[i] \in ToSet(chars)
      BY ElementOfSeq
    <3> QED
      BY <3>1, IndexFinds
  <2> QED
    BY <2>1, LenProperties
<1> HIDE DEF digit, b
<1>2. PICK f : Unfolds(f, n, 0, step)
  <2> HIDE DEF step
  <2> QED
    BY <1>1, RecursionExists
<1>3. DOMAIN f = 0..n /\ f[0] = 0 /\ \A i \in 1..n : f[i] = step[i][f[i - 1]]
  <2> HIDE DEF step
  <2> QED
    BY <1>1, <1>2, UnfoldsValues
<1>4. \A x \in Nat : \A i \in 1..n : x * b + digit(i) \in Nat
  BY <1>1
<1>5. \A i \in 0..n : f[i] \in Nat
  <2> DEFINE A == {i \in 0..n : f[i] \in Nat}
  <2>1. 0 \in A
    BY <1>1, <1>3
  <2>2. ASSUME NEW i \in 0..(n - 1), i \in A PROVE i + 1 \in A
    <3>1. i + 1 \in 1..n /\ (i + 1) - 1 = i /\ i + 1 \in 0..n
      BY <1>1
    <3>2. f[i + 1] = step[i + 1][f[i]]
      BY <1>3, <3>1
    <3> QED
      BY <1>4, <2>2, <3>1, <3>2
  <2> HIDE DEF A
  <2>3. \A i \in 0..n : i \in A
    BY <1>1, <2>1, <2>2, UpTo
  <2> QED
    BY <2>3 DEF A
<1>6. f = eq(f)
  <2>1. ASSUME NEW i \in 0..n PROVE f[i] = IF i = 0 THEN 0 ELSE f[i - 1] * b + digit(i)
    <3>1. CASE i = 0
      BY <1>3, <3>1
    <3>2. CASE i # 0
      <4>1. i \in 1..n /\ f[i - 1] \in Nat
        BY <1>1, <1>5, <3>2
      <4>2. step[i][f[i - 1]] = f[i - 1] * b + digit(i)
        BY <4>1
      <4> QED
        BY <1>3, <3>2, <4>1, <4>2
    <3> QED
      BY <3>1, <3>2
  <2>2. f = [i \in 0..n |-> f[i]]
    <3> HIDE DEF step
    <3> QED
      BY <1>2 DEF Unfolds
  <2> QED
    BY <2>1, <2>2
<1>7. val = eq(val)
  <2> HIDE DEF eq
  <2> QED
    BY <1>6, Zenon
<1> HIDE DEF val
<1>8. val[0] = 0 /\ \A i \in 0..(n - 1) : val[i + 1] = val[i] * b + digit(i + 1)
  BY <1>1, <1>7
<1> DEFINE A == {i \in 0..n : val[i] \in Nat /\ val[i] < Power(b, i)}
<1>9. 0 \in A
  <2>1. Power(b, 0) = 1 /\ 0 \in 0..n
    BY <1>1, PowerZero
  <2> QED
    BY <1>8, <2>1
<1>10. ASSUME NEW i \in 0..(n - 1), i \in A PROVE i + 1 \in A
  <2> DEFINE v == val[i]
             d == digit(i + 1)
             p == Power(b, i)
  <2>1. v \in Nat /\ v < p /\ val[i + 1] = v * b + d /\ i \in Nat
    BY <1>8, <1>10
  <2>2. d \in 0..(b - 1) /\ i + 1 \in 0..n
    BY <1>1
  <2>3. p \in Nat /\ Power(b, i + 1) = b * p
    BY <1>1, <2>1, PowerType, PowerNext
  <2> HIDE DEF v, d, p
  <2>4. v * b + d \in Nat /\ v * b + d < b * p
    <3>1. \A x, y \in Nat : x <= y => b * x <= b * y
      BY <1>1
    <3>2. b * (v + 1) <= b * p /\ b * (v + 1) = v * b + b /\ v * b \in Nat
      BY <1>1, <2>1, <2>3, <3>1
    <3>3. b * p \in Nat
      BY <1>1, <2>3
    <3> QED
      BY <1>1, <2>2, <3>2, <3>3
  <2> QED
    BY <2>1, <2>2, <2>3, <2>4
<1> HIDE DEF A
<1>11. \A i \in 0..n : i \in A
  BY <1>1, <1>9, <1>10, UpTo
<1>12. ValueOf(s, chars) = val[n]
  BY Zenon DEF ValueOf, val, digit, b
<1>13. NumbersOf(val, s, chars)
  BY <1>8, <1>11, <1>12 DEF NumbersOf, A, digit, b
<1> QED
  BY <1>13

(* biguint_to_symbols gives back the text whose number it is given, its    *)
(* leading symbols of value zero included.                                 *)
LEMMA SymbolsOfValue ==
  ASSUME NEW T, NEW chars \in Seq(T), NEW s \in Seq(ToSet(chars)), s # <<>>
  PROVE  /\ ValueOf(s, chars) \in Nat
         /\ ValueOf(s, chars) < Power(Len(chars), Len(s))
         /\ SymbolsOf(ValueOf(s, chars), Len(s), chars) = s
<1> DEFINE n == Len(s)
           b == Len(chars)
           digit(i) == Index(s[i], chars)
<1>1. PICK val : NumbersOf(val, s, chars)
  BY ValueOfDigits
<1>2. n \in Nat /\ n > 0 /\ b \in Nat
  BY LenProperties, EmptySeq
<1>3. \A i \in 1..n : digit(i) \in 0..(b - 1) /\ chars[digit(i) + 1] = s[i]
  <2>1. ASSUME NEW i \in 1..n PROVE digit(i) \in 0..(b - 1) /\ chars[digit(i) + 1] = s[i]
    <3>1. s[i] \in ToSet(chars)
      BY ElementOfSeq
    <3> QED
      BY <3>1, IndexFinds
  <2> QED
    BY <2>1
<1>4. b > 0
  BY <1>2, <1>3
<1>5. /\ \A i \in 0..n : val[i] \in Nat /\ val[i] < Power(b, i)
      /\ \A i \in 0..(n - 1) : val[i + 1] = val[i] * b + digit(i + 1)
      /\ ValueOf(s, chars) = val[n]
  BY <1>1 DEF NumbersOf
<1> HIDE DEF digit, b
<1> DEFINE A == {i \in 0..n : val[n] \div Power(b, i) = val[n - i]}
<1>6. 0 \in A
  <2>1. val[n] \in Nat /\ n - 0 = n /\ Power(b, 0) = 1 /\ 0 \in 0..n
    BY <1>2, <1>5, PowerZero
  <2> QED
    BY <1>2, <2>1
<1>7. ASSUME NEW i \in 0..(n - 1), i \in A PROVE i + 1 \in A
  <2> DEFINE p == Power(b, i)
             k == n - (i + 1)
  <2>1. k \in 0..(n - 1) /\ k + 1 = n - i /\ k + 1 \in 1..n /\ i \in Nat /\ i + 1 \in 0..n
        /\ k \in 0..n
    BY <1>2
  <2>2. p \in Nat /\ p > 0 /\ Power(b, i + 1) = b * p /\ b * p = p * b
    <3>1. p \in Nat /\ p > 0 /\ Power(b, i + 1) = b * p
      BY <1>2, <1>4, <2>1, PowerType, PowerNext
    <3> QED
      BY <1>2, <3>1
  <2>3. val[n] \div p = val[k + 1] /\ val[k + 1] = b * val[k] + digit(k + 1)
    <3>1. val[k] \in Nat /\ val[k + 1] = val[k] * b + digit(k + 1)
      BY <1>5, <2>1
    <3>2. val[k] * b = b * val[k]
      BY <1>2, <3>1
    <3> QED
      BY <1>7, <2>1, <3>1, <3>2
  <2>4. val[n] \in Nat /\ val[k] \in Nat /\ digit(k + 1) \in 0..(b - 1)
    <3>1. n \in 0..n
      BY <1>2
    <3> HIDE DEF k
    <3> QED
      BY <1>3, <1>5, <2>1, <3>1
  <2> HIDE DEF p, k
  <2>5. val[n] \div (p * b) = (val[n] \div p) \div b
    <3>1. b \in Nat /\ b > 0 /\ p \in Nat /\ p > 0 /\ val[n] \in Nat
      BY <1>2, <1>4, <2>2, <2>4
    <3> QED
      BY <3>1, DivProduct
  <2>6. (b * val[k] + digit(k + 1)) \div b = val[k]
    BY <1>2, <1>4, <2>4, DivUnique
  <2>7. val[n] \div Power(b, i + 1) = val[k]
    BY <2>2, <2>3, <2>5, <2>6
  <2> QED
    BY <2>1, <2>7 DEF k
<1> HIDE DEF A
<1>8. \A i \in 0..n : i \in A
  BY <1>2, <1>6, <1>7, UpTo
<1>9. ASSUME NEW i \in 1..n
      PROVE  (val[n] \div Power(b, n - i)) % b = digit(i)
  <2>1. n - i \in 0..n /\ n - (n - i) = i /\ i - 1 \in 0..(n - 1) /\ (i - 1) + 1 = i
        /\ i - 1 \in 0..n
    BY <1>2
  <2>2. val[n] \div Power(b, n - i) = val[i]
    BY <1>8, <2>1 DEF A
  <2>3. val[i] = val[i - 1] * b + digit(i) /\ val[i - 1] \in Nat /\ digit(i) \in 0..(b - 1)
    BY <1>3, <1>5, <2>1
  <2>4. val[i] = b * val[i - 1] + digit(i)
    BY <1>2, <2>3
  <2>5. (b * val[i - 1] + digit(i)) % b = digit(i)
    BY <1>2, <1>4, <2>3, DivUnique
  <2> QED
    BY <2>2, <2>4, <2>5
<1> DEFINE t == SymbolsOf(val[n], n, chars)
<1>10. t = [i \in 1..n |-> chars[((val[n] \div Power(b, n - i)) % b) + 1]]
  BY DEF SymbolsOf, b
<1> HIDE DEF t
<1>11. \A i \in 1..n : t[i] = s[i]
  BY <1>3, <1>9, <1>10
<1>12. t = s
  <2>1. s = [i \in 1..n |-> s[i]]
    OBVIOUS
  <2> QED
    BY <1>10, <1>11, <2>1
<1> QED
  BY <1>2, <1>5, <1>12 DEF t, b

-----------------------------------------------------------------------------
(* The payloads: each reader gives back the text whose payload it finds. *)

BaseBits(s, id) == NatToBits(ValueOf(s, Alphabet[id]), FixedBitLen(id, Len(s)))

(* Fixed-width radix coding: the width both sides compute holds the number *)
(* of the text, and its leading symbols of value zero come back.           *)
LEMMA BaseReadsBack ==
  ASSUME NEW id \in 0..4, NEW s \in Seq(ToSet(Alphabet[id]))
  PROVE  /\ BaseBits(s, id) \in Seq(Bit) /\ Len(BaseBits(s, id)) = FixedBitLen(id, Len(s))
         /\ \A rbits \in Seq(Bit) : \A r :
              r.pos \in Nat /\ Holds(rbits, r.pos, BaseBits(s, id)) =>
                ReadBase(rbits, r, id, Len(s)) = Text(r.pos + FixedBitLen(id, Len(s)), s)
<1> DEFINE chars == Alphabet[id]
           n == Len(s)
           w == FixedBitLen(id, n)
           v == ValueOf(s, chars)
           x == NatToBits(v, w)
<1>1. chars \in Seq(Ascii) /\ n \in Nat
  BY AlphabetsAreAscii, LenProperties
<1>2. w \in Nat
  BY <1>1, FixedBitLenType
<1>3. v \in Nat
  <2> HIDE DEF chars
  <2>1. CASE s = <<>>
    <3>1. PICK val : NumbersOf(val, s, chars)
      BY <1>1, ValueOfDigits DEF chars
    <3>2. Len(s) = 0
      BY <2>1
    <3> QED
      BY <3>1, <3>2 DEF NumbersOf
  <2>2. CASE s # <<>>
    BY <1>1, <2>2, SymbolsOfValue DEF chars
  <2> QED
    BY <2>1, <2>2
<1>4. BaseBits(s, id) = x
  BY DEF BaseBits
<1> HIDE DEF w, v
<1>5. x \in Seq(Bit) /\ Len(x) = w
  BY <1>2, <1>3, NatToBitsType
<1>6. ASSUME NEW rbits \in Seq(Bit), NEW r, r.pos \in Nat, Holds(rbits, r.pos, x)
      PROVE  ReadBase(rbits, r, id, n) = Text(r.pos + w, s)
  <2>1. CASE s = <<>>
    <3>1. n = 0
      BY <2>1
    <3>2. w = 0
      <4>1. w = ByteBits * n
        BY <3>1 DEF w, FixedBitLen
      <4> QED
        BY <3>1, <4>1, BitWidths
    <3>3. ReadBase(rbits, r, id, n) = Text(r.pos, <<>>)
      BY <3>1, Zenon DEF ReadBase
    <3>4. r.pos + 0 = r.pos
      BY <1>6
    <3> QED
      BY <2>1, <3>2, <3>3, <3>4
  <2>2. CASE s # <<>>
    <3>1. n > 0 /\ n # 0
      BY <2>2, <1>1, EmptySeq
    <3>2. v < Power(Len(chars), n) /\ SymbolsOf(v, n, chars) = s
      <4> HIDE DEF chars
      <4> QED
        BY <1>1, <2>2, SymbolsOfValue DEF v, chars
    <3>3. Power(Len(chars), n) <= Pow2[w]
      BY <1>1, <3>1, FixedBitLenFits DEF w
    <3>4. Power(Len(chars), n) \in Nat /\ Pow2[w] \in Nat
      BY <1>1, <1>2, LenProperties, PowerType, Pow2Type
    <3>5. BitsToNat(x) = v
      <4>1. v < Pow2[w]
        BY <1>3, <3>2, <3>3, <3>4
      <4> QED
        BY <1>2, <1>3, <4>1, BitsToNatOfNatToBits
    <3> HIDE DEF x
    <3>6. SubSeq(rbits, r.pos + 1, r.pos + w) = x
      BY <1>5, <1>6, HeldPart
    <3>7. r.pos + w <= Len(rbits) /\ Len(rbits) \in Nat
      BY <1>5, <1>6, LenProperties DEF Holds
    <3>8. ~(r.pos + w > Len(rbits) \/ v >= Power(Len(chars), n))
      BY <1>2, <1>3, <1>6, <3>2, <3>4, <3>7
    <3> HIDE DEF n
    <3>9. ReadBase(rbits, r, id, n)
            = IF n = 0 THEN Text(r.pos, <<>>)
              ELSE IF r.pos + w > Len(rbits)
                      \/ BitsToNat(SubSeq(rbits, r.pos + 1, r.pos + w)) >= Power(Len(chars), n)
              THEN TextFail(r)
              ELSE Text(r.pos + w, SymbolsOf(BitsToNat(SubSeq(rbits, r.pos + 1, r.pos + w)), n, chars))
      BY Zenon DEF ReadBase, w
    <3> QED
      BY <3>1, <3>2, <3>5, <3>6, <3>8, <3>9
  <2> QED
    BY <2>1, <2>2
<1> QED
  BY <1>4, <1>5, <1>6 DEF w

ByteSet == 0..(Pow2[ByteBits] - 1)

(* Whole bytes. *)
LEMMA BytesReadBack ==
  ASSUME NEW raw \in Seq(ByteSet)
  PROVE  /\ ByteBitsOf(raw) \in Seq(Bit) /\ Len(ByteBitsOf(raw)) = Len(raw) * ByteBits
         /\ \A rbits \in Seq(Bit) : \A r :
              r.pos \in Nat /\ Holds(rbits, r.pos, ByteBitsOf(raw)) =>
                ReadBytes(rbits, r, Len(raw)) = raw
<1> DEFINE n == Len(raw)
           field(k) == NatToBits(raw[k], ByteBits)
           seqs == [k \in 1..n |-> field(k)]
           flat == FlattenSeq(seqs)
<1>1. n \in Nat /\ ByteBits \in Nat
  BY LenProperties, BitWidths
<1>2. ASSUME NEW k \in 1..n
      PROVE  /\ raw[k] \in Nat /\ field(k) \in Seq(Bit) /\ Len(field(k)) = ByteBits
             /\ BitsToNat(field(k)) = raw[k]
  <2>1. raw[k] \in Nat /\ raw[k] < Pow2[ByteBits]
    <3>1. raw[k] \in ByteSet
      BY ElementOfSeq
    <3> QED
      BY <1>1, <3>1, Pow2Type DEF ByteSet
  <2> QED
    BY <1>1, <2>1, NatToBitsType, BitsToNatOfNatToBits
<1>3. flat = ByteBitsOf(raw)
  BY DEF ByteBitsOf
<1> HIDE DEF field
<1>4. seqs \in Seq(Seq(Bit)) /\ Len(seqs) = n /\ \A k \in 1..n : seqs[k] = field(k)
  BY <1>1, <1>2
<1> HIDE DEF seqs
<1>5. flat \in Seq(Bit)
  BY <1>4, FlattenLaysOut
<1>6. PICK at : LaidOut(at, seqs, flat)
  BY <1>4, FlattenLaysOut
<1>7. \A k \in 0..n : at[k] = ByteBits * k
  <2>1. \A k \in 1..Len(seqs) : Len(seqs[k]) = ByteBits
    BY <1>2, <1>4
  <2> HIDE DEF flat, n
  <2>2. \A k \in 0..Len(seqs) : at[k] = ByteBits * k
    <3>1. seqs \in Seq(Seq(Bit)) /\ ByteBits \in Nat
      BY <1>1, <1>4
    <3> QED
      BY <1>6, <2>1, <3>1, LaidOutEvenly, Zenon
  <2> QED
    BY <1>4, <2>2
<1>8. Len(flat) = n * ByteBits
  <2>1. at[n] = Len(flat)
    BY <1>4, <1>6 DEF LaidOut
  <2>2. at[n] = ByteBits * n
    BY <1>1, <1>7
  <2> QED
    BY <1>1, <2>1, <2>2
<1> HIDE DEF flat, n
<1>9. ASSUME NEW rbits \in Seq(Bit), NEW r, r.pos \in Nat, Holds(rbits, r.pos, flat)
      PROVE  ReadBytes(rbits, r, n) = raw
  <2>1. ASSUME NEW k \in 1..n
        PROVE  BitsToNat(SubSeq(rbits, r.pos + (k - 1) * ByteBits + 1, r.pos + k * ByteBits)) = raw[k]
    <3> DEFINE a == at[k - 1]
               p == r.pos + a
    <3>1. a \in Nat /\ Holds(rbits, p, seqs[k])
      <4>1. Len(rbits) \in Nat
        BY LenProperties
      <4> QED
        BY <1>4, <1>5, <1>6, <1>9, <4>1, HeldPiece
    <3>2. seqs[k] \in Seq(Bit) /\ Len(seqs[k]) = ByteBits /\ BitsToNat(seqs[k]) = raw[k]
      BY <1>2, <1>4
    <3>3. a = (k - 1) * ByteBits /\ k * ByteBits = (k - 1) * ByteBits + ByteBits
      <4>1. k - 1 \in 0..n
        BY <1>1
      <4>2. a = ByteBits * (k - 1)
        BY <1>7, <4>1
      <4>3. \A b \in Nat : b * (k - 1) = (k - 1) * b /\ k * b = (k - 1) * b + b
        OBVIOUS
      <4> QED
        BY <1>1, <4>2, <4>3
    <3> DEFINE c == (k - 1) * ByteBits
    <3> HIDE DEF a, c
    <3>4. p \in Nat /\ p + 1 = r.pos + c + 1 /\ p + ByteBits = r.pos + k * ByteBits
      BY <1>1, <1>9, <3>1, <3>3 DEF c
    <3> HIDE DEF p
    <3>5. SubSeq(rbits, p + 1, p + Len(seqs[k])) = seqs[k]
      BY <3>1, <3>2, <3>4, HeldPart
    <3> QED
      BY <3>2, <3>4, <3>5 DEF c
  <2>2. ReadBytes(rbits, r, n) = [k \in 1..n |-> raw[k]]
    BY <2>1 DEF ReadBytes
  <2>3. raw = [k \in 1..n |-> raw[k]]
    BY DEF n
  <2> QED
    BY <2>2, <2>3
<1> QED
  BY <1>3, <1>5, <1>8, <1>9 DEF n

(* The UTF-8 form of a character begins no other character's. *)
LEMMA Utf8PrefixFree ==
  PrefixFree([c \in Characters |-> Utf8Bytes(c)], Characters, ByteSet)
<1> DEFINE first == Len(AsciiOrder)
<1>1. ASSUME NEW c \in Characters PROVE Utf8Bytes(c) \in Seq(ByteSet) /\ Len(Utf8Bytes(c)) \in Nat \ {0}
  BY Utf8BytesType DEF ByteSet
<1>2. ASSUME NEW c \in Ascii
      PROVE  Byte(c) < first /\ AsciiOrder[Byte(c) + 1] = c /\ Utf8Bytes(c) = <<Byte(c)>>
             /\ Byte(c) \in Nat
  <2>1. AsciiOrder \in Seq(Ascii) /\ c \in ToSet(AsciiOrder)
    BY <1>2, AsciiOrderType
  <2>2. Byte(c) \in 0..(first - 1) /\ AsciiOrder[Byte(c) + 1] = c
    BY <2>1, IndexFinds DEF Byte
  <2>3. first \in Nat
    BY <2>1, LenProperties
  <2> QED
    BY <2>2, <2>3 DEF Utf8Bytes
<1>3. ASSUME NEW c \in Characters, c \notin Ascii
      PROVE  Utf8Bytes(c) = Utf8[c] /\ c \in DOMAIN Utf8 /\ Utf8Bytes(c)[1] >= first
  <2>1. c \in DOMAIN Utf8 /\ Utf8Bytes(c) = Utf8[c]
    BY <1>3 DEF Characters, Utf8Bytes
  <2> DEFINE Above == first..(Pow2[ByteBits] - 1)
  <2>2. Utf8[c] \in Seq(Above) \ {<<>>}
    BY <2>1, Utf8Encoding
  <2>3. first \in Nat
    BY AsciiOrderType, LenProperties
  <2>4. Utf8[c][1] \in Above
    <3> HIDE DEF Above
    <3>1. 1 \in 1..Len(Utf8[c])
      BY <2>2, EmptySeq
    <3> QED
      BY <2>2, <3>1, ElementOfSeq
  <2> QED
    BY <2>1, <2>3, <2>4
<1>4. ASSUME NEW c \in Characters, NEW d \in Characters,
             Holds(Utf8Bytes(d), 0, Utf8Bytes(c))
      PROVE  Utf8Bytes(d)[1] = Utf8Bytes(c)[1]
  <2>1. 1 \in 1..Len(Utf8Bytes(c))
    BY <1>1
  <2>2. Utf8Bytes(d)[0 + 1] = Utf8Bytes(c)[1]
    BY <1>4, <2>1, Zenon DEF Holds
  <2>3. 0 + 1 = 1
    OBVIOUS
  <2> QED
    BY <2>2, <2>3
<1> HIDE DEF first
<1>5. ASSUME NEW c \in Characters, NEW d \in Characters, c # d
      PROVE  ~IsPrefix(Utf8Bytes(c), Utf8Bytes(d))
  <2>1. ASSUME IsPrefix(Utf8Bytes(c), Utf8Bytes(d)) PROVE Utf8Bytes(d)[1] = Utf8Bytes(c)[1]
    <3>1. Holds(Utf8Bytes(d), 0, Utf8Bytes(c))
      BY <1>1, <2>1, PrefixMeans
    <3> QED
      BY <1>4, <3>1
  <2>2. first \in Nat
    BY AsciiOrderType, LenProperties DEF first
  <2>3. CASE c \in Ascii /\ d \in Ascii
    <3>1. Utf8Bytes(c)[1] = Byte(c) /\ Utf8Bytes(d)[1] = Byte(d)
      BY <1>2, <2>3
    <3>2. Byte(c) # Byte(d)
      BY <1>2, <1>5, <2>3
    <3> QED
      BY <2>1, <3>1, <3>2
  <2>4. CASE c \in Ascii /\ d \notin Ascii
    <3>1. Utf8Bytes(c)[1] = Byte(c) /\ Byte(c) < first /\ Byte(c) \in Nat
      BY <1>2, <2>4
    <3>2. Utf8Bytes(d)[1] >= first
      BY <1>3, <2>4
    <3>3. Utf8Bytes(d)[1] # Utf8Bytes(c)[1]
      BY <2>2, <3>1, <3>2
    <3> QED
      BY <2>1, <3>3
  <2>5. CASE c \notin Ascii /\ d \in Ascii
    <3>1. Utf8Bytes(d)[1] = Byte(d) /\ Byte(d) < first /\ Byte(d) \in Nat
      BY <1>2, <2>5
    <3>2. Utf8Bytes(c)[1] >= first
      BY <1>3, <2>5
    <3>3. Utf8Bytes(d)[1] # Utf8Bytes(c)[1]
      BY <2>2, <3>1, <3>2
    <3> QED
      BY <2>1, <3>3
  <2>6. CASE c \notin Ascii /\ d \notin Ascii
    <3>1. c \in DOMAIN Utf8 /\ d \in DOMAIN Utf8
          /\ Utf8Bytes(c) = Utf8[c] /\ Utf8Bytes(d) = Utf8[d]
      BY <1>3, <2>6
    <3> QED
      BY <1>5, <3>1, Utf8Encoding
  <2> QED
    BY <2>3, <2>4, <2>5, <2>6
<1> QED
  BY <1>1, <1>5 DEF PrefixFree

(* from_utf8 gives back the text whose bytes it is given. *)
LEMMA Utf8ReadsBack ==
  ASSUME NEW s \in Seq(Characters)
  PROVE  /\ Utf8Text(s) \in Seq(ByteSet)
         /\ FromUtf8(Utf8Text(s)) = [ok |-> TRUE, val |-> s]
<1> DEFINE n == Len(s)
           form(i) == Utf8Bytes(s[i])
           code == [c \in Characters |-> Utf8Bytes(c)]
           seqs == [i \in 1..n |-> form(i)]
           raw == FlattenSeq(seqs)
           N == Len(raw)
<1>1. n \in Nat /\ \A i \in 1..n : s[i] \in Characters
  BY LenProperties, ElementOfSeq
<1>2. \A i \in 1..n : form(i) \in Seq(ByteSet) /\ Len(form(i)) \in Nat \ {0}
  BY <1>1, Utf8BytesType DEF ByteSet
<1>3. Utf8Text(s) = raw
  BY DEF Utf8Text
<1> HIDE DEF form
<1>4. seqs \in Seq(Seq(ByteSet)) /\ Len(seqs) = n /\ \A i \in 1..n : seqs[i] = form(i)
  BY <1>1, <1>2
<1> HIDE DEF seqs
<1>5. raw \in Seq(ByteSet)
  BY <1>4, FlattenLaysOut
<1>6. PICK at : LaidOut(at, seqs, raw)
  BY <1>4, FlattenLaysOut
<1> HIDE DEF raw
<1>7. N \in Nat
  BY <1>5, LenProperties
<1>8. PICK text : TextsFrom(text, raw)
  BY <1>5, FromUtf8Goes
<1>9. Holds(raw, 0, raw)
  <2>1. \A i \in 1..N : 0 + i = i
    BY <1>7
  <2> QED
    BY <1>7, <2>1 DEF Holds
<1>10. ASSUME NEW k \in 0..(n - 1)
       PROVE  text[at[k] + 1] = Put(s[k + 1], text[at[k + 1] + 1])
  <2> DEFINE c == s[k + 1]
             p == at[k]
  <2>1. k + 1 \in 1..n /\ (k + 1) - 1 = k /\ c \in Characters
    BY <1>1
  <2>2. /\ p \in Nat /\ at[k + 1] = p + Len(seqs[k + 1]) /\ 0 + at[k + 1] <= N
        /\ Holds(raw, 0 + p, seqs[k + 1])
    <3>1. k + 1 \in 1..Len(seqs) /\ 0 \in Nat
      BY <1>4, <2>1
    <3> DEFINE j == k + 1
    <3> HIDE DEF j
    <3>2. /\ at[j - 1] \in Nat /\ at[j] = at[j - 1] + Len(seqs[j])
          /\ 0 + at[j] <= Len(raw) /\ Holds(raw, 0 + at[j - 1], seqs[j])
      <4>1. j \in 1..Len(seqs)
        BY <3>1 DEF j
      <4> HIDE DEF N
      <4>2. Len(raw) \in Nat
        BY <1>7 DEF N
      <4> QED
        BY <1>4, <1>5, <1>6, <1>9, <3>1, <4>1, <4>2, HeldPiece
    <3> QED
      BY <2>1, <3>2 DEF j
  <2>3. seqs[k + 1] = Utf8Bytes(c) /\ Len(Utf8Bytes(c)) \in Nat \ {0}
    BY <1>2, <1>4, <2>1 DEF form
  <2> HIDE DEF p, c
  <2>4. p \in 0..N /\ p + 1 \in 1..N /\ p + 1 \in 1..(N + 1) /\ at[k + 1] = p + Len(Utf8Bytes(c))
        /\ at[k + 1] + 1 = (p + 1) + Len(Utf8Bytes(c)) /\ 0 + p = p /\ ~(p + 1 > N)
    BY <1>7, <2>2, <2>3
  <2>5. \A d \in Characters : code[d] = Utf8Bytes(d)
    OBVIOUS
  <2>6. PrefixFree(code, Characters, ByteSet)
    BY Utf8PrefixFree
  <2> HIDE DEF code
  <2>7. {d \in Characters : IsPrefix(code[d], SubSeq(raw, p + 1, Len(raw)))} = {c}
    <3>1. Holds(raw, p, code[c])
      BY <2>1, <2>2, <2>3, <2>4, <2>5 DEF c
    <3>2. c \in Characters
      BY <2>1 DEF c
    <3> QED
      BY <1>5, <2>4, <2>6, <3>1, <3>2, OneCodeFits
  <2>8. StartsAt(raw, p + 1) = {c}
    BY <2>5, <2>7 DEF StartsAt
  <2>9. CharAt(raw, p + 1) = c
    BY <2>8 DEF CharAt
  <2>10. NextChar(raw, p + 1) = at[k + 1] + 1
    BY <2>4, <2>9 DEF NextChar
  <2>11. text[p + 1] = IF p + 1 > N THEN [ok |-> TRUE, val |-> <<>>]
                       ELSE IF StartsAt(raw, p + 1) = {} THEN [ok |-> FALSE, val |-> <<>>]
                       ELSE Put(CharAt(raw, p + 1), text[NextChar(raw, p + 1)])
    BY <1>8, <2>4 DEF TextsFrom
  <2>12. StartsAt(raw, p + 1) # {}
    BY <2>8
  <2>13. text[p + 1] = Put(c, text[at[k + 1] + 1])
    BY <2>4, <2>9, <2>10, <2>11, <2>12
  <2> QED
    BY <2>13 DEF p, c
<1> DEFINE upto(k) == [ok |-> TRUE, val |-> SubSeq(s, k + 1, n)]
           T == {m \in 0..n : text[at[n - m] + 1] = upto(n - m)}
<1>11. 0 \in T
  <2>1. at[n] = N
    BY <1>4, <1>6 DEF LaidOut
  <2>2. text[N + 1] = [ok |-> TRUE, val |-> <<>>]
    <3>1. N + 1 \in 1..(N + 1) /\ N + 1 > N
      BY <1>7
    <3> QED
      BY <1>8, <3>1 DEF TextsFrom
  <2>3. SubSeq(s, n + 1, n) = <<>>
    BY <1>1, SubSeqEmpty
  <2>4. 0 \in 0..n /\ n - 0 = n
    BY <1>1
  <2>5. text[at[n] + 1] = upto(n)
    BY <2>1, <2>2, <2>3
  <2> QED
    BY <2>4, <2>5
<1>12. ASSUME NEW m \in 0..(n - 1), m \in T PROVE m + 1 \in T
  <2> DEFINE k == n - (m + 1)
             c == s[k + 1]
             rest == SubSeq(s, k + 1 + 1, n)
  <2>1. k \in 0..(n - 1) /\ n - m = k + 1 /\ m + 1 \in 0..n /\ k + 1 \in 1..n /\ n \in (k + 1)..n
    BY <1>1
  <2>2. text[at[k + 1] + 1] = upto(k + 1)
    BY <1>12, <2>1
  <2> HIDE DEF k
  <2>3. text[at[k] + 1] = Put(c, text[at[k + 1] + 1])
    BY <1>10, <2>1
  <2>4. SubSeq(s, k + 1, n) = <<c>> \o rest
    BY <2>1, SubSeqRecursiveFirst
  <2> HIDE DEF c, rest
  <2>5. Put(c, [ok |-> TRUE, val |-> rest]) = [ok |-> TRUE, val |-> <<c>> \o rest]
    <3>1. \A o, v, w : [[ok |-> o, val |-> v] EXCEPT !.val = w] = [ok |-> o, val |-> w]
      OBVIOUS
    <3> DEFINE t == [ok |-> TRUE, val |-> rest]
    <3>2. t.val = rest
      OBVIOUS
    <3>3. Put(c, t) = [t EXCEPT !.val = <<c>> \o t.val]
      BY Zenon DEF Put
    <3>4. [t EXCEPT !.val = <<c>> \o rest] = [ok |-> TRUE, val |-> <<c>> \o rest]
      BY <3>1
    <3> HIDE DEF t
    <3>5. Put(c, t) = [ok |-> TRUE, val |-> <<c>> \o rest]
      BY <3>2, <3>3, <3>4
    <3> QED
      BY <3>5 DEF t
  <2>6. text[at[k] + 1] = upto(k)
    BY <2>2, <2>3, <2>4, <2>5 DEF rest
  <2> QED
    BY <2>1, <2>6 DEF k
<1> HIDE DEF T
<1>13. n \in T
  <2>1. \A m \in 0..n : m \in T
    BY <1>1, <1>11, <1>12, UpTo
  <2> QED
    BY <1>1, <2>1
<1>14. text[1] = [ok |-> TRUE, val |-> s]
  <2>1. text[at[0] + 1] = upto(0)
    <3>1. n - n = 0
      BY <1>1
    <3> QED
      BY <1>13, <3>1 DEF T
  <2>2. at[0] = 0 /\ 0 + 1 = 1
    BY <1>6 DEF LaidOut
  <2>3. SubSeq(s, 1, n) = s
    BY SubSeqFull
  <2> QED
    BY <2>1, <2>2, <2>3
<1> QED
  BY <1>3, <1>5, <1>8, <1>14 DEF TextsFrom

(* decode_from gives back the text whose prefix code it finds, and stops   *)
(* behind the last symbol.                                                 *)
LEMMA HuffmanReadsBack ==
  ASSUME NEW s \in Seq(DOMAIN HuffCode)
  PROVE  /\ HuffmanBits(s) \in Seq(Bit)
         /\ \A rbits \in Seq(Bit) : \A r :
              r.pos \in Nat /\ Holds(rbits, r.pos, HuffmanBits(s)) =>
                ReadHuffman(rbits, r, Len(s)) = Text(r.pos + Len(HuffmanBits(s)), s)
<1> DEFINE n == Len(s)
           form(i) == HuffCode[s[i]]
           seqs == [i \in 1..n |-> form(i)]
           flat == FlattenSeq(seqs)
           D == DOMAIN HuffCode
<1>1. n \in Nat /\ \A i \in 1..n : s[i] \in D
  BY LenProperties, ElementOfSeq
<1>2. \A i \in 1..n : form(i) \in Seq(Bit)
  BY <1>1, SegmentLimits
<1>3. HuffmanBits(s) = flat
  BY DEF HuffmanBits
<1> HIDE DEF form
<1>4. seqs \in Seq(Seq(Bit)) /\ Len(seqs) = n /\ \A i \in 1..n : seqs[i] = form(i)
  BY <1>1, <1>2
<1> HIDE DEF seqs
<1>5. flat \in Seq(Bit)
  BY <1>4, FlattenLaysOut
<1>6. PICK at : LaidOut(at, seqs, flat)
  BY <1>4, FlattenLaysOut
<1>7. PrefixFree(HuffCode, D, Bit)
  BY SegmentLimits DEF PrefixFree
<1> HIDE DEF flat, D
<1>8. ASSUME NEW rbits \in Seq(Bit), NEW r, r.pos \in Nat, Holds(rbits, r.pos, flat)
      PROVE  ReadHuffman(rbits, r, n) = Text(r.pos + Len(flat), s)
  <2>1. PICK read : SymbolsTaken(read, rbits, r, n)
    BY <1>1, ReadHuffmanTakes
  <2> DEFINE upto(k) == Text(r.pos + at[k], SubSeq(s, 1, k))
             A == {k \in 0..n : read[k] = upto(k)}
  <2>2. 0 \in A
    <3>1. SubSeq(s, 1, 0) = <<>>
      BY SubSeqEmpty
    <3>2. at[0] = 0 /\ r.pos + 0 = r.pos
      BY <1>6, <1>8 DEF LaidOut
    <3>3. read[0] = Text(r.pos, <<>>)
      BY <2>1 DEF SymbolsTaken
    <3>4. 0 \in 0..n
      BY <1>1
    <3> QED
      BY <3>1, <3>2, <3>3, <3>4
  <2>3. ASSUME NEW k \in 0..(n - 1), k \in A PROVE k + 1 \in A
    <3> DEFINE j == k + 1
               c == s[j]
               p == r.pos + at[k]
               t == SubSeq(s, 1, k)
    <3>1. j \in 1..n /\ j - 1 = k /\ c \in D /\ j \in 0..n /\ 1 \in 1..n /\ j \in 1..n
          /\ k \in 0..n
      BY <1>1
    <3>2. SubSeq(s, 1, j) = Append(t, c)
      <4>1. 1 \in 1..Len(s) /\ j \in 1..Len(s)
        BY <3>1
      <4>2. SubSeq(s, 1, j) = SubSeq(s, 1, j - 1) \o <<s[j]>>
        BY <4>1, SubSeqRecursiveSecond
      <4>3. t \in Seq(D)
        <5>1. s \in Seq(D)
          BY DEF D
        <5>2. \A i \in 1..k : s[i] \in D
          BY <1>1, <3>1
        <5>3. 1 \in Int /\ k \in Int
          BY <3>1
        <5> QED
          BY <5>2, <5>3, SubSeqProperties
      <4> HIDE DEF j, c, t
      <4>4. Append(t, c) = t \o <<c>>
        BY <3>1, <4>3, AppendIsConcat
      <4> QED
        BY <3>1, <4>2, <4>4 DEF c, t
    <3>3. /\ at[k] \in Nat /\ at[j] = at[k] + Len(seqs[j]) /\ r.pos + at[j] <= Len(rbits)
          /\ Holds(rbits, p, seqs[j]) /\ seqs[j] \in Seq(Bit) /\ Len(rbits) \in Nat
      <4> HIDE DEF j, c
      <4>1. Len(rbits) \in Nat
        BY LenProperties
      <4>2. j \in 1..Len(seqs)
        BY <1>4, <3>1
      <4> HIDE DEF n
      <4>3. /\ at[j - 1] \in Nat /\ at[j] = at[j - 1] + Len(seqs[j]) /\ seqs[j] \in Seq(Bit)
            /\ r.pos + at[j] <= Len(rbits) /\ Holds(rbits, r.pos + at[j - 1], seqs[j])
        BY <1>4, <1>5, <1>6, <1>8, <4>1, <4>2, HeldPiece
      <4> QED
        BY <3>1, <4>1, <4>3
    <3>4. seqs[j] = HuffCode[c]
      BY <1>4, <3>1 DEF form
    <3>5. read[j] = AfterSymbol(rbits, read[k]) /\ read[k] = Text(p, t)
      BY <2>1, <2>3 DEF SymbolsTaken
    <3>6. p \in 0..Len(rbits) /\ r.pos + at[j] = p + Len(HuffCode[c])
      <4>1. Len(seqs[j]) \in Nat
        BY <3>3, LenProperties
      <4> HIDE DEF j, c
      <4> QED
        BY <1>8, <3>3, <3>4, <4>1, SMTT(30)
    <3> HIDE DEF p, c, t, j, n
    <3>7. NextSymbols(rbits, p) = {c}
      <4>1. {d \in D : IsPrefix(HuffCode[d], SubSeq(rbits, p + 1, Len(rbits)))} = {c}
        BY <1>7, <3>1, <3>3, <3>4, <3>6, OneCodeFits
      <4> QED
        BY <4>1, Zenon DEF NextSymbols, D
    <3>8. NextSymbol(rbits, p) = c
      BY <3>7 DEF NextSymbol
    <3>9. read[k].ok = TRUE /\ read[k].pos = p /\ read[k].val = t
      BY <3>5 DEF Text
    <3>10. read[j] = Text(p + Len(HuffCode[c]), Append(t, c))
      <4>1. ~(~read[k].ok \/ NextSymbols(rbits, read[k].pos) = {})
        BY <3>7, <3>9
      <4> QED
        BY <3>5, <3>8, <3>9, <4>1, Zenon DEF AfterSymbol
    <3>11. read[j] = upto(j)
      BY <3>2, <3>6, <3>10
    <3> QED
      BY <3>1, <3>11 DEF j
  <2> HIDE DEF A
  <2>4. n \in A
    <3>1. \A k \in 0..n : k \in A
      BY <1>1, <2>2, <2>3, UpTo
    <3> QED
      BY <1>1, <3>1
  <2>5. read[n] = upto(n)
    BY <2>4 DEF A
  <2>6. at[n] = Len(flat) /\ SubSeq(s, 1, n) = s
    <3>1. SubSeq(s, 1, Len(s)) = s
      BY SubSeqFull
    <3> QED
      BY <1>4, <1>6, <3>1 DEF LaidOut
  <2> QED
    BY <2>1, <2>5, <2>6 DEF SymbolsTaken
<1> QED
  BY <1>3, <1>5, <1>8

(* A run of escapes with upper-case digits is the escaped form of its      *)
(* bytes.                                                                  *)
LEMMA PercentReadsBack ==
  ASSUME NEW s \in Seq(Characters), IsPurePercent(s), Normalised(s)
  PROVE  /\ DecodePurePercent(s) \in Seq(ByteSet)
         /\ Len(DecodePurePercent(s)) = Len(s) \div 3
         /\ EncodePurePercent(DecodePurePercent(s)) = s
<1> DEFINE n == Len(s) \div 3
           H == Pow2[HexBits]
           byte(k) == HexVal[s[3 * k - 1]] * H + HexVal[s[3 * k]]
           raw == DecodePurePercent(s)
           triple(k) == Escape(raw[k])
           seqs == [k \in 1..n |-> triple(k)]
           flat == FlattenSeq(seqs)
<1>1. Len(s) \in Nat /\ n \in Nat /\ Len(s) = 3 * n
  <2>1. Len(s) \in Nat /\ Len(s) % 3 = 0
    BY LenProperties DEF IsPurePercent
  <2> QED
    BY <2>1, DivMod
<1>2. H \in Nat /\ H > 0 /\ Pow2[ByteBits] = H * H /\ H * H \in Nat
  <2>1. HexBits \in Nat
    BY CharacterSet
  <2>2. ByteBits = HexBits + HexBits
    BY <2>1, SegmentLimits
  <2>3. H \in Nat /\ H > 0
    BY <2>1, Pow2Type
  <2>4. Pow2[HexBits + HexBits] = H * H
    BY <2>1, Pow2Sum
  <2>5. H * H \in Nat
    BY <2>3
  <2> QED
    BY <2>2, <2>3, <2>4, <2>5
<1>3. ASSUME NEW k \in 1..n
      PROVE  /\ s[3 * k - 2] = "%"
             /\ HexVal[s[3 * k - 1]] \in 0..(H - 1)
             /\ HexUpper[HexVal[s[3 * k - 1]] + 1] = s[3 * k - 1]
             /\ HexVal[s[3 * k]] \in 0..(H - 1)
             /\ HexUpper[HexVal[s[3 * k]] + 1] = s[3 * k]
  <2> DEFINE i1 == 3 * k - 2
             i2 == 3 * k - 1
             i3 == 3 * k
  <2>1. /\ i1 \in 1..Len(s) /\ i2 \in 1..Len(s) /\ i3 \in 1..Len(s)
        /\ i1 % 3 = 1 /\ i2 % 3 # 1 /\ i3 % 3 # 1
    <3>1. i1 = 3 * (k - 1) + 1 /\ i2 = 3 * (k - 1) + 2 /\ i3 = 3 * k + 0 /\ k - 1 \in Nat
      BY <1>1
    <3>2. i1 % 3 = 1 /\ i2 % 3 = 2 /\ i3 % 3 = 0
      BY <3>1, DivUnique
    <3> QED
      BY <1>1, <3>1, <3>2
  <2> HIDE DEF i1, i2, i3
  <2>2. s[i1] = "%" /\ IsHex(s[i2]) /\ IsHex(s[i3])
    BY <2>1 DEF IsPurePercent
  <2>3. HexUp(s[i2]) = s[i2] /\ HexUp(s[i3]) = s[i3]
    BY <2>1, <2>2 DEF Normalised
  <2>4. \A c : IsHex(c) => HexVal[c] \in 0..(H - 1) /\ HexUp(c) = HexUpper[HexVal[c] + 1]
    BY CharacterSet DEF IsHex, HexUp
  <2> QED
    BY <2>2, <2>3, <2>4 DEF i1, i2, i3
<1> HIDE DEF n, H
<1>4. ASSUME NEW k \in 1..n
      PROVE  byte(k) \in ByteSet /\ Escape(byte(k)) = <<s[3 * k - 2], s[3 * k - 1], s[3 * k]>>
  <2> DEFINE u == HexVal[s[3 * k - 1]]
             v == HexVal[s[3 * k]]
  <2>1. u \in 0..(H - 1) /\ v \in 0..(H - 1)
    BY <1>3
  <2>2. HexUpper[u + 1] = s[3 * k - 1] /\ HexUpper[v + 1] = s[3 * k] /\ s[3 * k - 2] = "%"
    BY <1>3
  <2> DEFINE b == u * H + v
  <2> HIDE DEF u, v
  <2>3. b \div H = u /\ b % H = v
    <3>1. u * H = H * u
      BY <1>2, <2>1
    <3> QED
      BY <1>2, <2>1, <3>1, DivUnique
  <2>4. b \in 0..(H * H - 1)
    <3>1. \A x, y \in Nat : x <= y => x * H <= y * H /\ x * H \in Nat
      BY <1>2
    <3>2. u \in Nat /\ H - 1 \in Nat /\ u <= H - 1 /\ (H - 1) * H = H * H - H
      BY <1>2, <2>1
    <3>3. u * H <= H * H - H /\ u * H \in Nat
      BY <3>1, <3>2
    <3> QED
      BY <1>2, <2>1, <3>3
  <2> HIDE DEF b
  <2>5. Escape(b) = <<"%", HexUpper[u + 1], HexUpper[v + 1]>>
    BY <2>3, Zenon DEF Escape, H
  <2>6. b = byte(k)
    BY DEF b, u, v
  <2> QED
    BY <1>2, <2>2, <2>4, <2>5, <2>6 DEF ByteSet
<1> DEFINE value(k) == byte(k)
<1>5. raw = [k \in 1..n |-> value(k)]
  BY DEF DecodePurePercent, n, H
<1>6. \A k \in 1..n : value(k) \in ByteSet
  BY <1>4
<1> HIDE DEF raw, value
<1>7. raw \in Seq(ByteSet) /\ Len(raw) = n /\ \A k \in 1..n : raw[k] = value(k)
  BY <1>1, <1>5, <1>6
<1>8. ASSUME NEW k \in 1..n
      PROVE  /\ triple(k) \in Seq(Characters) /\ Len(triple(k)) = 3
             /\ triple(k) = <<s[3 * k - 2], s[3 * k - 1], s[3 * k]>>
  <2>1. raw[k] \in ByteSet
    BY <1>6, <1>7
  <2>2. triple(k) = <<s[3 * k - 2], s[3 * k - 1], s[3 * k]>>
    BY <1>4, <1>7 DEF value
  <2> QED
    BY <2>1, <2>2, EscapeSpells DEF ByteSet
<1>9. EncodePurePercent(raw) = flat
  BY <1>7 DEF EncodePurePercent
<1> HIDE DEF triple
<1>10. seqs \in Seq(Seq(Characters)) /\ Len(seqs) = n /\ \A k \in 1..n : seqs[k] = triple(k)
  BY <1>1, <1>8
<1> HIDE DEF seqs
<1>11. flat \in Seq(Characters)
  BY <1>10, FlattenLaysOut
<1>12. PICK at : LaidOut(at, seqs, flat)
  BY <1>10, FlattenLaysOut
<1> HIDE DEF flat
<1>13. \A k \in 0..n : at[k] = 3 * k
  <2>1. \A k \in 1..Len(seqs) : Len(seqs[k]) = 3
    BY <1>8, <1>10
  <2>2. \A k \in 0..Len(seqs) : at[k] = 3 * k
    <3> DEFINE width == 3
    <3>1. width \in Nat /\ \A k \in 1..Len(seqs) : Len(seqs[k]) = width
      BY <2>1
    <3> HIDE DEF n, width
    <3>2. \A k \in 0..Len(seqs) : at[k] = width * k
      BY <1>10, <1>12, <3>1, LaidOutEvenly
    <3> QED
      BY <3>2 DEF width
  <2> QED
    BY <1>10, <2>2
<1>14. Len(flat) = Len(s)
  <2>1. at[n] = Len(flat)
    BY <1>10, <1>12 DEF LaidOut
  <2> QED
    BY <1>1, <1>13, <2>1
<1>15. ASSUME NEW i \in 1..Len(flat) PROVE flat[i] = s[i]
  <2> DEFINE k == (i - 1) \div 3
             j == ((i - 1) % 3) + 1
  <2>1. k \in Nat /\ j \in 1..3 /\ i = 3 * k + j
    <3>1. i - 1 \in Nat
      BY <1>1, <1>14
    <3> QED
      BY <3>1, DivMod
  <2> HIDE DEF k, j
  <2>2. k \in 0..(n - 1) /\ k + 1 \in 1..n /\ k \in 0..n
    BY <1>1, <1>14, <2>1
  <2>3. seqs[k + 1] = <<s[3 * (k + 1) - 2], s[3 * (k + 1) - 1], s[3 * (k + 1)]>>
        /\ Len(seqs[k + 1]) = 3
    BY <1>8, <1>10, <2>2
  <2>4. flat[at[k] + j] = seqs[k + 1][j]
    BY <1>10, <1>12, <2>1, <2>2, <2>3 DEF LaidOut
  <2>5. at[k] = 3 * k
    BY <1>13, <2>2
  <2>6. 3 * (k + 1) - 2 = 3 * k + 1 /\ 3 * (k + 1) - 1 = 3 * k + 2 /\ 3 * (k + 1) = 3 * k + 3
    BY <2>1
  <2>7. seqs[k + 1][j] = s[3 * k + j]
    <3>1. seqs[k + 1] = <<s[3 * k + 1], s[3 * k + 2], s[3 * k + 3]>>
      BY <2>3, <2>6
    <3>2. j = 1 \/ j = 2 \/ j = 3
      BY <2>1
    <3> QED
      BY <3>1, <3>2
  <2> QED
    BY <2>1, <2>4, <2>5, <2>7
<1>16. flat = s
  BY <1>11, <1>14, <1>15, SeqEqual
<1> QED
  BY <1>7, <1>9, <1>16 DEF raw, n

-----------------------------------------------------------------------------
(* The alphabet of a segment covers it. *)

(* A sequence is one over any set that has its elements.                   *)
LEMMA InItsSet ==
  ASSUME NEW S, NEW s \in Seq(S), NEW T, ToSet(s) \subseteq T
  PROVE  s \in Seq(T)
<1>1. Len(s) \in Nat /\ s = [i \in 1..Len(s) |-> s[i]]
  BY LenProperties
<1>2. \A i \in 1..Len(s) : s[i] \in T
  BY DEF ToSet
<1> QED
  BY <1>1, <1>2

(* The elements of two sequences joined.                                   *)
LEMMA SetOfConcat ==
  ASSUME NEW S, NEW s \in Seq(S), NEW t \in Seq(S)
  PROVE  s \o t \in Seq(S) /\ ToSet(s \o t) = ToSet(s) \cup ToSet(t)
<1>1. \A u : ToSet(u) = Range(u)
  BY DEF ToSet, Range
<1> QED
  BY <1>1, RangeConcatenation, ConcatProperties

(* The characters of the five fixed alphabets, class by class.             *)
LEMMA AlphabetSets ==
  /\ ToSet(Alphabet[0]) = ToSet(Digits)
  /\ ToSet(Alphabet[1]) = ToSet(Lowers)
  /\ ToSet(Alphabet[2]) = ToSet(Digits) \cup ToSet(Lowers)
  /\ ToSet(Alphabet[3]) = ToSet(Digits) \cup ToSet(Uppers) \cup ToSet(Lowers)
  /\ ToSet(Alphabet[4]) = ToSet(Uppers) \cup ToSet(Lowers) \cup ToSet(Digits) \cup ToSet(Syms)
<1> DEFINE d == Digits
           l == Lowers
           u == Uppers
           y == Syms
<1>1. d \in Seq(Ascii) /\ l \in Seq(Ascii) /\ u \in Seq(Ascii) /\ y \in Seq(Ascii)
  BY ClassesAreAscii
<1>2. /\ Alphabet[0] = d /\ Alphabet[1] = l /\ Alphabet[2] = d \o l
      /\ Alphabet[3] = (d \o u) \o l /\ Alphabet[4] = ((u \o l) \o d) \o y
  <2> DEFINE table == <<d, l, d \o l, (d \o u) \o l, ((u \o l) \o d) \o y>>
  <2>1. Alphabet = [id \in 0..4 |-> table[id + 1]]
    BY Zenon DEF Alphabet
  <2>2. /\ table[1] = d /\ table[2] = l /\ table[3] = d \o l
        /\ table[4] = (d \o u) \o l /\ table[5] = ((u \o l) \o d) \o y
    OBVIOUS
  <2>3. 0 + 1 = 1 /\ 1 + 1 = 2 /\ 2 + 1 = 3 /\ 3 + 1 = 4 /\ 4 + 1 = 5
        /\ \A id \in {0, 1, 2, 3, 4} : id \in 0..4
    OBVIOUS
  <2> HIDE DEF table, d, l, u, y
  <2>4. \A id \in 0..4 : Alphabet[id] = table[id + 1]
    BY <2>1
  <2> QED
    BY <2>2, <2>3, <2>4
<1> HIDE DEF d, l, u, y
<1>3. \A s, t \in Seq(Ascii) : s \o t \in Seq(Ascii) /\ ToSet(s \o t) = ToSet(s) \cup ToSet(t)
  BY SetOfConcat
<1> DEFINE dl == d \o l
           du == d \o u
           ul == u \o l
           uld == ul \o d
<1>4. dl \in Seq(Ascii) /\ ToSet(dl) = ToSet(d) \cup ToSet(l)
  BY <1>1, <1>3
<1>5. du \in Seq(Ascii) /\ ToSet(du) = ToSet(d) \cup ToSet(u)
  BY <1>1, <1>3
<1>6. ul \in Seq(Ascii) /\ ToSet(ul) = ToSet(u) \cup ToSet(l)
  BY <1>1, <1>3
<1> HIDE DEF ul, du
<1>7. uld \in Seq(Ascii) /\ ToSet(uld) = ToSet(u) \cup ToSet(l) \cup ToSet(d)
  BY <1>1, <1>3, <1>6
<1> HIDE DEF uld, dl
<1>8. ToSet(du \o l) = ToSet(d) \cup ToSet(u) \cup ToSet(l)
  BY <1>1, <1>3, <1>5
<1>9. ToSet(uld \o y) = ToSet(u) \cup ToSet(l) \cup ToSet(d) \cup ToSet(y)
  BY <1>1, <1>3, <1>7
<1> QED
  BY <1>2, <1>4, <1>8, <1>9, Zenon DEF d, l, u, y, dl, du, ul, uld

(* analyze_segment names an alphabet that has every character. *)
LEMMA AlphabetCovers ==
  ASSUME NEW s
  PROVE  /\ AlphabetOf(s) \in (0..4) \cup {Raw}
         /\ AlphabetOf(s) # Raw => ToSet(s) \subseteq ToSet(Alphabet[AlphabetOf(s)])
<1> DEFINE has(class) == ToSet(s) \cap ToSet(class) # {}
           all == ToSet(Uppers) \cup ToSet(Lowers) \cup ToSet(Digits) \cup ToSet(Syms)
<1>1. CASE ~(ToSet(s) \subseteq ToSet(Alphabet[4]))
  BY <1>1 DEF AlphabetOf
<1>2. CASE ToSet(s) \subseteq ToSet(Alphabet[4])
  <2>1. ToSet(s) \subseteq all
    BY <1>2, AlphabetSets
  <2>2. CASE has(Syms)
    <3>1. AlphabetOf(s) = 4
      BY <1>2, <2>2 DEF AlphabetOf
    <3> QED
      BY <1>2, <3>1 DEF Raw
  <2>3. CASE ~has(Syms) /\ has(Uppers)
    <3>1. AlphabetOf(s) = 3
      BY <1>2, <2>3 DEF AlphabetOf
    <3>2. ToSet(s) \subseteq ToSet(Alphabet[3])
      BY <2>1, <2>3, AlphabetSets
    <3> QED
      BY <3>1, <3>2 DEF Raw
  <2>4. CASE ~has(Syms) /\ ~has(Uppers) /\ has(Digits) /\ has(Lowers)
    <3>1. AlphabetOf(s) = 2
      BY <1>2, <2>4 DEF AlphabetOf
    <3>2. ToSet(s) \subseteq ToSet(Alphabet[2])
      BY <2>1, <2>4, AlphabetSets
    <3> QED
      BY <3>1, <3>2 DEF Raw
  <2>5. CASE ~has(Syms) /\ ~has(Uppers) /\ ~has(Digits) /\ has(Lowers)
    <3>1. AlphabetOf(s) = 1
      BY <1>2, <2>5 DEF AlphabetOf
    <3>2. ToSet(s) \subseteq ToSet(Alphabet[1])
      BY <2>1, <2>5, AlphabetSets
    <3> QED
      BY <3>1, <3>2 DEF Raw
  <2>6. CASE ~has(Syms) /\ ~has(Uppers) /\ ~has(Lowers)
    <3>1. AlphabetOf(s) = 0
      BY <1>2, <2>6 DEF AlphabetOf
    <3>2. ToSet(s) \subseteq ToSet(Alphabet[0])
      BY <2>1, <2>6, AlphabetSets
    <3> QED
      BY <3>1, <3>2 DEF Raw
  <2> QED
    BY <2>2, <2>3, <2>4, <2>5, <2>6
<1> QED
  BY <1>1, <1>2

(* An ASCII text has a byte for each character. *)
LEMMA AsciiBytes ==
  ASSUME NEW s \in Seq(Ascii)
  PROVE  ByteLen(s) = Len(s)
<1> DEFINE n == Len(s)
           form(i) == Utf8Bytes(s[i])
           seqs == [i \in 1..n |-> form(i)]
           flat == FlattenSeq(seqs)
<1>1. n \in Nat /\ \A i \in 1..n : s[i] \in Ascii /\ s[i] \in Characters
  BY LenProperties, ElementOfSeq, ClassesAreAscii
<1>2. \A i \in 1..n : form(i) \in Seq(ByteSet) /\ Len(form(i)) = 1
  <2>1. \A i \in 1..n : form(i) = <<Byte(s[i])>>
    BY <1>1 DEF Utf8Bytes
  <2>2. \A i \in 1..n : form(i) \in Seq(ByteSet)
    BY <1>1, Utf8BytesType DEF ByteSet
  <2> QED
    BY <2>1, <2>2
<1>3. ByteLen(s) = Len(flat)
  BY DEF ByteLen, Utf8Text
<1> HIDE DEF form
<1>4. seqs \in Seq(Seq(ByteSet)) /\ Len(seqs) = n /\ \A i \in 1..n : seqs[i] = form(i)
  BY <1>1, <1>2
<1> HIDE DEF seqs
<1>5. PICK at : LaidOut(at, seqs, flat)
  BY <1>4, FlattenLaysOut
<1> HIDE DEF flat
<1> DEFINE width == 1
<1>6. width \in Nat /\ \A k \in 1..Len(seqs) : Len(seqs[k]) = width
  BY <1>2, <1>4
<1>7. \A k \in 0..Len(seqs) : at[k] = width * k
  <2> HIDE DEF width, n
  <2> QED
    BY <1>4, <1>5, <1>6, LaidOutEvenly
<1>8. at[n] = Len(flat) /\ at[n] = n
  BY <1>1, <1>4, <1>5, <1>7 DEF LaidOut
<1> QED
  BY <1>3, <1>8

-----------------------------------------------------------------------------
(* write_segment and read_segment *)

(* The payload of this form, wherever it stands, reads as the segment, and *)
(* the reader stops behind it.                                             *)
FormReadsBack(s, form) ==
  \A rbits \in Seq(Bit) : \A r :
    r.pos \in Nat /\ Holds(rbits, r.pos, Payload(s, form)) =>
      ReadPayload(rbits, r, form, SymbolCount(s)) = Text(r.pos + Len(Payload(s, form)), s)

(* Whichever form write_segment chooses, the reader of that form gives the *)
(* segment back from its payload and the count of its symbols.             *)
LEMMA PayloadReadsBack ==
  ASSUME NEW s \in Seq(Characters), Normalised(s), NEW huff
  PROVE  /\ ChosenForm(s, huff) \in 0..7
         /\ SymbolCount(s) \in Nat
         /\ Payload(s, ChosenForm(s, huff)) \in Seq(Bit)
         /\ FormReadsBack(s, ChosenForm(s, huff))
<1> DEFINE form == ChosenForm(s, huff)
           id == AlphabetOf(s)
           x == Payload(s, form)
           n == SymbolCount(s)
<1>1. CASE IsPurePercent(s)
  <2> DEFINE raw == DecodePurePercent(s)
  <2>1. form = PctBytes /\ n = Len(s) \div 3
    BY <1>1 DEF ChosenForm, SymbolCount
  <2>2. raw \in Seq(ByteSet) /\ Len(raw) = n /\ EncodePurePercent(raw) = s
    BY <1>1, <2>1, PercentReadsBack
  <2>3. x = ByteBitsOf(raw)
    BY <2>1 DEF Payload, PctBytes, Huffman, Raw, IsBase
  <2> HIDE DEF raw, n, form, x
  <2>4. x \in Seq(Bit) /\ Len(x) = n * ByteBits /\ n \in Nat
    BY <2>2, <2>3, BytesReadBack, LenProperties
  <2>5. ASSUME NEW rbits \in Seq(Bit), NEW r, r.pos \in Nat, Holds(rbits, r.pos, x)
        PROVE  ReadPayload(rbits, r, form, n) = Text(r.pos + Len(x), s)
    <3>1. ReadBytes(rbits, r, n) = raw
      BY <2>2, <2>3, <2>5, BytesReadBack
    <3>2. r.pos + n * ByteBits <= Len(rbits) /\ r.pos + n * ByteBits = r.pos + Len(x)
      BY <2>4, <2>5 DEF Holds
    <3>3. ~(r.pos + n * ByteBits > Len(rbits))
      <4>1. Len(rbits) \in Nat /\ Len(x) \in Nat
        BY <2>4, LenProperties
      <4> QED
        BY <2>5, <3>2, <4>1
    <3>4. ReadUnits(rbits, r, form, n) = Text(r.pos + n * ByteBits, EncodePurePercent(raw))
      BY <2>1, <3>1, <3>3, Zenon DEF ReadUnits
    <3>5. ReadPayload(rbits, r, form, n) = ReadUnits(rbits, r, form, n)
      BY <2>1 DEF ReadPayload
    <3> QED
      BY <2>2, <3>2, <3>4, <3>5
  <2>6. form \in 0..7
    BY <2>1 DEF PctBytes
  <2> QED
    BY <2>4, <2>5, <2>6 DEF FormReadsBack, form, x, n
<1>2. CASE ~IsPurePercent(s) /\ form = Huffman /\ ToSet(s) \subseteq DOMAIN HuffCode
  <2>1. s \in Seq(DOMAIN HuffCode) /\ s \in Seq(Ascii)
    BY <1>2, InItsSet, SegmentLimits
  <2>2. n = Len(s)
    BY <1>2, <2>1, AsciiBytes DEF SymbolCount
  <2>3. x = HuffmanBits(s)
    BY <1>2 DEF Payload, PctBytes, Huffman, Raw, IsBase
  <2> HIDE DEF n, form, x
  <2>4. ASSUME NEW rbits \in Seq(Bit), NEW r, r.pos \in Nat, Holds(rbits, r.pos, x)
        PROVE  ReadPayload(rbits, r, form, n) = Text(r.pos + Len(x), s)
    <3>1. ReadHuffman(rbits, r, n) = Text(r.pos + Len(x), s)
      BY <2>1, <2>2, <2>3, <2>4, HuffmanReadsBack
    <3>2. ReadPayload(rbits, r, form, n) = ReadHuffman(rbits, r, n)
      BY <1>2 DEF ReadPayload, Huffman, Raw, PctBytes
    <3> QED
      BY <3>1, <3>2
  <2>5. x \in Seq(Bit) /\ n \in Nat
    BY <2>1, <2>2, <2>3, HuffmanReadsBack, LenProperties
  <2>6. form \in 0..7
    BY <1>2 DEF Huffman
  <2> QED
    BY <2>4, <2>5, <2>6 DEF FormReadsBack, form, x, n
<1>3. CASE ~IsPurePercent(s) /\ form = id /\ id = Raw
  <2> DEFINE raw == Utf8Text(s)
  <2>1. n = Len(raw) /\ form = Raw
    BY <1>3 DEF SymbolCount, ByteLen
  <2>2. raw \in Seq(ByteSet) /\ FromUtf8(raw) = [ok |-> TRUE, val |-> s]
    BY Utf8ReadsBack
  <2>3. x = ByteBitsOf(raw)
    BY <2>1 DEF Payload, PctBytes, Huffman, Raw, IsBase
  <2> HIDE DEF raw, n, form, x
  <2>4. x \in Seq(Bit) /\ Len(x) = n * ByteBits /\ n \in Nat
    BY <2>1, <2>2, <2>3, BytesReadBack, LenProperties
  <2>5. ASSUME NEW rbits \in Seq(Bit), NEW r, r.pos \in Nat, Holds(rbits, r.pos, x)
        PROVE  ReadPayload(rbits, r, form, n) = Text(r.pos + Len(x), s)
    <3>1. ReadBytes(rbits, r, n) = raw
      BY <2>1, <2>2, <2>3, <2>5, BytesReadBack
    <3>2. r.pos + n * ByteBits <= Len(rbits) /\ r.pos + n * ByteBits = r.pos + Len(x)
      BY <2>4, <2>5 DEF Holds
    <3>3. ~(r.pos + n * ByteBits > Len(rbits))
      <4>1. Len(rbits) \in Nat /\ Len(x) \in Nat
        BY <2>4, LenProperties
      <4> QED
        BY <2>5, <3>2, <4>1
    <3>4. FromUtf8(raw).ok = TRUE /\ FromUtf8(raw).val = s
      BY <2>2
    <3>5. form # PctBytes
      BY <2>1 DEF Raw, PctBytes
    <3>6. ReadUnits(rbits, r, form, n) = Text(r.pos + n * ByteBits, s)
      BY <3>1, <3>3, <3>4, <3>5, Zenon DEF ReadUnits
    <3>7. ReadPayload(rbits, r, form, n) = ReadUnits(rbits, r, form, n)
      BY <2>1 DEF ReadPayload
    <3> QED
      BY <3>2, <3>6, <3>7
  <2>6. form \in 0..7
    BY <2>1 DEF Raw
  <2> QED
    BY <2>4, <2>5, <2>6 DEF FormReadsBack, form, x, n
<1>4. CASE ~IsPurePercent(s) /\ form = id /\ id # Raw
  <2>1. form \in 0..4 /\ ToSet(s) \subseteq ToSet(Alphabet[form])
    BY <1>4, AlphabetCovers
  <2> HIDE DEF form
  <2>2. s \in Seq(ToSet(Alphabet[form])) /\ s \in Seq(Ascii)
    <3>1. Alphabet[form] \in Seq(Ascii)
      BY <2>1, AlphabetsAreAscii
    <3>2. ToSet(Alphabet[form]) \subseteq Ascii
      <4>1. \A i \in DOMAIN Alphabet[form] : Alphabet[form][i] \in Ascii
        BY <3>1
      <4> QED
        BY <3>1, <4>1 DEF ToSet
    <3> QED
      BY <2>1, <3>2, InItsSet
  <2>3. n = Len(s)
    BY <1>4, <2>2, AsciiBytes DEF SymbolCount
  <2>4. x = BaseBits(s, form)
    BY <2>1, <2>3 DEF Payload, PctBytes, Huffman, Raw, IsBase, BaseBits
  <2> HIDE DEF n, x
  <2>5. x \in Seq(Bit) /\ Len(x) = FixedBitLen(form, n) /\ n \in Nat
    BY <2>1, <2>2, <2>3, <2>4, BaseReadsBack, LenProperties
  <2>6. ASSUME NEW rbits \in Seq(Bit), NEW r, r.pos \in Nat, Holds(rbits, r.pos, x)
        PROVE  ReadPayload(rbits, r, form, n) = Text(r.pos + Len(x), s)
    <3>1. ReadBase(rbits, r, form, n) = Text(r.pos + Len(x), s)
      <4>1. Holds(rbits, r.pos, BaseBits(s, form))
        BY <2>4, <2>6
      <4>2. ReadBase(rbits, r, form, Len(s)) = Text(r.pos + FixedBitLen(form, Len(s)), s)
        BY <2>1, <2>2, <2>6, <4>1, BaseReadsBack
      <4> QED
        BY <2>3, <2>5, <4>2
    <3>2. ReadPayload(rbits, r, form, n) = ReadBase(rbits, r, form, n)
      BY <2>1 DEF ReadPayload, Huffman, Raw, PctBytes
    <3> QED
      BY <3>1, <3>2
  <2>7. form \in 0..7
    BY <2>1
  <2> QED
    BY <2>5, <2>6, <2>7 DEF FormReadsBack, form, x, n
<1> QED
  BY <1>1, <1>2, <1>3, <1>4 DEF ChosenForm

(* What write_segment appends and read_segment takes up again, whatever    *)
(* was written before it and whatever is written after it.                 *)
SegmentWritten(t, b, s, huff) ==
  /\ t \in Seq(Bit) /\ Extends(t, b)
  /\ WriteSegment([ok |-> TRUE, bits |-> b], s, huff) = [ok |-> TRUE, bits |-> t]
  /\ \A u \in Seq(Bit) : \A r :
       Extends(u, t) /\ Inside(r, u) /\ r.ok = TRUE /\ r.pos = Len(b) =>
         ReadSegment(u, r) = Text(Len(t), s)

(* Every segment within the limit is written, and read back as it was.     *)
LEMMA SegmentReadsBack ==
  ASSUME NEW b \in Seq(Bit), NEW s \in Seq(Characters), Normalised(s), NEW huff,
         SymbolCount(s) <= MaxSymbols
  PROVE  \E t : SegmentWritten(t, b, s, huff)
<1> DEFINE form == ChosenForm(s, huff)
           n == SymbolCount(s)
           x == Payload(s, form)
           w == [ok |-> TRUE, bits |-> b]
<1>1. form \in 0..7 /\ n \in Nat /\ x \in Seq(Bit) /\ FormReadsBack(s, form)
  BY PayloadReadsBack
<1>2. /\ IdBits \in Nat /\ IdBits <= WordBits /\ form \in Nat /\ form < Pow2[IdBits]
      /\ n < Pow2[WordBits] /\ n <= MaxSymbols /\ MaxSymbols \in Nat /\ Len(b) \in Nat
  <2>1. Pow2[IdBits] = 8 /\ IdBits \in Nat
    BY SmallPowers DEF IdBits
  <2>2. Pow2[WordBits] \in Nat
    BY Widths, Pow2Type
  <2>3. MaxSymbols \in 0..(Pow2[WordBits] - 1)
    BY SegmentLimits
  <2> HIDE DEF n, form
  <2> QED
    BY <1>1, <2>1, <2>2, <2>3, IdsFitTheWord, LenProperties DEF n
<1> HIDE DEF form, n, x
<1>3. PICK t1 \in Seq(Bit) :
        /\ WriteBits(w, form, IdBits) = [ok |-> TRUE, bits |-> t1]
        /\ Len(t1) = Len(b) + IdBits /\ Extends(t1, b) /\ FieldAt(t1, Len(b), form, IdBits)
  BY <1>2, WriteBitsAppends
<1>4. PICK t2 \in Seq(Bit) :
        /\ WriteCompactCount([ok |-> TRUE, bits |-> t1], n) = [ok |-> TRUE, bits |-> t2]
        /\ Len(t2) = Len(t1) + CountBits(n) /\ Extends(t2, t1) /\ CountAt(t2, Len(t1), n)
  BY <1>1, <1>2, WriteCompactCountAppends
<1> DEFINE t == t2 \o x
<1>5. /\ t \in Seq(Bit) /\ Len(t) = Len(t2) + Len(x) /\ Extends(t, t2)
      /\ \A i \in 1..Len(x) : t[Len(t2) + i] = x[i]
  BY <1>1, ConcatExtends
<1>6. WriteSegment(w, s, huff) = [ok |-> TRUE, bits |-> t]
  <2> DEFINE head == WriteCompactCount(WriteBits(w, form, IdBits), n)
  <2>1. head = [ok |-> TRUE, bits |-> t2]
    BY <1>3, <1>4
  <2>2. ~(~w.ok \/ n > MaxSymbols)
    BY <1>1, <1>2
  <2>3. WriteSegment(w, s, huff)
          = IF ~w.ok \/ n > MaxSymbols THEN WriteFail(w) ELSE [head EXCEPT !.bits = @ \o x]
    BY Zenon DEF WriteSegment, form, n, x
  <2> HIDE DEF head, w
  <2>4. [head EXCEPT !.bits = @ \o x] = [ok |-> TRUE, bits |-> t2 \o x]
    <3>1. \A o, v, z : [[ok |-> o, bits |-> v] EXCEPT !.bits = z] = [ok |-> o, bits |-> z]
      OBVIOUS
    <3>2. head.bits = t2
      BY <2>1
    <3>3. [head EXCEPT !.bits = @ \o x] = [head EXCEPT !.bits = head.bits \o x]
      BY Zenon
    <3> QED
      BY <2>1, <3>1, <3>2, <3>3
  <2> QED
    BY <2>2, <2>3, <2>4
<1> HIDE DEF t
<1>7. Extends(t, t1) /\ Extends(t, b)
  BY <1>3, <1>4, <1>5, ExtendsTransitive
<1>8. ASSUME NEW u \in Seq(Bit), Extends(u, t), NEW r, Inside(r, u), r.ok = TRUE, r.pos = Len(b)
      PROVE  ReadSegment(u, r) = Text(Len(t), s)
  <2>1. Extends(u, t1) /\ Extends(u, t2)
    BY <1>5, <1>7, <1>8, ExtendsTransitive
  <2> DEFINE id == ReadBits(u, r, IdBits)
             count == ReadCompactCount(u, id)
  <2>2. id = [ok |-> TRUE, pos |-> Len(t1), val |-> form]
    <3>1. FieldAt(u, r.pos, form, IdBits) /\ r.pos \in Nat
      BY <1>2, <1>3, <1>8, <2>1, FieldStays
    <3> HIDE DEF id
    <3>2. id = [ok |-> TRUE, pos |-> r.pos + IdBits, val |-> form]
      <4>1. ReadBits(u, r, IdBits) = [ok |-> TRUE, pos |-> r.pos + IdBits, val |-> form]
        <5>1. IdBits \in Nat /\ IdBits <= WordBits /\ form \in Nat /\ form < Pow2[IdBits]
          BY <1>2
        <5>2. FieldAt(u, r.pos, form, IdBits) /\ r.pos \in Nat /\ r.ok = TRUE
          BY <1>8, <3>1
        <5> QED
          BY <5>1, <5>2, ReadBitsReadsField, ZenonT(60)
      <4> QED
        BY <4>1 DEF id
    <3> QED
      BY <1>3, <1>8, <3>2
  <2>3. Inside(id, u)
    BY <1>2, <1>8, ReadBitsInside
  <2> HIDE DEF id
  <2>4. count = [ok |-> TRUE, pos |-> Len(t2), val |-> n]
    <3>1. id.ok = TRUE /\ id.pos = Len(t1) /\ Len(t1) \in Nat
      BY <2>2, LenProperties
    <3>2. CountAt(u, Len(t1), n)
      BY <1>1, <1>2, <1>4, <2>1, <3>1, CountStays
    <3>3. count = [ok |-> TRUE, pos |-> id.pos + CountBits(n), val |-> n]
      BY <1>1, <1>2, <2>3, <3>1, <3>2, ReadCompactCountReads
    <3> QED
      BY <1>4, <3>1, <3>3
  <2> HIDE DEF count
  <2>5. Len(t2) \in Nat /\ Len(x) \in Nat /\ Len(u) \in Nat /\ Len(t) <= Len(u)
    BY <1>1, <1>8, LenProperties DEF Extends
  <2>6. Holds(u, Len(t2), x)
    <3>1. \A i \in 1..Len(x) : u[Len(t2) + i] = x[i]
      <4>1. ASSUME NEW i \in 1..Len(x) PROVE u[Len(t2) + i] = t[Len(t2) + i]
        <5>1. Len(t2) + i \in 1..Len(t)
          BY <1>5, <2>5
        <5> QED
          BY <1>8, <5>1 DEF Extends
      <4> QED
        BY <1>5, <4>1
    <3> QED
      BY <1>5, <2>5, <3>1 DEF Holds
  <2>7. ReadPayload(u, count, form, n) = Text(Len(t2) + Len(x), s)
    <3>1. count.pos = Len(t2)
      BY <2>4
    <3>2. \A rbits \in Seq(Bit) : \A q :
            q.pos \in Nat /\ Holds(rbits, q.pos, x) =>
              ReadPayload(rbits, q, form, n) = Text(q.pos + Len(x), s)
      BY <1>1, Zenon DEF FormReadsBack, n, x
    <3> QED
      BY <2>5, <2>6, <3>1, <3>2
  <2>8. ReadSegment(u, r) = IF ~count.ok \/ count.val \notin 0..MaxSymbols THEN TextFail(r)
                            ELSE ReadPayload(u, count, id.val, count.val)
    BY Zenon DEF ReadSegment, id, count
  <2>9. count.ok = TRUE /\ count.val = n /\ id.val = form /\ n \in 0..MaxSymbols
    BY <1>1, <1>2, <2>2, <2>4
  <2>10. Len(t2) + Len(x) = Len(t)
    BY <1>5
  <2> QED
    BY <2>7, <2>8, <2>9, <2>10
<1>9. SegmentWritten(t, b, s, huff)
  BY <1>5, <1>6, <1>7, <1>8 DEF SegmentWritten
<1> QED
  BY <1>9

-----------------------------------------------------------------------------
(* The theorems about the specification. *)

(* The session keeps a text of the character set and a sequence of bits.   *)
CodingInv == seg \in Seq(Characters) /\ foreign \in Seq(Bit)

LEMMA CodingAlways == CodingSpec => []CodingInv
<1>1. CodingInit => CodingInv
  BY CodingBounds, EmptySeq DEF CodingInit, CodingInv
<1>2. CodingInv /\ [CodingNext]_cvars => CodingInv'
  <2> SUFFICES ASSUME CodingInv, [CodingNext]_cvars PROVE CodingInv'
    OBVIOUS
  <2>1. CASE Extend
    <3>1. PICK p \in Pieces : seg' = seg \o p
      BY <2>1 DEF Extend
    <3>2. p \in Seq(Characters) /\ seg \in Seq(Characters)
      BY CodingBounds DEF CodingInv
    <3>3. seg \o p \in Seq(Characters)
      BY <3>2, ConcatProperties
    <3> QED
      BY <2>1, <3>1, <3>3 DEF Extend, CodingInv
  <2>2. CASE ForeignBit
    <3>1. PICK b \in Bit : foreign' = Append(foreign, b)
      BY <2>2 DEF ForeignBit
    <3> QED
      BY <2>2, <3>1, AppendProperties DEF ForeignBit, CodingInv
  <2>3. CASE UNCHANGED cvars
    BY <2>3 DEF cvars, CodingInv
  <2> QED
    BY <2>1, <2>2, <2>3 DEF CodingNext
<1> QED
  BY <1>1, <1>2, PTL DEF CodingSpec

(* Whatever the character set, the codebook, the widths and the limits:    *)
(* every segment write_segment accepts comes back from read_segment whole, *)
(* whatever follows it in the stream.                                      *)
THEOREM SegmentsComeBack == CodingSpec => []SegmentRoundTrip
<1>1. CodingInv => SegmentRoundTrip
  <2> SUFFICES ASSUME CodingInv,
                      WriteSegment(NewWriter, seg, allowed).ok, Normalised(seg),
                      NEW trail \in Trails
               PROVE  LET w == WriteSegment(NewWriter, seg, allowed)
                      IN  ReadSegment(w.bits \o trail, ReaderAt(0)) = Text(Len(w.bits), seg)
    BY DEF SegmentRoundTrip
  <2>1. SymbolCount(seg) <= MaxSymbols
    <3>1. CASE SymbolCount(seg) > MaxSymbols
      <4>1. WriteSegment(NewWriter, seg, allowed) = WriteFail(NewWriter)
        BY <3>1, Zenon DEF WriteSegment
      <4>2. WriteFail(NewWriter).ok = FALSE
        BY DEF WriteFail, NewWriter
      <4> QED
        BY <4>1, <4>2
    <3>2. SymbolCount(seg) \in Nat /\ MaxSymbols \in Nat
      BY PayloadReadsBack, SegmentLimits DEF CodingInv
    <3> QED
      BY <3>1, <3>2
  <2>2. <<>> \in Seq(Bit) /\ Len(<<>>) = 0
    BY EmptySeq
  <2>3. PICK t : SegmentWritten(t, <<>>, seg, allowed)
    BY <2>1, <2>2, SegmentReadsBack DEF CodingInv
  <2>4. WriteSegment(NewWriter, seg, allowed) = [ok |-> TRUE, bits |-> t]
    BY <2>3 DEF SegmentWritten, NewWriter
  <2> DEFINE u == t \o trail
  <2>5. u \in Seq(Bit) /\ Extends(u, t) /\ t \in Seq(Bit)
    BY <2>3, CodingBounds, ConcatExtends DEF SegmentWritten
  <2> HIDE DEF u
  <2>6. Inside(ReaderAt(0), u) /\ ReaderAt(0).ok = TRUE /\ ReaderAt(0).pos = 0
    <3>1. 0 \in 0..Len(u)
      BY <2>5, LenProperties
    <3> QED
      BY <3>1, ReaderAtInside
  <2>7. ReadSegment(u, ReaderAt(0)) = Text(Len(t), seg)
    BY <2>2, <2>3, <2>5, <2>6 DEF SegmentWritten
  <2> QED
    BY <2>4, <2>7 DEF u
<1> QED
  BY <1>1, CodingAlways, PTL

-----------------------------------------------------------------------------
(* What read_segment returns has no more symbols than it read. *)

(* A segment of escapes alone has ASCII characters only.                   *)
LEMMA PercentIsAscii ==
  ASSUME NEW s \in Seq(Characters), IsPurePercent(s)
  PROVE  s \in Seq(Ascii)
<1>1. "%" \in Ascii /\ DOMAIN HexVal \subseteq Ascii
  BY CharacterSet, ClassesAreAscii
<1>2. \A i \in 1..Len(s) : s[i] = "%" \/ s[i] \in DOMAIN HexVal
  BY DEF IsPurePercent, IsHex
<1>3. \A i \in 1..Len(s) : s[i] \in Ascii
  BY <1>1, <1>2
<1>4. ToSet(s) \subseteq Ascii
  <2>1. DOMAIN s = 1..Len(s)
    BY LenProperties
  <2> QED
    BY <1>3, <2>1 DEF ToSet
<1> QED
  BY <1>4, InItsSet

(* A segment has no more symbols than bytes.                               *)
LEMMA CountBounded ==
  ASSUME NEW s \in Seq(Characters), NEW n \in Nat, ByteLen(s) <= n
  PROVE  SymbolCount(s) \in 0..n
<1>1. ByteLen(s) \in Nat /\ Len(s) \in Nat
  BY Utf8ReadsBack, LenProperties DEF ByteLen
<1>2. CASE IsPurePercent(s)
  <2>1. Len(s) = ByteLen(s)
    BY <1>2, PercentIsAscii, AsciiBytes
  <2>2. Len(s) \div 3 \in 0..Len(s)
    <3>1. 3 \in Nat /\ 3 > 0
      OBVIOUS
    <3> QED
      BY <1>1, <3>1, DivMod
  <2>3. SymbolCount(s) = Len(s) \div 3
    BY <1>2 DEF SymbolCount
  <2> QED
    BY <1>1, <2>1, <2>2, <2>3
<1>3. CASE ~IsPurePercent(s)
  BY <1>1, <1>3 DEF SymbolCount
<1> QED
  BY <1>2, <1>3

(* Escaped bytes are a run of escapes again. *)
LEMMA EscapedPercent ==
  ASSUME NEW raw \in Seq(ByteSet)
  PROVE  SymbolCount(EncodePurePercent(raw)) = Len(raw)
<1> DEFINE n == Len(raw)
           H == Pow2[HexBits]
           triple(k) == Escape(raw[k])
           seqs == [k \in 1..n |-> triple(k)]
           s == FlattenSeq(seqs)
<1>1. n \in Nat /\ EncodePurePercent(raw) = s
  BY LenProperties DEF EncodePurePercent
<1>2. \A h \in 0..(H - 1) : IsHex(HexUpper[h + 1])
  <2>1. Len(HexUpper) = H /\ HexUpper \in Seq(ToSet(HexUpper))
        /\ ToSet(HexUpper) \subseteq DOMAIN HexVal
    BY CharacterSet
  <2> HIDE DEF H
  <2>2. ASSUME NEW h \in 0..(H - 1) PROVE HexUpper[h + 1] \in ToSet(HexUpper)
    <3>1. h + 1 \in 1..Len(HexUpper)
      BY <2>1, LenProperties
    <3> QED
      BY <2>1, <3>1, ElementOfSeq
  <2> QED
    BY <2>1, <2>2 DEF IsHex
<1>3. H \in Nat /\ H > 0 /\ Pow2[ByteBits] = H * H
  <2>1. HexBits \in Nat /\ ByteBits = HexBits + HexBits
    BY CharacterSet, SegmentLimits
  <2>2. H \in Nat /\ H > 0
    BY <2>1, Pow2Type
  <2>3. Pow2[HexBits + HexBits] = H * H
    BY <2>1, Pow2Sum
  <2> QED
    BY <2>1, <2>2, <2>3
<1>4. ASSUME NEW k \in 1..n
      PROVE  /\ triple(k) \in Seq(Characters) /\ Len(triple(k)) = 3
             /\ triple(k)[1] = "%" /\ IsHex(triple(k)[2]) /\ IsHex(triple(k)[3])
  <2> DEFINE b == raw[k]
  <2>1. b \in ByteSet
    BY ElementOfSeq
  <2>2. b \in Nat /\ b < H * H
    BY <1>3, <2>1 DEF ByteSet
  <2> HIDE DEF b, H
  <2>3. b \div H \in 0..(H - 1) /\ b % H \in 0..(H - 1)
    BY <1>3, <2>2, DivMod, DivLess
  <2>4. IsHex(HexUpper[(b \div H) + 1]) /\ IsHex(HexUpper[(b % H) + 1])
    BY <1>2, <2>3
  <2>5. Escape(b) = <<"%", HexUpper[(b \div H) + 1], HexUpper[(b % H) + 1]>>
    BY DEF Escape, H
  <2>6. Escape(b)[1] = "%" /\ IsHex(Escape(b)[2]) /\ IsHex(Escape(b)[3])
    BY <2>4, <2>5
  <2>7. Escape(b) \in Seq(Characters) /\ Len(Escape(b)) = 3
    BY <2>1, EscapeSpells DEF ByteSet
  <2> QED
    BY <2>6, <2>7 DEF b
<1> HIDE DEF triple
<1>5. seqs \in Seq(Seq(Characters)) /\ Len(seqs) = n /\ \A k \in 1..n : seqs[k] = triple(k)
  BY <1>1, <1>4
<1> HIDE DEF seqs
<1>6. s \in Seq(Characters)
  BY <1>5, FlattenLaysOut
<1>7. PICK at : LaidOut(at, seqs, s)
  BY <1>5, FlattenLaysOut
<1> HIDE DEF s
<1>8. \A k \in 0..n : at[k] = 3 * k
  <2> DEFINE width == 3
  <2>1. width \in Nat /\ \A k \in 1..Len(seqs) : Len(seqs[k]) = width
    BY <1>4, <1>5
  <2> HIDE DEF n, width
  <2>2. \A k \in 0..Len(seqs) : at[k] = width * k
    BY <1>5, <1>7, <2>1, LaidOutEvenly
  <2> QED
    BY <1>5, <2>2 DEF width
<1>9. Len(s) = 3 * n
  <2>1. at[n] = Len(s) /\ n \in 0..n
    BY <1>1, <1>5, <1>7 DEF LaidOut
  <2> QED
    BY <1>8, <2>1
<1> HIDE DEF n
<1> DEFINE goal == SymbolCount(EncodePurePercent(raw)) = Len(raw)
<1>10. ASSUME n = 0 PROVE goal
  <2>1. s = <<>>
    BY <1>6, <1>9, <1>10, EmptySeq
  <2>2. ~IsPurePercent(s)
    BY <2>1 DEF IsPurePercent
  <2>3. s \in Seq(Ascii)
    BY <2>1
  <2>4. SymbolCount(s) = Len(s)
    BY <2>2, <2>3, AsciiBytes DEF SymbolCount
  <2> QED
    BY <1>1, <1>9, <1>10, <2>4 DEF n
<1>11. ASSUME n # 0 PROVE goal
  <2>1. ASSUME NEW i \in 1..Len(s) PROVE IF i % 3 = 1 THEN s[i] = "%" ELSE IsHex(s[i])
    <3> DEFINE k == (i - 1) \div 3
               m == (i - 1) % 3
               j == m + 1
    <3>1. i - 1 \in Nat /\ 3 \in Nat /\ 3 > 0
      BY <1>1, <1>9
    <3>2. k \in Nat /\ m \in 0..2 /\ i - 1 = 3 * k + m
      BY <3>1, DivMod
    <3> HIDE DEF k, m
    <3>3. k \in 0..(n - 1) /\ k + 1 \in 1..n /\ k \in 0..n /\ j \in 1..3 /\ i = 3 * k + j
      BY <1>1, <1>9, <3>2
    <3>4. s[at[k] + j] = seqs[k + 1][j]
      <4>1. Len(seqs[k + 1]) = 3
        BY <1>4, <1>5, <3>3
      <4> HIDE DEF j
      <4> QED
        BY <1>5, <1>7, <3>3, <4>1 DEF LaidOut
    <3>5. s[i] = triple(k + 1)[j]
      BY <1>5, <1>8, <3>3, <3>4
    <3>6. i % 3 = 1 <=> j = 1
      <4>1. CASE m = 0
        <5>1. i = 3 * k + 1
          BY <3>2, <4>1, <3>3
        <5> QED
          BY <3>2, <4>1, <5>1
      <4>2. CASE m = 1
        <5>1. i = 3 * k + 2
          BY <3>2, <4>2, <3>3
        <5> QED
          BY <3>2, <4>2, <5>1
      <4>3. CASE m = 2
        <5>1. i = 3 * (k + 1)
          BY <3>2, <4>3, <3>3
        <5> QED
          BY <3>2, <4>3, <5>1
      <4> QED
        BY <3>2, <4>1, <4>2, <4>3
    <3>7. j = 1 \/ j = 2 \/ j = 3
      BY <3>3
    <3> QED
      BY <1>4, <3>3, <3>5, <3>6, <3>7
  <2>2. s # <<>> /\ Len(s) % 3 = 0 /\ Len(s) \div 3 = n
    <3>1. Len(s) # 0
      BY <1>1, <1>9, <1>11
    <3> QED
      BY <1>1, <1>9, <3>1
  <2>3. IsPurePercent(s)
    BY <2>1, <2>2 DEF IsPurePercent
  <2> QED
    BY <1>1, <2>2, <2>3 DEF SymbolCount, n
<1>12. goal
  BY <1>10, <1>11
<1> QED
  BY <1>12

(* The bytes of the characters of s fill the places i to N. *)
Fills(pos, s, i, N) ==
  /\ pos[0] = i /\ pos[Len(s)] = N + 1
  /\ \A k \in 0..(Len(s) - 1) : pos[k + 1] = pos[k] + Len(Utf8Bytes(s[k + 1]))

(* from_utf8 returns a text of as many bytes as it was given. *)
LEMMA Utf8Measured ==
  ASSUME NEW S, NEW raw \in Seq(S), FromUtf8(raw).ok
  PROVE  ByteLen(FromUtf8(raw).val) = Len(raw)
<1> DEFINE N == Len(raw)
           stuck(i) == StartsAt(raw, i) = {}
           char(i)  == CharAt(raw, i)
           jump(i)  == NextChar(raw, i)
           done     == [ok |-> TRUE, val |-> <<>>]
           none     == [ok |-> FALSE, val |-> <<>>]
           more(i, rest)  == Put(CharAt(raw, i), rest)
<1>1. PICK from : TextsFrom(from, raw)
  BY FromUtf8Goes
<1>2. N \in Nat
  BY LenProperties
<1>3. ASSUME NEW i \in 1..N, ~stuck(i)
      PROVE  char(i) \in Characters /\ jump(i) \in (i + 1)..(N + 1)
             /\ jump(i) = i + Len(Utf8Bytes(char(i)))
  BY <1>3, FromUtf8Advances DEF NextChar
<1> DEFINE good(t, i) == /\ t = [ok |-> t.ok, val |-> t.val] /\ t.val \in Seq(Characters)
                         /\ t.ok => \E pos : Fills(pos, t.val, i, N)
<1>4. good(done, N + 1) /\ \A i : good(none, i)
  <2>1. Fills([k \in {0} |-> N + 1], <<>>, N + 1, N)
    BY DEF Fills
  <2>2. <<>> \in Seq(Characters)
    BY EmptySeq
  <2> QED
    BY <2>1, <2>2
<1>5. ASSUME NEW i \in 1..N, ~stuck(i), NEW t, good(t, jump(i))
      PROVE  good(more(i, t), i)
  <2> DEFINE c == char(i)
             v == t.val
             j == jump(i)
             w == <<c>> \o v
  <2>1. c \in Characters /\ v \in Seq(Characters) /\ Len(v) \in Nat
        /\ j = i + Len(Utf8Bytes(c))
    BY <1>3, <1>5, LenProperties
  <2>2. t = [ok |-> t.ok, val |-> v] /\ (t.ok => \E pos : Fills(pos, v, j, N))
    BY <1>5
  <2>3. more(i, t) = [ok |-> t.ok, val |-> w]
    <3>1. \A o, x, y : [[ok |-> o, val |-> x] EXCEPT !.val = y] = [ok |-> o, val |-> y]
      OBVIOUS
    <3>2. more(i, t) = [t EXCEPT !.val = <<c>> \o t.val]
      BY Zenon DEF Put
    <3> DEFINE o == t.ok
    <3> HIDE DEF more, c, v, j, o
    <3>3. t = [ok |-> o, val |-> v]
      BY <2>2 DEF o
    <3>4. t.val = v
      BY DEF v
    <3>5. more(i, t) = [[ok |-> o, val |-> v] EXCEPT !.val = <<c>> \o v]
      BY <3>2, <3>3, <3>4
    <3> QED
      BY <3>1, <3>5 DEF o
  <2> HIDE DEF c, v, j, more
  <2>4. w \in Seq(Characters) /\ Len(w) = Len(v) + 1 /\ w[1] = c
        /\ \A k \in 1..Len(v) : w[k + 1] = v[k]
    <3> DEFINE u == <<c>>
    <3>1. u \in Seq(Characters) /\ Len(u) = 1 /\ u[1] = c
      BY <2>1
    <3> HIDE DEF u
    <3>2. /\ u \o v \in Seq(Characters) /\ Len(u \o v) = Len(u) + Len(v)
          /\ \A k \in 1..(Len(u) + Len(v)) :
               (u \o v)[k] = IF k <= Len(u) THEN u[k] ELSE v[k - Len(u)]
      <4>1. \A a, b \in Seq(Characters) :
              /\ a \o b \in Seq(Characters) /\ Len(a \o b) = Len(a) + Len(b)
              /\ \A k \in 1..(Len(a) + Len(b)) :
                   (a \o b)[k] = IF k <= Len(a) THEN a[k] ELSE b[k - Len(a)]
        BY ConcatProperties
      <4> QED
        BY <2>1, <3>1, <4>1
    <3>3. (u \o v)[1] = c
      <4>1. 1 \in 1..(Len(u) + Len(v)) /\ 1 <= Len(u)
        BY <2>1, <3>1
      <4> QED
        BY <3>1, <3>2, <4>1
    <3>4. ASSUME NEW k \in 1..Len(v) PROVE (u \o v)[k + 1] = v[k]
      <4>1. k + 1 \in 1..(Len(u) + Len(v)) /\ ~(k + 1 <= Len(u)) /\ (k + 1) - Len(u) = k
        BY <2>1, <3>1
      <4> QED
        BY <3>2, <4>1
    <3> QED
      BY <2>1, <3>1, <3>2, <3>3, <3>4 DEF u
  <2> HIDE DEF w
  <2>5. ASSUME NEW pos, Fills(pos, v, j, N)
        PROVE  \E q : Fills(q, w, i, N)
    <3> DEFINE q == [k \in 0..Len(w) |-> IF k = 0 THEN i ELSE pos[k - 1]]
    <3>1. q[0] = i
      BY <2>1, <2>4
    <3>2. q[Len(w)] = N + 1
      <4>1. Len(w) \in 0..Len(w) /\ Len(w) # 0 /\ Len(w) - 1 = Len(v)
        BY <2>1, <2>4
      <4> QED
        BY <2>5, <4>1 DEF Fills
    <3>3. ASSUME NEW k \in 0..(Len(w) - 1) PROVE q[k + 1] = q[k] + Len(Utf8Bytes(w[k + 1]))
      <4>1. k + 1 \in 0..Len(w) /\ k + 1 # 0 /\ (k + 1) - 1 = k /\ k \in 0..Len(w)
        BY <2>1, <2>4
      <4>2. q[k + 1] = pos[k]
        BY <4>1
      <4>3. CASE k = 0
        <5>1. pos[0] = j /\ w[0 + 1] = c
          BY <2>4, <2>5 DEF Fills
        <5> QED
          BY <2>1, <3>1, <4>2, <4>3, <5>1
      <4>4. CASE k # 0
        <5>1. k - 1 \in 0..(Len(v) - 1) /\ (k - 1) + 1 = k /\ k \in 1..Len(v)
          BY <2>1, <2>4, <4>4
        <5>2. pos[k] = pos[k - 1] + Len(Utf8Bytes(v[k]))
          <6>1. pos[(k - 1) + 1] = pos[k - 1] + Len(Utf8Bytes(v[(k - 1) + 1]))
            BY <2>5, <5>1 DEF Fills
          <6> QED
            BY <5>1, <6>1
        <5>3. q[k] = pos[k - 1]
          BY <4>1, <4>4
        <5>4. w[k + 1] = v[k]
          BY <2>4, <5>1
        <5> HIDE DEF q
        <5> QED
          BY <4>2, <5>2, <5>3, <5>4
      <4> QED
        BY <4>3, <4>4
    <3> HIDE DEF q
    <3>4. Fills(q, w, i, N)
      BY <3>1, <3>2, <3>3 DEF Fills
    <3> QED
      BY <3>4
  <2>6. more(i, t).ok = t.ok /\ more(i, t).val = w
    BY <2>3
  <2>7. t.ok => \E q : Fills(q, w, i, N)
    BY <2>2, <2>5
  <2> QED
    BY <2>3, <2>4, <2>6, <2>7
<1> HIDE DEF N, done, none, more, jump, stuck, good
<1>8. ASSUME NEW i \in 1..(N + 1)
      PROVE  from[i] = IF i > N THEN done
                       ELSE IF stuck(i) THEN none ELSE more(i, from[jump(i)])
  BY <1>1, Zenon DEF TextsFrom, N, done, none, more, jump, stuck
<1> DEFINE T == {m \in 0..N : \A i \in (N + 1 - m)..(N + 1) : good(from[i], i)}
<1>9. 0 \in T
  <2>1. ASSUME NEW i \in (N + 1 - 0)..(N + 1) PROVE good(from[i], i)
    <3>1. i = N + 1 /\ i > N /\ i \in 1..(N + 1)
      BY <1>2
    <3>2. from[i] = done
      BY <1>8, <3>1
    <3> QED
      BY <1>4, <3>1, <3>2
  <2> QED
    BY <1>2, <2>1
<1>10. ASSUME NEW m \in 0..(N - 1), m \in T PROVE m + 1 \in T
  <2>1. ASSUME NEW i \in (N + 1 - (m + 1))..(N + 1) PROVE good(from[i], i)
    <3>1. CASE i \in (N + 1 - m)..(N + 1)
      BY <1>10, <3>1
    <3>2. CASE i = N - m
      <4>1. i \in 1..N /\ i \in 1..(N + 1) /\ ~(i > N)
        BY <1>2, <3>2
      <4>2. CASE stuck(i)
        BY <1>4, <1>8, <4>1, <4>2
      <4>3. CASE ~stuck(i)
        <5>1. jump(i) \in (i + 1)..(N + 1)
          BY <1>3, <4>1, <4>3
        <5>2. jump(i) \in (N + 1 - m)..(N + 1)
          BY <1>2, <3>2, <5>1
        <5>3. good(from[jump(i)], jump(i))
          BY <1>10, <5>2
        <5>4. from[i] = more(i, from[jump(i)])
          BY <1>8, <4>1, <4>3
        <5> QED
          BY <1>5, <4>1, <4>3, <5>3, <5>4
      <4> QED
        BY <4>2, <4>3
    <3> QED
      BY <1>2, <3>1, <3>2
  <2>2. m + 1 \in 0..N
    BY <1>2
  <2> QED
    BY <2>1, <2>2
<1> HIDE DEF T
<1>11. good(from[1], 1)
  <2>1. \A m \in 0..N : m \in T
    BY <1>2, <1>9, <1>10, UpTo
  <2>2. N \in T /\ 1 \in (N + 1 - N)..(N + 1)
    BY <1>2, <2>1
  <2> QED
    BY <2>2 DEF T
<1> DEFINE s == FromUtf8(raw).val
           n == Len(s)
           form(i) == Utf8Bytes(s[i])
           seqs == [i \in 1..n |-> form(i)]
           flat == FlattenSeq(seqs)
<1>12. s \in Seq(Characters) /\ \E pos : Fills(pos, s, 1, N)
  BY <1>1, <1>11 DEF TextsFrom, good
<1>13. PICK pos : Fills(pos, s, 1, N)
  BY <1>12
<1> HIDE DEF s
<1>14. n \in Nat /\ \A i \in 1..n : form(i) \in Seq(ByteSet) /\ Len(form(i)) \in Nat
  <2>1. \A i \in 1..n : s[i] \in Characters
    BY <1>12, ElementOfSeq
  <2> QED
    BY <1>12, <2>1, LenProperties, Utf8BytesType DEF ByteSet
<1>15. ByteLen(s) = Len(flat)
  BY DEF ByteLen, Utf8Text
<1> HIDE DEF form
<1>16. seqs \in Seq(Seq(ByteSet)) /\ Len(seqs) = n /\ \A i \in 1..n : seqs[i] = form(i)
  BY <1>14
<1> HIDE DEF seqs
<1>17. flat \in Seq(ByteSet)
  BY <1>16, FlattenLaysOut
<1>18. PICK at : LaidOut(at, seqs, flat)
  BY <1>16, FlattenLaysOut
<1> HIDE DEF flat
<1> DEFINE A == {k \in 0..n : at[k] \in Nat /\ pos[k] = at[k] + 1}
<1>19. 0 \in A
  <2>1. at[0] = 0 /\ pos[0] = 1 /\ 0 \in 0..n
    BY <1>13, <1>14, <1>18 DEF LaidOut, Fills
  <2> QED
    BY <2>1
<1>20. ASSUME NEW k \in 0..(n - 1), k \in A PROVE k + 1 \in A
  <2>1. k + 1 \in 1..n /\ k + 1 \in 0..n
    BY <1>14
  <2> DEFINE l == Len(form(k + 1))
  <2>2. l \in Nat
    BY <1>14, <2>1
  <2>3. at[k + 1] = at[k] + l
    <3>1. Len(seqs[k + 1]) = l /\ (k + 1) - 1 = k /\ k + 1 \in 1..Len(seqs)
      BY <1>16, <2>1
    <3> HIDE DEF l
    <3>2. at[k + 1] = at[(k + 1) - 1] + Len(seqs[k + 1])
      BY <1>18, <3>1 DEF LaidOut
    <3> QED
      BY <3>1, <3>2
  <2>4. pos[k + 1] = pos[k] + l
    BY <1>13 DEF Fills, form
  <2>5. at[k] \in Nat /\ pos[k] = at[k] + 1
    BY <1>20
  <2> HIDE DEF l, n
  <2>6. at[k + 1] \in Nat /\ pos[k + 1] = at[k + 1] + 1
    BY <2>2, <2>3, <2>4, <2>5
  <2> QED
    BY <2>1, <2>6
<1> HIDE DEF A
<1>21. n \in A
  <2>1. \A k \in 0..n : k \in A
    BY <1>14, <1>19, <1>20, UpTo
  <2> QED
    BY <1>14, <2>1
<1>22. Len(flat) = N
  <2>1. at[n] = Len(flat) /\ pos[n] = N + 1 /\ pos[n] = at[n] + 1 /\ at[n] \in Nat
    BY <1>13, <1>16, <1>18, <1>21 DEF LaidOut, Fills, A
  <2> QED
    BY <1>2, <2>1
<1> QED
  BY <1>15, <1>22 DEF s, N

(* The bytes read as text, escaped or not, have at most the symbols that   *)
(* were counted.                                                           *)
LEMMA ReadUnitsCounts ==
  ASSUME NEW rbits \in Seq(Bit), NEW r, Inside(r, rbits), NEW id, NEW n \in Nat,
         ReadUnits(rbits, r, id, n).ok
  PROVE  /\ ReadUnits(rbits, r, id, n).val \in Seq(Characters)
         /\ SymbolCount(ReadUnits(rbits, r, id, n).val) \in 0..n
<1> DEFINE raw == ReadBytes(rbits, r, n)
           end == r.pos + n * ByteBits
           val == ReadUnits(rbits, r, id, n).val
<1>1. ~(end > Len(rbits))
  <2>1. CASE end > Len(rbits)
    <3>1. ReadUnits(rbits, r, id, n) = TextFail(r)
      BY <2>1 DEF ReadUnits
    <3>2. TextFail(r).ok = FALSE
      BY DEF TextFail
    <3> QED
      BY <3>1, <3>2
  <2> QED
    BY <2>1
<1>2. raw \in Seq(ByteSet) /\ Len(raw) = n
  <2>1. end \in Nat /\ Len(rbits) \in Nat
    <3>1. Len(rbits) \in Nat /\ ByteBits \in Nat
      BY BitWidths, LenProperties
    <3>2. n * ByteBits \in Nat /\ r.pos \in Nat
      BY <3>1 DEF Inside
    <3> QED
      BY <3>1, <3>2
  <2>2. end <= Len(rbits)
    BY <1>1, <2>1
  <2> QED
    BY <2>2, ReadBytesType DEF ByteSet
<1>3. val \in Seq(Characters)
  BY ReadUnitsSpells DEF Spells
<1>4. ASSUME id = PctBytes PROVE SymbolCount(val) \in 0..n
  <2>1. val = EncodePurePercent(raw)
    BY <1>1, <1>4 DEF ReadUnits, Text
  <2> HIDE DEF raw, val
  <2> QED
    BY <1>2, <2>1, EscapedPercent
<1>5. ASSUME id # PctBytes PROVE SymbolCount(val) \in 0..n
  <2> DEFINE text == FromUtf8(raw)
  <2>1. ReadUnits(rbits, r, id, n) = IF text.ok THEN Text(end, text.val) ELSE TextFail(r)
    BY <1>1, <1>5, Zenon DEF ReadUnits
  <2>2. text.ok /\ val = text.val
    <3> HIDE DEF text
    <3>1. TextFail(r).ok = FALSE /\ Text(end, text.val).val = text.val
      BY DEF TextFail, Text
    <3> QED
      BY <2>1, <3>1
  <2> HIDE DEF raw, val
  <2>3. ByteLen(val) = n
    BY <1>2, <2>2, Utf8Measured
  <2>4. n <= n
    OBVIOUS
  <2> QED
    BY <1>3, <2>3, <2>4, CountBounded
<1> QED
  BY <1>3, <1>4, <1>5

(* A text of ASCII characters has a symbol for each of them, at most. *)
LEMMA AsciiCounts ==
  ASSUME NEW n \in Nat, NEW s, SpellsAscii(s, n)
  PROVE  s \in Seq(Characters) /\ SymbolCount(s) \in 0..n
<1>1. s \in Seq(Ascii) /\ s \in Seq(Characters) /\ Len(s) <= n
  BY AsciiSpells DEF SpellsAscii, Spells
<1>2. ByteLen(s) <= n
  BY <1>1, AsciiBytes
<1> QED
  BY <1>1, <1>2, CountBounded

(* read_segment returns a text write_segment would count no more symbols   *)
(* of than the limit.                                                      *)
LEMMA ReadSegmentCounts ==
  ASSUME NEW rbits \in Seq(Bit), NEW r, Inside(r, rbits), ReadSegment(rbits, r).ok
  PROVE  /\ ReadSegment(rbits, r).val \in Seq(Characters)
         /\ SymbolCount(ReadSegment(rbits, r).val) \in 0..MaxSymbols
<1> DEFINE id    == ReadBits(rbits, r, IdBits)
           count == ReadCompactCount(rbits, id)
           n     == count.val
           read  == ReadPayload(rbits, count, id.val, n)
<1>1. Inside(id, rbits) /\ id.val \in 0..7 /\ Inside(count, rbits)
  <2>1. Inside(id, rbits) /\ id.val \in 0..(Pow2[3] - 1)
    BY ReadBitsInside DEF IdBits
  <2>2. Pow2[3] = 8
    BY SmallPowers
  <2> HIDE DEF id
  <2> QED
    BY <2>1, <2>2, ReadCompactCountInside
<1>2. count.ok /\ n \in 0..MaxSymbols /\ ReadSegment(rbits, r) = read
  <2>1. ReadSegment(rbits, r) = IF ~count.ok \/ n \notin 0..MaxSymbols THEN TextFail(r) ELSE read
    BY Zenon DEF ReadSegment
  <2>2. TextFail(r).ok = FALSE
    BY DEF TextFail
  <2> HIDE DEF read, n, count
  <2> QED
    BY <2>1, <2>2
<1> HIDE DEF id, count
<1>3. n \in Nat /\ MaxSymbols \in Nat
  BY <1>2, SegmentLimits
<1>4. read.val \in Seq(Characters) /\ SymbolCount(read.val) \in 0..n
  <2>1. CASE id.val \in {Raw, PctBytes}
    <3>1. read = ReadUnits(rbits, count, id.val, n)
      BY <2>1 DEF ReadPayload
    <3>2. read.ok
      BY <1>2
    <3> HIDE DEF read, n
    <3> QED
      BY <1>1, <1>3, <3>1, <3>2, ReadUnitsCounts
  <2>2. CASE id.val = Huffman
    <3>1. read = ReadHuffman(rbits, count, n)
      BY <2>2 DEF ReadPayload, Huffman, Raw, PctBytes
    <3> HIDE DEF read, n
    <3>2. SpellsAscii(read.val, n)
      BY <1>1, <1>3, <3>1, ReadHuffmanInside
    <3> QED
      BY <1>3, <3>2, AsciiCounts
  <2>3. CASE id.val \notin {Raw, PctBytes} /\ id.val # Huffman
    <3>1. id.val \in 0..4
      BY <1>1, <2>3 DEF Huffman, Raw, PctBytes
    <3>2. read = ReadBase(rbits, count, id.val, n)
      BY <2>3 DEF ReadPayload
    <3> HIDE DEF read, n
    <3>3. SpellsAscii(read.val, n)
      BY <1>1, <1>3, <3>1, <3>2, ReadBaseSpells
    <3> QED
      BY <1>3, <3>3, AsciiCounts
  <2> QED
    BY <2>1, <2>2, <2>3
<1> HIDE DEF read, n
<1> QED
  BY <1>2, <1>3, <1>4

(* Whatever the bits: what read_segment makes of them is a segment within  *)
(* the limit that write_segment accepts and that is read back as it is.    *)
THEOREM ForeignSegmentsAreWritable == CodingSpec => []ForeignSegmentIsWritable
<1>1. CodingInv => ForeignSegmentIsWritable
  <2> DEFINE r == ReadSegment(foreign, ReaderAt(0))
             s == r.val
             w == WriteSegment(NewWriter, s, FALSE)
  <2> SUFFICES ASSUME CodingInv, r.ok
               PROVE  /\ r.pos <= Len(foreign)
                      /\ ToSet(s) \subseteq Characters
                      /\ SymbolCount(s) <= MaxSymbols
                      /\ Normalised(s) =>
                           w.ok /\ ReadSegment(w.bits, ReaderAt(0)) = Text(Len(w.bits), s)
    BY Zenon DEF ForeignSegmentIsWritable
  <2>1. foreign \in Seq(Bit) /\ Len(foreign) \in Nat
    BY LenProperties DEF CodingInv
  <2>2. Inside(ReaderAt(0), foreign)
    <3>1. 0 \in 0..Len(foreign)
      BY <2>1
    <3> QED
      BY <3>1, ReaderAtInside
  <2>3. r.pos <= Len(foreign)
    <3>1. Inside(r, foreign)
      BY <2>1, <2>2, ReadSegmentInside
    <3> QED
      BY <2>1, <3>1 DEF Inside
  <2>4. s \in Seq(Characters) /\ SymbolCount(s) \in 0..MaxSymbols
    BY <2>1, <2>2, ReadSegmentCounts
  <2> HIDE DEF r, s
  <2>5. ToSet(s) \subseteq Characters
    BY <2>4, ElementOfSeq, LenProperties DEF ToSet
  <2>6. SymbolCount(s) <= MaxSymbols
    BY <2>4, SegmentLimits
  <2>7. ASSUME Normalised(s)
        PROVE  w.ok /\ ReadSegment(w.bits, ReaderAt(0)) = Text(Len(w.bits), s)
    <3>1. <<>> \in Seq(Bit) /\ Len(<<>>) = 0
      BY EmptySeq
    <3>2. PICK t : SegmentWritten(t, <<>>, s, FALSE)
      BY <2>4, <2>6, <2>7, <3>1, SegmentReadsBack
    <3>3. t \in Seq(Bit) /\ Extends(t, t)
      BY <3>2, LenProperties DEF SegmentWritten, Extends
    <3>4. w = [ok |-> TRUE, bits |-> t]
      BY <3>2 DEF SegmentWritten, NewWriter
    <3>5. Inside(ReaderAt(0), t) /\ ReaderAt(0).ok = TRUE /\ ReaderAt(0).pos = 0
      <4>1. 0 \in 0..Len(t)
        BY <3>3, LenProperties
      <4> QED
        BY <4>1, ReaderAtInside
    <3>6. ReadSegment(t, ReaderAt(0)) = Text(Len(t), s)
      BY <3>1, <3>2, <3>3, <3>5 DEF SegmentWritten
    <3> HIDE DEF w
    <3>7. w.ok = TRUE /\ w.bits = t
      BY <3>4
    <3> QED
      BY <3>6, <3>7
  <2> QED
    BY <2>3, <2>5, <2>6, <2>7 DEF s
<1> QED
  BY <1>1, CodingAlways, PTL

-----------------------------------------------------------------------------
(* Streams cut short.  What a reader gets from a stream it gets from every *)
(* longer one as well.                                                     *)

LEMMA PartStays ==
  ASSUME NEW S, NEW s \in Seq(S), NEW t \in Seq(S), Extends(t, s),
         NEW m \in Nat \ {0}, NEW n \in Int, n <= Len(s)
  PROVE  SubSeq(t, m, n) = SubSeq(s, m, n)
<1>1. /\ SubSeq(s, m, n) = [i \in 1..(n - m + 1) |-> s[i + m - 1]]
      /\ SubSeq(t, m, n) = [i \in 1..(n - m + 1) |-> t[i + m - 1]]
  OBVIOUS
<1>2. ASSUME NEW i \in 1..(n - m + 1) PROVE s[i + m - 1] = t[i + m - 1]
  <2>1. i + m - 1 \in 1..Len(s)
    BY LenProperties
  <2> QED
    BY <2>1 DEF Extends
<1> QED
  BY <1>1, <1>2

LEMMA ReadBitsLonger ==
  ASSUME NEW s \in Seq(Bit), NEW t \in Seq(Bit), Extends(t, s),
         NEW r, r.pos \in Nat, NEW n \in Nat, ReadBits(s, r, n).ok
  PROVE  ReadBits(t, r, n) = ReadBits(s, r, n)
<1>1. r.ok /\ n <= WordBits /\ r.pos + n <= Len(s)
  BY DEF ReadBits, ReadFail
<1>2. r.pos + n <= Len(t)
  BY <1>1, LenProperties DEF Extends
<1>3. SubSeq(t, r.pos + 1, r.pos + n) = SubSeq(s, r.pos + 1, r.pos + n)
  <2>1. r.pos + 1 \in Nat \ {0} /\ r.pos + n \in Int
    OBVIOUS
  <2> QED
    BY <1>1, <2>1, PartStays
<1> QED
  BY <1>1, <1>2, <1>3 DEF ReadBits

LEMMA ReadVarintLonger ==
  ASSUME NEW s \in Seq(Bit), NEW t \in Seq(Bit), Extends(t, s),
         NEW r, r.pos \in Nat, ReadVarint(s, r).ok
  PROVE  ReadVarint(t, r) = ReadVarint(s, r)
<1> DEFINE Taken(take, bits) ==
             /\ take[0] = [rd |-> r, sum |-> 0, more |-> TRUE]
             /\ \A i \in 0..(MaxGroups - 1) :
                  take[i + 1] =
                    IF ~take[i].more THEN take[i]
                    ELSE AddGroup(take[i], ReadBits(bits, take[i].rd, GroupBits + 1), GroupBits * i)
             /\ ReadVarint(bits, r) = EndVarint(take[MaxGroups])
<1>1. PICK short : Taken(short, s)
  BY ReadVarintTakes
<1>2. PICK long : Taken(long, t)
  BY ReadVarintTakes
<1> DEFINE Good == {i \in 0..MaxGroups : /\ short[i].rd.pos \in Nat
                                         /\ short[i].rd.ok => long[i] = short[i]}
<1>3. 0 \in Good
  <2>1. short[0].rd = r
    BY <1>1
  <2> QED
    BY <1>1, <1>2, <2>1, Widths
<1>4. ASSUME NEW i \in 0..(MaxGroups - 1), i \in Good PROVE i + 1 \in Good
  <2> DEFINE rd(bits, x) == ReadBits(bits, x.rd, GroupBits + 1)
             next(bits, x) == IF ~x.more THEN x
                              ELSE AddGroup(x, rd(bits, x), GroupBits * i)
  <2>1. short[i + 1] = next(s, short[i]) /\ long[i + 1] = next(t, long[i])
    BY <1>1, <1>2
  <2>2. short[i].rd.pos \in Nat /\ (short[i].rd.ok => long[i] = short[i])
    BY <1>4
  <2>3. i + 1 \in 0..MaxGroups
    BY Widths
  <2>4. CASE ~short[i].more
    BY <2>1, <2>2, <2>3, <2>4
  <2>5. CASE short[i].more
    <3> DEFINE x == short[i]
               w == GroupBits + 1
               read == ReadBits(s, x.rd, w)
    <3>1. w \in Nat
      BY Widths
    <3> HIDE DEF w, x
    <3>2. read.pos \in Nat
      BY <2>2, <3>1 DEF ReadBits, ReadFail, x
    <3>3. read.ok => x.rd.ok
      BY DEF ReadBits, ReadFail
    <3>4. read.ok => ReadBits(t, x.rd, w) = read
      BY <2>2, <3>1, ReadBitsLonger DEF x
    <3> DEFINE y == AddGroup(x, read, GroupBits * i)
    <3>5. short[i + 1] = y
      BY <2>1, <2>5 DEF x, w
    <3>6. y.rd.pos \in Nat /\ (y.rd.ok => read.ok)
      <4> HIDE DEF read
      <4>1. y.rd = read \/ y.rd = ReadFail(read)
        BY DEF AddGroup
      <4> HIDE DEF y
      <4> QED
        BY <3>2, <4>1 DEF ReadFail
    <3>7. y.rd.ok => long[i + 1] = y
      <4> SUFFICES ASSUME y.rd.ok PROVE long[i + 1] = y
        OBVIOUS
      <4>1. read.ok /\ ReadBits(t, x.rd, w) = read /\ long[i] = x
        BY <2>2, <3>3, <3>4, <3>6 DEF x
      <4> HIDE DEF read, y
      <4>2. long[i + 1] = AddGroup(x, ReadBits(t, x.rd, w), GroupBits * i)
        BY <2>1, <2>5, <4>1 DEF x, w
      <4> QED
        BY <4>1, <4>2 DEF y
    <3> HIDE DEF y
    <3> QED
      BY <2>3, <3>5, <3>6, <3>7
  <2> QED
    BY <2>4, <2>5
<1>5. MaxGroups \in Good
  <2> HIDE DEF Good
  <2>1. \A i \in 0..MaxGroups : i \in Good
    BY <1>3, <1>4, UpTo, Widths
  <2> QED
    BY <2>1, Widths
<1> DEFINE last == short[MaxGroups]
<1>6. last.rd.ok
  <2>1. EndVarint(last).ok
    BY <1>1
  <2> HIDE DEF last
  <2>2. EndVarint(last).ok => last.rd.ok
    BY DEF EndVarint, ReadFail
  <2> QED
    BY <2>1, <2>2
<1> QED
  BY <1>1, <1>2, <1>5, <1>6

(* A varint is not read by a reader that failed before. *)
LEMMA ReadVarintFails ==
  ASSUME NEW bits, NEW r, ReadVarint(bits, r).ok
  PROVE  r.ok
<1> SUFFICES ASSUME ~r.ok PROVE FALSE
  OBVIOUS
<1>1. PICK take :
        /\ take[0] = [rd |-> r, sum |-> 0, more |-> TRUE]
        /\ \A i \in 0..(MaxGroups - 1) :
             take[i + 1] =
               IF ~take[i].more THEN take[i]
               ELSE AddGroup(take[i], ReadBits(bits, take[i].rd, GroupBits + 1), GroupBits * i)
        /\ ReadVarint(bits, r) = EndVarint(take[MaxGroups])
  BY ReadVarintTakes
<1> DEFINE Bad == {i \in 0..MaxGroups : ~take[i].rd.ok}
<1>2. 0 \in Bad
  <2>1. take[0].rd = r
    BY <1>1
  <2> QED
    BY <2>1, Widths
<1>3. ASSUME NEW i \in 0..(MaxGroups - 1), i \in Bad PROVE i + 1 \in Bad
  <2> DEFINE x == take[i]
             read == ReadBits(bits, x.rd, GroupBits + 1)
             y == AddGroup(x, read, GroupBits * i)
  <2>1. ~read.ok
    BY <1>3 DEF ReadBits, ReadFail
  <2>2. y.rd = read \/ y.rd = ReadFail(read)
    <3> HIDE DEF read
    <3> QED
      BY DEF AddGroup
  <2>3. ~y.rd.ok
    <3> HIDE DEF y, read
    <3> QED
      BY <2>1, <2>2 DEF ReadFail
  <2>4. take[i + 1] = IF ~x.more THEN x ELSE y
    BY <1>1
  <2> HIDE DEF y
  <2> QED
    BY <1>3, <2>3, <2>4, Widths
<1>4. MaxGroups \in Bad
  <2> HIDE DEF Bad
  <2>1. \A i \in 0..MaxGroups : i \in Bad
    BY <1>2, <1>3, UpTo, Widths
  <2> QED
    BY <2>1, Widths
<1> DEFINE last == take[MaxGroups]
<1>5. ~last.rd.ok /\ EndVarint(last).ok
  BY <1>1, <1>4
<1> HIDE DEF last
<1> QED
  BY <1>5 DEF EndVarint, ReadFail

LEMMA ReadCompactCountLonger ==
  ASSUME NEW s \in Seq(Bit), NEW t \in Seq(Bit), Extends(t, s),
         NEW r, r.pos \in Nat, ReadCompactCount(s, r).ok
  PROVE  ReadCompactCount(t, r) = ReadCompactCount(s, r)
<1> DEFINE nibble(bits) == ReadBits(bits, r, NibbleBits)
           n == nibble(s)
<1>1. \A bits : ReadCompactCount(bits, r) =
                  IF nibble(bits).ok /\ nibble(bits).val < CountEscape THEN nibble(bits)
                  ELSE EscapedCount(ReadVarint(bits, nibble(bits)))
  BY Zenon DEF ReadCompactCount
<1>2. NibbleBits \in Nat
  BY Widths
<1>3. n.pos \in Nat
  BY <1>2 DEF ReadBits, ReadFail
<1>4. CASE n.ok
  <2>1. nibble(t) = n
    BY <1>2, <1>4, ReadBitsLonger
  <2>2. CASE n.val < CountEscape
    BY <1>1, <1>4, <2>1, <2>2
  <2>3. CASE ~(n.val < CountEscape)
    <3>1. ReadCompactCount(s, r) = EscapedCount(ReadVarint(s, n))
      BY <1>1, <2>3
    <3>2. ReadCompactCount(t, r) = EscapedCount(ReadVarint(t, n))
      BY <1>1, <2>1, <2>3
    <3> HIDE DEF n
    <3>3. ReadVarint(s, n).ok
      BY <3>1 DEF EscapedCount, ReadFail
    <3> QED
      BY <1>3, <3>1, <3>2, <3>3, ReadVarintLonger
  <2> QED
    BY <2>2, <2>3
<1>5. CASE ~n.ok
  <2>1. ReadCompactCount(s, r) = EscapedCount(ReadVarint(s, n))
    BY <1>1, <1>5
  <2> HIDE DEF n
  <2>2. ReadVarint(s, n).ok
    BY <2>1 DEF EscapedCount, ReadFail
  <2>3. ReadVarint(s, n).ok => n.ok
    BY <1>3, ReadVarintFails
  <2> QED
    BY <1>5, <2>2, <2>3
<1> QED
  BY <1>4, <1>5

LEMMA ReadCompactCountFails ==
  ASSUME NEW bits, NEW r, ReadCompactCount(bits, r).ok
  PROVE  r.ok
<1> DEFINE nibble == ReadBits(bits, r, NibbleBits)
<1>1. ReadCompactCount(bits, r) =
        IF nibble.ok /\ nibble.val < CountEscape THEN nibble
        ELSE EscapedCount(ReadVarint(bits, nibble))
  BY Zenon DEF ReadCompactCount
<1>2. nibble.ok => r.ok
  BY DEF ReadBits, ReadFail
<1> HIDE DEF nibble
<1>3. EscapedCount(ReadVarint(bits, nibble)).ok => ReadVarint(bits, nibble).ok
  BY DEF EscapedCount, ReadFail
<1> QED
  BY <1>1, <1>2, <1>3, ReadVarintFails

LEMMA ReadBaseLonger ==
  ASSUME NEW s \in Seq(Bit), NEW t \in Seq(Bit), Extends(t, s),
         NEW r, r.pos \in Nat, NEW id, NEW n \in Nat, ReadBase(s, r, id, n).ok
  PROVE  ReadBase(t, r, id, n) = ReadBase(s, r, id, n)
<1> DEFINE width == FixedBitLen(id, n)
           value(bits) == BitsToNat(SubSeq(bits, r.pos + 1, r.pos + width))
           limit == Power(Len(Alphabet[id]), n)
           base(bits) ==
             IF n = 0 THEN Text(r.pos, <<>>)
             ELSE IF r.pos + width > Len(bits) \/ value(bits) >= limit THEN TextFail(r)
             ELSE Text(r.pos + width, SymbolsOf(value(bits), n, Alphabet[id]))
<1>1. ReadBase(s, r, id, n) = base(s) /\ ReadBase(t, r, id, n) = base(t)
  BY Zenon DEF ReadBase
<1>2. width \in Nat
  BY FixedBitLenType
<1> HIDE DEF width, limit
<1>3. CASE n = 0
  BY <1>1, <1>3
<1>4. CASE n # 0
  <2>1. ~(r.pos + width > Len(s) \/ value(s) >= limit)
    <3> HIDE DEF value
    <3> QED
      BY <1>1, <1>4 DEF TextFail
  <2>2. r.pos + width <= Len(s) /\ ~(r.pos + width > Len(t))
    BY <1>2, <2>1, LenProperties DEF Extends
  <2>3. value(t) = value(s)
    <3>1. r.pos + 1 \in Nat \ {0} /\ r.pos + width \in Int
      BY <1>2
    <3>2. SubSeq(t, r.pos + 1, r.pos + width) = SubSeq(s, r.pos + 1, r.pos + width)
      BY <2>2, <3>1, PartStays
    <3> QED
      BY <3>2
  <2> HIDE DEF value
  <2> QED
    BY <1>1, <1>4, <2>1, <2>2, <2>3
<1> QED
  BY <1>3, <1>4

LEMMA ReadUnitsLonger ==
  ASSUME NEW s \in Seq(Bit), NEW t \in Seq(Bit), Extends(t, s),
         NEW r, r.pos \in Nat, NEW id, NEW n \in Nat, ReadUnits(s, r, id, n).ok
  PROVE  ReadUnits(t, r, id, n) = ReadUnits(s, r, id, n)
<1> DEFINE end == r.pos + n * ByteBits
           valid(text) == IF text.ok THEN Text(end, text.val) ELSE TextFail(r)
           units(bits) ==
             IF end > Len(bits) THEN TextFail(r)
             ELSE IF id = PctBytes THEN Text(end, EncodePurePercent(ReadBytes(bits, r, n)))
             ELSE valid(FromUtf8(ReadBytes(bits, r, n)))
<1>1. ReadUnits(s, r, id, n) = units(s) /\ ReadUnits(t, r, id, n) = units(t)
  BY Zenon DEF ReadUnits
<1>2. ByteBits \in Nat
  BY BitWidths
<1>3. \A a, b \in Nat : a * b \in Nat
  OBVIOUS
<1>4. end \in Nat
  BY <1>2, <1>3
<1>5. end <= Len(s) /\ ~(end > Len(s)) /\ ~(end > Len(t))
  <2>1. ~(end > Len(s))
    <3> HIDE DEF end, valid
    <3> QED
      BY <1>1 DEF TextFail
  <2> HIDE DEF end
  <2> QED
    BY <1>4, <2>1, LenProperties DEF Extends
<1>6. ReadBytes(t, r, n) = ReadBytes(s, r, n)
  <2> DEFINE first(k) == r.pos + (k - 1) * ByteBits + 1
             stop(k) == r.pos + k * ByteBits
             byte(bits, k) == BitsToNat(SubSeq(bits, first(k), stop(k)))
  <2>1. ReadBytes(s, r, n) = [k \in 1..n |-> byte(s, k)]
        /\ ReadBytes(t, r, n) = [k \in 1..n |-> byte(t, k)]
    BY Zenon DEF ReadBytes
  <2>2. ASSUME NEW k \in 1..n PROVE byte(t, k) = byte(s, k)
    <3>1. k - 1 \in Nat /\ k \in Nat
      OBVIOUS
    <3>2. (k - 1) * ByteBits \in Nat /\ k * ByteBits \in Nat
      BY <1>2, <1>3, <3>1
    <3>3. k * ByteBits <= n * ByteBits
      BY <1>2
    <3>4. first(k) \in Nat \ {0} /\ stop(k) \in Int /\ stop(k) <= Len(s)
      <4>1. n * ByteBits \in Nat /\ Len(s) \in Nat
        BY <1>2, <1>3, LenProperties
      <4> DEFINE a == (k - 1) * ByteBits
                 b == k * ByteBits
                 c == n * ByteBits
      <4> HIDE DEF a, b, c
      <4>2. a \in Nat /\ b \in Nat /\ b <= c /\ c \in Nat /\ r.pos + c <= Len(s)
        BY <1>5, <3>2, <3>3, <4>1 DEF a, b, c
      <4>3. first(k) = r.pos + a + 1 /\ stop(k) = r.pos + b
        BY DEF a, b
      <4> HIDE DEF first, stop
      <4>4. \A q, x, y, z, l \in Nat :
              y <= z /\ q + z <= l => q + x + 1 \in Nat \ {0} /\ q + y \in Int /\ q + y <= l
        OBVIOUS
      <4>5. r.pos + a + 1 \in Nat \ {0} /\ r.pos + b \in Int /\ r.pos + b <= Len(s)
        BY <4>1, <4>2, <4>4
      <4> QED
        BY <4>3, <4>5
    <3> HIDE DEF first, stop
    <3>5. SubSeq(t, first(k), stop(k)) = SubSeq(s, first(k), stop(k))
      BY <3>4, PartStays
    <3> QED
      BY <3>5
  <2> HIDE DEF byte
  <2> QED
    BY <2>1, <2>2
<1> HIDE DEF end, valid
<1> QED
  BY <1>1, <1>5, <1>6

LEMMA ReadHuffmanLonger ==
  ASSUME NEW s \in Seq(Bit), NEW t \in Seq(Bit), Extends(t, s),
         NEW r, Inside(r, s), NEW n \in Nat, ReadHuffman(s, r, n).ok
  PROVE  ReadHuffman(t, r, n) = ReadHuffman(s, r, n)
<1>1. PICK short : SymbolsTaken(short, s, r, n)
  BY ReadHuffmanTakes
<1>2. PICK long : SymbolsTaken(long, t, r, n)
  BY ReadHuffmanTakes
<1>3. PrefixFree(HuffCode, DOMAIN HuffCode, Bit)
  BY SegmentLimits DEF PrefixFree
<1>4. ASSUME NEW p \in 0..Len(s), NextSymbols(s, p) # {}
      PROVE  /\ NextSymbols(t, p) = NextSymbols(s, p)
             /\ p + Len(HuffCode[NextSymbol(s, p)]) \in 0..Len(s)
  <2> DEFINE D == DOMAIN HuffCode
  <2>1. PICK c \in D : IsPrefix(HuffCode[c], SubSeq(s, p + 1, Len(s)))
    BY <1>4 DEF NextSymbols
  <2>2. HuffCode[c] \in Seq(Bit) /\ Len(HuffCode[c]) \in Nat /\ Len(s) \in Nat
    <3>1. HuffCode[c] \in Seq(Bit)
      BY <2>1, SegmentLimits
    <3> QED
      BY <3>1, LenProperties
  <2>3. Holds(s, p, HuffCode[c])
    BY <2>1, <2>2, PrefixBehind
  <2>4. Holds(t, p, HuffCode[c]) /\ p \in 0..Len(t)
    BY <2>2, <2>3, LenProperties DEF Holds, Extends
  <2> HIDE DEF D
  <2>5. {d \in D : IsPrefix(HuffCode[d], SubSeq(s, p + 1, Len(s)))} = {c}
    BY <1>3, <2>3, OneCodeFits DEF D
  <2>6. {d \in D : IsPrefix(HuffCode[d], SubSeq(t, p + 1, Len(t)))} = {c}
    BY <1>3, <2>4, OneCodeFits DEF D
  <2>7. NextSymbols(s, p) = {c} /\ NextSymbols(t, p) = {c}
    BY <2>5, <2>6, Zenon DEF NextSymbols, D
  <2>8. NextSymbol(s, p) = c
    BY <2>7 DEF NextSymbol
  <2>9. p + Len(HuffCode[c]) \in 0..Len(s)
    BY <2>2, <2>3 DEF Holds
  <2> QED
    BY <2>7, <2>8, <2>9
<1> DEFINE Good == {k \in 0..n : /\ short[k].pos \in 0..Len(s)
                                 /\ short[k].ok => long[k] = short[k]}
<1>5. 0 \in Good
  <2>1. short[0] = Text(r.pos, <<>>) /\ long[0] = Text(r.pos, <<>>)
    BY <1>1, <1>2 DEF SymbolsTaken
  <2>2. Text(r.pos, <<>>).pos = r.pos
    BY DEF Text
  <2>3. r.pos \in 0..Len(s)
    BY DEF Inside
  <2> QED
    BY <2>1, <2>2, <2>3
<1>6. ASSUME NEW k \in 0..(n - 1), k \in Good PROVE k + 1 \in Good
  <2> DEFINE x == short[k]
             p == x.pos
  <2>1. short[k + 1] = AfterSymbol(s, x) /\ long[k + 1] = AfterSymbol(t, long[k])
    BY <1>1, <1>2 DEF SymbolsTaken
  <2>2. p \in 0..Len(s) /\ (x.ok => long[k] = x)
    BY <1>6
  <2> HIDE DEF x
  <2>3. CASE ~x.ok \/ NextSymbols(s, p) = {}
    <3>1. short[k + 1] = TextFail(x)
      BY <2>1, <2>3 DEF AfterSymbol
    <3> QED
      BY <2>2, <3>1 DEF TextFail
  <2>4. CASE ~(~x.ok \/ NextSymbols(s, p) = {})
    <3> DEFINE c == NextSymbol(s, p)
    <3>1. NextSymbols(t, p) = NextSymbols(s, p) /\ p + Len(HuffCode[c]) \in 0..Len(s)
      BY <1>4, <2>2, <2>4
    <3>2. NextSymbol(t, p) = c
      BY <3>1, Zenon DEF NextSymbol
    <3>3. short[k + 1] = Text(p + Len(HuffCode[c]), Append(x.val, c))
      BY <2>1, <2>4, Zenon DEF AfterSymbol
    <3>4. long[k + 1] = Text(p + Len(HuffCode[c]), Append(x.val, c))
      <4>1. long[k + 1] = AfterSymbol(t, x) /\ ~(~x.ok \/ NextSymbols(t, p) = {})
        BY <2>1, <2>2, <2>4, <3>1
      <4> QED
        BY <3>2, <4>1, Zenon DEF AfterSymbol
    <3> HIDE DEF c, p
    <3>5. short[k + 1].pos = p + Len(HuffCode[c])
      BY <3>3 DEF Text
    <3> QED
      BY <3>1, <3>3, <3>4, <3>5
  <2> QED
    BY <2>3, <2>4
<1>7. n \in Good
  <2> HIDE DEF Good
  <2>1. \A k \in 0..n : k \in Good
    BY <1>5, <1>6, UpTo
  <2> QED
    BY <2>1
<1> QED
  BY <1>1, <1>2, <1>7 DEF SymbolsTaken

LEMMA ReadSegmentLonger ==
  ASSUME NEW s \in Seq(Bit), NEW t \in Seq(Bit), Extends(t, s),
         NEW r, Inside(r, s), ReadSegment(s, r).ok
  PROVE  ReadSegment(t, r) = ReadSegment(s, r) /\ r.ok
<1> DEFINE id(bits) == ReadBits(bits, r, IdBits)
           count(bits) == ReadCompactCount(bits, id(bits))
           segment(bits) ==
             IF ~count(bits).ok \/ count(bits).val \notin 0..MaxSymbols THEN TextFail(r)
             ELSE ReadPayload(bits, count(bits), id(bits).val, count(bits).val)
<1>1. ReadSegment(s, r) = segment(s) /\ ReadSegment(t, r) = segment(t)
  BY Zenon DEF ReadSegment
<1>2. count(s).ok /\ count(s).val \in 0..MaxSymbols
  <2> HIDE DEF count
  <2> QED
    BY <1>1 DEF TextFail
<1>3. id(s).ok /\ Inside(id(s), s) /\ id(t) = id(s) /\ r.ok
  <2>1. IdBits \in Nat
    BY DEF IdBits
  <2>2. id(s).ok
    BY <1>2, ReadCompactCountFails
  <2>3. r.pos \in Nat
    BY LenProperties DEF Inside
  <2>4. Inside(id(s), s) /\ (id(s).ok => r.ok)
    BY <2>1, ReadBitsInside
  <2>5. id(t) = id(s)
    BY <2>1, <2>2, <2>3, ReadBitsLonger
  <2> QED
    BY <2>2, <2>4, <2>5
<1> HIDE DEF id
<1>4. Inside(count(s), s) /\ count(t) = count(s)
  <2>1. id(s).pos \in Nat
    BY <1>3, LenProperties DEF Inside
  <2> QED
    BY <1>2, <1>3, <2>1, ReadCompactCountInside, ReadCompactCountLonger
<1> HIDE DEF count
<1> DEFINE c == count(s)
           k == id(s).val
           n == c.val
<1>5. n \in Nat /\ c.pos \in Nat
  <2>1. MaxSymbols \in Int
    BY SegmentLimits, Widths, Pow2Type
  <2> QED
    BY <1>2, <1>4, <2>1, LenProperties DEF Inside
<1>6. ReadPayload(s, c, k, n).ok
  BY <1>1, <1>2
<1> HIDE DEF segment
<1>7. ReadPayload(t, c, k, n) = ReadPayload(s, c, k, n)
  <2> HIDE DEF c, k, n
  <2>1. Inside(c, s)
    BY <1>4 DEF c
  <2>2. CASE k \in {Raw, PctBytes}
    BY <1>5, <1>6, <2>2, ReadUnitsLonger DEF ReadPayload
  <2>3. CASE k = Huffman
    <3>1. k \notin {Raw, PctBytes}
      BY <2>3 DEF Huffman, Raw, PctBytes
    <3> QED
      BY <1>5, <1>6, <2>1, <2>3, <3>1, ReadHuffmanLonger DEF ReadPayload
  <2>4. CASE ~(k \in {Raw, PctBytes} \/ k = Huffman)
    BY <1>5, <1>6, <2>4, ReadBaseLonger DEF ReadPayload
  <2> QED
    BY <2>2, <2>3, <2>4
<1> QED
  BY <1>1, <1>2, <1>3, <1>4, <1>7 DEF segment

LEMMA ReadIndexLonger ==
  ASSUME NEW s \in Seq(Bit), NEW t \in Seq(Bit), Extends(t, s),
         NEW r, r.pos \in Nat, NEW dict, NEW width \in Nat, ReadIndex(s, r, dict, width).ok
  PROVE  ReadIndex(t, r, dict, width) = ReadIndex(s, r, dict, width)
<1> DEFINE i == ReadBits(s, r, width)
<1>1. i.ok
  <2> HIDE DEF i
  <2>1. ReadIndex(s, r, dict, width) =
          IF i.ok /\ i.val < Len(dict) THEN Text(i.pos, dict[i.val + 1]) ELSE TextFail(i)
    BY DEF ReadIndex, i
  <2> QED
    BY <2>1 DEF TextFail
<1>2. ReadBits(t, r, width) = i
  BY <1>1, ReadBitsLonger
<1> QED
  BY <1>2 DEF ReadIndex

LEMMA ReadEntryLonger ==
  ASSUME NEW s \in Seq(Bit), NEW t \in Seq(Bit), Extends(t, s),
         NEW r, Inside(r, s), NEW dict, NEW width \in Nat, ReadEntry(s, r, dict, width).ok
  PROVE  ReadEntry(t, r, dict, width) = ReadEntry(s, r, dict, width) /\ r.ok
<1> DEFINE flag(bits) == ReadBits(bits, r, 1)
           entry(bits) ==
             IF flag(bits).ok /\ flag(bits).val = 1 THEN ReadIndex(bits, flag(bits), dict, width)
             ELSE ReadSegment(bits, flag(bits))
<1>1. ReadEntry(s, r, dict, width) = entry(s) /\ ReadEntry(t, r, dict, width) = entry(t)
  BY Zenon DEF ReadEntry
<1>2. Inside(flag(s), s)
  BY ReadBitsInside
<1>3. flag(s).ok
  <2> HIDE DEF flag
  <2>1. CASE ~(flag(s).ok /\ flag(s).val = 1)
    BY <1>1, <1>2, <2>1, ReadSegmentLonger
  <2> QED
    BY <2>1
<1>4. flag(t) = flag(s) /\ r.ok
  <2>1. r.pos \in Nat
    BY LenProperties DEF Inside
  <2>2. flag(s).ok => r.ok
    BY DEF ReadBits, ReadFail
  <2> QED
    BY <1>3, <2>1, <2>2, ReadBitsLonger
<1> HIDE DEF flag
<1>5. flag(s).pos \in Nat
  BY <1>2, LenProperties DEF Inside
<1>6. CASE flag(s).val = 1
  BY <1>1, <1>3, <1>4, <1>5, <1>6, ReadIndexLonger
<1>7. CASE flag(s).val # 1
  BY <1>1, <1>2, <1>3, <1>4, <1>7, ReadSegmentLonger
<1> QED
  BY <1>6, <1>7

-----------------------------------------------------------------------------
(* Writing, as the encoder goes about it: what is written has succeeded.   *)

(* The escapes of a text that the parser has normalised are upper-case.    *)
LEMMA TidyIsNormalised ==
  ASSUME NEW s \in TidyTexts
  PROVE  s \in Seq(Characters) /\ Normalised(s)
<1>1. s \in Seq(Ascii) /\ Tidy(s) /\ Len(s) \in Nat
  BY LenProperties DEF TidyTexts
<1>2. s \in Seq(Characters)
  BY <1>1, SeqMonotonic DEF Characters
<1>3. ASSUME IsPurePercent(s), NEW i \in 1..Len(s), IsHex(s[i]) PROVE HexUp(s[i]) = s[i]
  <2>1. \A j \in 1..Len(s) : j % 3 = 1 => s[j] = "%"
    BY <1>3 DEF IsPurePercent
  <2>2. CASE i % 3 = 1
    <3>1. s[i] = "%"
      BY <2>1, <2>2
    <3>2. HexUp("%") = "%"
      BY DelimitersStandAlone DEF HexUp, IsHex
    <3> QED
      BY <3>1, <3>2
  <2>3. CASE i % 3 = 2
    <3>1. PICK j \in 1..Len(s) : j % 3 = 1 /\ i = j + 1
      <4>1. (i - 1) \in 1..Len(s) /\ (i - 1) % 3 = 1 /\ i = (i - 1) + 1
        BY <1>1, <2>3
      <4> QED
        BY <4>1
    <3>2. s[j] = "%" /\ j + 1 <= Len(s) /\ 1 \in 1..2
      BY <1>1, <2>1, <3>1
    <3>3. UpperDigit(s[j + 1])
      BY <1>1, <3>2 DEF Tidy
    <3>4. UpperDigit(s[i])
      BY <3>1, <3>3
    <3> QED
      BY <3>4 DEF UpperDigit
  <2>4. CASE i % 3 = 0
    <3>1. PICK j \in 1..Len(s) : j % 3 = 1 /\ i = j + 2
      <4>1. (i - 2) \in 1..Len(s) /\ (i - 2) % 3 = 1 /\ i = (i - 2) + 2
        BY <1>1, <2>4
      <4> QED
        BY <4>1
    <3>2. s[j] = "%" /\ j + 2 <= Len(s) /\ 2 \in 1..2
      BY <1>1, <2>1, <3>1
    <3>3. UpperDigit(s[j + 2])
      BY <1>1, <3>2 DEF Tidy
    <3>4. UpperDigit(s[i])
      BY <3>1, <3>3
    <3> QED
      BY <3>4 DEF UpperDigit
  <2>5. i % 3 = 0 \/ i % 3 = 1 \/ i % 3 = 2
    OBVIOUS
  <2> QED
    BY <2>2, <2>3, <2>4, <2>5
<1> QED
  BY <1>2, <1>3 DEF Normalised

(* v stands in the n bits behind p. *)
Written(s, p, v, n) ==
  /\ p \in Nat /\ n \in Nat /\ n <= WordBits
  /\ v \in Nat /\ v < Pow2[n]
  /\ FieldAt(s, p, v, n)

LEMMA WrittenStays ==
  ASSUME NEW s \in Seq(Bit), NEW t \in Seq(Bit), Extends(t, s),
         NEW p, NEW v, NEW n, Written(s, p, v, n)
  PROVE  Written(t, p, v, n)
BY FieldStays DEF Written

(* A writer, whether it has failed or not. *)
Writers == [ok : BOOLEAN, bits : Seq(Bit)]

(* The writers between the fields. *)
FieldsPut(put, w, fields) ==
  /\ put[0] = w
  /\ \A k \in 1..Len(fields) : put[k] = WriteBits(put[k - 1], fields[k][1], fields[k][2])
  /\ WriteFields(w, fields) = put[Len(fields)]

LEMMA FieldsArePut ==
  ASSUME NEW w, NEW fields, Len(fields) \in Nat
  PROVE  \E put : FieldsPut(put, w, fields)
<1> DEFINE n == Len(fields)
           next(prev, k) == WriteBits(prev, fields[k][1], fields[k][2])
           chain(f, m) == [k \in 0..m |-> IF k = 0 THEN w ELSE next(f[k - 1], k)]
           put == CHOOSE f : f = chain(f, n)
<1>1. WriteFields(w, fields) = put[n]
  BY Zenon DEF WriteFields
<1>2. \A k \in 1..n : \A prev : next(prev, k) = WriteBits(prev, fields[k][1], fields[k][2])
  OBVIOUS
<1> HIDE DEF next
<1>3. \E f : f = chain(f, n)
  <2> DEFINE T == {m \in Nat : \E f : f = chain(f, m)}
  <2>1. 0 \in T
    <3>1. [k \in 0..0 |-> w] = chain([k \in 0..0 |-> w], 0)
      OBVIOUS
    <3> QED
      BY <3>1
  <2>2. ASSUME NEW m \in T PROVE m + 1 \in T
    <3>1. PICK f : f = chain(f, m)
      OBVIOUS
    <3> DEFINE g == [k \in 0..(m + 1) |-> IF k <= m THEN f[k] ELSE next(f[m], m + 1)]
    <3>2. ASSUME NEW k \in 0..(m + 1)
          PROVE  g[k] = IF k = 0 THEN w ELSE next(g[k - 1], k)
      BY <3>1
    <3>3. g = chain(g, m + 1)
      BY <3>2
    <3> HIDE DEF g, chain
    <3> QED
      BY <3>3
  <2>3. T \in SUBSET Nat
    OBVIOUS
  <2> HIDE DEF T
  <2>4. T = Nat
    BY <2>1, <2>2, <2>3, NatSetInduction
  <2> QED
    BY <2>4 DEF T
<1>4. put = chain(put, n)
  BY <1>3, Zenon
<1> HIDE DEF put
<1>5. put[0] = w /\ \A k \in 1..n : put[k] = next(put[k - 1], k)
  BY <1>4
<1> QED
  BY <1>1, <1>2, <1>5 DEF FieldsPut

LEMMA OneUnrolled ==
  ASSUME NEW w, NEW v1, NEW n1
  PROVE  WriteFields(w, << <<v1, n1>> >>) = WriteBits(w, v1, n1)
<1> DEFINE fields == << <<v1, n1>> >>
<1>1. Len(fields) = 1 /\ fields[1][1] = v1 /\ fields[1][2] = n1
  OBVIOUS
<1> HIDE DEF fields
<1>2. PICK put : FieldsPut(put, w, fields)
  <2>1. Len(fields) \in Nat
    BY <1>1
  <2> QED
    BY ONLY <2>1, FieldsArePut
<1>3. put[0] = w /\ put[1] = WriteBits(put[0], v1, n1) /\ WriteFields(w, fields) = put[1]
  <2>1. \A k \in 1..1 : put[k] = WriteBits(put[k - 1], fields[k][1], fields[k][2])
    BY <1>1, <1>2 DEF FieldsPut
  <2>2. put[1] = WriteBits(put[1 - 1], v1, n1)
    BY <1>1, <2>1
  <2> QED
    BY <1>1, <1>2, <2>2 DEF FieldsPut
<1> QED
  BY <1>3 DEF fields

LEMMA TwoUnrolled ==
  ASSUME NEW w, NEW v1, NEW n1, NEW v2, NEW n2
  PROVE  WriteFields(w, << <<v1, n1>>, <<v2, n2>> >>) = WriteBits(WriteBits(w, v1, n1), v2, n2)
<1> DEFINE fields == << <<v1, n1>>, <<v2, n2>> >>
<1>1. Len(fields) = 2 /\ fields[1][1] = v1 /\ fields[1][2] = n1
      /\ fields[2][1] = v2 /\ fields[2][2] = n2
  OBVIOUS
<1> HIDE DEF fields
<1>2. PICK put : FieldsPut(put, w, fields)
  <2>1. Len(fields) \in Nat
    BY <1>1
  <2> QED
    BY ONLY <2>1, FieldsArePut
<1>3. /\ put[0] = w /\ put[1] = WriteBits(put[0], v1, n1)
      /\ put[2] = WriteBits(put[1], v2, n2) /\ WriteFields(w, fields) = put[2]
  <2>1. \A k \in 1..2 : put[k] = WriteBits(put[k - 1], fields[k][1], fields[k][2])
    BY <1>1, <1>2 DEF FieldsPut
  <2>2. put[1] = WriteBits(put[1 - 1], v1, n1) /\ put[2] = WriteBits(put[2 - 1], v2, n2)
    BY <1>1, <2>1
  <2> QED
    BY <1>1, <1>2, <2>2 DEF FieldsPut
<1> QED
  BY <1>3 DEF fields

LEMMA ThreeUnrolled ==
  ASSUME NEW w, NEW v1, NEW n1, NEW v2, NEW n2, NEW v3, NEW n3
  PROVE  WriteFields(w, << <<v1, n1>>, <<v2, n2>>, <<v3, n3>> >>)
           = WriteBits(WriteFields(w, << <<v1, n1>>, <<v2, n2>> >>), v3, n3)
<1> DEFINE fields == << <<v1, n1>>, <<v2, n2>>, <<v3, n3>> >>
<1>1. Len(fields) = 3 /\ fields[1][1] = v1 /\ fields[1][2] = n1
      /\ fields[2][1] = v2 /\ fields[2][2] = n2 /\ fields[3][1] = v3 /\ fields[3][2] = n3
  OBVIOUS
<1> HIDE DEF fields
<1>2. PICK put : FieldsPut(put, w, fields)
  <2>1. Len(fields) \in Nat
    BY <1>1
  <2> QED
    BY ONLY <2>1, FieldsArePut
<1>3. /\ put[0] = w /\ put[1] = WriteBits(put[0], v1, n1)
      /\ put[2] = WriteBits(put[1], v2, n2) /\ put[3] = WriteBits(put[2], v3, n3)
      /\ WriteFields(w, fields) = put[3]
  <2>1. \A k \in 1..3 : put[k] = WriteBits(put[k - 1], fields[k][1], fields[k][2])
    BY <1>1, <1>2 DEF FieldsPut
  <2>2. /\ put[1] = WriteBits(put[1 - 1], v1, n1) /\ put[2] = WriteBits(put[2 - 1], v2, n2)
        /\ put[3] = WriteBits(put[3 - 1], v3, n3)
    BY <1>1, <2>1
  <2> QED
    BY <1>1, <1>2, <2>2 DEF FieldsPut
<1>4. put[2] = WriteFields(w, << <<v1, n1>>, <<v2, n2>> >>)
  BY <1>3, TwoUnrolled
<1> QED
  BY <1>3, <1>4 DEF fields

(* A value that goes into a field of n bits. *)
Fits(v, n) == v \in Nat /\ n \in Nat /\ n <= WordBits /\ v < Pow2[n]

(* One, two and three fields written behind the bits of a. *)
OneWritten(a, b, v1, n1) ==
  /\ b \in Seq(Bit) /\ Extends(b, a) /\ Len(b) = Len(a) + n1
  /\ Written(b, Len(a), v1, n1)

TwoWritten(a, b, v1, n1, v2, n2) ==
  /\ b \in Seq(Bit) /\ Extends(b, a) /\ Len(b) = Len(a) + n1 + n2
  /\ Written(b, Len(a), v1, n1) /\ Written(b, Len(a) + n1, v2, n2)

ThreeWritten(a, b, v1, n1, v2, n2, v3, n3) ==
  /\ b \in Seq(Bit) /\ Extends(b, a) /\ Len(b) = Len(a) + n1 + n2 + n3
  /\ Written(b, Len(a), v1, n1) /\ Written(b, Len(a) + n1, v2, n2)
  /\ Written(b, Len(a) + n1 + n2, v3, n3)

LEMMA OneField ==
  ASSUME NEW a \in Seq(Bit), NEW v1, NEW n1, Fits(v1, n1)
  PROVE  \E b : WriteBits([ok |-> TRUE, bits |-> a], v1, n1) = [ok |-> TRUE, bits |-> b]
                /\ OneWritten(a, b, v1, n1)
<1>1. v1 \in Nat /\ n1 \in Nat /\ n1 <= WordBits /\ v1 < Pow2[n1]
  BY DEF Fits
<1>2. PICK b \in Seq(Bit) :
        /\ WriteBits([ok |-> TRUE, bits |-> a], v1, n1) = [ok |-> TRUE, bits |-> b]
        /\ Len(b) = Len(a) + n1 /\ Extends(b, a) /\ FieldAt(b, Len(a), v1, n1)
  BY <1>1, WriteBitsAppends
<1>3. Written(b, Len(a), v1, n1)
  BY <1>1, <1>2, LenProperties DEF Written
<1>4. OneWritten(a, b, v1, n1)
  BY <1>2, <1>3 DEF OneWritten
<1> QED
  BY <1>2, <1>4

LEMMA TwoFields ==
  ASSUME NEW a \in Seq(Bit), NEW v1, NEW n1, NEW v2, NEW n2, Fits(v1, n1), Fits(v2, n2)
  PROVE  \E b : WriteFields([ok |-> TRUE, bits |-> a], << <<v1, n1>>, <<v2, n2>> >>)
                  = [ok |-> TRUE, bits |-> b]
                /\ TwoWritten(a, b, v1, n1, v2, n2)
<1> DEFINE w == [ok |-> TRUE, bits |-> a]
           w1 == WriteBits(w, v1, n1)
           w2 == WriteBits(w1, v2, n2)
<1>1. WriteFields(w, << <<v1, n1>>, <<v2, n2>> >>) = w2
  BY ONLY TwoUnrolled
<1>2. PICK b1 : w1 = [ok |-> TRUE, bits |-> b1] /\ OneWritten(a, b1, v1, n1)
  BY OneField
<1>3. b1 \in Seq(Bit) /\ Len(b1) = Len(a) + n1 /\ Extends(b1, a) /\ Written(b1, Len(a), v1, n1)
  BY <1>2 DEF OneWritten
<1> HIDE DEF w1
<1>4. PICK b : w2 = [ok |-> TRUE, bits |-> b] /\ OneWritten(b1, b, v2, n2)
  BY <1>2, <1>3, OneField
<1>5. b \in Seq(Bit) /\ Len(b) = Len(b1) + n2 /\ Extends(b, b1) /\ Written(b, Len(b1), v2, n2)
  BY <1>4 DEF OneWritten
<1>6. Extends(b, a) /\ Written(b, Len(a), v1, n1)
  BY <1>3, <1>5, ExtendsTransitive, WrittenStays
<1> HIDE DEF w2
<1>7. TwoWritten(a, b, v1, n1, v2, n2)
  BY <1>3, <1>5, <1>6 DEF TwoWritten
<1> QED
  BY <1>1, <1>4, <1>7

LEMMA ThreeFields ==
  ASSUME NEW a \in Seq(Bit), NEW v1, NEW n1, NEW v2, NEW n2, NEW v3, NEW n3,
         Fits(v1, n1), Fits(v2, n2), Fits(v3, n3)
  PROVE  \E b : WriteFields([ok |-> TRUE, bits |-> a], << <<v1, n1>>, <<v2, n2>>, <<v3, n3>> >>)
                  = [ok |-> TRUE, bits |-> b]
                /\ ThreeWritten(a, b, v1, n1, v2, n2, v3, n3)
<1> DEFINE w == [ok |-> TRUE, bits |-> a]
           w2 == WriteFields(w, << <<v1, n1>>, <<v2, n2>> >>)
           w3 == WriteFields(w, << <<v1, n1>>, <<v2, n2>>, <<v3, n3>> >>)
<1>1. w3 = WriteBits(w2, v3, n3)
  BY ONLY ThreeUnrolled
<1>2. PICK b2 : w2 = [ok |-> TRUE, bits |-> b2] /\ TwoWritten(a, b2, v1, n1, v2, n2)
  BY TwoFields
<1> HIDE DEF w2, w3
<1>3. b2 \in Seq(Bit) /\ Len(b2) = Len(a) + n1 + n2 /\ Extends(b2, a)
      /\ Written(b2, Len(a), v1, n1) /\ Written(b2, Len(a) + n1, v2, n2)
  BY <1>2 DEF TwoWritten
<1>4. PICK b : w3 = [ok |-> TRUE, bits |-> b] /\ OneWritten(b2, b, v3, n3)
  BY <1>1, <1>2, <1>3, OneField
<1>5. b \in Seq(Bit) /\ Len(b) = Len(b2) + n3 /\ Extends(b, b2) /\ Written(b, Len(b2), v3, n3)
  BY <1>4 DEF OneWritten
<1>6. Extends(b, a) /\ Written(b, Len(a), v1, n1) /\ Written(b, Len(a) + n1, v2, n2)
  BY <1>3, <1>5, ExtendsTransitive, WrittenStays
<1>7. ThreeWritten(a, b, v1, n1, v2, n2, v3, n3)
  BY <1>3, <1>5, <1>6 DEF ThreeWritten
<1> QED
  BY <1>4, <1>7 DEF w3

LEMMA FiveUnrolled ==
  ASSUME NEW w, NEW v1, NEW n1, NEW v2, NEW n2, NEW v3, NEW n3,
         NEW v4, NEW n4, NEW v5, NEW n5
  PROVE  WriteFields(w, << <<v1, n1>>, <<v2, n2>>, <<v3, n3>>, <<v4, n4>>, <<v5, n5>> >>)
           = WriteFields(WriteFields(w, << <<v1, n1>>, <<v2, n2>>, <<v3, n3>> >>),
                         << <<v4, n4>>, <<v5, n5>> >>)
<1> DEFINE fields == << <<v1, n1>>, <<v2, n2>>, <<v3, n3>>, <<v4, n4>>, <<v5, n5>> >>
           half == WriteFields(w, << <<v1, n1>>, <<v2, n2>>, <<v3, n3>> >>)
<1>1. /\ Len(fields) = 5 /\ fields[1][1] = v1 /\ fields[1][2] = n1
      /\ fields[2][1] = v2 /\ fields[2][2] = n2 /\ fields[3][1] = v3 /\ fields[3][2] = n3
      /\ fields[4][1] = v4 /\ fields[4][2] = n4 /\ fields[5][1] = v5 /\ fields[5][2] = n5
  OBVIOUS
<1> HIDE DEF fields
<1>2. PICK put : FieldsPut(put, w, fields)
  <2>1. Len(fields) \in Nat
    BY <1>1
  <2> QED
    BY ONLY <2>1, FieldsArePut
<1>3. /\ put[0] = w /\ put[1] = WriteBits(put[0], v1, n1)
      /\ put[2] = WriteBits(put[1], v2, n2) /\ put[3] = WriteBits(put[2], v3, n3)
      /\ put[4] = WriteBits(put[3], v4, n4) /\ put[5] = WriteBits(put[4], v5, n5)
      /\ WriteFields(w, fields) = put[5]
  <2>1. \A k \in 1..5 : put[k] = WriteBits(put[k - 1], fields[k][1], fields[k][2])
    BY <1>1, <1>2 DEF FieldsPut
  <2>2. /\ put[1] = WriteBits(put[1 - 1], v1, n1) /\ put[2] = WriteBits(put[2 - 1], v2, n2)
        /\ put[3] = WriteBits(put[3 - 1], v3, n3)
    BY <1>1, <2>1
  <2>3. /\ put[4] = WriteBits(put[4 - 1], v4, n4) /\ put[5] = WriteBits(put[5 - 1], v5, n5)
    BY <1>1, <2>1
  <2> QED
    BY <1>1, <1>2, <2>2, <2>3 DEF FieldsPut
<1>4. put[3] = half
  <2>1. half = WriteBits(WriteFields(w, << <<v1, n1>>, <<v2, n2>> >>), v3, n3)
    BY ONLY ThreeUnrolled
  <2>2. WriteFields(w, << <<v1, n1>>, <<v2, n2>> >>) = WriteBits(WriteBits(w, v1, n1), v2, n2)
    BY ONLY TwoUnrolled
  <2> HIDE DEF half
  <2> QED
    BY <1>3, <2>1, <2>2
<1> HIDE DEF half
<1>5. WriteFields(half, << <<v4, n4>>, <<v5, n5>> >>) = WriteBits(WriteBits(half, v4, n4), v5, n5)
  BY ONLY TwoUnrolled
<1> QED
  BY <1>3, <1>4, <1>5 DEF fields, half

(* The fields of a header. *)
LEMMA FiveFields ==
  ASSUME NEW a \in Seq(Bit), NEW v1, NEW n1, NEW v2, NEW n2, NEW v3, NEW n3,
         NEW v4, NEW n4, NEW v5, NEW n5,
         Fits(v1, n1), Fits(v2, n2), Fits(v3, n3), Fits(v4, n4), Fits(v5, n5)
  PROVE  \E m, b :
           /\ WriteFields([ok |-> TRUE, bits |-> a],
                << <<v1, n1>>, <<v2, n2>>, <<v3, n3>>, <<v4, n4>>, <<v5, n5>> >>)
                = [ok |-> TRUE, bits |-> b]
           /\ ThreeWritten(a, m, v1, n1, v2, n2, v3, n3)
           /\ TwoWritten(m, b, v4, n4, v5, n5)
<1> DEFINE w == [ok |-> TRUE, bits |-> a]
           half == WriteFields(w, << <<v1, n1>>, <<v2, n2>>, <<v3, n3>> >>)
           full == WriteFields(half, << <<v4, n4>>, <<v5, n5>> >>)
<1>1. WriteFields(w, << <<v1, n1>>, <<v2, n2>>, <<v3, n3>>, <<v4, n4>>, <<v5, n5>> >>) = full
  BY ONLY FiveUnrolled
<1>2. PICK m : half = [ok |-> TRUE, bits |-> m] /\ ThreeWritten(a, m, v1, n1, v2, n2, v3, n3)
  BY ThreeFields
<1>3. m \in Seq(Bit)
  BY <1>2 DEF ThreeWritten
<1> HIDE DEF half
<1>4. PICK b : full = [ok |-> TRUE, bits |-> b] /\ TwoWritten(m, b, v4, n4, v5, n5)
  BY <1>2, <1>3, TwoFields
<1> HIDE DEF full
<1> QED
  BY <1>1, <1>2, <1>4

(* Nothing is written by a writer that has failed. *)
LEMMA FailedStays ==
  ASSUME NEW w \in Writers, w.ok = FALSE
  PROVE  /\ \A v, n : WriteBits(w, v, n) = w
         /\ \A text, huff : WriteSegment(w, text, huff) = w
         /\ \A text, dict, width, huff : WriteEntry(w, text, dict, width, huff) = w
<1>1. WriteFail(w) = w
  BY DEF WriteFail, Writers
<1>2. ASSUME NEW v, NEW n PROVE WriteBits(w, v, n) = w
  BY <1>1 DEF WriteBits
<1>3. ASSUME NEW text, NEW huff PROVE WriteSegment(w, text, huff) = w
  BY <1>1 DEF WriteSegment
<1>4. ASSUME NEW text, NEW dict, NEW width, NEW huff
      PROVE  WriteEntry(w, text, dict, width, huff) = w
  <2>1. WriteFields(w, << <<1, 1>>, <<Index(text, dict), width>> >>)
          = WriteBits(WriteBits(w, 1, 1), Index(text, dict), width)
    BY ONLY TwoUnrolled
  <2>2. WriteFields(w, << <<1, 1>>, <<Index(text, dict), width>> >>) = w
    BY <1>2, <2>1
  <2>3. WriteSegment(WriteBits(w, 0, 1), text, huff) = w
    BY <1>2, <1>3
  <2> QED
    BY <2>2, <2>3 DEF WriteEntry
<1> QED
  BY <1>2, <1>3, <1>4

-----------------------------------------------------------------------------
(* A segment, and an entry of a dictionary, between p and e: every stream  *)
(* that goes on from s has it read back there.                             *)
SegmentAt(s, p, e, text) ==
  \A t \in Seq(Bit) : \A r :
    Extends(t, s) /\ Inside(r, t) /\ r.ok = TRUE /\ r.pos = p => ReadSegment(t, r) = Text(e, text)

EntryAt(s, p, e, text, dict, width) ==
  \A t \in Seq(Bit) : \A r :
    Extends(t, s) /\ Inside(r, t) /\ r.ok = TRUE /\ r.pos = p =>
      ReadEntry(t, r, dict, width) = Text(e, text)

LEMMA SegmentStays ==
  ASSUME NEW s \in Seq(Bit), NEW t \in Seq(Bit), Extends(t, s), NEW p, NEW e, NEW text
  PROVE  /\ SegmentAt(s, p, e, text) => SegmentAt(t, p, e, text)
         /\ \A dict, width : EntryAt(s, p, e, text, dict, width) => EntryAt(t, p, e, text, dict, width)
<1>1. \A u \in Seq(Bit) : Extends(u, t) => Extends(u, s)
  BY ExtendsTransitive
<1> QED
  BY <1>1 DEF SegmentAt, EntryAt

(* What writing a segment behind the bits of a comes to. *)
SegmentOut(w, a, text) ==
  /\ w \in Writers
  /\ w.ok <=> SymbolCount(text) <= MaxSymbols
  /\ w.ok => /\ w.ok = TRUE /\ Extends(w.bits, a) /\ Len(a) <= Len(w.bits)
             /\ SegmentAt(w.bits, Len(a), Len(w.bits), text)

LEMMA SegmentAppended ==
  ASSUME NEW a \in Seq(Bit), NEW text \in TidyTexts, NEW huff
  PROVE  SegmentOut(WriteSegment([ok |-> TRUE, bits |-> a], text, huff), a, text)
<1> DEFINE w == [ok |-> TRUE, bits |-> a]
           out == WriteSegment(w, text, huff)
<1>1. text \in Seq(Characters) /\ Normalised(text)
  BY TidyIsNormalised
<1>2. CASE SymbolCount(text) <= MaxSymbols
  <2>1. PICK t : SegmentWritten(t, a, text, huff)
    BY <1>1, <1>2, SegmentReadsBack
  <2>2. t \in Seq(Bit) /\ Extends(t, a) /\ out = [ok |-> TRUE, bits |-> t]
    BY <2>1 DEF SegmentWritten
  <2>3. SegmentAt(t, Len(a), Len(t), text)
    BY <2>1 DEF SegmentWritten, SegmentAt
  <2> HIDE DEF out
  <2>4. out.ok = TRUE /\ out.bits = t /\ out \in Writers
    BY <2>2 DEF Writers
  <2>5. Len(a) <= Len(t)
    BY <2>2 DEF Extends
  <2>6. SegmentOut(out, a, text)
    BY <1>2, <2>2, <2>3, <2>4, <2>5 DEF SegmentOut
  <2> QED
    BY <2>6 DEF out
<1>3. CASE ~(SymbolCount(text) <= MaxSymbols)
  <2>1. SymbolCount(text) > MaxSymbols
    <3>1. SymbolCount(text) \in Nat
      BY <1>1, PayloadReadsBack
    <3>2. MaxSymbols \in Nat
      <4>1. MaxSymbols \in 0..(Pow2[WordBits] - 1)
        BY SegmentLimits
      <4> QED
        BY <4>1
    <3> QED
      BY <1>3, <3>1, <3>2
  <2>2. out = WriteFail(w)
    BY <2>1 DEF WriteSegment
  <2>3. out \in Writers /\ out.ok = FALSE
    BY <2>2 DEF WriteFail, Writers
  <2> HIDE DEF out
  <2>4. SegmentOut(out, a, text)
    BY <1>3, <2>3 DEF SegmentOut
  <2> QED
    BY <2>4 DEF out
<1> QED
  BY <1>2, <1>3

EntryOut(w, a, text, dict, width) ==
  /\ w \in Writers
  /\ Known(text, dict) \/ SymbolCount(text) <= MaxSymbols => w.ok
  /\ w.ok => /\ w.ok = TRUE /\ Extends(w.bits, a) /\ Len(a) <= Len(w.bits)
             /\ EntryAt(w.bits, Len(a), Len(w.bits), text, dict, width)

LEMMA KnownIndex ==
  ASSUME NEW dict \in Seq(Seq(Ascii)), NEW text, Known(text, dict)
  PROVE  Index(text, dict) \in 0..(Len(dict) - 1) /\ dict[Index(text, dict) + 1] = text
<1>1. text \in ToSet(dict)
  BY DEF Known, Contains, ToSet
<1> QED
  BY <1>1, IndexFinds

(* What a reader at r finds there. *)
Finds(t, r) ==
  \A v, n : Written(t, r.pos, v, n) =>
              ReadBits(t, r, n) = [ok |-> TRUE, pos |-> r.pos + n, val |-> v]

LEMMA WrittenReads ==
  ASSUME NEW t \in Seq(Bit), NEW r, r.ok = TRUE
  PROVE  Finds(t, r)
BY ReadBitsReadsField DEF Written, Finds

LEMMA EntryAppended ==
  ASSUME NEW a \in Seq(Bit), NEW text \in TidyTexts, NEW huff,
         NEW dict \in Seq(Seq(Ascii)), NEW width \in 0..WordBits, Len(dict) <= Pow2[width]
  PROVE  EntryOut(WriteEntry([ok |-> TRUE, bits |-> a], text, dict, width, huff),
                  a, text, dict, width)
<1> DEFINE w == [ok |-> TRUE, bits |-> a]
           out == WriteEntry(w, text, dict, width, huff)
<1>1. width \in Nat /\ width <= WordBits /\ WordBits \in Nat /\ 1 <= WordBits
      /\ Pow2[1] = 2 /\ Pow2[width] \in Nat
  BY Widths, Pow2One, Pow2Type
<1>2. CASE Known(text, dict)
  <2> DEFINE i == Index(text, dict)
  <2>1. i \in 0..(Len(dict) - 1) /\ dict[i + 1] = text
    BY <1>2, KnownIndex
  <2>2. i \in Nat /\ i < Pow2[width] /\ i < Len(dict)
    BY <1>1, <2>1, LenProperties
  <2>3. out = WriteFields(w, << <<1, 1>>, <<i, width>> >>)
    BY <1>2 DEF WriteEntry
  <2>4. out = WriteBits(WriteBits(w, 1, 1), i, width)
    <3> HIDE DEF out, w, i
    <3>1. WriteFields(w, << <<1, 1>>, <<i, width>> >>) = WriteBits(WriteBits(w, 1, 1), i, width)
      BY ONLY TwoUnrolled
    <3> QED
      BY <2>3, <3>1
  <2> HIDE DEF i
  <2>5. PICK b \in Seq(Bit) :
          /\ WriteBits(w, 1, 1) = [ok |-> TRUE, bits |-> b]
          /\ Len(b) = Len(a) + 1 /\ Extends(b, a) /\ FieldAt(b, Len(a), 1, 1)
    <3>1. 1 \in Nat /\ 1 < Pow2[1]
      BY <1>1
    <3> QED
      BY <1>1, <3>1, WriteBitsAppends
  <2>6. PICK c \in Seq(Bit) :
          /\ WriteBits([ok |-> TRUE, bits |-> b], i, width) = [ok |-> TRUE, bits |-> c]
          /\ Len(c) = Len(b) + width /\ Extends(c, b) /\ FieldAt(c, Len(b), i, width)
    BY <1>1, <2>2, WriteBitsAppends
  <2>7. out = [ok |-> TRUE, bits |-> c]
    BY <2>4, <2>5, <2>6
  <2>8. Written(c, Len(a), 1, 1) /\ Written(c, Len(a) + 1, i, width) /\ Len(c) = Len(a) + 1 + width
        /\ Extends(c, a) /\ Len(a) \in Nat
    BY <1>1, <2>2, <2>5, <2>6, FieldStays, ExtendsTransitive, LenProperties DEF Written
  <2>9. EntryAt(c, Len(a), Len(c), text, dict, width)
    <3> SUFFICES ASSUME NEW t \in Seq(Bit), NEW r, Extends(t, c), Inside(r, t), r.ok = TRUE,
                        r.pos = Len(a)
                 PROVE  ReadEntry(t, r, dict, width) = Text(Len(c), text)
      BY DEF EntryAt
    <3> DEFINE flag == ReadBits(t, r, 1)
    <3>1. Written(t, Len(a), 1, 1) /\ Written(t, Len(a) + 1, i, width)
      BY <2>8, WrittenStays
    <3>2. flag = [ok |-> TRUE, pos |-> Len(a) + 1, val |-> 1]
      <4>1. Written(t, r.pos, 1, 1)
        BY <3>1
      <4>2. ReadBits(t, r, 1) = [ok |-> TRUE, pos |-> r.pos + 1, val |-> 1]
        <5>1. Finds(t, r)
          BY WrittenReads
        <5> QED
          BY <4>1, <5>1 DEF Finds
      <4> QED
        BY <4>2
    <3> HIDE DEF flag
    <3>3. ReadBits(t, flag, width) = [ok |-> TRUE, pos |-> Len(a) + 1 + width, val |-> i]
      <4>1. flag.ok = TRUE /\ flag.pos = Len(a) + 1 /\ Written(t, flag.pos, i, width)
        BY <3>1, <3>2
      <4>2. ReadBits(t, flag, width) = [ok |-> TRUE, pos |-> flag.pos + width, val |-> i]
        <5>1. Finds(t, flag)
          BY <4>1, WrittenReads
        <5> QED
          BY <4>1, <5>1 DEF Finds
      <4> QED
        BY <4>1, <4>2
    <3>4. ReadIndex(t, flag, dict, width) = Text(Len(c), text)
      BY <2>1, <2>2, <2>8, <3>3 DEF ReadIndex, i
    <3>5. ReadEntry(t, r, dict, width) =
            IF flag.ok /\ flag.val = 1 THEN ReadIndex(t, flag, dict, width)
            ELSE ReadSegment(t, flag)
      BY Zenon DEF ReadEntry, flag
    <3> QED
      BY <3>2, <3>4, <3>5
  <2> HIDE DEF out
  <2>10. out.ok = TRUE /\ out.bits = c /\ out \in Writers
    BY <2>7 DEF Writers
  <2>11. Len(a) <= Len(c)
    BY <2>8 DEF Extends
  <2>12. EntryOut(out, a, text, dict, width)
    BY <2>8, <2>9, <2>10, <2>11 DEF EntryOut
  <2> QED
    BY <2>12 DEF out
<1>3. CASE ~Known(text, dict)
  <2>1. out = WriteSegment(WriteBits(w, 0, 1), text, huff)
    BY <1>3 DEF WriteEntry
  <2>2. PICK b \in Seq(Bit) :
          /\ WriteBits(w, 0, 1) = [ok |-> TRUE, bits |-> b]
          /\ Len(b) = Len(a) + 1 /\ Extends(b, a) /\ FieldAt(b, Len(a), 0, 1)
    <3>1. 0 \in Nat /\ 0 < Pow2[1] /\ 1 \in Nat
      BY <1>1
    <3> QED
      BY <1>1, <3>1, WriteBitsAppends
  <2>3. SegmentOut(out, b, text)
    BY <2>1, <2>2, SegmentAppended
  <2> HIDE DEF out, w
  <2>4. ASSUME out.ok
        PROVE  /\ Extends(out.bits, a) /\ Len(a) <= Len(out.bits)
               /\ EntryAt(out.bits, Len(a), Len(out.bits), text, dict, width)
    <3> DEFINE c == out.bits
    <3>1. c \in Seq(Bit) /\ Extends(c, b) /\ SegmentAt(c, Len(b), Len(c), text)
      BY <2>3, <2>4 DEF SegmentOut, Writers
    <3> HIDE DEF c
    <3>2. Extends(c, a) /\ Len(a) \in Nat
      BY <2>2, <3>1, ExtendsTransitive, LenProperties
    <3>3. ASSUME NEW t \in Seq(Bit), NEW r, Extends(t, c), Inside(r, t), r.ok = TRUE,
                 r.pos = Len(a)
          PROVE  ReadEntry(t, r, dict, width) = Text(Len(c), text)
      <4> DEFINE flag == ReadBits(t, r, 1)
      <4>1. FieldAt(t, Len(a), 0, 1)
        <5>1. Extends(t, b)
          BY <2>2, <3>1, <3>3, ExtendsTransitive
        <5> QED
          BY <2>2, <3>2, <3>3, <5>1, FieldStays
      <4>2. flag = [ok |-> TRUE, pos |-> Len(a) + 1, val |-> 0]
        <5>1. 0 < Pow2[1] /\ 0 \in Nat /\ 1 \in Nat /\ 1 <= WordBits
          BY <1>1
        <5>2. Written(t, r.pos, 0, 1)
          BY <3>2, <3>3, <4>1, <5>1 DEF Written
        <5>3. ReadBits(t, r, 1) = [ok |-> TRUE, pos |-> r.pos + 1, val |-> 0]
          <6>1. Finds(t, r)
            BY <3>3, WrittenReads
          <6> QED
            BY <5>2, <6>1 DEF Finds
        <5> QED
          BY <3>3, <5>3
      <4>3. Inside(flag, t)
        BY <3>3, ReadBitsInside
      <4> HIDE DEF flag
      <4>4. ReadSegment(t, flag) = Text(Len(c), text)
        <5>1. flag.ok = TRUE /\ flag.pos = Len(b)
          BY <2>2, <4>2
        <5> QED
          BY <3>1, <3>3, <4>3, <5>1 DEF SegmentAt
      <4>5. ReadEntry(t, r, dict, width) =
              IF flag.ok /\ flag.val = 1 THEN ReadIndex(t, flag, dict, width)
              ELSE ReadSegment(t, flag)
        BY Zenon DEF ReadEntry, flag
      <4> QED
        BY <4>2, <4>4, <4>5
    <3>4. EntryAt(c, Len(a), Len(c), text, dict, width)
      BY <3>3 DEF EntryAt
    <3> QED
      BY <3>2, <3>4 DEF c, Extends
  <2>5. out \in Writers /\ (out.ok => out.ok = TRUE) /\ (SymbolCount(text) <= MaxSymbols => out.ok)
    BY <2>3 DEF SegmentOut
  <2>6. EntryOut(out, a, text, dict, width)
    BY <1>3, <2>4, <2>5 DEF EntryOut
  <2> QED
    BY <2>6 DEF out, w
<1> QED
  BY <1>2, <1>3

-----------------------------------------------------------------------------
(* Reading s, which may be cut short, as what was written in f: r is a     *)
(* reader that has got to p with the value v, or has failed, as it never   *)
(* does when nothing is missing.                                           *)
Hears(s, f, r, p, v) ==
  /\ Inside(r, s)
  /\ r.ok => r.ok = TRUE /\ r.pos = p /\ r.val = v
  /\ s = f => r.ok

LEMMA HearsStart ==
  ASSUME NEW s \in Seq(Bit), NEW f, NEW p \in 0..Len(s)
  PROVE  Hears(s, f, ReaderAt(p), p, 0)
BY ReaderAtInside DEF Hears, ReaderAt

LEMMA ExtendsItself ==
  ASSUME NEW s \in Seq(Bit)
  PROVE  Extends(s, s)
BY DEF Extends

LEMMA HearsBits ==
  ASSUME NEW s \in Seq(Bit), NEW f \in Seq(Bit), Extends(f, s),
         NEW r, NEW p, NEW x, Hears(s, f, r, p, x),
         NEW v, NEW n, Written(f, p, v, n)
  PROVE  Hears(s, f, ReadBits(s, r, n), p + n, v)
<1> DEFINE q == ReadBits(s, r, n)
<1>1. Inside(r, s) /\ r.pos \in Nat /\ n \in Nat
  BY LenProperties DEF Hears, Inside, Written
<1>2. Inside(q, s) /\ (q.ok => r.ok)
  BY <1>1, ReadBitsInside
<1>3. ASSUME r.ok
      PROVE  ReadBits(f, r, n) = [ok |-> TRUE, pos |-> p + n, val |-> v]
  <2>1. r.ok = TRUE /\ r.pos = p
    BY <1>3 DEF Hears
  <2>2. Finds(f, r)
    BY <2>1, WrittenReads
  <2>3. Written(f, r.pos, v, n)
    BY <2>1
  <2>4. ReadBits(f, r, n) = [ok |-> TRUE, pos |-> r.pos + n, val |-> v]
    BY <2>2, <2>3 DEF Finds
  <2> QED
    BY <2>1, <2>4
<1>4. ASSUME q.ok PROVE q.ok = TRUE /\ q.pos = p + n /\ q.val = v
  <2>1. ReadBits(f, r, n) = q
    BY <1>1, <1>4, ReadBitsLonger
  <2> HIDE DEF q
  <2> QED
    BY <1>2, <1>3, <1>4, <2>1
<1>5. ASSUME s = f PROVE q.ok
  <2>1. r.ok
    BY <1>5 DEF Hears
  <2>2. q = [ok |-> TRUE, pos |-> p + n, val |-> v]
    BY <1>3, <1>5, <2>1
  <2> HIDE DEF q
  <2> QED
    BY <2>2
<1>6. Hears(s, f, q, p + n, v)
  <2> HIDE DEF q
  <2> QED
    BY <1>2, <1>4, <1>5 DEF Hears
<1> QED
  BY <1>6

LEMMA HearsCount ==
  ASSUME NEW s \in Seq(Bit), NEW f \in Seq(Bit), Extends(f, s),
         NEW r, NEW p, NEW x, Hears(s, f, r, p, x),
         NEW c \in 0..(Pow2[WordBits] - 1), CountAt(f, p, c), NEW e, e = p + CountBits(c)
  PROVE  Hears(s, f, ReadCompactCount(s, r), e, c)
<1> DEFINE q == ReadCompactCount(s, r)
<1>1. Inside(r, s) /\ r.pos \in Nat
  BY LenProperties DEF Hears, Inside
<1>2. Inside(q, s) /\ (q.ok => r.ok)
  BY <1>1, ReadCompactCountInside, ReadCompactCountFails
<1>3. ASSUME r.ok
      PROVE  ReadCompactCount(f, r) = [ok |-> TRUE, pos |-> e, val |-> c]
  <2>1. r.ok = TRUE /\ r.pos = p
    BY <1>3 DEF Hears
  <2>2. CountAt(f, r.pos, c) /\ e = r.pos + CountBits(c)
    BY <2>1
  <2>3. ReadCompactCount(f, r) = [ok |-> TRUE, pos |-> r.pos + CountBits(c), val |-> c]
    <3>1. Inside(r, f)
      BY <1>1, LenProperties DEF Inside, Extends
    <3>2. c \in Nat /\ c < Pow2[WordBits]
      BY Widths, Pow2Type
    <3> QED
      BY <2>1, <2>2, <3>1, <3>2, ReadCompactCountReads
  <2> QED
    BY <2>2, <2>3
<1>4. ASSUME q.ok PROVE q.ok = TRUE /\ q.pos = e /\ q.val = c
  <2>1. ReadCompactCount(f, r) = q
    BY <1>1, <1>4, ReadCompactCountLonger
  <2> HIDE DEF q
  <2> QED
    BY <1>2, <1>3, <1>4, <2>1
<1>5. ASSUME s = f PROVE q.ok
  <2>1. r.ok
    BY <1>5 DEF Hears
  <2>2. q = [ok |-> TRUE, pos |-> e, val |-> c]
    BY <1>3, <1>5, <2>1
  <2> HIDE DEF q
  <2> QED
    BY <2>2
<1>6. Hears(s, f, q, e, c)
  <2> HIDE DEF q
  <2> QED
    BY <1>2, <1>4, <1>5 DEF Hears
<1> QED
  BY <1>6

LEMMA HearsSegment ==
  ASSUME NEW s \in Seq(Bit), NEW f \in Seq(Bit), Extends(f, s),
         NEW r, NEW p, NEW x, Hears(s, f, r, p, x),
         NEW e, NEW text, SegmentAt(f, p, e, text)
  PROVE  Hears(s, f, ReadSegment(s, r), e, text)
<1> DEFINE q == ReadSegment(s, r)
<1>1. Inside(r, s)
  BY DEF Hears
<1>2. Inside(q, s)
  BY <1>1, ReadSegmentInside
<1>3. ASSUME r.ok PROVE ReadSegment(f, r) = Text(e, text)
  <2>1. r.ok = TRUE /\ r.pos = p
    BY <1>3 DEF Hears
  <2>2. Inside(r, f)
    BY <1>1, LenProperties DEF Inside, Extends
  <2> QED
    BY <2>1, <2>2, ExtendsItself DEF SegmentAt
<1>4. ASSUME q.ok PROVE q.ok = TRUE /\ q.pos = e /\ q.val = text
  <2>1. ReadSegment(f, r) = q /\ r.ok
    BY <1>1, <1>4, ReadSegmentLonger
  <2> HIDE DEF q
  <2> QED
    BY <1>3, <2>1 DEF Text
<1>5. ASSUME s = f PROVE q.ok
  <2>1. r.ok
    BY <1>5 DEF Hears
  <2>2. q = Text(e, text)
    BY <1>3, <1>5, <2>1
  <2> HIDE DEF q
  <2> QED
    BY <2>2 DEF Text
<1>6. Hears(s, f, q, e, text)
  <2> HIDE DEF q
  <2> QED
    BY <1>2, <1>4, <1>5 DEF Hears
<1> QED
  BY <1>6

LEMMA HearsEntry ==
  ASSUME NEW s \in Seq(Bit), NEW f \in Seq(Bit), Extends(f, s),
         NEW r, NEW p, NEW x, Hears(s, f, r, p, x),
         NEW dict, NEW width \in Nat,
         NEW e, NEW text, EntryAt(f, p, e, text, dict, width)
  PROVE  Hears(s, f, ReadEntry(s, r, dict, width), e, text)
<1> DEFINE q == ReadEntry(s, r, dict, width)
<1>1. Inside(r, s)
  BY DEF Hears
<1>2. Inside(q, s)
  BY <1>1, ReadEntryInside
<1>3. ASSUME r.ok PROVE ReadEntry(f, r, dict, width) = Text(e, text)
  <2>1. r.ok = TRUE /\ r.pos = p
    BY <1>3 DEF Hears
  <2>2. Inside(r, f)
    BY <1>1, LenProperties DEF Inside, Extends
  <2> QED
    BY <2>1, <2>2, ExtendsItself DEF EntryAt
<1>4. ASSUME q.ok PROVE q.ok = TRUE /\ q.pos = e /\ q.val = text
  <2>1. ReadEntry(f, r, dict, width) = q /\ r.ok
    BY <1>1, <1>4, ReadEntryLonger
  <2> HIDE DEF q
  <2> QED
    BY <1>3, <2>1 DEF Text
<1>5. ASSUME s = f PROVE q.ok
  <2>1. r.ok
    BY <1>5 DEF Hears
  <2>2. q = Text(e, text)
    BY <1>3, <1>5, <2>1
  <2> HIDE DEF q
  <2> QED
    BY <2>2 DEF Text
<1>6. Hears(s, f, q, e, text)
  <2> HIDE DEF q
  <2> QED
    BY <1>2, <1>4, <1>5 DEF Hears
<1> QED
  BY <1>6

-----------------------------------------------------------------------------
(* Byte strings on their way to decode.                                    *)

LEMMA PayloadStart ==
  ASSUME NEW bytes \in Seq(Bit), NEW i \in 1..Len(bytes), bytes[i] = 1
  PROVE  \E first \in 1..i : /\ \A j \in 1..(first - 1) : bytes[j] = 0
                             /\ ToPayload(bytes) = SubSeq(bytes, first, Len(bytes))
<1> DEFINE I == {j \in 1..Len(bytes) : bytes[j] = 1}
           least == CHOOSE x \in I : \A y \in I : x <= y
<1>1. ToPayload(bytes)
        = IF (IF I # {} THEN least ELSE 0) = 0 THEN <<>>
          ELSE SubSeq(bytes, IF I # {} THEN least ELSE 0, Len(bytes))
  BY Zenon DEF ToPayload, SelectInSeq, Min
<1>2. Len(bytes) \in Nat /\ i \in I /\ \A j \in 1..Len(bytes) : bytes[j] \in {0, 1}
  BY LenProperties, ElementOfSeq DEF Bit
<1>3. \E x \in I : \A y \in I : x <= y
  <2>1. I \in SUBSET Nat /\ I # {}
    BY <1>2
  <2> HIDE DEF I
  <2>2. PICK x \in I : \A y \in I : ~(y < x)
    BY <2>1, LeastElement
  <2> QED
    BY <2>1, <2>2
<1>4. least \in I /\ \A y \in I : least <= y
  <2> HIDE DEF I
  <2> QED
    BY <1>3, Zenon
<1> HIDE DEF least
<1>5. least \in 1..i /\ \A j \in 1..(least - 1) : bytes[j] = 0
  BY <1>2, <1>4
<1>6. ToPayload(bytes) = SubSeq(bytes, least, Len(bytes))
  <2>1. I # {} /\ least # 0
    BY <1>4, <1>5
  <2> HIDE DEF I
  <2> QED
    BY <1>1, <2>1
<1> QED
  BY <1>5, <1>6

(* The zero bits a number loses in front of its first digit come back.     *)
LEMMA PayloadComesBack ==
  ASSUME NEW bytes \in Seq(Bit), Len(bytes) % ByteBits = 0,
         NEW i \in 1..Len(bytes), i <= ByteBits, bytes[i] = 1
  PROVE  FromPayload(ToPayload(bytes)) = bytes
<1> DEFINE N == Len(bytes)
<1>1. N \in Nat /\ ByteBits \in Nat \ {0} /\ i \in Nat
  BY BitWidths, LenProperties
<1>2. PICK first \in 1..i : /\ \A j \in 1..(first - 1) : bytes[j] = 0
                            /\ ToPayload(bytes) = SubSeq(bytes, first, N)
  BY PayloadStart
<1> DEFINE number == SubSeq(bytes, first, N)
           lost == [j \in 1..(first - 1) |-> 0]
           back == lost \o number
<1>3. first \in 1..N /\ first <= ByteBits
  BY <1>1, <1>2
<1>4. /\ number \in Seq(Bit) /\ Len(number) = N - first + 1
      /\ \A j \in 1..Len(number) : number[j] = bytes[first + j - 1]
  BY <1>1, <1>3
<1>5. (0 - (N - first + 1)) % ByteBits = first - 1
  <2> DEFINE q == N \div ByteBits
  <2>1. N = ByteBits * q /\ q \in Nat
    <3>1. N % ByteBits = 0
      OBVIOUS
    <3> HIDE DEF N
    <3> QED
      BY <1>1, <3>1, DivMod
  <2>2. N % ByteBits = 0
    OBVIOUS
  <2> HIDE DEF q, N
  <2>3. 0 - (N - first + 1) = (first - 1) - N
    BY <1>1, <1>3
  <2>4. first - 1 \in 0..(ByteBits - 1)
    BY <1>1, <1>3
  <2>5. ASSUME NEW d \in Nat, d > 0, NEW k \in Nat, NEW r \in 0..(d - 1)
        PROVE  (r - d * k) % d = r
    OBVIOUS
  <2> QED
    BY <1>1, <2>1, <2>3, <2>4, <2>5
<1>6. FromPayload(ToPayload(bytes)) = back
  <2>1. FromPayload(number) = [j \in 1..((0 - Len(number)) % ByteBits) |-> 0] \o number
    BY DEF FromPayload
  <2>2. (0 - Len(number)) % ByteBits = first - 1
    BY <1>4, <1>5
  <2> HIDE DEF number
  <2> QED
    BY <1>2, <2>1, <2>2 DEF number
<1>7. lost \in Seq(Bit) /\ Len(lost) = first - 1 /\ \A j \in 1..(first - 1) : lost[j] = 0
  BY <1>1, <1>3 DEF Bit
<1> HIDE DEF number, lost
<1>8. /\ back \in Seq(Bit) /\ Len(back) = Len(lost) + Len(number)
      /\ \A j \in 1..Len(lost) : back[j] = lost[j]
      /\ \A j \in 1..Len(number) : back[Len(lost) + j] = number[j]
  BY <1>4, <1>7, ConcatExtends DEF Extends
<1> HIDE DEF back
<1>9. Len(back) = N
  BY <1>1, <1>3, <1>4, <1>7, <1>8
<1>10. ASSUME NEW j \in 1..Len(back) PROVE back[j] = bytes[j]
  <2>1. CASE j < first
    BY <1>2, <1>3, <1>7, <1>8, <1>10, <2>1
  <2>2. CASE j >= first
    <3>1. /\ j - (first - 1) \in 1..Len(number) /\ Len(lost) + (j - (first - 1)) = j
          /\ first + (j - (first - 1)) - 1 = j
      BY <1>1, <1>3, <1>4, <1>7, <1>9, <1>10, <2>2
    <3>2. back[Len(lost) + (j - (first - 1))] = number[j - (first - 1)]
      BY <1>8, <3>1
    <3>3. number[j - (first - 1)] = bytes[first + (j - (first - 1)) - 1]
      BY <1>4, <3>1
    <3> QED
      BY <3>1, <3>2, <3>3
  <2> QED
    BY <1>1, <1>3, <2>1, <2>2
<1> QED
  BY <1>6, <1>8, <1>9, <1>10, SeqEqual

(* A byte string that begins with the version.                             *)
LEMMA VersionIsNotZero ==
  ASSUME NEW f \in Seq(Bit), Written(f, 0, WireVersion, 4)
  PROVE  3 \in 1..Len(f) /\ 3 <= ByteBits /\ f[3] = 1
<1>1. FieldAt(f, 0, 2, 4)
  BY DEF Written, WireVersion
<1>2. Len(f) >= 4 /\ f[3] = NatToBits(2, 4)[3]
  <2>1. 0 + 4 <= Len(f) /\ \A i \in 1..4 : f[0 + i] = NatToBits(2, 4)[i]
    BY <1>1 DEF FieldAt
  <2>2. 0 + 3 = 3 /\ 3 \in 1..4
    OBVIOUS
  <2>3. f[0 + 3] = NatToBits(2, 4)[3]
    BY <2>1, <2>2
  <2> QED
    BY <2>1, <2>2, <2>3, LenProperties
<1>3. NatToBits(2, 4)[3] = 1
  <2>1. NatToBits(2, 4)[3] = (2 \div Pow2[4 - 3]) % 2
    BY DEF NatToBits
  <2> QED
    BY <2>1, Pow2One
<1> QED
  BY <1>2, <1>3, WireLimits, BitWidths, LenProperties

(* What is left of the bytes of s when the last of them are cut off.       *)
LEMMA CutIsShorter ==
  ASSUME NEW f \in Seq(Bit), NEW n \in 0..(Len(f) \div ByteBits - 1), NEW m \in Nat,
         Len(f) - m < ByteBits
  PROVE  /\ SubSeq(f, 1, n * ByteBits) \in Seq(Bit)
         /\ Len(SubSeq(f, 1, n * ByteBits)) < m
         /\ Extends(f, SubSeq(f, 1, n * ByteBits))
<1> DEFINE N == Len(f)
           q == N \div ByteBits
           r == N % ByteBits
           k == n * ByteBits
<1>1. N \in Nat /\ ByteBits \in Nat \ {0}
  BY BitWidths, LenProperties
<1>2. q \in Nat /\ r \in Nat /\ N = ByteBits * q + r
  <2> HIDE DEF N
  <2> QED
    BY <1>1, DivMod
<1>3. n \in Nat /\ n + 1 <= q
  <2>1. n \in 0..(q - 1)
    OBVIOUS
  <2> HIDE DEF q
  <2> QED
    BY <1>2, <2>1
<1>4. k \in Nat /\ k + ByteBits <= N
  <2> HIDE DEF N, q, r
  <2>1. \A b \in Nat, x \in Nat, y \in Nat : x + 1 <= y => x * b + b <= b * y
    OBVIOUS
  <2>2. n * ByteBits + ByteBits <= ByteBits * q
    BY <1>1, <1>2, <1>3, <2>1
  <2>3. n * ByteBits \in Nat /\ ByteBits * q \in Nat
    BY <1>1, <1>2, <1>3
  <2> QED
    BY <1>1, <1>2, <2>2, <2>3
<1> HIDE DEF k
<1>5. /\ SubSeq(f, 1, k) \in Seq(Bit) /\ Len(SubSeq(f, 1, k)) = k
      /\ \A i \in 1..k : SubSeq(f, 1, k)[i] = f[i]
  BY <1>1, <1>4
<1>6. k < m /\ k <= Len(f)
  BY <1>1, <1>4
<1> QED
  BY <1>5, <1>6 DEF Extends, k

=============================================================================
