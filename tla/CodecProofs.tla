---------------------------- MODULE CodecProofs ----------------------------
(***************************************************************************)
(* decode_bits on any bits, and decode on what encode wrote, for every     *)
(* value of the constants.                                                 *)
(*                                                                         *)
(* The decoder alone first.  Its limits are not inductive by themselves.   *)
(* The number of labels comes from a field of three bits and the index code*)
(* from one of two, so what such a field can hold has to be known          *)
(* (ShortReads); that needs it to be cut out of a sequence of bits at a    *)
(* position inside it, so the position is part of the invariant, and the   *)
(* lemmas of SegmentProofs keep it there.                                  *)
(*                                                                         *)
(* Then both together.  What the encoder has written stays on record as a  *)
(* tape: the places it was at between its blocks, and for each of them the *)
(* block's fields in the bits (Laid).  Every block of the encoder adds a   *)
(* place to the tape (EncoderAdvances); every block of the decoder, given  *)
(* the same bits or the beginning of them, moves from one place of the tape*)
(* to the next or refuses for want of bits or an overlong host             *)
(* (DecoderFollows).  CodecInv says where on the tape the two are.         *)
(***************************************************************************)
EXTENDS Codec, SegmentProofs

DecoderInv ==
  /\ stream \in Seq(Bit)
  /\ pos \in 0..Len(stream)
  /\ indexCode \in 0..3
  /\ DecoderLimits

(* A field of n bits holds less than 2^n: the fields a match of            *)
(* decode_bits branches on without an error arm.                           *)
LEMMA ShortReads ==
  ASSUME NEW bits \in Seq(Bit), NEW r, Inside(r, bits), NEW n \in {1, 2, 3}
  PROVE  ReadBits(bits, r, n).val \in 0..(IF n = 1 THEN 1 ELSE IF n = 2 THEN 3 ELSE 7)
<1>1. n \in Nat /\ Pow2[n] - 1 = IF n = 1 THEN 1 ELSE IF n = 2 THEN 3 ELSE 7
  BY SmallPowers
<1> QED
  BY <1>1, ReadBitsInside

(* The index widths are natural numbers. *)
LEMMA ReadWidths ==
  TldBits \in Nat /\ HostBits \in Nat /\ PathBits \in Nat /\ KeyBits \in Nat
  /\ ValueBits \in Nat /\ PortBits \in Nat
BY WireLimits, CharacterSet

-----------------------------------------------------------------------------
(* The steps.  An Err return keeps the invariant; every other step moves   *)
(* the position inside the stream and leaves the limits in force.          *)

LEMMA RejectInv ==
  ASSUME DecoderInv, Reject
  PROVE  DecoderInv'
BY DEF DecoderInv, DecoderLimits, PastHost, PastTld, Reject

LEMMA ReadHeaderInv ==
  ASSUME DecoderInv, ReadHeader
  PROVE  DecoderInv'
<1> DEFINE version == ReadBits(stream, ReaderAt(pos), 4)
           dict    == ReadBits(stream, version, 4)
           isHttps == ReadBits(stream, dict, 1)
           isWww   == ReadBits(stream, isHttps, 1)
           index   == ReadBits(stream, isWww, 2)
<1>1. Inside(isWww, stream) /\ Inside(index, stream)
  BY ReaderAtInside, ReadBitsInside DEF DecoderInv
<1>2. index.ok => index.val \in 0..3
  BY <1>1, ShortReads DEF DecoderInv
<1> HIDE DEF index
<1>3. CASE Reject
  BY <1>3, RejectInv
<1>4. CASE index.ok /\ Consume(index, "port") /\ indexCode' = index.val
  BY <1>1, <1>2, <1>4 DEF DecoderInv, DecoderLimits, PastHost, PastTld, Consume, Inside
<1> QED
  BY <1>3, <1>4 DEF ReadHeader, version, dict, isHttps, isWww, index

LEMMA ReadPortInv ==
  ASSUME DecoderInv, ReadPort
  PROVE  DecoderInv'
<1> DEFINE flag == ReadBits(stream, ReaderAt(pos), 1)
           mode == ReadBits(stream, flag, 2)
<1>1. Inside(flag, stream) /\ Inside(mode, stream)
      /\ Inside(ReadBits(stream, mode, PortBits), stream)
  BY ReaderAtInside, ReadBitsInside, ReadWidths DEF DecoderInv
<1> HIDE DEF flag, mode
<1>2. Inside([flag EXCEPT !.val = NoPort], stream)
      /\ Inside([mode EXCEPT !.val = ShortPorts[mode.val + 1]], stream)
  BY <1>1 DEF Inside
<1>3. Inside(PortRead, stream)
  BY <1>1, <1>2 DEF PortRead, flag, mode
<1>4. CASE Reject
  BY <1>4, RejectInv
<1>5. CASE Consume(PortRead, "host") /\ UNCHANGED indexCode
  BY <1>3, <1>5 DEF DecoderInv, DecoderLimits, PastHost, PastTld, Consume, Inside
<1> QED
  BY <1>4, <1>5 DEF ReadPort

(* The end of the host block, from either form of a host. *)
LEMMA FinishHostInv ==
  ASSUME DecoderInv, NEW txt, NEW r, Inside(r, stream), FinishHost(txt, r)
  PROVE  DecoderInv'
<1>1. CASE Reject
  BY <1>1, RejectInv
<1>2. CASE /\ ~TooLong(txt) /\ Consume(r, "tld")
           /\ host' = txt /\ UNCHANGED indexCode
  BY <1>2 DEF DecoderInv, DecoderLimits, PastHost, PastTld, Consume, Inside, TooLong
<1> QED
  BY <1>1, <1>2 DEF FinishHost

LEMMA WholeHostInside ==
  ASSUME NEW r, stream \in Seq(Bit), Inside(r, stream)
  PROVE  Inside(WholeHostRead(r), stream)
<1> DEFINE mode  == ReadBits(stream, r, 2)
           index == ReadBits(stream, mode, HostBits)
<1>1. Inside(mode, stream) /\ Inside(index, stream)
  BY ReadBitsInside, ReadWidths
<1> QED
  BY <1>1, ReadSegmentInside, ReadIndexInside, FailInside, ReadWidths DEF WholeHostRead

LEMMA ReadHostInv ==
  ASSUME DecoderInv, ReadHost
  PROVE  DecoderInv'
<1> DEFINE flag   == ReadBits(stream, ReaderAt(pos), 1)
           labels == ReadBits(stream, flag, 3)
           whole  == WholeHostRead(flag)
<1>1. Inside(flag, stream) /\ Inside(labels, stream) /\ Inside(whole, stream)
  BY ReaderAtInside, ReadBitsInside, WholeHostInside DEF DecoderInv
<1>2. labels.ok => labels.val \in 0..7
  BY <1>1, ShortReads DEF DecoderInv
<1> HIDE DEF flag, labels, whole
<1>3. CASE Reject
  BY <1>3, RejectInv
<1>4. CASE labels.ok /\ Consume(labels, "labels") /\ nth' = 0
           /\ count' = labels.val + 2 /\ UNCHANGED indexCode
  BY <1>1, <1>2, <1>4
     DEF DecoderInv, DecoderLimits, PastHost, PastTld, Consume, Inside, MaxLabels
<1>5. CASE FinishHost(whole.val, whole)
  BY <1>1, <1>5, FinishHostInv
<1> QED
  BY <1>3, <1>4, <1>5 DEF ReadHost, flag, labels, whole

LEMMA ReadLabelInv ==
  ASSUME DecoderInv, ReadLabel
  PROVE  DecoderInv'
<1> DEFINE label == ReadEntry(stream, ReaderAt(pos), Hosts, HostBits)
           txt  == (IF nth = 0 THEN <<>> ELSE host \o <<".">>) \o label.val
<1>1. Inside(label, stream)
  BY ReaderAtInside, ReadEntryInside, ReadWidths DEF DecoderInv
<1>2. count \in 2..MaxLabels /\ nth \in 0..(count - 1)
  BY DEF ReadLabel, DecoderInv, DecoderLimits
<1> HIDE DEF label, txt
<1>3. CASE Reject
  BY <1>3, RejectInv
<1>4. CASE nth + 1 < count /\ Consume(label, "labels") /\ nth' = nth + 1
           /\ UNCHANGED <<indexCode, count>>
  BY <1>1, <1>2, <1>4
     DEF DecoderInv, DecoderLimits, PastHost, PastTld, Consume, Inside, MaxLabels
<1>5. CASE FinishHost(txt, label)
  BY <1>1, <1>5, FinishHostInv
<1> QED
  BY <1>3, <1>4, <1>5 DEF ReadLabel, label, txt

LEMMA ReadTldInv ==
  ASSUME DecoderInv, ReadTld
  PROVE  DecoderInv'
<1> DEFINE mode  == ReadBits(stream, ReaderAt(pos), 1)
           index == ReadBits(stream, mode, TldBits)
<1>1. Inside(mode, stream) /\ Inside(index, stream)
  BY ReaderAtInside, ReadBitsInside, ReadWidths DEF DecoderInv
<1>2. Inside(Text(index.pos, <<>>), stream)
  BY <1>1, TextInside DEF Inside
<1>3. Inside(TldRead, stream)
  BY <1>1, <1>2, ReadSegmentInside, ReadIndexInside, ReadWidths DEF TldRead, DecoderInv
<1>4. dstep = "tld" /\ ~TooLong(host)
  BY DEF ReadTld, DecoderInv, DecoderLimits, PastHost
<1>5. CASE Reject
  BY <1>5, RejectInv
<1>6. CASE /\ ~TooLong(TldRead.val) /\ Consume(TldRead, "literal")
           /\ tld' = TldRead.val /\ UNCHANGED <<indexCode, host>>
  BY <1>3, <1>4, <1>6
     DEF DecoderInv, DecoderLimits, PastHost, PastTld, Consume, Inside, TooLong
<1> QED
  BY <1>5, <1>6 DEF ReadTld

(* Behind the TLD the two texts are settled; what is left of the invariant *)
(* is the position and the loop.                                           *)
LEMMA PastTldInv ==
  ASSUME DecoderInv, PastTld, NEW r, Inside(r, stream), NEW next, Consume(r, next),
         UNCHANGED <<indexCode, host, tld>>,
         next \in {"segments", "pairs", "parts"} =>
           count' \in 1..MaxSegments /\ nth' \in 0..(count' - 1),
         next # "labels"
  PROVE  DecoderInv'
BY DEF DecoderInv, DecoderLimits, PastHost, PastTld, Consume, Inside, TooLong

LEMMA ReadLiteralInv ==
  ASSUME DecoderInv, ReadLiteral
  PROVE  DecoderInv'
<1>1. Inside(LiteralRead, stream)
  <2>1. indexCode = 0 \/ indexCode = 1 \/ indexCode = 2 \/ indexCode = 3
    BY DEF DecoderInv
  <2> QED
    BY <2>1, ReaderAtInside, ReadSegmentInside, TextInside DEF LiteralRead, DecoderInv
<1>2. PastTld
  BY DEF ReadLiteral, PastTld, PastHost
<1>3. CASE Reject
  BY <1>3, RejectInv
<1>4. CASE Consume(LiteralRead, "flags") /\ UNCHANGED <<indexCode, host, tld>>
  BY <1>1, <1>2, <1>4, PastTldInv
<1> QED
  BY <1>3, <1>4 DEF ReadLiteral

LEMMA ReadFlagsInv ==
  ASSUME DecoderInv, ReadFlags
  PROVE  DecoderInv'
<1> DEFINE path     == ReadBits(stream, ReaderAt(pos), 1)
           query    == ReadBits(stream, path, 1)
           fragment == ReadBits(stream, query, 1)
<1>1. Inside(fragment, stream)
  BY ReaderAtInside, ReadBitsInside DEF DecoderInv
<1>2. PastTld
  BY DEF ReadFlags, PastTld, PastHost
<1> HIDE DEF fragment
<1>3. CASE Reject
  BY <1>3, RejectInv
<1>4. CASE Consume(fragment, "path") /\ UNCHANGED <<indexCode, host, tld>>
  BY <1>1, <1>2, <1>4, PastTldInv
<1> QED
  BY <1>3, <1>4 DEF ReadFlags, path, query, fragment

(* The count of a region, in range before its loop is entered. *)
LEMMA ReadCountInv ==
  ASSUME DecoderInv, NEW region \in Regions, NEW loop \in {"segments", "pairs", "parts"},
         NEW next \in {"query", "fragment", "padding"}, NEW tail,
         ReadCount(region, loop, next, tail)
  PROVE  DecoderInv'
<1> DEFINE items == IF region \in regions THEN ReadCompactCount(stream, ReaderAt(pos))
                    ELSE ReaderAt(pos)
           to    == IF items.val = 0 THEN next ELSE loop
<1>1. Inside(items, stream)
  BY ReaderAtInside, ReadCompactCountInside DEF DecoderInv
<1>2. PastTld
  BY DEF ReadCount, PastTld, PastHost, Regions
<1> HIDE DEF items
<1>3. CASE Reject
  BY <1>3, RejectInv
<1>4. CASE /\ items.val \in 0..MaxSegments /\ Consume(items, to)
           /\ nth' = 0 /\ count' = items.val /\ UNCHANGED <<indexCode, host, tld>>
  <2>1. to = loop => count' \in 1..MaxSegments /\ nth' \in 0..(count' - 1)
    BY <1>4, WireLimits
  <2>2. to \in {"segments", "pairs", "parts"} => to = loop
    OBVIOUS
  <2>3. to # "labels"
    OBVIOUS
  <2> HIDE DEF to
  <2> QED
    BY <1>1, <1>2, <1>4, <2>1, <2>2, <2>3, PastTldInv
<1> QED
  BY <1>3, <1>4 DEF ReadCount, items

(* One item of a loop, of any reader. *)
LEMMA ReadItemInv ==
  ASSUME DecoderInv, NEW loop \in {"segments", "pairs", "parts"}, NEW r,
         Inside(r, stream), NEW separator,
         NEW next \in {"query", "fragment", "padding"}, NEW tail,
         ReadItem(loop, r, separator, next, tail)
  PROVE  DecoderInv'
<1> DEFINE more == nth + 1 < count
           to   == IF more THEN loop ELSE next
<1>1. PastTld /\ count \in 1..MaxSegments /\ nth \in 0..(count - 1)
  BY DEF ReadItem, PastTld, PastHost, DecoderInv, DecoderLimits
<1>2. CASE Reject
  BY <1>2, RejectInv
<1>3. CASE Consume(r, to) /\ nth' = nth + 1 /\ UNCHANGED <<indexCode, count, host, tld>>
  <2>1. to = loop => count' \in 1..MaxSegments /\ nth' \in 0..(count' - 1)
    BY <1>1, <1>3
  <2>2. to \in {"segments", "pairs", "parts"} => to = loop
    OBVIOUS
  <2>3. to # "labels"
    OBVIOUS
  <2> HIDE DEF to
  <2> QED
    BY <1>1, <1>3, <2>1, <2>2, <2>3, PastTldInv
<1> QED
  BY <1>2, <1>3 DEF ReadItem

LEMMA PairInside ==
  ASSUME DecoderInv
  PROVE  Inside(PairRead, stream)
<1> DEFINE key   == ReadEntry(stream, ReaderAt(pos), QueryKeys, KeyBits)
           flag  == ReadBits(stream, key, 1)
           value == ReadEntry(stream, flag, QueryValues, ValueBits)
<1>1. Inside(flag, stream) /\ Inside(value, stream)
  BY ReaderAtInside, ReadEntryInside, ReadBitsInside, ReadWidths DEF DecoderInv
<1>2. flag.pos \in 0..Len(stream) /\ value.pos \in 0..Len(stream)
  BY <1>1 DEF Inside
<1> HIDE DEF key, flag, value
<1> QED
  BY <1>1, <1>2, TextInside, FailInside DEF PairRead, key, flag, value

LEMMA CheckPaddingInv ==
  ASSUME DecoderInv, CheckPadding
  PROVE  DecoderInv'
BY DEF DecoderInv, DecoderLimits, PastHost, PastTld, CheckPadding, TooLong

-----------------------------------------------------------------------------
LEMMA DecoderInvInit == DecoderInit => DecoderInv
BY StreamsAreBits, LenProperties
   DEF DecoderInit, Start, DecoderInv, DecoderLimits, PastHost, PastTld

LEMMA DecoderInvStep ==
  ASSUME DecoderInv, [DecoderNext \/ DecoderOver]_dvars
  PROVE  DecoderInv'
<1>1. CASE ReadHeader
  BY <1>1, ReadHeaderInv
<1>2. CASE ReadPort
  BY <1>2, ReadPortInv
<1>3. CASE ReadHost
  BY <1>3, ReadHostInv
<1>4. CASE ReadLabel
  BY <1>4, ReadLabelInv
<1>5. CASE ReadTld
  BY <1>5, ReadTldInv
<1>6. CASE ReadLiteral
  BY <1>6, ReadLiteralInv
<1>7. CASE ReadFlags
  BY <1>7, ReadFlagsInv
<1>8. CASE ReadPathCount \/ ReadQueryCount \/ ReadFragmentCount
  BY <1>8, ReadCountInv DEF ReadPathCount, ReadQueryCount, ReadFragmentCount, Regions
<1>9. CASE ReadPathSegment
  BY <1>9, ReaderAtInside, ReadEntryInside, ReadWidths, ReadItemInv
     DEF ReadPathSegment, DecoderInv
<1>10. CASE ReadQueryPair
  BY <1>10, PairInside, ReadItemInv DEF ReadQueryPair
<1>11. CASE ReadFragmentPart
  BY <1>11, ReaderAtInside, ReadSegmentInside, ReadItemInv DEF ReadFragmentPart, DecoderInv
<1>12. CASE CheckPadding
  BY <1>12, CheckPaddingInv
<1>13. CASE UNCHANGED dvars
  BY <1>13 DEF dvars, DecoderInv, DecoderLimits, PastHost, PastTld, TooLong
<1> QED
  BY <1>1, <1>2, <1>3, <1>4, <1>5, <1>6, <1>7, <1>8, <1>9, <1>10, <1>11, <1>12, <1>13
     DEF DecoderNext, DecoderOver

(* On every stream of bits, no loop of decode_bits is entered for more     *)
(* items than its limit and none runs past its count, no host or TLD       *)
(* beyond MAX_HOST_TLD_LEN gets past its block.                            *)
THEOREM DecoderKeepsLimits == DecoderSpec => []DecoderLimits
<1>1. DecoderInv => DecoderLimits
  BY DEF DecoderInv
<1> QED
  BY <1>1, DecoderInvInit, DecoderInvStep, PTL DEF DecoderSpec

(* No read of decode_bits leaves the stream, and the match on the index    *)
(* code never reaches its unreachable!() arm.                              *)
THEOREM DecoderStaysInside == DecoderSpec => [](pos \in 0..Len(stream) /\ indexCode \in 0..3)
<1>1. DecoderInv => pos \in 0..Len(stream) /\ indexCode \in 0..3
  BY DEF DecoderInv
<1> QED
  BY <1>1, DecoderInvInit, DecoderInvStep, PTL DEF DecoderSpec

-----------------------------------------------------------------------------
(* The texts.  No segment and no dictionary entry is longer than           *)
(* SegmentBudget, whatever the dictionaries are.                           *)

LEMMA EntriesHaveBound ==
  ASSUME NEW dict \in Seq(Seq(Ascii))
  PROVE  \E n \in Nat : EntriesUpTo(dict, n)
<1> DEFINE N == Len(dict)
           T == {k \in Nat : \E n \in Nat : \A i \in 1..N : i <= k => Spells(dict[i], n)}
<1>1. N \in Nat /\ \A i \in 1..N : dict[i] \in Seq(Characters) /\ Len(dict[i]) \in Nat
  <2>1. \A i \in 1..N : dict[i] \in Seq(Ascii)
    BY ElementOfSeq
  <2>2. Seq(Ascii) \subseteq Seq(Characters)
    BY ClassesAreAscii
  <2> QED
    BY <2>1, <2>2, LenProperties
<1> HIDE DEF N
<1>2. 0 \in T
  <2>1. \A i \in 1..N : i <= 0 => Spells(dict[i], 0)
    OBVIOUS
  <2> QED
    BY <2>1
<1>3. ASSUME NEW k \in 0..(N - 1), k \in T
      PROVE  k + 1 \in T
  <2>1. PICK n \in Nat : \A i \in 1..N : i <= k => Spells(dict[i], n)
    BY <1>3
  <2>2. k + 1 \in 1..N /\ Len(dict[k + 1]) \in Nat
    BY <1>1
  <2> DEFINE m == n + Len(dict[k + 1])
  <2>3. m \in Nat /\ n <= m /\ Len(dict[k + 1]) <= m
    BY <2>2
  <2> HIDE DEF m
  <2>4. ASSUME NEW i \in 1..N, i <= k + 1
        PROVE  Spells(dict[i], m)
    <3>1. CASE i <= k
      BY <2>1, <2>3, <3>1, LongerSpells
    <3>2. CASE i = k + 1
      BY <1>1, <2>3, <3>2 DEF Spells
    <3> QED
      BY <2>4, <3>1, <3>2
  <2> QED
    BY <2>3, <2>4
<1>4. \A k \in 0..N : k \in T
  <2> HIDE DEF T
  <2> QED
    BY <1>1, <1>2, <1>3, UpTo
<1>5. N \in T
  <2> HIDE DEF T
  <2> QED
    BY <1>1, <1>4
<1> QED
  BY <1>1, <1>5 DEF EntriesUpTo, N

AllDictionaries == {Tlds, Hosts, PathTokens, QueryKeys, QueryValues}

LEMMA BudgetBounds ==
  /\ SegmentBudget \in Nat /\ 3 <= SegmentBudget /\ 3 * MaxSymbols <= SegmentBudget
  /\ \A dict \in AllDictionaries :
       dict \in Seq(Seq(Ascii)) /\ EntriesUpTo(dict, SegmentBudget)
<1> DEFINE lengths == {Len(s) : s \in UNION {ToSet(dict) : dict \in AllDictionaries}}
           all     == {3 * MaxSymbols, 3} \cup lengths
<1>1. \A dict \in AllDictionaries : dict \in Seq(Seq(Ascii))
  BY Dictionaries DEF AllDictionaries
<1>2. \A dict \in AllDictionaries : \A i \in 1..Len(dict) :
        dict[i] \in Seq(Characters) /\ dict[i] \in ToSet(dict) /\ Len(dict[i]) \in lengths
  <2>1. ASSUME NEW dict \in AllDictionaries, NEW i \in 1..Len(dict)
        PROVE  dict[i] \in Seq(Characters) /\ dict[i] \in ToSet(dict)
    <3>1. dict[i] \in Seq(Ascii)
      BY <1>1, ElementOfSeq
    <3> QED
      BY <3>1, ClassesAreAscii DEF ToSet
  <2> QED
    BY <2>1
<1>3. lengths \subseteq Nat
  <2>1. ASSUME NEW dict \in AllDictionaries, NEW s \in ToSet(dict)
        PROVE  Len(s) \in Nat
    <3>1. PICK i \in 1..Len(dict) : s = dict[i]
      BY DEF ToSet
    <3> QED
      BY <1>2, <3>1, LenProperties
  <2> QED
    BY <2>1
<1>4. \E bound \in Nat : \A x \in all : x <= bound
  <2>1. \A dict \in AllDictionaries : \E n \in Nat : EntriesUpTo(dict, n)
    BY <1>1, EntriesHaveBound
  <2>2. PICK a \in Nat : EntriesUpTo(Tlds, a)
    BY <2>1 DEF AllDictionaries
  <2>3. PICK b \in Nat : EntriesUpTo(Hosts, b)
    BY <2>1 DEF AllDictionaries
  <2>4. PICK c \in Nat : EntriesUpTo(PathTokens, c)
    BY <2>1 DEF AllDictionaries
  <2>5. PICK d \in Nat : EntriesUpTo(QueryKeys, d)
    BY <2>1 DEF AllDictionaries
  <2>6. PICK e \in Nat : EntriesUpTo(QueryValues, e)
    BY <2>1 DEF AllDictionaries
  <2> DEFINE bound == a + b + c + d + e + 3 * MaxSymbols + 3
  <2>7. bound \in Nat /\ a <= bound /\ b <= bound /\ c <= bound /\ d <= bound /\ e <= bound
        /\ 3 * MaxSymbols <= bound /\ 3 <= bound
    BY SegmentLimits
  <2> HIDE DEF bound
  <2>8. ASSUME NEW dict \in AllDictionaries, NEW s \in ToSet(dict)
        PROVE  Len(s) <= bound
    <3>1. PICK i \in 1..Len(dict) : s = dict[i]
      BY DEF ToSet
    <3>2. \E n \in Nat : n <= bound /\ EntriesUpTo(dict, n)
      BY <2>2, <2>3, <2>4, <2>5, <2>6, <2>7 DEF AllDictionaries
    <3>3. PICK n \in Nat : n <= bound /\ EntriesUpTo(dict, n)
      BY <3>2
    <3>4. Spells(s, bound)
      BY <2>7, <3>1, <3>3, LongerSpells DEF EntriesUpTo
    <3> QED
      BY <3>4 DEF Spells
  <2>9. \A x \in lengths : x <= bound
    BY <2>8
  <2> HIDE DEF lengths
  <2> QED
    BY <2>7, <2>9
<1>5. all \in SUBSET Nat /\ all # {}
  BY <1>3, SegmentLimits
<1>6. SegmentBudget = CHOOSE x \in all : \A y \in all : x >= y
  BY Zenon DEF SegmentBudget, Max, AllDictionaries
<1> HIDE DEF all
<1>7. \E x \in all : \A y \in all : x >= y
  BY <1>4, <1>5, GreatestElement
<1>8. SegmentBudget \in all /\ \A y \in all : SegmentBudget >= y
  BY <1>6, <1>7, Zenon
<1>9. SegmentBudget \in Nat /\ \A y \in all : y <= SegmentBudget
  BY <1>5, <1>8
<1>10. 3 <= SegmentBudget /\ 3 * MaxSymbols <= SegmentBudget
       /\ \A y \in lengths : y <= SegmentBudget
  BY <1>9 DEF all
<1> HIDE DEF lengths
<1> QED
  BY <1>1, <1>2, <1>9, <1>10 DEF EntriesUpTo, Spells

(* What a reader of the decoder returns fits the budget. *)
LEMMA SegmentFits ==
  ASSUME NEW r, stream \in Seq(Bit), Inside(r, stream)
  PROVE  Spells(ReadSegment(stream, r).val, SegmentBudget)
<1>1. 3 * MaxSymbols \in Nat
  BY SegmentLimits
<1> QED
  BY <1>1, ReadSegmentSpells, LongerSpells, BudgetBounds

LEMMA EntryFits ==
  ASSUME NEW r, stream \in Seq(Bit), Inside(r, stream), NEW dict \in AllDictionaries,
         NEW width \in Nat
  PROVE  /\ Spells(ReadEntry(stream, r, dict, width).val, SegmentBudget)
         /\ Spells(ReadIndex(stream, r, dict, width).val, SegmentBudget)
BY ReadEntrySpells, ReadIndexSpells, BudgetBounds

(* The words of the decoder's own are characters. *)
LEMMA OwnCharacters ==
  {"http", "https", "www", "index", "html", "php", "%", ".", ":", "/", "?", "#", "&", "="}
    \subseteq Characters
<1>1. ToSet(Lowers) \subseteq Characters
  <2>1. ASSUME NEW i \in 1..Len(Lowers)
        PROVE  Lowers[i] \in Characters
    BY ClassesAreAscii, ElementOfSeq
  <2> QED
    BY <2>1 DEF ToSet
<1>2. ToSet(Others) \subseteq Characters
  BY ClassesAreAscii
<1>3. {"%", ".", ":", "/", "?", "#", "&", "="} \subseteq ToSet(Others)
  BY CharacterSet
<1> QED
  BY <1>1, <1>2, <1>3, OwnWords

(* A reader's text after a check of its own. *)
PortRange == {NoPort} \cup 0..(Pow2[PortBits] - 1)

LEMMA PortReadFits ==
  ASSUME DecoderInv
  PROVE  PortRead.ok => PortRead.val \in PortRange
<1> DEFINE flag == ReadBits(stream, ReaderAt(pos), 1)
           mode == ReadBits(stream, flag, 2)
           own  == ReadBits(stream, mode, PortBits)
<1>1. Inside(flag, stream) /\ Inside(mode, stream)
  BY ReaderAtInside, ReadBitsInside DEF DecoderInv
<1>2. mode.val \in 0..3 /\ own.val \in 0..(Pow2[PortBits] - 1)
  BY <1>1, ShortReads, ReadBitsInside, ReadWidths DEF DecoderInv
<1>3. flag = [ok |-> flag.ok, pos |-> flag.pos, val |-> flag.val]
      /\ mode = [ok |-> mode.ok, pos |-> mode.pos, val |-> mode.val]
  BY <1>1 DEF Inside
<1>4. PortRead = IF ~flag.ok \/ flag.val = 0 THEN [flag EXCEPT !.val = NoPort]
                 ELSE IF mode.ok /\ mode.val # LiteralPort
                 THEN [mode EXCEPT !.val = ShortPorts[mode.val + 1]]
                 ELSE own
  BY DEF PortRead
<1> HIDE DEF flag, mode, own
<1>5. [flag EXCEPT !.val = NoPort].val = NoPort
  BY <1>3
<1>6. [mode EXCEPT !.val = ShortPorts[mode.val + 1]].val = ShortPorts[mode.val + 1]
  BY <1>3
<1>7. mode.val # LiteralPort => ShortPorts[mode.val + 1] \in 0..(Pow2[PortBits] - 1)
  <2>1. mode.val # LiteralPort => mode.val + 1 \in 1..LiteralPort
    BY <1>2 DEF LiteralPort
  <2> QED
    BY <2>1, WireLimits, CharacterSet
<1> QED
  BY <1>2, <1>4, <1>5, <1>6, <1>7 DEF PortRange

LEMMA WholeHostFits ==
  ASSUME NEW r, stream \in Seq(Bit), Inside(r, stream)
  PROVE  WholeHostRead(r).val \in Seq(Characters)
<1> DEFINE mode  == ReadBits(stream, r, 2)
           index == ReadBits(stream, mode, HostBits)
<1>1. Inside(mode, stream) /\ Inside(index, stream)
  BY ReadBitsInside, ReadWidths
<1>2. TextFail(mode).val \in Seq(Characters)
  BY EmptySeq DEF TextFail
<1>3. ReadIndex(stream, mode, Hosts, HostBits).val \in Seq(Characters)
  BY <1>1, EntryFits, ReadWidths DEF AllDictionaries, Spells
<1>4. ReadSegment(stream, index).val \in Seq(Characters)
      /\ ReadSegment(stream, mode).val \in Seq(Characters)
  BY <1>1, SegmentFits DEF Spells
<1> QED
  BY <1>2, <1>3, <1>4 DEF WholeHostRead

LEMMA TldFits ==
  ASSUME DecoderInv
  PROVE  TldRead.val \in Seq(Characters)
<1> DEFINE mode  == ReadBits(stream, ReaderAt(pos), 1)
           index == ReadBits(stream, mode, TldBits)
<1>1. Inside(mode, stream) /\ stream \in Seq(Bit)
  BY ReaderAtInside, ReadBitsInside DEF DecoderInv
<1>2. Text(index.pos, <<>>).val \in Seq(Characters)
  BY EmptySeq DEF Text
<1>3. ReadIndex(stream, mode, Tlds, TldBits).val \in Seq(Characters)
  BY <1>1, EntryFits, ReadWidths DEF AllDictionaries, Spells
<1>4. ReadSegment(stream, mode).val \in Seq(Characters)
  BY <1>1, SegmentFits DEF Spells
<1> QED
  BY <1>2, <1>3, <1>4 DEF TldRead

(* The index segment, of whichever kind, is no longer than another one. *)
LEMMA LiteralFits ==
  ASSUME DecoderInv
  PROVE  Spells(LiteralRead.val, SegmentBudget)
<1>1. Spells(Text(pos, <<>>).val, SegmentBudget)
  BY EmptySpells, BudgetBounds DEF Text
<1>2. \A w \in {"html", "php"} : Spells(<<"index", ".", w>>, SegmentBudget)
  BY OwnCharacters, BudgetBounds DEF Spells
<1>3. Spells(Text(pos, <<"index", ".", "html">>).val, SegmentBudget)
      /\ Spells(Text(pos, <<"index", ".", "php">>).val, SegmentBudget)
  BY <1>2 DEF Text
<1>4. Spells(ReadSegment(stream, ReaderAt(pos)).val, SegmentBudget)
  BY ReaderAtInside, SegmentFits DEF DecoderInv
<1>5. indexCode = 0 \/ indexCode = 1 \/ indexCode = 2 \/ indexCode = 3
  BY DEF DecoderInv
<1> QED
  BY <1>1, <1>3, <1>4, <1>5 DEF LiteralRead

LEMMA PairFits ==
  ASSUME DecoderInv
  PROVE  Spells(PairRead.val, 2 * SegmentBudget + 1)
<1> DEFINE key   == ReadEntry(stream, ReaderAt(pos), QueryKeys, KeyBits)
           flag  == ReadBits(stream, key, 1)
           value == ReadEntry(stream, flag, QueryValues, ValueBits)
           n     == SegmentBudget
<1>1. Inside(flag, stream) /\ Spells(key.val, n) /\ stream \in Seq(Bit)
  BY ReaderAtInside, ReadEntryInside, ReadBitsInside, ReadWidths, EntryFits
     DEF DecoderInv, AllDictionaries
<1>2. Spells(value.val, n)
  BY <1>1, EntryFits, ReadWidths DEF AllDictionaries
<1>3. PairRead = IF flag.ok /\ flag.val = 0 THEN Text(flag.pos, key.val)
                 ELSE IF value.ok THEN Text(value.pos, key.val \o <<"=">> \o value.val)
                 ELSE TextFail(value)
  BY DEF PairRead
<1> HIDE DEF key, flag, value
<1>4. n \in Nat /\ n <= 2 * n + 1 /\ (n + 1) + n = 2 * n + 1 /\ n + 1 \in Nat
      /\ 2 * n + 1 \in Nat
  BY BudgetBounds
<1> HIDE DEF n
<1>5. Spells(key.val, 2 * n + 1)
  BY <1>1, <1>4, LongerSpells
<1>6. Spells(key.val \o <<"=">> \o value.val, 2 * n + 1)
  <2>1. Spells(<<"=">>, 1)
    BY OwnCharacters, CharacterSpells
  <2>2. Spells(key.val \o <<"=">>, n + 1)
    BY <1>1, <1>4, <2>1, ConcatSpells
  <2>3. Spells((key.val \o <<"=">>) \o value.val, (n + 1) + n)
    BY <1>2, <1>4, <2>2, ConcatSpells
  <2> QED
    BY <1>4, <2>3
<1>7. Spells(<<>>, 2 * n + 1)
  BY <1>4, EmptySpells
<1>8. PairRead.val \in {key.val, key.val \o <<"=">> \o value.val, <<>>}
  BY <1>3 DEF Text, TextFail
<1> QED
  BY <1>5, <1>6, <1>7, <1>8 DEF n

-----------------------------------------------------------------------------
(* What is known of the texts between two steps. *)

Item == SegmentBudget + 1

(* The units of one Item the result may have grown by behind its head: one *)
(* per path segment and fragment part, two per query pair, one for the     *)
(* index segment.                                                          *)
Units(step, n) ==
  CASE step = "path" -> 0
    [] step = "segments" -> n
    [] step = "query" -> MaxSegments + 1
    [] step = "pairs" -> MaxSegments + 1 + 2 * n
    [] step = "fragment" -> 3 * MaxSegments + 1
    [] step = "parts" -> 3 * MaxSegments + 1 + n
    [] step \in {"padding", "accepted"} -> 4 * MaxSegments + 1

RegionSteps ==
  {"path", "segments", "query", "pairs", "fragment", "parts", "padding", "accepted"}

(* The locals hold what their Rust types say. *)
TextsTyped ==
  /\ dstep \in DecoderSteps
  /\ https \in BOOLEAN /\ www \in BOOLEAN /\ port \in PortRange
  /\ nth \in Nat /\ count \in Nat
  /\ host \in Seq(Characters) /\ tld \in Seq(Characters)
  /\ literal \in Seq(Characters) /\ result \in Seq(Characters)
  /\ regions \subseteq Regions

(* TextWithinBudget, and what it needs: nothing is joined to a host before *)
(* its first label, and the index segment is one segment.                  *)
Bounded ==
  /\ Len(literal) <= SegmentBudget
  /\ dstep \in {"header", "port", "host"} => host = <<>>
  /\ dstep = "labels" => Len(host) <= nth * Item
  /\ dstep \in RegionSteps => Len(result) <= Len(HeadOfResult) + Item * Units(dstep, nth)

TextInv == DecoderInv /\ TextsTyped /\ Bounded

LEMMA HeadType ==
  ASSUME TextsTyped
  PROVE  HeadOfResult \in Seq(Characters)
<1> DEFINE S == Seq(Characters)
           scheme == <<IF https THEN "https" ELSE "http", ":", "/", "/">>
           named  == IF port \in {NoPort, DefaultPortOf(https)} THEN <<>>
                     ELSE <<":", PortText[port]>>
           web    == IF www THEN <<"www", ".">> ELSE <<>>
           suffix == IF tld = <<>> THEN <<>> ELSE <<".">> \o tld
<1>1. \A s, t \in S : s \o t \in S
  BY ConcatProperties
<1>2. scheme \in S /\ web \in S /\ host \in S
  BY OwnCharacters, EmptySeq DEF TextsTyped
<1>3. named \in S
  <2>1. port # NoPort => PortText[port] \in Characters
    BY CharacterSet DEF TextsTyped, PortRange, Characters
  <2> QED
    BY <2>1, OwnCharacters, EmptySeq
<1>4. suffix \in S
  <2>1. <<".">> \in S /\ tld \in S /\ <<>> \in S
    BY OwnCharacters, EmptySeq DEF TextsTyped
  <2> HIDE DEF S
  <2> QED
    BY <1>1, <2>1
<1>5. HeadOfResult = (((scheme \o web) \o host) \o suffix) \o named
  BY DEF HeadOfResult
<1> HIDE DEF S, scheme, named, web, suffix
<1>6. (scheme \o web) \o host \in S
  BY <1>1, <1>2
<1>7. (((scheme \o web) \o host) \o suffix) \o named \in S
  BY <1>1, <1>3, <1>4, <1>6
<1> QED
  BY <1>5, <1>7 DEF S

LEMMA PathEndFits ==
  ASSUME TextInv
  PROVE  Spells(PathEnd, Item)
<1>1. Item \in Nat /\ Item = 1 + SegmentBudget /\ SegmentBudget \in Nat
  BY BudgetBounds DEF Item
<1>2. Spells(<<"/">>, 1) /\ Spells(literal, SegmentBudget)
  BY OwnCharacters, CharacterSpells DEF TextInv, TextsTyped, Bounded, Spells
<1>3. Spells(<<"/">> \o literal, Item)
  BY <1>1, <1>2, ConcatSpells
<1> QED
  BY <1>1, <1>3, EmptySpells DEF PathEnd

-----------------------------------------------------------------------------
(* The steps, one lemma for each block of decode_bits. *)

LEMMA RejectText ==
  ASSUME TextInv, Reject
  PROVE  TextsTyped' /\ Bounded'
BY DEF TextInv, TextsTyped, Bounded, Reject, DecoderSteps, RegionSteps

LEMMA ReadHeaderText ==
  ASSUME TextInv, ReadHeader
  PROVE  TextsTyped' /\ Bounded'
<1>1. CASE Reject
  BY <1>1, RejectText
<1>2. CASE /\ dstep' = "port" /\ https' \in BOOLEAN /\ www' \in BOOLEAN
           /\ UNCHANGED <<port, nth, count, host, tld, literal, regions, result>>
  BY <1>2 DEF TextInv, TextsTyped, Bounded, ReadHeader, DecoderSteps, RegionSteps
<1> QED
  BY <1>1, <1>2 DEF ReadHeader, Consume

LEMMA ReadPortText ==
  ASSUME TextInv, ReadPort
  PROVE  TextsTyped' /\ Bounded'
<1>1. CASE Reject
  BY <1>1, RejectText
<1>2. CASE /\ PortRead.ok /\ dstep' = "host" /\ port' = PortRead.val
           /\ UNCHANGED <<https, www, nth, count, host, tld, literal, regions, result>>
  BY <1>2, PortReadFits
     DEF TextInv, TextsTyped, Bounded, ReadPort, DecoderSteps, RegionSteps
<1> QED
  BY <1>1, <1>2 DEF ReadPort, Consume

LEMMA FinishHostText ==
  ASSUME TextInv, NEW txt \in Seq(Characters), NEW r, FinishHost(txt, r)
  PROVE  TextsTyped' /\ Bounded'
<1>1. CASE Reject
  BY <1>1, RejectText
<1>2. CASE /\ dstep' = "tld" /\ host' = txt
           /\ UNCHANGED <<https, www, port, nth, count, tld, literal, regions, result>>
  BY <1>2 DEF TextInv, TextsTyped, Bounded, DecoderSteps, RegionSteps
<1> QED
  BY <1>1, <1>2 DEF FinishHost, Consume

LEMMA ReadHostText ==
  ASSUME TextInv, ReadHost
  PROVE  TextsTyped' /\ Bounded'
<1> DEFINE flag   == ReadBits(stream, ReaderAt(pos), 1)
           labels == ReadBits(stream, flag, 3)
           whole  == WholeHostRead(flag)
<1>1. Inside(flag, stream) /\ labels.val \in 0..7
  BY ReaderAtInside, ReadBitsInside, ShortReads, ZenonT(60) DEF TextInv, DecoderInv
<1>2. whole.val \in Seq(Characters)
  BY <1>1, WholeHostFits DEF TextInv, DecoderInv
<1> HIDE DEF flag, labels, whole
<1>3. CASE Reject
  BY <1>3, RejectText
<1>4. CASE /\ dstep' = "labels" /\ nth' = 0 /\ count' = labels.val + 2
           /\ UNCHANGED <<https, www, port, host, tld, literal, regions, result>>
  <2>1. Len(host') <= nth' * Item
    <3>1. host = <<>> /\ 0 * Item = 0
      BY BudgetBounds DEF TextInv, Bounded, ReadHost, Item
    <3> QED
      BY <1>4, <3>1
  <2> QED
    BY <1>1, <1>4, <2>1 DEF TextInv, TextsTyped, Bounded, DecoderSteps, RegionSteps
<1>5. CASE FinishHost(whole.val, whole)
  BY <1>2, <1>5, FinishHostText
<1> QED
  BY <1>3, <1>4, <1>5 DEF ReadHost, Consume, flag, labels, whole

(* Each label adds itself and, from the second on, a dot. *)
LEMMA ReadLabelText ==
  ASSUME TextInv, ReadLabel
  PROVE  TextsTyped' /\ Bounded'
<1> DEFINE label == ReadEntry(stream, ReaderAt(pos), Hosts, HostBits)
           txt  == (IF nth = 0 THEN <<>> ELSE host \o <<".">>) \o label.val
<1>1. Spells(label.val, SegmentBudget)
  BY ReaderAtInside, EntryFits, ReadWidths DEF TextInv, DecoderInv, AllDictionaries
<1>2. SegmentBudget \in Nat /\ Item = SegmentBudget + 1 /\ Item \in Nat
  BY BudgetBounds DEF Item
<1>3. nth \in Nat /\ nth * Item \in Nat /\ (nth + 1) * Item = nth * Item + Item
  <2>1. \A a, b \in Nat : a * b \in Nat /\ (a + 1) * b = a * b + b
    OBVIOUS
  <2> QED
    BY <1>2, <2>1 DEF TextInv, TextsTyped
<1>4. Spells(host, nth * Item)
  BY DEF TextInv, TextsTyped, Bounded, ReadLabel, Spells
<1> HIDE DEF label
<1>5. Spells(txt, (nth + 1) * Item)
  <2>1. CASE nth = 0
    <3>1. txt = label.val
      BY <1>1, <2>1 DEF Spells
    <3>2. SegmentBudget <= (nth + 1) * Item /\ (nth + 1) * Item \in Nat
      BY <1>2, <1>3
    <3> QED
      BY <1>1, <1>2, <3>1, <3>2, LongerSpells
  <2>2. CASE nth # 0
    <3>1. Spells(<<".">>, 1)
      BY OwnCharacters, CharacterSpells
    <3>2. Spells(host \o <<".">>, nth * Item + 1) /\ nth * Item + 1 \in Nat
      BY <1>3, <1>4, <3>1, ConcatSpells
    <3>3. Spells((host \o <<".">>) \o label.val, (nth * Item + 1) + SegmentBudget)
      BY <1>1, <1>2, <3>2, ConcatSpells
    <3>4. (nth * Item + 1) + SegmentBudget = (nth + 1) * Item
      BY <1>2, <1>3
    <3> QED
      BY <2>2, <3>3, <3>4
  <2> QED
    BY <2>1, <2>2
<1> HIDE DEF txt
<1>6. txt \in Seq(Characters) /\ Len(txt) <= (nth + 1) * Item
  BY <1>5 DEF Spells
<1>7. CASE Reject
  BY <1>7, RejectText
<1>8. CASE /\ dstep' = "labels" /\ nth' = nth + 1 /\ host' = txt
           /\ UNCHANGED <<https, www, port, count, tld, literal, regions, result>>
  BY <1>6, <1>8 DEF TextInv, TextsTyped, Bounded, DecoderSteps, RegionSteps
<1>9. CASE FinishHost(txt, label)
  BY <1>6, <1>9, FinishHostText
<1> QED
  BY <1>7, <1>8, <1>9 DEF ReadLabel, Consume, label, txt

LEMMA ReadTldText ==
  ASSUME TextInv, ReadTld
  PROVE  TextsTyped' /\ Bounded'
<1>1. CASE Reject
  BY <1>1, RejectText
<1>2. CASE /\ dstep' = "literal" /\ tld' = TldRead.val
           /\ UNCHANGED <<https, www, port, nth, count, host, literal, regions, result>>
  BY <1>2, TldFits DEF TextInv, TextsTyped, Bounded, DecoderSteps, RegionSteps
<1> QED
  BY <1>1, <1>2 DEF ReadTld, Consume

LEMMA ReadLiteralText ==
  ASSUME TextInv, ReadLiteral
  PROVE  TextsTyped' /\ Bounded'
<1>1. CASE Reject
  BY <1>1, RejectText
<1>2. CASE /\ dstep' = "flags" /\ literal' = LiteralRead.val
           /\ UNCHANGED <<https, www, port, nth, count, host, tld, regions, result>>
  BY <1>2, LiteralFits DEF TextInv, TextsTyped, Bounded, Spells, DecoderSteps, RegionSteps
<1> QED
  BY <1>1, <1>2 DEF ReadLiteral, Consume

(* The result starts as its head. *)
LEMMA ReadFlagsText ==
  ASSUME TextInv, ReadFlags
  PROVE  TextsTyped' /\ Bounded'
<1>1. HeadOfResult \in Seq(Characters) /\ Len(HeadOfResult) \in Nat
  BY HeadType, LenProperties DEF TextInv
<1>2. CASE Reject
  BY <1>2, RejectText
<1>3. CASE /\ dstep' = "path" /\ regions' \subseteq Regions /\ result' = HeadOfResult
           /\ UNCHANGED <<https, www, port, nth, count, host, tld, literal>>
  <2>1. HeadOfResult' = HeadOfResult
    BY <1>3 DEF HeadOfResult, DefaultPortOf
  <2>2. Item * Units("path", nth') = 0
    BY BudgetBounds DEF Item, Units
  <2>3. Len(result') <= Len(HeadOfResult') + Item * Units(dstep', nth')
    BY <1>1, <1>3, <2>1, <2>2
  <2>4. result' \in Seq(Characters)
    BY <1>1, <1>3
  <2> HIDE DEF HeadOfResult
  <2> QED
    BY <1>3, <2>3, <2>4 DEF TextInv, TextsTyped, Bounded, DecoderSteps
<1> QED
  BY <1>2, <1>3 DEF ReadFlags, Consume

(* A longer text fits a larger number of units. *)
LEMMA GrownFits ==
  ASSUME NEW s, NEW head \in Nat, NEW a \in Nat, s \in Seq(Characters),
         Len(s) <= head + Item * a,
         NEW t \in Nat, NEW tail, Spells(tail, Item * t),
         NEW b \in Nat, a + t <= b
  PROVE  s \o tail \in Seq(Characters) /\ Len(s \o tail) <= head + Item * b
<1>1. Item \in Nat
  BY BudgetBounds DEF Item
<1>2. Item * a \in Nat /\ Item * t \in Nat /\ Item * b \in Nat
      /\ Item * a + Item * t <= Item * b
  <2>1. \A i, x, y \in Nat : i * x \in Nat /\ i * (x + y) = i * x + i * y
    OBVIOUS
  <2>2. b - (a + t) \in Nat /\ (a + t) + (b - (a + t)) = b /\ a + t \in Nat
    OBVIOUS
  <2>3. Item * b = Item * (a + t) + Item * (b - (a + t)) /\ Item * (b - (a + t)) \in Nat
    BY <1>1, <2>1, <2>2
  <2>4. Item * (a + t) = Item * a + Item * t /\ Item * (a + t) \in Nat
    BY <1>1, <2>1, <2>2
  <2> QED
    BY <1>1, <2>1, <2>3, <2>4
<1>3. head + Item * a \in Nat /\ Spells(s, head + Item * a)
  BY <1>2 DEF Spells
<1>4. Spells(s \o tail, (head + Item * a) + Item * t)
  BY <1>2, <1>3, ConcatSpells
<1>5. (head + Item * a) + Item * t <= head + Item * b
  BY <1>2
<1>6. Len(s \o tail) \in Nat
  BY <1>4, LenProperties DEF Spells
<1> QED
  BY <1>2, <1>4, <1>5, <1>6 DEF Spells

(* Behind the flags the head stays as it is. *)
LEMMA RegionText ==
  ASSUME TextInv, dstep \in RegionSteps, dstep' \in RegionSteps,
         nth' \in Nat, count' \in Nat,
         result' \in Seq(Characters),
         Len(result') <= Len(HeadOfResult) + Item * Units(dstep', nth'),
         UNCHANGED <<https, www, port, host, tld, literal, regions>>
  PROVE  TextsTyped' /\ Bounded'
<1>1. HeadOfResult' = HeadOfResult
  BY DEF HeadOfResult, DefaultPortOf
<1>2. dstep' \in DecoderSteps /\ dstep' \notin {"header", "port", "host", "labels"}
  BY DEF RegionSteps, DecoderSteps
<1> HIDE DEF HeadOfResult
<1> QED
  BY <1>1, <1>2 DEF TextInv, TextsTyped, Bounded

LEMMA Grouped ==
  ASSUME NEW a \in Seq(Characters), NEW b \in Seq(Characters), NEW c \in Seq(Characters)
  PROVE  a \o b \o c = a \o (b \o c)
<1>1. \A S : \A s, t, u \in Seq(S) : (s \o t) \o u = s \o (t \o u)
  BY ConcatAssociative, Zenon
<1> QED
  BY <1>1

(* The counters of a loop. *)
LEMMA LoopNumbers ==
  /\ 0..MaxSegments \subseteq Nat
  /\ \A c \in 1..MaxSegments : \A n \in 0..(c - 1) :
       n \in 0..MaxSegments /\ n + 1 \in 0..MaxSegments
<1>1. MaxSegments \in Nat
  BY WireLimits
<1> QED
  BY <1>1

LEMMA ReadCountText ==
  ASSUME TextInv, NEW region \in RegionSteps, NEW loop \in RegionSteps,
         NEW next \in RegionSteps, NEW t \in Nat, NEW tail, Spells(tail, Item * t),
         \A n, m \in Nat : /\ Units(region, n) \in Nat /\ Units(loop, m) \in Nat
                           /\ Units(next, m) \in Nat
                           /\ Units(region, n) <= Units(loop, m)
                           /\ Units(region, n) + t <= Units(next, m),
         ReadCount(region, loop, next, tail)
  PROVE  TextsTyped' /\ Bounded'
<1> DEFINE items == IF region \in regions THEN ReadCompactCount(stream, ReaderAt(pos))
                    ELSE ReaderAt(pos)
           head  == Len(HeadOfResult)
           done  == Units(region, nth)
<1>1. head \in Nat
  BY HeadType, LenProperties DEF TextInv
<1>2. dstep = region /\ nth \in Nat /\ done \in Nat /\ result \in Seq(Characters)
      /\ Len(result) <= head + Item * done
  BY DEF ReadCount, TextInv, TextsTyped, Bounded
<1>3. 0 \in Nat /\ Spells(<<>>, Item * 0)
  BY BudgetBounds, EmptySpells DEF Item
<1> HIDE DEF items, head, done
<1>4. CASE Reject
  BY <1>4, RejectText
<1>5. CASE /\ items.val \in 0..MaxSegments
           /\ dstep' = (IF items.val = 0 THEN next ELSE loop)
           /\ nth' = 0 /\ count' = items.val
           /\ result' = (IF items.val = 0 THEN result \o tail ELSE result)
           /\ UNCHANGED <<https, www, port, host, tld, literal, regions>>
  <2>1. count' \in Nat /\ nth' \in Nat /\ dstep \in RegionSteps /\ dstep' \in RegionSteps
    BY <1>2, <1>3, <1>5, LoopNumbers, Zenon
  <2>2. Units(next, 0) \in Nat /\ Units(loop, 0) \in Nat
        /\ done <= Units(loop, 0) /\ done + t <= Units(next, 0)
    BY <1>2 DEF done
  <2>3. result' \in Seq(Characters) /\ Len(result') <= head + Item * Units(dstep', nth')
    <3>1. CASE items.val = 0
      <4>1. result \o tail \in Seq(Characters)
            /\ Len(result \o tail) <= head + Item * Units(next, 0)
        BY <1>1, <1>2, <2>2, GrownFits
      <4> QED
        BY <1>5, <3>1, <4>1
    <3>2. CASE items.val # 0
      <4>1. result \o <<>> \in Seq(Characters)
            /\ Len(result \o <<>>) <= head + Item * Units(loop, 0)
        <5>1. done + 0 <= Units(loop, 0)
          BY <1>2, <2>2
        <5> QED
          BY <1>1, <1>2, <1>3, <2>2, <5>1, GrownFits
      <4>2. result \o <<>> = result
        BY <1>2
      <4> QED
        BY <1>5, <3>2, <4>1, <4>2
    <3> QED
      BY <3>1, <3>2
  <2> QED
    BY <1>5, <2>1, <2>3, RegionText DEF head
<1> QED
  BY <1>4, <1>5 DEF ReadCount, Consume, items

(* One item of a loop: with its separator it takes w units, the tail t. *)
LEMMA ReadItemText ==
  ASSUME TextInv, NEW loop \in {"segments", "pairs", "parts"}, NEW next \in RegionSteps,
         NEW separator \in Characters, NEW r,
         NEW w \in Nat, Spells(<<separator>> \o r.val, Item * w),
         NEW t \in Nat, NEW tail, Spells(tail, Item * t),
         \A n \in 0..MaxSegments : \A m \in Nat :
           /\ Units(loop, n) \in Nat /\ Units(next, m) \in Nat
           /\ Units(loop, n) + t <= Units(next, m),
         \A n \in Nat : Units(loop, n + 1) = Units(loop, n) + w,
         r.val \in Seq(Characters),
         ReadItem(loop, r, separator, next, tail)
  PROVE  TextsTyped' /\ Bounded'
<1> DEFINE head == Len(HeadOfResult)
           txt == result \o <<separator>> \o r.val
           more == nth + 1 < count
           done == Units(loop, nth)
           then == Units(loop, nth + 1)
<1>1. head \in Nat
  BY HeadType, LenProperties DEF TextInv
<1>2. count \in 1..MaxSegments /\ nth \in 0..(count - 1)
  BY DEF ReadItem, TextInv, DecoderInv, DecoderLimits
<1>3. nth \in 0..MaxSegments /\ nth + 1 \in 0..MaxSegments
  BY <1>2, LoopNumbers
<1>4. nth \in Nat /\ nth + 1 \in Nat /\ count \in Nat
  BY <1>3, LoopNumbers DEF TextInv, TextsTyped
<1>5. dstep = loop /\ loop \in RegionSteps
      /\ result \in Seq(Characters) /\ Len(result) <= head + Item * done
  BY DEF ReadItem, TextInv, TextsTyped, Bounded, RegionSteps
<1>6. done \in Nat /\ then \in Nat /\ done + w = then /\ Units(next, nth + 1) \in Nat
      /\ then + t <= Units(next, nth + 1)
  BY <1>3, <1>4
<1> HIDE DEF head, done, then
<1>7. txt \in Seq(Characters) /\ Len(txt) <= head + Item * then
  <2>1. txt = result \o (<<separator>> \o r.val)
    <3>1. <<separator>> \in Seq(Characters)
      OBVIOUS
    <3> QED
      BY <1>5, <3>1, Grouped
  <2>2. done + w <= then
    BY <1>6
  <2> HIDE DEF txt
  <2> QED
    BY <1>1, <1>5, <1>6, <2>1, <2>2, GrownFits
<1> HIDE DEF txt
<1>8. txt \o tail \in Seq(Characters) /\ Len(txt \o tail) <= head + Item * Units(next, nth + 1)
  BY <1>1, <1>6, <1>7, GrownFits
<1>9. CASE Reject
  BY <1>9, RejectText
<1>10. CASE /\ dstep' = (IF more THEN loop ELSE next)
           /\ nth' = nth + 1
           /\ result' = (IF more THEN txt ELSE txt \o tail)
           /\ UNCHANGED <<https, www, port, count, host, tld, literal, regions>>
  <2>1. dstep \in RegionSteps /\ dstep' \in RegionSteps /\ nth' \in Nat /\ count' \in Nat
    BY <1>4, <1>5, <1>10
  <2>2. result' \in Seq(Characters) /\ Len(result') <= head + Item * Units(dstep', nth')
    <3>1. CASE more
      BY <1>7, <1>10, <3>1 DEF then
    <3>2. CASE ~more
      BY <1>8, <1>10, <3>2
    <3> QED
      BY <3>1, <3>2
  <2> QED
    BY <1>10, <2>1, <2>2, RegionText DEF head
<1> QED
  BY <1>9, <1>10 DEF ReadItem, Consume, txt

(* How the regions follow each other. *)
LEMMA UnitsFollow ==
  ASSUME NEW n \in Nat, NEW m \in Nat
  PROVE  /\ \A step \in RegionSteps : Units(step, n) \in Nat
         /\ Units("path", n) <= Units("segments", m)
         /\ Units("path", n) + 1 <= Units("query", m)
         /\ n <= MaxSegments => Units("segments", n) + 1 <= Units("query", m)
         /\ Units("query", n) <= Units("pairs", m)
         /\ Units("query", n) <= Units("fragment", m)
         /\ n <= MaxSegments => Units("pairs", n) <= Units("fragment", m)
         /\ Units("fragment", n) <= Units("parts", m)
         /\ Units("fragment", n) <= Units("padding", m)
         /\ n <= MaxSegments => Units("parts", n) <= Units("padding", m)
         /\ Units("segments", n + 1) = Units("segments", n) + 1
         /\ Units("pairs", n + 1) = Units("pairs", n) + 2
         /\ Units("parts", n + 1) = Units("parts", n) + 1
<1>1. MaxSegments \in Nat
  BY WireLimits
<1>2. \A step \in RegionSteps : Units(step, n) \in Nat
  BY <1>1 DEF RegionSteps, Units
<1>3. \A k \in Nat :
        /\ Units("path", k) = 0 /\ Units("segments", k) = k
        /\ Units("query", k) = MaxSegments + 1
        /\ Units("pairs", k) = MaxSegments + 1 + 2 * k
        /\ Units("fragment", k) = 3 * MaxSegments + 1
        /\ Units("parts", k) = 3 * MaxSegments + 1 + k
        /\ Units("padding", k) = 4 * MaxSegments + 1
  BY DEF Units
<1>4. n + 1 \in Nat
  OBVIOUS
<1> QED
  BY <1>1, <1>2, <1>3, <1>4

(* Nothing closes a region, or the index segment does. *)
LEMMA NoTail == Spells(<<>>, Item * 0)
BY EmptySpells, BudgetBounds DEF Item

LEMMA ItemsOfUnits ==
  /\ Item * 1 = Item /\ Item * 2 = 2 * SegmentBudget + 2
  /\ SegmentBudget \in Nat /\ Item = SegmentBudget + 1 /\ Item \in Nat
BY BudgetBounds DEF Item

(* A separator and a text. *)
LEMMA SeparatedFits ==
  ASSUME NEW separator \in Characters, NEW w \in {1, 2}, NEW txt,
         Spells(txt, w * SegmentBudget + (w - 1))
  PROVE  Spells(<<separator>> \o txt, Item * w) /\ txt \in Seq(Characters)
<1> DEFINE n == w * SegmentBudget + (w - 1)
<1>1. n \in Nat /\ 1 + n = Item * w
  BY ItemsOfUnits
<1>2. Spells(<<separator>>, 1)
  BY CharacterSpells
<1> HIDE DEF n
<1>3. Spells(<<separator>> \o txt, 1 + n)
  BY <1>1, <1>2, ConcatSpells DEF n
<1> QED
  BY <1>1, <1>3 DEF Spells

LEMMA ReadPathCountText ==
  ASSUME TextInv, ReadPathCount
  PROVE  TextsTyped' /\ Bounded'
<1>1. Spells(PathEnd, Item * 1)
  BY PathEndFits, ItemsOfUnits
<1>2. {"path", "segments", "query"} \subseteq RegionSteps
  BY DEF RegionSteps
<1>3. \A n, m \in Nat :
        /\ Units("path", n) \in Nat /\ Units("segments", m) \in Nat
        /\ Units("query", m) \in Nat
        /\ Units("path", n) <= Units("segments", m)
        /\ Units("path", n) + 1 <= Units("query", m)
  BY <1>2, UnitsFollow
<1> QED
  BY <1>1, <1>2, <1>3, ReadCountText DEF ReadPathCount

LEMMA ReadQueryCountText ==
  ASSUME TextInv, ReadQueryCount
  PROVE  TextsTyped' /\ Bounded'
<1>1. {"query", "pairs", "fragment"} \subseteq RegionSteps
  BY DEF RegionSteps
<1>2. \A n, m \in Nat :
        /\ Units("query", n) \in Nat /\ Units("pairs", m) \in Nat
        /\ Units("fragment", m) \in Nat
        /\ Units("query", n) <= Units("pairs", m)
        /\ Units("query", n) + 0 <= Units("fragment", m)
  BY <1>1, UnitsFollow
<1> QED
  BY <1>1, <1>2, NoTail, ReadCountText DEF ReadQueryCount

LEMMA ReadFragmentCountText ==
  ASSUME TextInv, ReadFragmentCount
  PROVE  TextsTyped' /\ Bounded'
<1>1. {"fragment", "parts", "padding"} \subseteq RegionSteps
  BY DEF RegionSteps
<1>2. \A n, m \in Nat :
        /\ Units("fragment", n) \in Nat /\ Units("parts", m) \in Nat
        /\ Units("padding", m) \in Nat
        /\ Units("fragment", n) <= Units("parts", m)
        /\ Units("fragment", n) + 0 <= Units("padding", m)
  BY <1>1, UnitsFollow
<1> QED
  BY <1>1, <1>2, NoTail, ReadCountText DEF ReadFragmentCount

LEMMA ReadPathSegmentText ==
  ASSUME TextInv, ReadPathSegment
  PROVE  TextsTyped' /\ Bounded'
<1> DEFINE r == ReadEntry(stream, ReaderAt(pos), PathTokens, PathBits)
<1>1. Spells(r.val, SegmentBudget)
  BY ReaderAtInside, EntryFits, ReadWidths DEF TextInv, DecoderInv, AllDictionaries
<1> HIDE DEF r
<1>2. Spells(<<"/">> \o r.val, Item * 1) /\ r.val \in Seq(Characters)
  <2>1. 1 * SegmentBudget + (1 - 1) = SegmentBudget
    BY ItemsOfUnits
  <2> QED
    BY <1>1, <2>1, OwnCharacters, SeparatedFits
<1>3. Spells(PathEnd, Item * 1)
  BY PathEndFits, ItemsOfUnits
<1>4. {"segments", "query"} \subseteq RegionSteps
  BY DEF RegionSteps
<1>5. \A n \in 0..MaxSegments : \A m \in Nat :
        /\ Units("segments", n) \in Nat /\ Units("query", m) \in Nat
        /\ Units("segments", n) + 1 <= Units("query", m)
  BY <1>4, UnitsFollow, LoopNumbers
<1>6. \A n \in Nat : Units("segments", n + 1) = Units("segments", n) + 1
  BY UnitsFollow
<1>7. ReadItem("segments", r, "/", "query", PathEnd)
  BY DEF ReadPathSegment, r
<1> QED
  BY <1>2, <1>3, <1>4, <1>5, <1>6, <1>7, OwnCharacters, ReadItemText

LEMMA ReadQueryPairText ==
  ASSUME TextInv, ReadQueryPair
  PROVE  TextsTyped' /\ Bounded'
<1> DEFINE separator == IF nth = 0 THEN "?" ELSE "&"
<1>1. separator \in Characters
  BY OwnCharacters
<1> HIDE DEF separator
<1>2. Spells(<<separator>> \o PairRead.val, Item * 2) /\ PairRead.val \in Seq(Characters)
  <2>1. 2 * SegmentBudget + (2 - 1) = 2 * SegmentBudget + 1
    BY ItemsOfUnits
  <2> QED
    BY <1>1, <2>1, PairFits, SeparatedFits DEF TextInv
<1>3. {"pairs", "fragment"} \subseteq RegionSteps
  BY DEF RegionSteps
<1>4. \A n \in 0..MaxSegments : \A m \in Nat :
        /\ Units("pairs", n) \in Nat /\ Units("fragment", m) \in Nat
        /\ Units("pairs", n) + 0 <= Units("fragment", m)
  BY <1>3, UnitsFollow, LoopNumbers
<1>5. \A n \in Nat : Units("pairs", n + 1) = Units("pairs", n) + 2
  BY UnitsFollow
<1>6. ReadItem("pairs", PairRead, separator, "fragment", <<>>)
  BY DEF ReadQueryPair, separator
<1> QED
  BY <1>1, <1>2, <1>3, <1>4, <1>5, <1>6, NoTail, ReadItemText

LEMMA ReadFragmentPartText ==
  ASSUME TextInv, ReadFragmentPart
  PROVE  TextsTyped' /\ Bounded'
<1> DEFINE separator == IF nth = 0 THEN "#" ELSE "/"
           r == ReadSegment(stream, ReaderAt(pos))
<1>1. separator \in Characters
  BY OwnCharacters
<1>2. Spells(r.val, SegmentBudget)
  BY ReaderAtInside, SegmentFits DEF TextInv, DecoderInv
<1> HIDE DEF separator, r
<1>3. Spells(<<separator>> \o r.val, Item * 1) /\ r.val \in Seq(Characters)
  <2>1. 1 * SegmentBudget + (1 - 1) = SegmentBudget
    BY ItemsOfUnits
  <2> QED
    BY <1>1, <1>2, <2>1, SeparatedFits
<1>4. {"parts", "padding"} \subseteq RegionSteps
  BY DEF RegionSteps
<1>5. \A n \in 0..MaxSegments : \A m \in Nat :
        /\ Units("parts", n) \in Nat /\ Units("padding", m) \in Nat
        /\ Units("parts", n) + 0 <= Units("padding", m)
  BY <1>4, UnitsFollow, LoopNumbers
<1>6. \A n \in Nat : Units("parts", n + 1) = Units("parts", n) + 1
  BY UnitsFollow
<1>7. ReadItem("parts", r, separator, "padding", <<>>)
  BY DEF ReadFragmentPart, separator, r
<1> QED
  BY <1>1, <1>3, <1>4, <1>5, <1>6, <1>7, NoTail, ReadItemText

LEMMA CheckPaddingText ==
  ASSUME TextInv, CheckPadding
  PROVE  TextsTyped' /\ Bounded'
<1>1. CASE dstep' = "accepted"
  <2>1. Units("accepted", nth) = Units("padding", nth)
    BY DEF Units
  <2> QED
    BY <1>1, <2>1, RegionText DEF CheckPadding, TextInv, TextsTyped, Bounded, RegionSteps
<1>2. CASE dstep' = "rejected"
  BY <1>2 DEF CheckPadding, TextInv, TextsTyped, Bounded, DecoderSteps, RegionSteps
<1> QED
  BY <1>1, <1>2 DEF CheckPadding

-----------------------------------------------------------------------------
LEMMA TextInvInit == DecoderInit => TextInv
<1>1. ASSUME DecoderInit PROVE TextsTyped /\ Bounded
  <2>1. TextsTyped
    BY <1>1, EmptySeq DEF DecoderInit, Start, TextsTyped, PortRange, DecoderSteps
  <2>2. dstep = "header" /\ host = <<>> /\ Len(literal) = 0
    BY <1>1, EmptySeq DEF DecoderInit, Start
  <2>3. 0 <= SegmentBudget
    BY BudgetBounds
  <2> QED
    BY <2>1, <2>2, <2>3 DEF Bounded, RegionSteps
<1> QED
  BY <1>1, DecoderInvInit DEF TextInv

LEMMA TextInvStep ==
  ASSUME TextInv, [DecoderNext \/ DecoderOver]_dvars
  PROVE  TextInv'
<1>1. DecoderInv'
  BY DecoderInvStep DEF TextInv
<1>2. TextsTyped' /\ Bounded'
  <2>1. CASE ReadHeader
    BY <2>1, ReadHeaderText
  <2>2. CASE ReadPort
    BY <2>2, ReadPortText
  <2>3. CASE ReadHost
    BY <2>3, ReadHostText
  <2>4. CASE ReadLabel
    BY <2>4, ReadLabelText
  <2>5. CASE ReadTld
    BY <2>5, ReadTldText
  <2>6. CASE ReadLiteral
    BY <2>6, ReadLiteralText
  <2>7. CASE ReadFlags
    BY <2>7, ReadFlagsText
  <2>8. CASE ReadPathCount
    BY <2>8, ReadPathCountText
  <2>9. CASE ReadPathSegment
    BY <2>9, ReadPathSegmentText
  <2>10. CASE ReadQueryCount
    BY <2>10, ReadQueryCountText
  <2>11. CASE ReadQueryPair
    BY <2>11, ReadQueryPairText
  <2>12. CASE ReadFragmentCount
    BY <2>12, ReadFragmentCountText
  <2>13. CASE ReadFragmentPart
    BY <2>13, ReadFragmentPartText
  <2>14. CASE CheckPadding
    BY <2>14, CheckPaddingText
  <2>15. CASE UNCHANGED dvars
    <3>1. HeadOfResult' = HeadOfResult
      BY <2>15 DEF dvars, HeadOfResult, DefaultPortOf
    <3> HIDE DEF HeadOfResult
    <3> QED
      BY <2>15, <3>1 DEF dvars, TextInv, TextsTyped, Bounded
  <2> QED
    BY <2>1, <2>2, <2>3, <2>4, <2>5, <2>6, <2>7, <2>8, <2>9, <2>10, <2>11, <2>12, <2>13,
       <2>14, <2>15 DEF DecoderNext, DecoderOver
<1> QED
  BY <1>1, <1>2 DEF TextInv

(* On every stream of bits, every local of decode_bits keeps its type and  *)
(* every text it builds is made of the characters of the set alone: what   *)
(* comes out of a dictionary, an alphabet, the prefix code or from_utf8.   *)
THEOREM DecoderTypeCorrect == DecoderSpec => []DecoderTypeOK
<1>1. TextInv => DecoderTypeOK
  BY DEF TextInv, DecoderInv, TextsTyped, PortRange, DecoderTypeOK
<1> QED
  BY <1>1, TextInvInit, TextInvStep, PTL DEF DecoderSpec

(* TextWithinBudget counts the units of each region on its own. *)
LEMMA UnitsOfRegions ==
  ASSUME NEW head \in Nat, NEW n \in Nat, NEW step \in RegionSteps
  PROVE  LET item == SegmentBudget + 1
             read(earlier, loop) ==
               IF step \in earlier THEN 0 ELSE IF step = loop THEN n ELSE MaxSegments
             toQuery == {"path", "segments", "query"}
             toFragment == toQuery \cup {"pairs", "fragment"}
         IN  head + Item * Units(step, n) =
               head + item * read({"path"}, "segments")
                    + (IF step \in {"path", "segments"} THEN 0 ELSE item)
                    + 2 * item * read(toQuery, "pairs")
                    + item * read(toFragment, "parts")
<1>1. MaxSegments \in Nat /\ Item \in Nat /\ Item = SegmentBudget + 1
  BY WireLimits, ItemsOfUnits
<1>2. \A h, i, a, b, c \in Nat :
        /\ h + i * (a + 1 + 2 * b + c) = h + i * a + i + 2 * i * b + i * c
        /\ h + i * a = h + i * a + 0 + 2 * i * 0 + i * 0
  OBVIOUS
<1>3. CASE step = "path"
  <2>1. Units(step, n) = 0
    BY <1>3 DEF Units
  <2>2. head + Item * 0 = head + Item * 0 + 0 + 2 * Item * 0 + Item * 0
    BY <1>1, <1>2
  <2> QED
    BY <1>1, <1>3, <2>1, <2>2
<1>4. CASE step = "segments"
  <2>1. Units(step, n) = n
    BY <1>4 DEF Units
  <2>2. head + Item * n = head + Item * n + 0 + 2 * Item * 0 + Item * 0
    BY <1>1, <1>2
  <2> QED
    BY <1>1, <1>4, <2>1, <2>2
<1>5. CASE step \in {"query", "pairs", "fragment", "parts", "padding", "accepted"}
  <2> DEFINE b == IF step = "query" THEN 0 ELSE IF step = "pairs" THEN n ELSE MaxSegments
             c == IF step \in {"query", "pairs", "fragment"} THEN 0
                  ELSE IF step = "parts" THEN n ELSE MaxSegments
  <2>1. Units(step, n) = MaxSegments + 1 + 2 * b + c /\ b \in Nat /\ c \in Nat
    BY <1>1, <1>5 DEF Units
  <2>2. head + Item * Units(step, n) =
          head + Item * MaxSegments + Item + 2 * Item * b + Item * c
    <3> HIDE DEF b, c
    <3> QED
      BY <1>1, <1>2, <2>1
  <2> QED
    BY <1>1, <1>5, <2>2
<1> QED
  BY <1>3, <1>4, <1>5 DEF RegionSteps

(* On every stream of bits, and whatever the dictionaries hold, the text   *)
(* decode_bits has built is bounded at every step by the limits alone.     *)
THEOREM DecoderTextBounded == DecoderSpec => []TextWithinBudget
<1>1. TextInv => TextWithinBudget
  <2> SUFFICES ASSUME TextInv PROVE TextWithinBudget
    OBVIOUS
  <2>1. dstep = "labels" => Len(host) <= nth * (SegmentBudget + 1)
    BY DEF TextInv, Bounded, Item
  <2>2. ASSUME PastTld, dstep \notin {"literal", "flags"}
        PROVE  dstep \in RegionSteps
    BY <2>2 DEF PastTld, PastHost, TextInv, TextsTyped, DecoderSteps, RegionSteps
  <2>3. ASSUME dstep \in RegionSteps
        PROVE  Len(result) <= Len(HeadOfResult) + Item * Units(dstep, nth)
    BY <2>3 DEF TextInv, Bounded
  <2>4. Item = SegmentBudget + 1 /\ Item \in Nat /\ nth \in Nat /\ MaxSegments \in Nat
        /\ Len(HeadOfResult) \in Nat
    BY ItemsOfUnits, WireLimits, HeadType, LenProperties DEF TextInv, TextsTyped
  <2> HIDE DEF HeadOfResult
  <2> QED
    BY <2>1, <2>2, <2>3, <2>4, UnitsOfRegions DEF TextWithinBudget, ItemsRead
<1> QED
  BY <1>1, TextInvInit, TextInvStep, PTL DEF DecoderSpec

-----------------------------------------------------------------------------
(* The layout of a payload: what stands in f between p and e when a block  *)
(* of the encoder has written it for the URL u.                            *)
NameOf(u) == Cut(u.host).text
TldOf(u) == Cut(u.tld).text
LabelsOf(u) == Split(NameOf(u), ".")
FlagOf(yes) == IF yes THEN 1 ELSE 0

HeaderAt(u, f, p, e) ==
  /\ Written(f, p, WireVersion, 4) /\ Written(f, p + 4, DictSetId, 4)
  /\ Written(f, p + 8, FlagOf(u.https), 1) /\ Written(f, p + 9, FlagOf(u.www), 1)
  /\ Written(f, p + 10, IndexCode(u.index), 2) /\ e = p + 12

PortAt(f, p, e) ==
  \/ Written(f, p, 0, 1) /\ e = p + 1
  \/ /\ Written(f, p, 1, 1)
     /\ \/ \E c \in 0..2 : Written(f, p + 1, c, 2) /\ e = p + 3
        \/ /\ Written(f, p + 1, LiteralPort, 2)
           /\ \E n : Written(f, p + 3, n, PortBits)
           /\ e = p + 3 + PortBits

WholeHostAt(name, f, p, e) ==
  \/ /\ Written(f, p, 0, 2)
     /\ \E i \in 0..(Len(Hosts) - 1) : Written(f, p + 2, i, HostBits) /\ Hosts[i + 1] = name
     /\ e = p + 2 + HostBits
  \/ \E mode \in {1, 2} : Written(f, p, mode, 2) /\ SegmentAt(f, p + 2, e, name)

HostAt(u, f, p, e) ==
  IF Labelled(LabelsOf(u))
  THEN Written(f, p, 1, 1) /\ Written(f, p + 1, Len(LabelsOf(u)) - 2, 3) /\ e = p + 4
  ELSE Written(f, p, 0, 1) /\ WholeHostAt(NameOf(u), f, p + 1, e)

TldAt(name, f, p, e) ==
  \/ /\ Written(f, p, 0, 1)
     /\ \/ name = <<>> /\ Written(f, p + 1, TldEscape, TldBits)
        \/ \E i \in 0..(Len(Tlds) - 1) : Written(f, p + 1, i, TldBits) /\ Tlds[i + 1] = name
     /\ e = p + 1 + TldBits
  \/ Written(f, p, 1, 1) /\ SegmentAt(f, p + 1, e, name)

LiteralAt(u, f, p, e) ==
  IF u.index = "other" THEN SegmentAt(f, p, e, Last(u.path)) ELSE e = p

FlagsAt(u, f, p, e) ==
  /\ Written(f, p, FlagOf(u.path # <<>>), 1) /\ Written(f, p + 1, FlagOf(u.query # <<>>), 1)
  /\ Written(f, p + 2, FlagOf(u.fragment # <<>>), 1) /\ e = p + 3

CountedAt(present, items, f, p, e) ==
  IF present
  THEN Len(items) \in 0..MaxSegments /\ CountAt(f, p, Len(items)) /\ e = p + CountBits(Len(items))
  ELSE items = <<>> /\ e = p

PairAt(pair, f, p, e) ==
  \E m \in Nat :
    /\ EntryAt(f, p, m, pair.key, QueryKeys, KeyBits)
    /\ IF pair.value.some
       THEN Written(f, m, 1, 1) /\ EntryAt(f, m + 1, e, pair.value.text, QueryValues, ValueBits)
       ELSE Written(f, m, 0, 1) /\ e = m + 1

(* A call of encode between two of its blocks: the block that comes next,  *)
(* the bits written and, in a loop, the items done.                        *)
Configs == [step : EncoderSteps, pos : Nat, done : Nat]

Goes(b, next) == b.step = next /\ b.done = 0

GoesOn(a, b, items, next) ==
  /\ a.done < Len(items)
  /\ IF a.done + 1 = Len(items) THEN Goes(b, next)
     ELSE b.step = a.step /\ b.done = a.done + 1

(* The block of u at a is written in f and ends at b. *)
Laid(u, f, a, b) ==
  \/ a.step = "header" /\ Goes(b, "port") /\ HeaderAt(u, f, a.pos, b.pos)
  \/ a.step = "port" /\ Goes(b, "host") /\ PortAt(f, a.pos, b.pos)
  \/ /\ a.step = "host" /\ HostAt(u, f, a.pos, b.pos)
     /\ Goes(b, IF Labelled(LabelsOf(u)) THEN "labels" ELSE "tld")
  \/ /\ a.step = "labels" /\ GoesOn(a, b, LabelsOf(u), "tld")
     /\ EntryAt(f, a.pos, b.pos, LabelsOf(u)[a.done + 1], Hosts, HostBits)
  \/ a.step = "tld" /\ Goes(b, "literal") /\ TldAt(TldOf(u), f, a.pos, b.pos)
  \/ a.step = "literal" /\ Goes(b, "flags") /\ LiteralAt(u, f, a.pos, b.pos)
  \/ a.step = "flags" /\ Goes(b, "path") /\ FlagsAt(u, f, a.pos, b.pos)
  \/ /\ a.step = "path" /\ CountedAt(u.path # <<>>, PathItems(u), f, a.pos, b.pos)
     /\ Goes(b, IF PathItems(u) = <<>> THEN "query" ELSE "segments")
  \/ /\ a.step = "segments" /\ GoesOn(a, b, PathItems(u), "query")
     /\ EntryAt(f, a.pos, b.pos, PathItems(u)[a.done + 1], PathTokens, PathBits)
  \/ /\ a.step = "query" /\ CountedAt(u.query # <<>>, u.query, f, a.pos, b.pos)
     /\ Goes(b, IF u.query = <<>> THEN "fragment" ELSE "pairs")
  \/ /\ a.step = "pairs" /\ GoesOn(a, b, u.query, "fragment")
     /\ PairAt(u.query[a.done + 1], f, a.pos, b.pos)
  \/ /\ a.step = "fragment" /\ CountedAt(u.fragment # <<>>, u.fragment, f, a.pos, b.pos)
     /\ Goes(b, IF u.fragment = <<>> THEN "finish" ELSE "parts")
  \/ /\ a.step = "parts" /\ GoesOn(a, b, u.fragment, "finish")
     /\ SegmentAt(f, a.pos, b.pos, u.fragment[a.done + 1])

(* What stands in f stands in every stream that goes on from it. *)
LEMMA PiecesStay ==
  ASSUME NEW f \in Seq(Bit), NEW g \in Seq(Bit), Extends(g, f), NEW p \in Nat, NEW e
  PROVE  /\ \A q, v, n : Written(f, q, v, n) => Written(g, q, v, n)
         /\ \A q, m, s : SegmentAt(f, q, m, s) => SegmentAt(g, q, m, s)
         /\ \A q, m, s, dict, width : EntryAt(f, q, m, s, dict, width) => EntryAt(g, q, m, s, dict, width)
         /\ \A n \in 0..MaxSegments : CountAt(f, p, n) => CountAt(g, p, n)
<1>1. ASSUME NEW q, NEW v, NEW n, Written(f, q, v, n) PROVE Written(g, q, v, n)
  BY <1>1, WrittenStays
<1>2. ASSUME NEW q, NEW m, NEW s, SegmentAt(f, q, m, s) PROVE SegmentAt(g, q, m, s)
  BY <1>2, SegmentStays
<1>3. ASSUME NEW q, NEW m, NEW s, NEW dict, NEW width, EntryAt(f, q, m, s, dict, width)
      PROVE  EntryAt(g, q, m, s, dict, width)
  BY <1>3, SegmentStays
<1>4. ASSUME NEW n \in 0..MaxSegments, CountAt(f, p, n) PROVE CountAt(g, p, n)
  <2>1. n \in Nat /\ n < Pow2[WordBits]
    <3>1. MaxSegments \in 0..(Pow2[WordBits] - 1)
      BY WireLimits
    <3>2. Pow2[WordBits] \in Nat
      BY Widths, Pow2Type
    <3> QED
      BY <3>1, <3>2
  <2> QED
    BY <1>4, <2>1, CountStays
<1> QED
  BY <1>1, <1>2, <1>3, <1>4

LEMMA LaidStays ==
  ASSUME NEW f \in Seq(Bit), NEW g \in Seq(Bit), Extends(g, f),
         NEW u, NEW a \in Configs, NEW b \in Configs, Laid(u, f, a, b)
  PROVE  Laid(u, g, a, b)
<1> DEFINE p == a.pos
           e == b.pos
<1>1. p \in Nat
  BY DEF Configs
<1> HIDE DEF p, e
<1>2. /\ \A q, v, n : Written(f, q, v, n) => Written(g, q, v, n)
      /\ \A q, m, s : SegmentAt(f, q, m, s) => SegmentAt(g, q, m, s)
      /\ \A q, m, s, dict, width : EntryAt(f, q, m, s, dict, width) => EntryAt(g, q, m, s, dict, width)
      /\ \A n \in 0..MaxSegments : CountAt(f, p, n) => CountAt(g, p, n)
  BY <1>1, PiecesStay
<1>3. HeaderAt(u, f, p, e) => HeaderAt(u, g, p, e)
  BY <1>2 DEF HeaderAt
<1>4. PortAt(f, p, e) => PortAt(g, p, e)
  BY <1>2 DEF PortAt
<1>5. HostAt(u, f, p, e) => HostAt(u, g, p, e)
  BY <1>2 DEF HostAt, WholeHostAt
<1>6. TldAt(TldOf(u), f, p, e) => TldAt(TldOf(u), g, p, e)
  BY <1>2 DEF TldAt
<1>7. LiteralAt(u, f, p, e) => LiteralAt(u, g, p, e)
  BY <1>2 DEF LiteralAt
<1>8. FlagsAt(u, f, p, e) => FlagsAt(u, g, p, e)
  BY <1>2 DEF FlagsAt
<1>9. \A present, items : CountedAt(present, items, f, p, e) => CountedAt(present, items, g, p, e)
  BY <1>2 DEF CountedAt
<1>10. \A pair : PairAt(pair, f, p, e) => PairAt(pair, g, p, e)
  BY <1>2 DEF PairAt
<1> QED
  BY <1>2, <1>3, <1>4, <1>5, <1>6, <1>7, <1>8, <1>9, <1>10 DEF Laid, p, e

-----------------------------------------------------------------------------
(* What each block of the encoder comes to, written behind the bits of a.  *)

LEMMA SmallFit ==
  /\ \A v \in 0..1 : Fits(v, 1)
  /\ \A v \in 0..3 : Fits(v, 2)
  /\ \A v \in 0..7 : Fits(v, 3)
  /\ \A v \in 0..15 : Fits(v, 4)
<1>1. Pow2[1] = 2 /\ Pow2[2] = 4 /\ Pow2[3] = 8 /\ Pow2[4] = 16
  <2>1. \A n \in Nat : Pow2[n + 1] = 2 * Pow2[n]
    BY Pow2Def
  <2>2. Pow2[1] = 2
    BY Pow2One
  <2>3. Pow2[1 + 1] = 2 * Pow2[1] /\ Pow2[2 + 1] = 2 * Pow2[2] /\ Pow2[3 + 1] = 2 * Pow2[3]
    BY <2>1
  <2> QED
    BY <2>2, <2>3
<1>2. 4 <= WordBits /\ WordBits \in Nat
  BY WireLimits, Widths
<1>3. \A v \in 0..1 : Fits(v, 1)
  BY <1>1, <1>2 DEF Fits
<1>4. \A v \in 0..3 : Fits(v, 2)
  BY <1>1, <1>2 DEF Fits
<1>5. \A v \in 0..7 : Fits(v, 3)
  BY <1>1, <1>2 DEF Fits
<1>6. \A v \in 0..15 : Fits(v, 4)
  BY <1>1, <1>2 DEF Fits
<1> QED
  BY <1>3, <1>4, <1>5, <1>6

LEMMA FlagFits ==
  ASSUME NEW yes
  PROVE  Fits(FlagOf(yes), 1) /\ FlagOf(yes) \in 0..1
BY SmallFit DEF FlagOf

LEMMA IndexWidths ==
  /\ \A width \in {PortBits, TldBits, HostBits, PathBits, KeyBits, ValueBits} :
       width \in 0..WordBits /\ width \in Nat /\ width <= WordBits /\ Pow2[width] \in Nat
  /\ \A p \in DOMAIN PortText : Fits(p, PortBits)
  /\ \A i \in 0..(Len(Hosts) - 1) : Fits(i, HostBits) /\ i \in Nat /\ i < HostEscape
  /\ \A i \in 0..(Len(Tlds) - 1) : Fits(i, TldBits) /\ i \in Nat /\ i < TldEscape
  /\ Fits(TldEscape, TldBits)
<1>1. WordBits \in Nat
  BY Widths
<1>2. ASSUME NEW width \in {PortBits, TldBits, HostBits, PathBits, KeyBits, ValueBits}
      PROVE  width \in 0..WordBits /\ width \in Nat /\ width <= WordBits /\ Pow2[width] \in Nat
             /\ Pow2[width] > 0
  <2>1. width \in 0..WordBits
    BY WireLimits
  <2> QED
    BY <1>1, <2>1, Pow2Type
<1>3. \A p \in DOMAIN PortText : Fits(p, PortBits)
  <2>1. DOMAIN PortText = 0..(Pow2[PortBits] - 1)
    BY CharacterSet
  <2> QED
    BY <1>2, <2>1 DEF Fits
<1>4. \A i \in 0..(Len(Hosts) - 1) : Fits(i, HostBits) /\ i \in Nat /\ i < HostEscape
  <2>1. Len(Hosts) = HostEscape
    BY Dictionaries
  <2>2. HostBits \in Nat /\ HostBits <= WordBits /\ Pow2[HostBits] \in Nat
    BY <1>2
  <2> QED
    BY <2>1, <2>2 DEF HostEscape, Fits
<1>5. \A i \in 0..(Len(Tlds) - 1) : Fits(i, TldBits) /\ i \in Nat /\ i < TldEscape
  <2>1. Len(Tlds) = TldEscape
    BY Dictionaries
  <2>2. TldBits \in Nat /\ TldBits <= WordBits /\ Pow2[TldBits] \in Nat
    BY <1>2
  <2> QED
    BY <2>1, <2>2 DEF TldEscape, Fits
<1>6. Fits(TldEscape, TldBits)
  BY <1>2 DEF TldEscape, Fits
<1> QED
  BY <1>2, <1>3, <1>4, <1>5, <1>6

(* A writer that has written something behind the bits of a. *)
Wrote(w, a) ==
  w \in Writers /\ w.ok = TRUE /\ Extends(w.bits, a) /\ Len(a) <= Len(w.bits)

LEMMA WroteBits ==
  ASSUME NEW a \in Seq(Bit), NEW b \in Seq(Bit), Extends(b, a)
  PROVE  Wrote([ok |-> TRUE, bits |-> b], a)
<1>1. Len(a) <= Len(b)
  BY DEF Extends
<1> QED
  BY <1>1 DEF Wrote, Writers

LEMMA HeaderOut ==
  ASSUME NEW a \in Seq(Bit), NEW u, IndexCode(u.index) \in 0..3
  PROVE  \E w : /\ w = WriteFields([ok |-> TRUE, bits |-> a],
                         << <<WireVersion, 4>>, <<DictSetId, 4>>,
                            <<IF u.https THEN 1 ELSE 0, 1>>, <<IF u.www THEN 1 ELSE 0, 1>>,
                            <<IndexCode(u.index), 2>> >>)
                /\ Wrote(w, a) /\ HeaderAt(u, w.bits, Len(a), Len(w.bits))
<1> DEFINE secure == IF u.https THEN 1 ELSE 0
           named == IF u.www THEN 1 ELSE 0
           code == IndexCode(u.index)
<1>1. Fits(WireVersion, 4) /\ Fits(DictSetId, 4) /\ Fits(secure, 1) /\ Fits(named, 1) /\ Fits(code, 2)
  BY SmallFit DEF WireVersion, DictSetId
<1>2. secure = FlagOf(u.https) /\ named = FlagOf(u.www)
  BY DEF FlagOf
<1> HIDE DEF secure, named, code
<1>3. PICK m, b :
        /\ WriteFields([ok |-> TRUE, bits |-> a],
             << <<WireVersion, 4>>, <<DictSetId, 4>>, <<secure, 1>>, <<named, 1>>, <<code, 2>> >>)
             = [ok |-> TRUE, bits |-> b]
        /\ ThreeWritten(a, m, WireVersion, 4, DictSetId, 4, secure, 1)
        /\ TwoWritten(m, b, named, 1, code, 2)
  BY <1>1, FiveFields
<1>4. /\ m \in Seq(Bit) /\ Extends(m, a) /\ Len(m) = Len(a) + 9 /\ Len(a) \in Nat
      /\ Written(m, Len(a), WireVersion, 4) /\ Written(m, Len(a) + 4, DictSetId, 4)
      /\ Written(m, Len(a) + 8, secure, 1)
  <2>1. Len(a) \in Nat
    BY LenProperties
  <2>2. Len(a) + 4 + 4 + 1 = Len(a) + 9 /\ Len(a) + 4 + 4 = Len(a) + 8
    BY <2>1
  <2> QED
    BY <1>3, <2>1, <2>2 DEF ThreeWritten
<1>5. /\ b \in Seq(Bit) /\ Extends(b, m) /\ Len(b) = Len(a) + 12
      /\ Written(b, Len(a) + 9, named, 1) /\ Written(b, Len(a) + 10, code, 2)
  <2>1. Len(m) + 1 + 2 = Len(a) + 12 /\ Len(m) + 1 = Len(a) + 10
    BY <1>4
  <2> QED
    BY <1>3, <1>4, <2>1 DEF TwoWritten
<1>6. Extends(b, a) /\ Written(b, Len(a), WireVersion, 4) /\ Written(b, Len(a) + 4, DictSetId, 4)
      /\ Written(b, Len(a) + 8, secure, 1)
  BY <1>4, <1>5, ExtendsTransitive, WrittenStays
<1>7. HeaderAt(u, b, Len(a), Len(b))
  BY <1>2, <1>5, <1>6 DEF HeaderAt, code
<1>8. Wrote([ok |-> TRUE, bits |-> b], a)
  BY <1>5, <1>6, WroteBits
<1> QED
  BY <1>3, <1>7, <1>8 DEF secure, named, code

LEMMA PortOut ==
  ASSUME NEW a \in Seq(Bit), NEW number \in {NoPort} \cup DOMAIN PortText
  PROVE  \E w : /\ w = WriteFields([ok |-> TRUE, bits |-> a],
                         IF number = NoPort THEN << <<0, 1>> >>
                         ELSE IF Contains(ShortPorts, number)
                         THEN << <<1, 1>>, <<Index(number, ShortPorts), 2>> >>
                         ELSE << <<1, 1>>, <<LiteralPort, 2>>, <<number, PortBits>> >>)
                /\ Wrote(w, a) /\ PortAt(w.bits, Len(a), Len(w.bits))
<1> DEFINE start == [ok |-> TRUE, bits |-> a]
<1>0. Len(a) \in Nat
  BY LenProperties
<1>1. CASE number = NoPort
  <2>1. PICK b : WriteBits(start, 0, 1) = [ok |-> TRUE, bits |-> b] /\ OneWritten(a, b, 0, 1)
    <3>1. Fits(0, 1)
      BY SmallFit
    <3> QED
      BY <3>1, OneField
  <2>2. WriteFields(start, << <<0, 1>> >>) = [ok |-> TRUE, bits |-> b]
    <3>1. WriteFields(start, << <<0, 1>> >>) = WriteBits(start, 0, 1)
      BY ONLY OneUnrolled
    <3> QED
      BY <2>1, <3>1
  <2>3. Wrote([ok |-> TRUE, bits |-> b], a) /\ PortAt(b, Len(a), Len(b))
    BY <2>1, WroteBits DEF OneWritten, PortAt
  <2> QED
    BY <1>1, <2>2, <2>3
<1>2. CASE number # NoPort /\ Contains(ShortPorts, number)
  <2> DEFINE c == Index(number, ShortPorts)
  <2>1. c \in 0..2
    <3>1. ShortPorts \in [1..3 -> DOMAIN PortText]
      BY WireLimits DEF LiteralPort
    <3>2. ShortPorts \in Seq(DOMAIN PortText) /\ Len(ShortPorts) = 3
      <4>1. ShortPorts = [i \in 1..3 |-> ShortPorts[i]] /\ \A i \in 1..3 : ShortPorts[i] \in DOMAIN PortText
        BY <3>1
      <4>2. [i \in 1..3 |-> ShortPorts[i]] \in Seq(DOMAIN PortText) /\ Len([i \in 1..3 |-> ShortPorts[i]]) = 3
        BY <4>1
      <4> QED
        BY <4>1, <4>2
    <3>3. number \in ToSet(ShortPorts)
      BY <1>2 DEF Contains, ToSet
    <3> QED
      BY <3>2, <3>3, IndexFinds
  <2> HIDE DEF c
  <2>2. Fits(1, 1) /\ Fits(c, 2)
    BY <2>1, SmallFit
  <2>3. PICK b : /\ WriteFields(start, << <<1, 1>>, <<c, 2>> >>) = [ok |-> TRUE, bits |-> b]
                 /\ TwoWritten(a, b, 1, 1, c, 2)
    BY <2>2, TwoFields
  <2>4. Wrote([ok |-> TRUE, bits |-> b], a)
    BY <2>3, WroteBits DEF TwoWritten
  <2>5. PortAt(b, Len(a), Len(b))
    <3>1. Len(b) = Len(a) + 3
      BY <1>0, <2>3 DEF TwoWritten
    <3> QED
      BY <2>1, <2>3, <3>1 DEF TwoWritten, PortAt
  <2> QED
    BY <1>2, <2>3, <2>4, <2>5 DEF c
<1>3. CASE number # NoPort /\ ~Contains(ShortPorts, number)
  <2>1. Fits(1, 1) /\ Fits(LiteralPort, 2) /\ Fits(number, PortBits)
    BY <1>3, SmallFit, IndexWidths DEF LiteralPort
  <2>2. PICK b : /\ WriteFields(start, << <<1, 1>>, <<LiteralPort, 2>>, <<number, PortBits>> >>)
                      = [ok |-> TRUE, bits |-> b]
                 /\ ThreeWritten(a, b, 1, 1, LiteralPort, 2, number, PortBits)
    BY <2>1, ThreeFields
  <2>3. Wrote([ok |-> TRUE, bits |-> b], a)
    BY <2>2, WroteBits DEF ThreeWritten
  <2>4. PortAt(b, Len(a), Len(b))
    <3>1. Len(a) + 1 + 2 = Len(a) + 3
      BY <1>0
    <3>2. /\ Written(b, Len(a), 1, 1) /\ Written(b, Len(a) + 1, LiteralPort, 2)
          /\ Written(b, Len(a) + 3, number, PortBits) /\ Len(b) = Len(a) + 3 + PortBits
      BY <2>2, <3>1 DEF ThreeWritten
    <3> QED
      BY <3>2 DEF PortAt
  <2> QED
    BY <1>3, <2>2, <2>3, <2>4
<1> QED
  BY <1>1, <1>2, <1>3

Small(s) == SymbolCount(s) <= MaxSymbols

(* What writing a host in one piece comes to. *)
WholeHostOut(w, a, name) ==
  /\ w \in Writers
  /\ Known(name, Hosts) \/ Small(name) => w.ok
  /\ w.ok => Wrote(w, a) /\ WholeHostAt(name, w.bits, Len(a), Len(w.bits))

LEMMA WholeHostWritten ==
  ASSUME NEW a \in Seq(Bit), NEW name \in TidyTexts
  PROVE  WholeHostOut(WriteWholeHost([ok |-> TRUE, bits |-> a], name), a, name)
<1> DEFINE start == [ok |-> TRUE, bits |-> a]
           w == WriteWholeHost(start, name)
<1>0. Len(a) \in Nat
  BY LenProperties
<1>1. CASE Known(name, Hosts)
  <2> DEFINE i == Index(name, Hosts)
  <2>1. i \in 0..(Len(Hosts) - 1) /\ Hosts[i + 1] = name
    <3>1. Hosts \in Seq(Seq(Ascii))
      BY Dictionaries
    <3> QED
      BY <1>1, <3>1, KnownIndex
  <2>2. w = WriteFields(start, << <<0, 2>>, <<i, HostBits>> >>)
    BY <1>1 DEF WriteWholeHost
  <2> HIDE DEF i
  <2>3. Fits(0, 2) /\ Fits(i, HostBits)
    <3>1. Fits(0, 2)
      BY SmallFit
    <3>2. Fits(i, HostBits)
      BY <2>1, IndexWidths
    <3> QED
      BY <3>1, <3>2
  <2>4. PICK b : /\ WriteFields(start, << <<0, 2>>, <<i, HostBits>> >>) = [ok |-> TRUE, bits |-> b]
                 /\ TwoWritten(a, b, 0, 2, i, HostBits)
    BY <2>3, TwoFields
  <2>5. Wrote([ok |-> TRUE, bits |-> b], a)
    BY <2>4, WroteBits DEF TwoWritten
  <2>6. WholeHostAt(name, b, Len(a), Len(b))
    BY <2>1, <2>4 DEF TwoWritten, WholeHostAt
  <2>7. w = [ok |-> TRUE, bits |-> b]
    BY <2>2, <2>4
  <2> HIDE DEF w
  <2>8. WholeHostOut(w, a, name)
    BY <2>5, <2>6, <2>7 DEF WholeHostOut, Wrote
  <2> QED
    BY <2>8 DEF w
<1>2. CASE ~Known(name, Hosts)
  <2> DEFINE mode == IF ToSet(name) \subseteq ToSet(Lowers) THEN 1 ELSE 2
  <2>1. mode \in {1, 2}
    OBVIOUS
  <2>2. w = WriteSegment(WriteBits(start, mode, 2), name, FALSE)
    BY <1>2 DEF WriteWholeHost
  <2> HIDE DEF mode, w
  <2>3. Fits(mode, 2)
    BY <2>1, SmallFit
  <2>4. PICK b : WriteBits(start, mode, 2) = [ok |-> TRUE, bits |-> b] /\ OneWritten(a, b, mode, 2)
    BY <2>3, OneField
  <2>5. b \in Seq(Bit) /\ Extends(b, a) /\ Len(b) = Len(a) + 2 /\ Written(b, Len(a), mode, 2)
    BY <2>4 DEF OneWritten
  <2>6. SegmentOut(w, b, name)
    BY <2>2, <2>4, <2>5, SegmentAppended
  <2>7. w \in Writers /\ (w.ok <=> Small(name))
    BY <2>6 DEF SegmentOut, Small
  <2>8. ASSUME w.ok
        PROVE  Wrote(w, a) /\ WholeHostAt(name, w.bits, Len(a), Len(w.bits))
    <3>1. /\ w.ok = TRUE /\ Extends(w.bits, b) /\ Len(b) <= Len(w.bits) /\ w.bits \in Seq(Bit)
          /\ SegmentAt(w.bits, Len(a) + 2, Len(w.bits), name)
      BY <2>5, <2>6, <2>8 DEF SegmentOut, Writers
    <3>2. Extends(w.bits, a) /\ Written(w.bits, Len(a), mode, 2)
      BY <2>5, <3>1, ExtendsTransitive, WrittenStays
    <3>3. Len(a) <= Len(w.bits)
      BY <1>0, <2>5, <3>1, LenProperties
    <3> QED
      BY <2>1, <2>7, <3>1, <3>2, <3>3 DEF Wrote, WholeHostAt
  <2>9. WholeHostOut(w, a, name)
    BY <1>2, <2>7, <2>8 DEF WholeHostOut
  <2> QED
    BY <2>9 DEF w
<1> QED
  BY <1>1, <1>2

TldOut(w, a, name) ==
  /\ w \in Writers
  /\ Small(name) => w.ok
  /\ w.ok => Wrote(w, a) /\ TldAt(name, w.bits, Len(a), Len(w.bits))

LEMMA TldWritten ==
  ASSUME NEW a \in Seq(Bit), NEW name \in TidyTexts
  PROVE  TldOut(IF name = <<>>
                THEN WriteFields([ok |-> TRUE, bits |-> a], << <<0, 1>>, <<TldEscape, TldBits>> >>)
                ELSE IF Known(name, Tlds)
                THEN WriteFields([ok |-> TRUE, bits |-> a], << <<0, 1>>, <<Index(name, Tlds), TldBits>> >>)
                ELSE WriteSegment(WriteBits([ok |-> TRUE, bits |-> a], 1, 1), name, FALSE),
                a, name)
<1> DEFINE start == [ok |-> TRUE, bits |-> a]
           indexed(i) == WriteFields(start, << <<0, 1>>, <<i, TldBits>> >>)
           spelt == WriteSegment(WriteBits(start, 1, 1), name, FALSE)
<1>0. Len(a) \in Nat /\ Fits(0, 1) /\ Fits(1, 1)
  BY LenProperties, SmallFit
<1>1. ASSUME NEW i, Fits(i, TldBits),
             \/ name = <<>> /\ i = TldEscape
             \/ i \in 0..(Len(Tlds) - 1) /\ Tlds[i + 1] = name
      PROVE  TldOut(indexed(i), a, name)
  <2>1. PICK b : /\ WriteFields(start, << <<0, 1>>, <<i, TldBits>> >>) = [ok |-> TRUE, bits |-> b]
                 /\ TwoWritten(a, b, 0, 1, i, TldBits)
    BY <1>0, <1>1, TwoFields
  <2>2. Wrote([ok |-> TRUE, bits |-> b], a)
    BY <2>1, WroteBits DEF TwoWritten
  <2>3. /\ Written(b, Len(a), 0, 1) /\ Written(b, Len(a) + 1, i, TldBits)
        /\ Len(b) = Len(a) + 1 + TldBits
    BY <2>1 DEF TwoWritten
  <2>4. TldAt(name, b, Len(a), Len(b))
    BY <1>1, <2>3 DEF TldAt
  <2>5. indexed(i) = [ok |-> TRUE, bits |-> b]
    BY <2>1
  <2> HIDE DEF indexed
  <2> QED
    BY <2>2, <2>4, <2>5 DEF TldOut, Wrote
<1>2. CASE name = <<>>
  <2>1. Fits(TldEscape, TldBits)
    BY IndexWidths
  <2>2. TldOut(indexed(TldEscape), a, name)
    BY <1>1, <1>2, <2>1
  <2> QED
    BY <1>2, <2>2
<1>3. CASE name # <<>> /\ Known(name, Tlds)
  <2>1. Tlds \in Seq(Seq(Ascii))
    BY Dictionaries
  <2>2. Index(name, Tlds) \in 0..(Len(Tlds) - 1) /\ Tlds[Index(name, Tlds) + 1] = name
    BY <1>3, <2>1, KnownIndex
  <2>3. Fits(Index(name, Tlds), TldBits)
    BY <2>2, IndexWidths
  <2>4. TldOut(indexed(Index(name, Tlds)), a, name)
    BY <1>1, <2>2, <2>3
  <2> QED
    BY <1>3, <2>4
<1>4. CASE name # <<>> /\ ~Known(name, Tlds)
  <2>1. PICK b : WriteBits(start, 1, 1) = [ok |-> TRUE, bits |-> b] /\ OneWritten(a, b, 1, 1)
    BY <1>0, OneField
  <2>2. b \in Seq(Bit) /\ Extends(b, a) /\ Len(b) = Len(a) + 1 /\ Written(b, Len(a), 1, 1)
    BY <2>1 DEF OneWritten
  <2>3. SegmentOut(spelt, b, name)
    BY <2>1, <2>2, SegmentAppended
  <2> HIDE DEF spelt
  <2>4. spelt \in Writers /\ (spelt.ok <=> Small(name))
    BY <2>3 DEF SegmentOut, Small
  <2>5. ASSUME spelt.ok
        PROVE  Wrote(spelt, a) /\ TldAt(name, spelt.bits, Len(a), Len(spelt.bits))
    <3>1. /\ spelt.ok = TRUE /\ Extends(spelt.bits, b) /\ Len(b) <= Len(spelt.bits)
          /\ spelt.bits \in Seq(Bit) /\ SegmentAt(spelt.bits, Len(a) + 1, Len(spelt.bits), name)
      BY <2>2, <2>3, <2>5 DEF SegmentOut, Writers
    <3>2. Extends(spelt.bits, a) /\ Written(spelt.bits, Len(a), 1, 1)
      BY <2>2, <3>1, ExtendsTransitive, WrittenStays
    <3>3. Len(a) <= Len(spelt.bits)
      BY <1>0, <2>2, <3>1, LenProperties
    <3> QED
      BY <2>4, <3>1, <3>2, <3>3 DEF Wrote, TldAt
  <2>6. TldOut(spelt, a, name)
    BY <2>4, <2>5 DEF TldOut
  <2> QED
    BY <1>4, <2>6 DEF spelt
<1> QED
  BY <1>2, <1>3, <1>4

LEMMA FlagsOut ==
  ASSUME NEW a \in Seq(Bit), NEW u
  PROVE  \E w : /\ w = WriteFields([ok |-> TRUE, bits |-> a],
                         << <<IF u.path # <<>> THEN 1 ELSE 0, 1>>,
                            <<IF u.query # <<>> THEN 1 ELSE 0, 1>>,
                            <<IF u.fragment # <<>> THEN 1 ELSE 0, 1>> >>)
                /\ Wrote(w, a) /\ FlagsAt(u, w.bits, Len(a), Len(w.bits))
<1> DEFINE x == IF u.path # <<>> THEN 1 ELSE 0
           y == IF u.query # <<>> THEN 1 ELSE 0
           z == IF u.fragment # <<>> THEN 1 ELSE 0
<1>1. x = FlagOf(u.path # <<>>) /\ y = FlagOf(u.query # <<>>) /\ z = FlagOf(u.fragment # <<>>)
  BY DEF FlagOf
<1>2. Fits(x, 1) /\ Fits(y, 1) /\ Fits(z, 1)
  BY SmallFit
<1> HIDE DEF x, y, z
<1>3. PICK b : /\ WriteFields([ok |-> TRUE, bits |-> a], << <<x, 1>>, <<y, 1>>, <<z, 1>> >>)
                    = [ok |-> TRUE, bits |-> b]
               /\ ThreeWritten(a, b, x, 1, y, 1, z, 1)
  BY <1>2, ThreeFields
<1>4. Wrote([ok |-> TRUE, bits |-> b], a)
  BY <1>3, WroteBits DEF ThreeWritten
<1>5. FlagsAt(u, b, Len(a), Len(b))
  <2>1. Len(a) \in Nat /\ Len(a) + 1 + 1 = Len(a) + 2 /\ Len(a) + 1 + 1 + 1 = Len(a) + 3
    BY LenProperties
  <2>2. /\ Written(b, Len(a), x, 1) /\ Written(b, Len(a) + 1, y, 1) /\ Written(b, Len(a) + 2, z, 1)
        /\ Len(b) = Len(a) + 3
    BY <1>3, <2>1 DEF ThreeWritten
  <2> QED
    BY <1>1, <2>2 DEF FlagsAt
<1> QED
  BY <1>3, <1>4, <1>5 DEF x, y, z

(* The count of a region that is there. *)
LEMMA CountOut ==
  ASSUME NEW a \in Seq(Bit), NEW n \in 0..MaxSegments
  PROVE  \E w : /\ w = WriteCompactCount([ok |-> TRUE, bits |-> a], n)
                /\ Wrote(w, a) /\ CountAt(w.bits, Len(a), n) /\ Len(w.bits) = Len(a) + CountBits(n)
<1>1. n \in Nat /\ n < Pow2[WordBits]
  <2>1. MaxSegments \in 0..(Pow2[WordBits] - 1)
    BY WireLimits
  <2>2. Pow2[WordBits] \in Nat
    BY Widths, Pow2Type
  <2> QED
    BY <2>1, <2>2
<1>2. PICK b \in Seq(Bit) :
        /\ WriteCompactCount([ok |-> TRUE, bits |-> a], n) = [ok |-> TRUE, bits |-> b]
        /\ Len(b) = Len(a) + CountBits(n) /\ Extends(b, a) /\ CountAt(b, Len(a), n)
  BY <1>1, WriteCompactCountAppends
<1>3. Wrote([ok |-> TRUE, bits |-> b], a)
  BY <1>2, WroteBits
<1> QED
  BY <1>2, <1>3

(* A pair is refused for one of its two texts only. *)
PairOut(w, a, pair) ==
  /\ w \in Writers
  /\ Small(pair.key) /\ Small(pair.value.text) => w.ok
  /\ w.ok => Wrote(w, a) /\ PairAt(pair, w.bits, Len(a), Len(w.bits))

LEMMA PairWritten ==
  ASSUME NEW a \in Seq(Bit), NEW pair \in TidyPairs
  PROVE  PairOut(WritePair([ok |-> TRUE, bits |-> a], pair), a, pair)
<1> DEFINE start == [ok |-> TRUE, bits |-> a]
           key == WriteEntry(start, pair.key, QueryKeys, KeyBits, TRUE)
           w == WritePair(start, pair)
<1>0. Len(a) \in Nat /\ Fits(0, 1) /\ Fits(1, 1)
  BY LenProperties, SmallFit
<1>1. /\ QueryKeys \in Seq(Seq(Ascii)) /\ Len(QueryKeys) <= Pow2[KeyBits] /\ KeyBits \in 0..WordBits
      /\ QueryValues \in Seq(Seq(Ascii)) /\ Len(QueryValues) <= Pow2[ValueBits]
      /\ ValueBits \in 0..WordBits
  BY Dictionaries, WireLimits
<1>2. pair.key \in TidyTexts /\ pair.value.text \in TidyTexts
  BY DEF TidyPairs
<1>3. EntryOut(key, a, pair.key, QueryKeys, KeyBits)
  BY <1>1, <1>2, EntryAppended
<1>4. w = IF pair.value.some
          THEN WriteEntry(WriteBits(key, 1, 1), pair.value.text, QueryValues, ValueBits, TRUE)
          ELSE WriteBits(key, 0, 1)
  BY DEF WritePair
<1> HIDE DEF key, w
<1>5. key \in Writers /\ (Small(pair.key) => key.ok)
  BY <1>3 DEF EntryOut, Small
<1>6. CASE ~key.ok
  <2>1. key.ok = FALSE
    BY <1>5, <1>6 DEF Writers
  <2>2. w = key
    <3>1. /\ \A v, n : WriteBits(key, v, n) = key
          /\ \A s, dict, width, huff : WriteEntry(key, s, dict, width, huff) = key
      BY <1>5, <2>1, FailedStays
    <3>2. WriteBits(key, 1, 1) = key /\ WriteBits(key, 0, 1) = key
      BY <3>1
    <3> QED
      BY <1>4, <3>1, <3>2
  <2>3. PairOut(w, a, pair)
    BY <1>5, <1>6, <2>2 DEF PairOut
  <2> QED
    BY <2>3 DEF w
<1>7. CASE key.ok
  <2> DEFINE k == key.bits
             m == Len(k)
  <2>1. /\ k \in Seq(Bit) /\ key = [ok |-> TRUE, bits |-> k] /\ Extends(k, a) /\ Len(a) <= m
        /\ EntryAt(k, Len(a), m, pair.key, QueryKeys, KeyBits) /\ m \in Nat
    BY <1>3, <1>5, <1>7, LenProperties DEF EntryOut, Writers
  <2> HIDE DEF k
  <2>2. CASE ~pair.value.some
    <3>1. PICK b : WriteBits(key, 0, 1) = [ok |-> TRUE, bits |-> b] /\ OneWritten(k, b, 0, 1)
      BY <1>0, <2>1, OneField
    <3>2. b \in Seq(Bit) /\ Extends(b, k) /\ Len(b) = m + 1 /\ Written(b, m, 0, 1)
      BY <3>1 DEF OneWritten
    <3>3. Extends(b, a) /\ EntryAt(b, Len(a), m, pair.key, QueryKeys, KeyBits)
      BY <2>1, <3>2, ExtendsTransitive, SegmentStays
    <3>4. PairAt(pair, b, Len(a), Len(b))
      BY <2>1, <2>2, <3>2, <3>3 DEF PairAt
    <3>5. Wrote([ok |-> TRUE, bits |-> b], a)
      BY <3>2, <3>3, WroteBits
    <3>6. w = [ok |-> TRUE, bits |-> b]
      BY <1>4, <2>2, <3>1
    <3>7. PairOut(w, a, pair)
      BY <3>4, <3>5, <3>6 DEF PairOut, Wrote
    <3> QED
      BY <3>7 DEF w
  <2>3. CASE pair.value.some
    <3>1. PICK b : WriteBits(key, 1, 1) = [ok |-> TRUE, bits |-> b] /\ OneWritten(k, b, 1, 1)
      BY <1>0, <2>1, OneField
    <3>2. b \in Seq(Bit) /\ Extends(b, k) /\ Len(b) = m + 1 /\ Written(b, m, 1, 1)
      BY <3>1 DEF OneWritten
    <3>3. EntryOut(w, b, pair.value.text, QueryValues, ValueBits)
      <4>1. w = WriteEntry([ok |-> TRUE, bits |-> b], pair.value.text, QueryValues, ValueBits, TRUE)
        BY <1>4, <2>3, <3>1
      <4> QED
        BY <1>1, <1>2, <3>2, <4>1, EntryAppended
    <3>4. w \in Writers /\ (Small(pair.value.text) => w.ok)
      BY <3>3 DEF EntryOut, Small
    <3>5. ASSUME w.ok
          PROVE  Wrote(w, a) /\ PairAt(pair, w.bits, Len(a), Len(w.bits))
      <4> DEFINE c == w.bits
      <4>1. /\ w.ok = TRUE /\ c \in Seq(Bit) /\ Extends(c, b) /\ Len(b) <= Len(c)
            /\ EntryAt(c, m + 1, Len(c), pair.value.text, QueryValues, ValueBits)
        BY <3>2, <3>3, <3>5 DEF EntryOut, Writers
      <4> HIDE DEF c
      <4>2. Extends(c, k) /\ Extends(c, a)
        BY <2>1, <3>2, <4>1, ExtendsTransitive
      <4>3. EntryAt(c, Len(a), m, pair.key, QueryKeys, KeyBits) /\ Written(c, m, 1, 1)
        BY <2>1, <3>2, <4>1, <4>2, SegmentStays, WrittenStays
      <4>4. PairAt(pair, c, Len(a), Len(c))
        BY <2>1, <2>3, <4>1, <4>3 DEF PairAt
      <4>5. Len(a) <= Len(c)
        BY <4>2 DEF Extends
      <4> QED
        BY <3>4, <4>1, <4>2, <4>4, <4>5 DEF Wrote, c
    <3>6. PairOut(w, a, pair)
      BY <3>4, <3>5 DEF PairOut
    <3> QED
      BY <3>6 DEF w
  <2> QED
    BY <2>2, <2>3
<1> QED
  BY <1>6, <1>7

-----------------------------------------------------------------------------
(* The fields of a parsed URL, as the encoder cuts them. *)

LEMMA CutNamed ==
  ASSUME NEW x \in Names, NEW suffix \in PortTails
  PROVE  /\ Cut(x \o suffix).text = x
         /\ Cut(x \o suffix).port \in {NoPort} \cup DOMAIN PortText
<1> DEFINE s == x \o suffix
           colon == Find(s, {":"})
           digits == After(s, colon)
<1>1. /\ x \in Seq(Ascii) /\ Len(x) \in Nat /\ x \in Seq(Ascii \ {":"})
      /\ \A i \in 1..Len(x) : x[i] # ":"
  <2>1. x \in Seq(Ascii \ {":"}) /\ x \in Seq(Ascii)
    BY DEF Names, TidyTexts
  <2>2. \A i \in 1..Len(x) : x[i] \in Ascii \ {":"}
    BY <2>1, ElementOfSeq
  <2> QED
    BY <2>1, <2>2, LenProperties
<1>2. suffix \in Seq(Ascii) /\ Len(suffix) \in Nat
  BY SuffixType
<1>3. /\ s \in Seq(Ascii) /\ Len(s) = Len(x) + Len(suffix)
      /\ \A i \in 1..Len(x) : s[i] = x[i]
      /\ \A i \in 1..Len(suffix) : s[Len(x) + i] = suffix[i]
  BY <1>1, <1>2, JoinedText
<1> HIDE DEF s
<1>4. /\ colon \in 0..Len(s)
      /\ colon = 0 => \A i \in 1..Len(s) : s[i] # ":"
      /\ colon # 0 => s[colon] = ":" /\ \A i \in 1..(colon - 1) : s[i] # ":"
  BY <1>3, FindFinds
<1>5. CASE suffix = <<>>
  <2>1. s = x /\ Len(s) = Len(x)
    BY <1>1, <1>5 DEF s
  <2>2. colon = 0
    BY <1>1, <1>4, <2>1
  <2>3. Cut(s) = [text |-> s, port |-> NoPort]
    BY <2>2 DEF Cut
  <2> QED
    BY <2>1, <2>3 DEF s
<1>6. CASE suffix # <<>>
  <2>1. PICK p \in DOMAIN PortText : suffix = <<":", PortText[p]>>
    BY <1>6 DEF PortTails
  <2>2. PortText[p] \in DOMAIN Numeral /\ Numeral[PortText[p]] \in DOMAIN PortText
    BY CharacterSet
  <2>3. Len(suffix) = 2 /\ suffix[1] = ":" /\ suffix[2] = PortText[p]
    BY <2>1
  <2>4. Len(s) = Len(x) + 2 /\ s[Len(x) + 1] = ":" /\ s[Len(x) + 2] = PortText[p]
    BY <1>3, <2>3
  <2>5. colon = Len(x) + 1
    <3>1. colon # 0
      BY <1>1, <1>4, <2>4
    <3>2. ~(colon <= Len(x))
      <4> SUFFICES ASSUME colon <= Len(x) PROVE FALSE
        OBVIOUS
      <4>1. colon \in 1..Len(x)
        BY <1>1, <1>4, <3>1
      <4> QED
        BY <1>1, <1>3, <1>4, <3>1, <4>1
    <3>3. ~(colon > Len(x) + 1)
      <4> SUFFICES ASSUME colon > Len(x) + 1 PROVE FALSE
        OBVIOUS
      <4>1. Len(x) + 1 \in 1..(colon - 1)
        BY <1>1, <1>4
      <4> QED
        BY <1>4, <2>4, <3>1, <4>1
    <3> QED
      BY <1>1, <1>4, <3>1, <3>2, <3>3
  <2>6. Len(digits) = 1 /\ digits[1] = PortText[p]
    <3>1. digits = SubSeq(s, Len(x) + 2, Len(x) + 2)
      BY <1>1, <2>4, <2>5 DEF After
    <3> HIDE DEF digits
    <3>2. Len(x) + 2 \in 1..Len(s)
      BY <1>1, <2>4
    <3>3. \A k \in 1..Len(s) : Len(SubSeq(s, k, k)) = 1 /\ SubSeq(s, k, k)[1] = s[k]
      BY <1>3, SubSeqProperties
    <3> QED
      BY <2>4, <3>1, <3>2, <3>3
  <2>7. Before(s, colon) = x
    <3>1. Before(s, colon) = SubSeq(s, 1, Len(x))
      BY <1>1, <2>5 DEF Before
    <3>2. SubSeq(s, 1, Len(x)) = x
      BY <1>1, <1>3, <2>4
    <3> QED
      BY <3>1, <3>2
  <2> HIDE DEF digits
  <2>9. Cut(s) = [text |-> Before(s, colon), port |-> Numeral[PortText[p]]]
    BY <1>1, <2>2, <2>5, <2>6 DEF Cut, digits
  <2> QED
    BY <2>2, <2>7, <2>9 DEF s
<1> QED
  BY <1>5, <1>6

LEMMA HostFields ==
  ASSUME NEW u, Named(u)
  PROVE  /\ NameOf(u) \in Names /\ TldOf(u) \in Names
         /\ PortOf(u) \in {NoPort} \cup DOMAIN PortText
<1>1. PICK name \in Names, tail \in Names, suffix \in PortTails :
        \/ u.host = name \o suffix /\ u.tld = <<>>
        \/ u.host = name /\ u.tld = tail \o suffix
  BY DEF Named
<1>2. /\ <<>> \in Names /\ <<>> \in PortTails
      /\ name \o <<>> = name /\ <<>> \o <<>> = <<>>
  BY EmptyIsTidy DEF Names, PortTails, TidyTexts
<1>3. /\ Cut(name \o suffix).text = name /\ Cut(tail \o suffix).text = tail
      /\ Cut(name).text = name /\ Cut(<<>>).text = <<>>
  BY <1>2, CutNamed
<1>4. /\ Cut(name \o suffix).port \in {NoPort} \cup DOMAIN PortText
      /\ Cut(tail \o suffix).port \in {NoPort} \cup DOMAIN PortText
      /\ Cut(name).port \in {NoPort} \cup DOMAIN PortText
      /\ Cut(<<>>).port \in {NoPort} \cup DOMAIN PortText
  BY <1>2, CutNamed
<1>5. CASE u.host = name \o suffix /\ u.tld = <<>>
  BY <1>2, <1>3, <1>4, <1>5 DEF NameOf, TldOf, PortOf
<1>6. CASE u.host = name /\ u.tld = tail \o suffix
  BY <1>3, <1>4, <1>6 DEF NameOf, TldOf, PortOf
<1> QED
  BY <1>1, <1>5, <1>6

(* Everything the encoder writes of a URL is a text of the right kind. *)
Fields(u) ==
  /\ NameOf(u) \in Names /\ TldOf(u) \in Names
  /\ NameOf(u) \in TidyTexts /\ TldOf(u) \in TidyTexts
  /\ PortOf(u) \in {NoPort} \cup DOMAIN PortText
  /\ u.index \in {"none", "html", "php", "other"}
  /\ IndexCode(u.index) \in 0..3 /\ (IndexCode(u.index) = 3 <=> u.index = "other")
  /\ u.index = "other" => Last(u.path) \in TidyTexts
  /\ LabelsOf(u) \in Seq(TidyTexts)
  /\ u.path \in Seq(TidyTexts) /\ PathItems(u) \in Seq(TidyTexts)
  /\ u.path = <<>> => PathItems(u) = <<>>
  /\ u.index # "none" => u.path # <<>>
  /\ u.query \in Seq(TidyPairs) /\ u.fragment \in Seq(TidyTexts)

LEMMA IndexCodes ==
  ASSUME NEW kind \in {"none", "html", "php", "other"}
  PROVE  IndexCode(kind) \in 0..3 /\ (IndexCode(kind) = 3 <=> kind = "other")
<1> DEFINE kinds == {"none", "html", "php", "other"}
           code == Index(kind, IndexKinds)
<1>1. IndexKinds \in Seq(kinds) /\ Len(IndexKinds) = 4
  BY DEF IndexKinds
<1>2. IndexKinds[1] = "none" /\ IndexKinds[2] = "html" /\ IndexKinds[3] = "php"
      /\ IndexKinds[4] = "other"
  BY DEF IndexKinds
<1>3. kind \in ToSet(IndexKinds)
  <2>1. \E i \in 1..Len(IndexKinds) : IndexKinds[i] = kind
    BY <1>1, <1>2
  <2> QED
    BY <2>1 DEF ToSet
<1> HIDE DEF kinds
<1>4. code \in 0..(Len(IndexKinds) - 1) /\ IndexKinds[code + 1] = kind
  BY <1>1, <1>3, IndexFinds
<1> HIDE DEF code
<1>5. code \in 0..3
  BY <1>1, <1>4
<1>6. code = 3 <=> kind = "other"
  <2>1. code = 0 \/ code = 1 \/ code = 2 \/ code = 3
    BY <1>5
  <2>2. /\ code = 0 => IndexKinds[1] = kind
        /\ code = 1 => IndexKinds[2] = kind
        /\ code = 2 => IndexKinds[3] = kind
        /\ code = 3 => IndexKinds[4] = kind
    BY <1>4
  <2> QED
    BY <1>2, <2>1, <2>2
<1> QED
  BY <1>5, <1>6 DEF IndexCode, code

LEMMA FieldsOfUrl ==
  ASSUME NEW u, TidyUrl(u)
  PROVE  Fields(u)
<1>1. /\ NameOf(u) \in Names /\ TldOf(u) \in Names
      /\ PortOf(u) \in {NoPort} \cup DOMAIN PortText
  BY HostFields DEF TidyUrl
<1>2. NameOf(u) \in TidyTexts /\ TldOf(u) \in TidyTexts
  BY <1>1 DEF Names
<1>3. LabelsOf(u) \in Seq(TidyTexts)
  BY <1>2, SplitIsTidy DEF LabelsOf
<1>4. IndexCode(u.index) \in 0..3 /\ (IndexCode(u.index) = 3 <=> u.index = "other")
  BY IndexCodes DEF TidyUrl
<1>5. u.path \in Seq(TidyTexts) /\ (u.index # "none" => u.path # <<>>)
      /\ u.query \in Seq(TidyPairs) /\ u.fragment \in Seq(TidyTexts)
  BY DEF TidyUrl
<1>6. u.path # <<>> => Last(u.path) \in TidyTexts /\ Front(u.path) \in Seq(TidyTexts)
  <2> SUFFICES ASSUME u.path # <<>> PROVE Last(u.path) \in TidyTexts /\ Front(u.path) \in Seq(TidyTexts)
    OBVIOUS
  <2>1. Len(u.path) \in Nat \ {0}
    BY <1>5
  <2>2. Last(u.path) \in TidyTexts
    BY <1>5, <2>1, ElementOfSeq DEF Last
  <2>3. Front(u.path) \in Seq(TidyTexts)
    BY <1>5, <2>1 DEF Front
  <2> QED
    BY <2>2, <2>3
<1>7. PathItems(u) \in Seq(TidyTexts) /\ (u.path = <<>> => PathItems(u) = <<>>)
  BY <1>5, <1>6 DEF PathItems
<1>8. u.index \in {"none", "html", "php", "other"}
  BY DEF TidyUrl
<1> QED
  BY <1>1, <1>2, <1>3, <1>4, <1>5, <1>6, <1>7, <1>8 DEF Fields

(* The limits on the fields of a URL, one by one. *)
LimitsOf(u) ==
  /\ \/ Known(NameOf(u), Hosts) \/ Small(NameOf(u))
     \/ Labelled(LabelsOf(u)) /\ \A s \in ToSet(LabelsOf(u)) : Small(s)
  /\ Small(TldOf(u))
  /\ \A s \in ToSet(u.path) : Small(s)
  /\ \A s \in ToSet(u.fragment) : Small(s)
  /\ \A p \in ToSet(u.query) : Small(p.key) /\ Small(p.value.text)
  /\ Len(u.path) <= MaxSegments /\ Len(u.query) <= MaxSegments /\ Len(u.fragment) <= MaxSegments

LEMMA LimitsSpelt ==
  ASSUME NEW u, WithinLimits(u)
  PROVE  LimitsOf(u)
<1>1. /\ \/ Known(NameOf(u), Hosts) \/ Small(NameOf(u))
         \/ Len(LabelsOf(u)) \in 2..MaxLabels /\ \A s \in ToSet(LabelsOf(u)) : Small(s)
      /\ Small(TldOf(u))
      /\ \A s \in ToSet(u.path) \cup ToSet(u.fragment) : Small(s)
      /\ \A p \in ToSet(u.query) : Small(p.key) /\ Small(p.value.text)
      /\ \A n \in {Len(u.path), Len(u.query), Len(u.fragment)} : n <= MaxSegments
  BY Zenon DEF WithinLimits, Small, NameOf, LabelsOf, TldOf
<1> QED
  BY <1>1 DEF LimitsOf, Labelled

-----------------------------------------------------------------------------
(* The encoder between two blocks. *)
LoopSteps == {"labels", "segments", "pairs", "parts"}

ItemsOf(u, step) ==
  IF step = "labels" THEN LabelsOf(u)
  ELSE IF step = "segments" THEN PathItems(u)
  ELSE IF step = "pairs" THEN u.query ELSE u.fragment

(* Of the items of a loop, done are written and rest are not. *)
StillToDo(u, step, rest, done) ==
  IF step \in LoopSteps
  THEN /\ step = "labels" => Labelled(LabelsOf(u))
       /\ done \in 0..(Len(ItemsOf(u, step)) - 1)
       /\ rest = SubSeq(ItemsOf(u, step), done + 1, Len(ItemsOf(u, step)))
  ELSE done = 0

Encoding(c) ==
  /\ Fields(url)
  /\ out \in Writers /\ out.ok = TRUE
  /\ c \in Configs /\ c.step = estep /\ c.pos = Len(out.bits)
  /\ StillToDo(url, estep, todo, c.done)

(* A block goes out as it should, or is refused for one of the limits. *)
Advances(c) ==
  /\ url' = url /\ out' \in Writers
  /\ out'.ok => /\ Extends(out'.bits, out.bits)
                /\ \E b \in Configs : Encoding(b)' /\ Laid(url, out'.bits, c, b)
  /\ ~out'.ok => estep' = "rejected" /\ ~WithinLimits(url)

LEMMA ItemsTyped ==
  ASSUME NEW u, Fields(u), NEW step
  PROVE  /\ Len(ItemsOf(u, step)) \in Nat
         /\ ItemsOf(u, step) = <<>> <=> Len(ItemsOf(u, step)) = 0
<1>1. \E S : ItemsOf(u, step) \in Seq(S)
  BY DEF ItemsOf, Fields
<1> QED
  BY <1>1, LenProperties

LEMMA Emitted ==
  ASSUME NEW c, Encoding(c), NEW w \in Writers, NEW next \in EncoderSteps, NEW rest,
         Emit(w, next, rest), NEW done \in Nat,
         ~w.ok => ~WithinLimits(url),
         w.ok => /\ Wrote(w, out.bits)
                 /\ StillToDo(url, next, rest, done)
                 /\ Laid(url, w.bits, c, [step |-> next, pos |-> Len(w.bits), done |-> done])
  PROVE  Advances(c)
<1>1. url' = url /\ out' = w /\ todo' = rest /\ estep' = IF w.ok THEN next ELSE "rejected"
  BY DEF Emit
<1>2. CASE ~w.ok
  BY <1>1, <1>2 DEF Advances
<1>3. CASE w.ok
  <2> DEFINE b == [step |-> next, pos |-> Len(w.bits), done |-> done]
  <2>1. w.ok = TRUE /\ w.bits \in Seq(Bit) /\ Extends(w.bits, out.bits)
    BY <1>3 DEF Wrote, Writers
  <2>2. b \in Configs /\ b.step = next /\ b.pos = Len(w.bits) /\ b.done = done
    BY <2>1, LenProperties DEF Configs
  <2>3. Laid(url, w.bits, c, b) /\ StillToDo(url, next, rest, done)
    BY <1>3
  <2> HIDE DEF b
  <2>4. Encoding(b)'
    <3>1. Fields(url)' = Fields(url)
      BY <1>1
    <3>2. Fields(url)'
      BY <3>1 DEF Encoding
    <3>3. out' \in Writers /\ out'.ok = TRUE /\ b.step = estep' /\ b.pos = Len(out'.bits)
      BY <1>1, <1>3, <2>1, <2>2
    <3>4. StillToDo(url, estep, todo, b.done)'
      BY <1>1, <1>3, <2>2, <2>3 DEF StillToDo, LoopSteps
    <3> QED
      BY <2>2, <3>2, <3>3, <3>4 DEF Encoding
  <2> QED
    BY <1>1, <1>3, <2>1, <2>2, <2>3, <2>4 DEF Advances
<1> QED
  BY <1>2, <1>3

(* The writer in the form the lemmas on writing have it. *)
LEMMA EncodingWriter ==
  ASSUME NEW c, Encoding(c)
  PROVE  /\ out = [ok |-> TRUE, bits |-> out.bits] /\ out.bits \in Seq(Bit)
         /\ Len(out.bits) \in Nat /\ c.pos = Len(out.bits) /\ c.step = estep
<1>1. out \in Writers /\ out.ok = TRUE
  BY DEF Encoding
<1>2. out = [ok |-> TRUE, bits |-> out.bits] /\ out.bits \in Seq(Bit)
  BY <1>1 DEF Writers
<1> QED
  BY <1>2, LenProperties DEF Encoding

LEMMA HeaderAdvances ==
  ASSUME NEW c, Encoding(c), WriteHeader
  PROVE  Advances(c)
<1>1. out = [ok |-> TRUE, bits |-> out.bits] /\ out.bits \in Seq(Bit) /\ c.pos = Len(out.bits)
      /\ c.step = "header"
  BY EncodingWriter DEF WriteHeader
<1>2. IndexCode(url.index) \in 0..3
  BY DEF Encoding, Fields
<1>3. PICK w : /\ w = WriteFields([ok |-> TRUE, bits |-> out.bits],
                        << <<WireVersion, 4>>, <<DictSetId, 4>>,
                           <<IF url.https THEN 1 ELSE 0, 1>>, <<IF url.www THEN 1 ELSE 0, 1>>,
                           <<IndexCode(url.index), 2>> >>)
               /\ Wrote(w, out.bits) /\ HeaderAt(url, w.bits, Len(out.bits), Len(w.bits))
  BY <1>1, <1>2, HeaderOut
<1>4. Emit(w, "port", <<>>)
  BY <1>1, <1>3 DEF WriteHeader
<1>5. w \in Writers /\ w.ok /\ "port" \in EncoderSteps
  BY <1>3 DEF Wrote, EncoderSteps
<1>6. Laid(url, w.bits, c, [step |-> "port", pos |-> Len(w.bits), done |-> 0])
  BY <1>1, <1>3 DEF Laid, Goes
<1>7. StillToDo(url, "port", <<>>, 0)
  BY DEF StillToDo, LoopSteps
<1> QED
  BY <1>3, <1>4, <1>5, <1>6, <1>7, Emitted

LEMMA LabelCounts ==
  ASSUME NEW labels, Labelled(labels)
  PROVE  Len(labels) \in Nat /\ 2 <= Len(labels) /\ Len(labels) <= 9
<1>1. \A n : n \in 2..9 => n \in Nat /\ 2 <= n /\ n <= 9
  OBVIOUS
<1>2. Len(labels) \in 2..9
  BY DEF Labelled, MaxLabels
<1> QED
  BY ONLY <1>1, <1>2

LEMMA PortAdvances ==
  ASSUME NEW c, Encoding(c), WritePort
  PROVE  Advances(c)
<1>1. out = [ok |-> TRUE, bits |-> out.bits] /\ out.bits \in Seq(Bit) /\ c.pos = Len(out.bits)
      /\ c.step = "port"
  BY EncodingWriter DEF WritePort
<1>2. PortOf(url) \in {NoPort} \cup DOMAIN PortText
  BY DEF Encoding, Fields
<1>3. PICK w : /\ w = WriteFields([ok |-> TRUE, bits |-> out.bits],
                        IF PortOf(url) = NoPort THEN << <<0, 1>> >>
                        ELSE IF Contains(ShortPorts, PortOf(url))
                        THEN << <<1, 1>>, <<Index(PortOf(url), ShortPorts), 2>> >>
                        ELSE << <<1, 1>>, <<LiteralPort, 2>>, <<PortOf(url), PortBits>> >>)
               /\ Wrote(w, out.bits) /\ PortAt(w.bits, Len(out.bits), Len(w.bits))
  BY <1>1, <1>2, PortOut
<1>4. Emit(w, "host", <<>>)
  BY <1>1, <1>3 DEF WritePort
<1>5. w \in Writers /\ w.ok /\ "host" \in EncoderSteps
  BY <1>3 DEF Wrote, EncoderSteps
<1>6. Laid(url, w.bits, c, [step |-> "host", pos |-> Len(w.bits), done |-> 0])
  BY <1>1, <1>3 DEF Laid, Goes
<1>7. StillToDo(url, "host", <<>>, 0)
  BY DEF StillToDo, LoopSteps
<1> QED
  BY <1>3, <1>4, <1>5, <1>6, <1>7, Emitted

(* A host of several labels: their number, then they are all still to do.  *)
LEMMA LabelCountAdvances ==
  ASSUME NEW c, Encoding(c), WriteHost, Labelled(LabelsOf(url))
  PROVE  Advances(c)
<1>1. out = [ok |-> TRUE, bits |-> out.bits] /\ out.bits \in Seq(Bit) /\ c.pos = Len(out.bits)
      /\ c.step = "host" /\ Len(out.bits) \in Nat
  BY EncodingWriter DEF WriteHost
<1> DEFINE labels == LabelsOf(url)
<1>2. labels \in Seq(TidyTexts) /\ Len(labels) \in Nat /\ 2 <= Len(labels) /\ Len(labels) <= 9
  BY LabelCounts DEF Encoding, Fields
<1>0. labels = LabelsOf(url)
  OBVIOUS
<1> HIDE DEF labels
<1>3. Fits(1, 1) /\ Fits(Len(labels) - 2, 3)
  <2>1. \A n \in Nat : 2 <= n /\ n <= 9 => n - 2 \in 0..7
    OBVIOUS
  <2>2. Len(labels) - 2 \in 0..7
    BY ONLY <1>2, <2>1
  <2>3. 1 \in 0..1
    OBVIOUS
  <2> QED
    BY ONLY <2>2, <2>3, SmallFit
<1>4. PICK b : /\ WriteFields([ok |-> TRUE, bits |-> out.bits], << <<1, 1>>, <<Len(labels) - 2, 3>> >>)
                    = [ok |-> TRUE, bits |-> b]
               /\ TwoWritten(out.bits, b, 1, 1, Len(labels) - 2, 3)
  BY <1>1, <1>3, TwoFields
<1> DEFINE w == [ok |-> TRUE, bits |-> b]
<1>5. Wrote(w, out.bits)
  BY <1>1, <1>4, WroteBits DEF TwoWritten
<1>6. Emit(w, "labels", labels)
  BY <1>0, <1>1, <1>4 DEF WriteHost, LabelsOf, NameOf
<1>7. w \in Writers /\ w.ok /\ w.bits = b /\ "labels" \in EncoderSteps
  BY <1>5 DEF Wrote, EncoderSteps
<1>8. HostAt(url, b, Len(out.bits), Len(b))
  BY <1>0, <1>1, <1>2, <1>4 DEF HostAt, TwoWritten
<1>9. Laid(url, w.bits, c, [step |-> "labels", pos |-> Len(w.bits), done |-> 0])
  BY <1>0, <1>1, <1>7, <1>8 DEF Laid, Goes
<1>10. StillToDo(url, "labels", labels, 0)
  <2>1. ItemsOf(url, "labels") = labels
    BY <1>0 DEF ItemsOf
  <2>2. labels = SubSeq(labels, 1, Len(labels)) /\ 0 \in 0..(Len(labels) - 1)
    BY <1>2
  <2> QED
    BY <1>0, <2>1, <2>2 DEF StillToDo, LoopSteps
<1> HIDE DEF w
<1> QED
  BY <1>5, <1>6, <1>7, <1>9, <1>10, Emitted

(* The parts of a name are no longer than it is, and a name of two parts   *)
(* holds a dot.                                                            *)
LEMMA SmallLabels ==
  ASSUME NEW name \in TidyTexts, name \in Names,
         Labelled(Split(name, ".")),
         Known(name, Hosts) \/ Small(name)
  PROVE  \A s \in ToSet(Split(name, ".")) : Small(s)
<1> DEFINE ps == Split(name, ".")
<1>1. name \in Seq(Ascii) /\ Len(name) \in Nat
  BY LenProperties DEF TidyTexts
<1>2. ps \in Seq(TidyTexts) /\ Len(ps) \in Nat /\ Len(ps) >= 2
  BY SplitIsTidy, LabelCounts
<1>3. ps \in Seq(Seq(Ascii))
  <2>1. TidyTexts \subseteq Seq(Ascii)
    BY DEF TidyTexts
  <2> HIDE DEF ps
  <2> QED
    BY <1>2, <2>1
<1>4. PICK e : Cuts(e, ps, name, Len(name), ".")
  BY <1>1, SplitCuts
<1> HIDE DEF ps
<1>5. \A j \in 1..Len(ps) : PartAt(ps[j], name, e[j - 1] + 1)
  BY <1>1, <1>3, <1>4, CutsAreParts
<1>6. \A j \in 1..Len(ps) : ps[j] \in Seq(Ascii) /\ Len(ps[j]) \in Nat
  BY <1>3, ElementOfSeq, LenProperties
<1>7. \E i \in 1..Len(name) : name[i] = "."
  <2>1. 1 \in 1..Len(ps) /\ 2 \in 1..Len(ps) /\ 1 < Len(ps)
    BY <1>2
  <2>2. name[e[1] + 1] = "." /\ e[1] = e[0] + 1 + Len(ps[1]) /\ e[0] = -1
    BY <1>4, <2>1 DEF Cuts
  <2>3. e[1] + 1 \in 0..(Len(name) - Len(ps[2]))
    BY <1>5, <2>1 DEF PartAt
  <2> QED
    BY <1>1, <1>6, <2>1, <2>2, <2>3
<1>8. ~IsPurePercent(name)
  <2> SUFFICES ASSUME IsPurePercent(name) PROVE FALSE
    OBVIOUS
  <2>1. PICK i \in 1..Len(name) : name[i] = "."
    BY <1>7
  <2>2. IF i % 3 = 1 THEN name[i] = "%" ELSE IsHex(name[i])
    BY <2>1 DEF IsPurePercent
  <2>3. "." \notin DOMAIN HexVal
    BY DelimitersStandAlone
  <2> QED
    BY <2>1, <2>2, <2>3 DEF IsHex
<1>9. Len(name) <= MaxSymbols
  <2>1. CASE Known(name, Hosts)
    <3>1. Hosts \in Seq(Seq(Ascii)) /\ \A i \in DOMAIN Hosts : Len(Hosts[i]) <= MaxSymbols
      BY Dictionaries
    <3>2. \E i \in 1..Len(Hosts) : Hosts[i] = name
      BY <2>1 DEF Known, Contains
    <3> QED
      BY <3>1, <3>2
  <2>2. CASE Small(name)
    <3>1. ByteLen(name) = Len(name)
      BY <1>1, AsciiBytes
    <3> QED
      BY <1>8, <2>2, <3>1 DEF Small, SymbolCount
  <2> QED
    BY <2>1, <2>2
<1>10. ASSUME NEW s \in ToSet(ps) PROVE Small(s)
  <2>1. PICK j \in 1..Len(ps) : s = ps[j]
    BY <1>3 DEF ToSet
  <2>2. Len(s) \in Nat /\ Len(s) <= Len(name) /\ s \in Seq(Ascii)
    BY <1>1, <1>5, <1>6, <2>1 DEF PartAt
  <2>3. SymbolCount(s) \in 0..Len(s)
    <3>1. s \in Seq(Characters)
      BY <2>2 DEF Characters
    <3>2. ByteLen(s) <= Len(s)
      BY <2>2, AsciiBytes
    <3> QED
      BY <2>2, <3>1, <3>2, CountBounded
  <2>4. MaxSymbols \in Nat
    BY SegmentLimits, Widths, Pow2Type
  <2> QED
    BY <1>1, <1>9, <2>2, <2>3, <2>4 DEF Small
<1> QED
  BY <1>10 DEF ps

LEMMA WholeHostAdvances ==
  ASSUME NEW c, Encoding(c), WriteHost, ~Labelled(LabelsOf(url))
  PROVE  Advances(c)
<1> DEFINE name == NameOf(url)
           a == out.bits
<1>1. out = [ok |-> TRUE, bits |-> a] /\ a \in Seq(Bit) /\ c.pos = Len(a)
      /\ c.step = "host" /\ Len(a) \in Nat
  BY EncodingWriter DEF WriteHost
<1>2. name \in TidyTexts
  BY DEF Encoding, Fields
<1>3. Fits(0, 1)
  BY SmallFit
<1>4. PICK b : WriteBits([ok |-> TRUE, bits |-> a], 0, 1) = [ok |-> TRUE, bits |-> b]
               /\ OneWritten(a, b, 0, 1)
  BY <1>1, <1>3, OneField
<1>5. b \in Seq(Bit) /\ Extends(b, a) /\ Len(b) = Len(a) + 1 /\ Written(b, Len(a), 0, 1)
  BY <1>4 DEF OneWritten
<1> DEFINE w == WriteWholeHost([ok |-> TRUE, bits |-> b], name)
<1>6. WholeHostOut(w, b, name)
  BY <1>2, <1>5, WholeHostWritten
<1>7. Emit(w, "tld", <<>>)
  <2>1. Emit(WriteWholeHost(WriteBits(out, 0, 1), name), "tld", <<>>)
    BY DEF WriteHost, LabelsOf, NameOf
  <2> QED
    BY <1>1, <1>4, <2>1
<1> HIDE DEF w, name, a
<1>8. w \in Writers /\ "tld" \in EncoderSteps
  BY <1>6 DEF WholeHostOut, EncoderSteps
<1>9. ASSUME ~w.ok PROVE ~WithinLimits(url)
  <2>1. ~(Known(name, Hosts) \/ Small(name))
    BY <1>6, <1>9 DEF WholeHostOut
  <2> QED
    BY <2>1, LimitsSpelt DEF LimitsOf, name
<1>10. ASSUME w.ok
       PROVE  Wrote(w, a) /\ Laid(url, w.bits, c, [step |-> "tld", pos |-> Len(w.bits), done |-> 0])
  <2>1. Wrote(w, b) /\ WholeHostAt(name, w.bits, Len(b), Len(w.bits))
    BY <1>6, <1>10 DEF WholeHostOut
  <2>2. w.ok = TRUE /\ w.bits \in Seq(Bit) /\ Extends(w.bits, b) /\ Len(b) <= Len(w.bits)
    BY <2>1 DEF Wrote, Writers
  <2>3. Extends(w.bits, a) /\ Written(w.bits, Len(a), 0, 1)
    BY <1>1, <1>5, <2>2, ExtendsTransitive, WrittenStays
  <2>4. Wrote(w, a)
    <3>1. Len(a) <= Len(w.bits)
      BY <1>1, <1>5, <2>2, LenProperties
    <3> QED
      BY <1>8, <2>2, <2>3, <3>1 DEF Wrote
  <2>5. HostAt(url, w.bits, Len(a), Len(w.bits))
    BY <1>5, <2>1, <2>3 DEF HostAt, name
  <2> QED
    BY <1>1, <2>4, <2>5 DEF Laid, Goes
<1>11. StillToDo(url, "tld", <<>>, 0)
  BY DEF StillToDo, LoopSteps
<1>12. Emit(w, "tld", <<>>) /\ (w.ok => Wrote(w, out.bits))
  BY <1>7, <1>10 DEF a
<1> QED
  BY <1>8, <1>9, <1>10, <1>11, <1>12, Emitted

LEMMA TldAdvances ==
  ASSUME NEW c, Encoding(c), WriteTld
  PROVE  Advances(c)
<1> DEFINE name == TldOf(url)
           a == out.bits
<1>1. out = [ok |-> TRUE, bits |-> a] /\ a \in Seq(Bit) /\ c.pos = Len(a)
      /\ c.step = "tld" /\ Len(a) \in Nat
  BY EncodingWriter DEF WriteTld
<1>2. name \in TidyTexts
  BY DEF Encoding, Fields
<1> DEFINE w == IF name = <<>>
                THEN WriteFields([ok |-> TRUE, bits |-> a], << <<0, 1>>, <<TldEscape, TldBits>> >>)
                ELSE IF Known(name, Tlds)
                THEN WriteFields([ok |-> TRUE, bits |-> a], << <<0, 1>>, <<Index(name, Tlds), TldBits>> >>)
                ELSE WriteSegment(WriteBits([ok |-> TRUE, bits |-> a], 1, 1), name, FALSE)
<1>3. TldOut(w, a, name)
  BY <1>1, <1>2, TldWritten
<1>4. Emit(w, "literal", <<>>)
  BY <1>1 DEF WriteTld, TldOf
<1> HIDE DEF w, name, a
<1>5. w \in Writers /\ "literal" \in EncoderSteps
  BY <1>3 DEF TldOut, EncoderSteps
<1>6. ASSUME ~w.ok PROVE ~WithinLimits(url)
  <2>1. ~Small(name)
    BY <1>3, <1>6 DEF TldOut
  <2> QED
    BY <2>1, LimitsSpelt DEF LimitsOf, name
<1>7. ASSUME w.ok
      PROVE  Wrote(w, a) /\ Laid(url, w.bits, c, [step |-> "literal", pos |-> Len(w.bits), done |-> 0])
  <2>1. Wrote(w, a) /\ TldAt(name, w.bits, Len(a), Len(w.bits))
    BY <1>3, <1>7 DEF TldOut
  <2> QED
    BY <1>1, <2>1 DEF Laid, Goes, name
<1>8. StillToDo(url, "literal", <<>>, 0)
  BY DEF StillToDo, LoopSteps
<1>9. w.ok => Wrote(w, out.bits)
  BY <1>7 DEF a
<1> QED
  BY <1>4, <1>5, <1>6, <1>7, <1>8, <1>9, Emitted

LEMMA LiteralAdvances ==
  ASSUME NEW c, Encoding(c), WriteLiteral
  PROVE  Advances(c)
<1> DEFINE a == out.bits
<1>1. out = [ok |-> TRUE, bits |-> a] /\ a \in Seq(Bit) /\ c.pos = Len(a)
      /\ c.step = "literal" /\ Len(a) \in Nat
  BY EncodingWriter DEF WriteLiteral
<1>2. Fields(url)
  BY DEF Encoding
<1>3. "flags" \in EncoderSteps /\ StillToDo(url, "flags", <<>>, 0)
  BY DEF EncoderSteps, StillToDo, LoopSteps
<1>4. CASE url.index = "other"
  <2> DEFINE item == Last(url.path)
             w == WriteSegment([ok |-> TRUE, bits |-> a], item, TRUE)
  <2>1. SegmentOut(w, a, item)
    <3>1. item \in TidyTexts
      BY <1>2, <1>4 DEF Fields
    <3> QED
      BY <1>1, <3>1, SegmentAppended
  <2>2. Emit(w, "flags", <<>>)
    BY <1>1, <1>4 DEF WriteLiteral
  <2> HIDE DEF w, a, item
  <2>3. w \in Writers
    BY <2>1 DEF SegmentOut
  <2>4. ASSUME ~w.ok PROVE ~WithinLimits(url)
    <3>1. ~Small(item)
      BY <2>1, <2>4 DEF SegmentOut, Small
    <3>2. item \in ToSet(url.path)
      <4>1. url.path \in Seq(TidyTexts) /\ url.path # <<>>
        BY <1>2, <1>4 DEF Fields
      <4> QED
        BY <4>1 DEF ToSet, Last, item
    <3> QED
      BY <3>1, <3>2, LimitsSpelt DEF LimitsOf
  <2>5. ASSUME w.ok
        PROVE  Wrote(w, a) /\ Laid(url, w.bits, c, [step |-> "flags", pos |-> Len(w.bits), done |-> 0])
    <3>1. Wrote(w, a) /\ SegmentAt(w.bits, Len(a), Len(w.bits), item)
      BY <2>1, <2>5 DEF SegmentOut, Wrote
    <3> QED
      BY <1>1, <1>4, <3>1 DEF Laid, Goes, LiteralAt, item
  <2>6. w.ok => Wrote(w, out.bits)
    BY <2>5 DEF a
  <2> QED
    BY <1>3, <2>2, <2>3, <2>4, <2>5, <2>6, Emitted
<1>5. CASE url.index # "other"
  <2>1. Emit(out, "flags", <<>>)
    BY <1>5 DEF WriteLiteral
  <2>2. Wrote(out, a) /\ out \in Writers /\ out.ok
    <3>1. Wrote([ok |-> TRUE, bits |-> a], a)
      BY <1>1, ExtendsItself, WroteBits
    <3> QED
      BY <1>1, <3>1 DEF Wrote
  <2>3. Laid(url, out.bits, c, [step |-> "flags", pos |-> Len(out.bits), done |-> 0])
    BY <1>1, <1>5 DEF Laid, Goes, LiteralAt
  <2> QED
    BY <1>3, <2>1, <2>2, <2>3, Emitted
<1> QED
  BY <1>4, <1>5

LEMMA FlagsAdvance ==
  ASSUME NEW c, Encoding(c), WriteFlags
  PROVE  Advances(c)
<1>1. out = [ok |-> TRUE, bits |-> out.bits] /\ out.bits \in Seq(Bit) /\ c.pos = Len(out.bits)
      /\ c.step = "flags"
  BY EncodingWriter DEF WriteFlags
<1>2. PICK w : /\ w = WriteFields([ok |-> TRUE, bits |-> out.bits],
                         << <<IF url.path # <<>> THEN 1 ELSE 0, 1>>,
                            <<IF url.query # <<>> THEN 1 ELSE 0, 1>>,
                            <<IF url.fragment # <<>> THEN 1 ELSE 0, 1>> >>)
               /\ Wrote(w, out.bits) /\ FlagsAt(url, w.bits, Len(out.bits), Len(w.bits))
  BY <1>1, FlagsOut
<1>3. Emit(w, "path", <<>>)
  BY <1>1, <1>2 DEF WriteFlags
<1>4. w \in Writers /\ w.ok /\ "path" \in EncoderSteps
  BY <1>2 DEF Wrote, EncoderSteps
<1>5. Laid(url, w.bits, c, [step |-> "path", pos |-> Len(w.bits), done |-> 0])
  BY <1>1, <1>2 DEF Laid, Goes
<1>6. StillToDo(url, "path", <<>>, 0)
  BY DEF StillToDo, LoopSteps
<1> QED
  BY <1>2, <1>3, <1>4, <1>5, <1>6, Emitted

-----------------------------------------------------------------------------
(* What is left of a loop's items: the first of them, and the others. *)
LEMMA ItemTaken ==
  ASSUME NEW S, NEW items \in Seq(S), NEW done \in 0..(Len(items) - 1),
         NEW rest, rest = SubSeq(items, done + 1, Len(items))
  PROVE  /\ Head(rest) = items[done + 1] /\ Head(rest) \in S /\ Head(rest) \in ToSet(items)
         /\ Len(rest) = Len(items) - done
         /\ Tail(rest) = SubSeq(items, done + 2, Len(items))
<1>1. Len(items) \in Nat /\ done \in Nat /\ done + 1 \in 1..Len(items)
  BY LenProperties
<1>2. rest \in Seq(S) /\ Len(rest) = Len(items) - done /\ Len(rest) >= 1
  BY <1>1
<1>3. \A i \in 1..Len(rest) : rest[i] = items[done + i]
  BY <1>1
<1>4. Head(rest) = items[done + 1] /\ items[done + 1] \in S
  BY <1>1, <1>2, <1>3
<1>5. items[done + 1] \in ToSet(items)
  BY <1>1 DEF ToSet
<1>6. Tail(rest) = SubSeq(items, done + 2, Len(items))
  <2> DEFINE t == Tail(rest)
             q == SubSeq(items, done + 2, Len(items))
  <2>1. t \in Seq(S) /\ Len(t) = Len(rest) - 1 /\ \A i \in 1..Len(t) : t[i] = rest[i + 1]
    <3>1. rest # <<>>
      <4>1. Len(<<>>) = 0
        OBVIOUS
      <4> QED
        BY ONLY <1>2, <4>1
    <3> QED
      BY <1>2, <3>1, HeadTailProperties
  <2>2. q \in Seq(S) /\ Len(q) = Len(items) - done - 1
        /\ \A i \in 1..Len(q) : q[i] = items[done + 1 + i]
    BY <1>1
  <2> HIDE DEF t, q
  <2>3. Len(t) = Len(q)
    BY <1>1, <1>2, <2>1, <2>2
  <2>4. ASSUME NEW i \in 1..Len(t) PROVE t[i] = q[i]
    <3>1. i + 1 \in 1..Len(rest) /\ i \in 1..Len(q) /\ done + (i + 1) = done + 1 + i
      BY <1>1, <1>2, <2>1, <2>2, <2>3
    <3> QED
      BY <1>3, <2>1, <2>2, <3>1
  <2>5. t = q
    BY <2>1, <2>2, <2>3, <2>4, SeqEqual
  <2> QED
    BY <2>5 DEF t, q
<1> QED
  BY <1>2, <1>4, <1>5, <1>6

(* An item goes out, and the loop goes on or ends. *)
LEMMA ItemAdvances ==
  ASSUME NEW c, Encoding(c), NEW loop \in LoopSteps, NEW w \in Writers, NEW next \in EncoderSteps,
         next \notin LoopSteps, EmitItem(loop, w, next),
         ~w.ok => ~WithinLimits(url),
         w.ok => /\ Wrote(w, out.bits)
                 /\ \A b : b.pos = Len(w.bits) /\ GoesOn(c, b, ItemsOf(url, loop), next) =>
                             Laid(url, w.bits, c, b)
  PROVE  Advances(c)
<1> DEFINE items == ItemsOf(url, loop)
           d == c.done
<1>1. estep = loop /\ c.step = loop
  BY DEF Encoding, EmitItem
<1>2. d \in 0..(Len(items) - 1) /\ todo = SubSeq(items, d + 1, Len(items))
  BY <1>1 DEF Encoding, StillToDo
<1>3. \E S : items \in Seq(S)
  BY DEF ItemsOf, Encoding, Fields
<1>4. items = ItemsOf(url, loop) /\ d = c.done
  OBVIOUS
<1> HIDE DEF items, d
<1>5. Len(todo) = Len(items) - d /\ Tail(todo) = SubSeq(items, d + 2, Len(items))
  BY <1>2, <1>3, ItemTaken
<1>6. Len(items) \in Nat /\ d \in Nat /\ d < Len(items)
  BY <1>2, <1>3, LenProperties
<1>7. CASE d + 1 = Len(items)
  <2> DEFINE b == [step |-> next, pos |-> Len(w.bits), done |-> 0]
  <2>1. Emit(w, next, Tail(todo))
    <3>1. Len(todo) = 1
      BY <1>5, <1>6, <1>7
    <3> QED
      BY <3>1 DEF EmitItem
  <2>2. GoesOn(c, b, items, next) /\ b.pos = Len(w.bits)
    BY <1>4, <1>6, <1>7 DEF GoesOn, Goes
  <2>3. StillToDo(url, next, Tail(todo), 0)
    BY DEF StillToDo
  <2> HIDE DEF b
  <2>4. w.ok => Laid(url, w.bits, c, b)
    BY <1>4, <2>2
  <2> QED
    BY <2>1, <2>3, <2>4, Emitted DEF b
<1>8. CASE d + 1 # Len(items)
  <2> DEFINE b == [step |-> loop, pos |-> Len(w.bits), done |-> d + 1]
  <2>1. Emit(w, loop, Tail(todo))
    <3>1. Len(todo) # 1
      BY <1>5, <1>6, <1>8
    <3> QED
      BY <3>1 DEF EmitItem
  <2>2. GoesOn(c, b, items, next) /\ b.pos = Len(w.bits)
    BY <1>1, <1>4, <1>6, <1>8 DEF GoesOn
  <2>3. StillToDo(url, loop, Tail(todo), d + 1)
    <3>1. d + 1 \in 0..(Len(items) - 1) /\ (d + 1) + 1 = d + 2
      BY <1>6, <1>8
    <3>2. loop = "labels" => Labelled(LabelsOf(url))
      BY <1>1 DEF Encoding, StillToDo
    <3> QED
      BY <1>4, <1>5, <3>1, <3>2 DEF StillToDo
  <2> HIDE DEF b
  <2>4. w.ok => Laid(url, w.bits, c, b)
    BY <1>4, <2>2
  <2>5. d + 1 \in Nat /\ loop \in EncoderSteps
    BY <1>6 DEF LoopSteps, EncoderSteps
  <2> QED
    BY <2>1, <2>3, <2>4, <2>5, Emitted DEF b
<1> QED
  BY <1>7, <1>8

(* The item at hand. *)
LEMMA ItemAtHand ==
  ASSUME NEW c, Encoding(c), c.step \in LoopSteps, NEW S, ItemsOf(url, c.step) \in Seq(S)
  PROVE  /\ Head(todo) = ItemsOf(url, c.step)[c.done + 1] /\ Head(todo) \in S
         /\ Head(todo) \in ToSet(ItemsOf(url, c.step))
<1> DEFINE items == ItemsOf(url, c.step)
<1>1. c.done \in 0..(Len(items) - 1) /\ todo = SubSeq(items, c.done + 1, Len(items))
  BY DEF Encoding, StillToDo
<1> HIDE DEF items
<1>2. items \in Seq(S)
  BY DEF items
<1>3. /\ Head(todo) = items[c.done + 1] /\ Head(todo) \in S
      /\ Head(todo) \in ToSet(items)
  BY <1>1, <1>2, ItemTaken
<1> QED
  BY <1>3 DEF items

LEMMA DictionaryFits ==
  /\ Hosts \in Seq(Seq(Ascii)) /\ HostBits \in 0..WordBits /\ Len(Hosts) <= Pow2[HostBits]
  /\ PathTokens \in Seq(Seq(Ascii)) /\ PathBits \in 0..WordBits /\ Len(PathTokens) <= Pow2[PathBits]
<1>1. Hosts \in Seq(Seq(Ascii)) /\ PathTokens \in Seq(Seq(Ascii))
      /\ Len(Hosts) = HostEscape /\ Len(PathTokens) <= Pow2[PathBits]
  BY Dictionaries
<1>2. HostBits \in 0..WordBits /\ PathBits \in 0..WordBits /\ Pow2[HostBits] \in Nat
  BY IndexWidths
<1>3. Len(Hosts) <= Pow2[HostBits]
  BY <1>1, <1>2 DEF HostEscape
<1> QED
  BY <1>1, <1>2, <1>3

LEMMA PathItemsArePath ==
  ASSUME NEW u, Fields(u)
  PROVE  ToSet(PathItems(u)) \subseteq ToSet(u.path)
<1>1. u.path \in Seq(TidyTexts) /\ (u.index # "none" => u.path # <<>>)
  BY DEF Fields
<1>2. CASE u.index = "none"
  BY <1>2 DEF PathItems
<1>3. CASE u.index # "none"
  <2>1. Len(u.path) \in Nat /\ Len(u.path) >= 1
    BY <1>1, <1>3, LenProperties, EmptySeq
  <2>2. PathItems(u) = SubSeq(u.path, 1, Len(u.path) - 1)
    BY <1>3 DEF PathItems, Front
  <2>3. /\ Len(PathItems(u)) = Len(u.path) - 1
        /\ \A i \in 1..(Len(u.path) - 1) : PathItems(u)[i] = u.path[i]
        /\ PathItems(u) \in Seq(TidyTexts)
    BY <1>1, <2>1, <2>2, SubSeqProperties
  <2> QED
    BY <1>1, <2>1, <2>3 DEF ToSet
<1> QED
  BY <1>2, <1>3

LEMMA LabelAdvances ==
  ASSUME NEW c, Encoding(c), WriteLabel
  PROVE  Advances(c)
<1> DEFINE items == ItemsOf(url, "labels")
           item == Head(todo)
           a == out.bits
           w == WriteEntry([ok |-> TRUE, bits |-> a], item, Hosts, HostBits, FALSE)
<1>1. out = [ok |-> TRUE, bits |-> a] /\ a \in Seq(Bit) /\ c.pos = Len(a) /\ c.step = "labels"
  BY EncodingWriter DEF WriteLabel, EmitItem
<1>2. items \in Seq(TidyTexts)
  BY DEF Encoding, Fields, ItemsOf
<1>3. c.step \in LoopSteps /\ "tld" \in EncoderSteps /\ "tld" \notin LoopSteps
  BY <1>1 DEF LoopSteps, EncoderSteps
<1>4. item = items[c.done + 1] /\ item \in TidyTexts /\ item \in ToSet(items)
  BY <1>1, <1>2, <1>3, ItemAtHand
<1>5. EntryOut(w, a, item, Hosts, HostBits)
  <2>1. Hosts \in Seq(Seq(Ascii)) /\ HostBits \in 0..WordBits /\ Len(Hosts) <= Pow2[HostBits]
    BY DictionaryFits
  <2> QED
    BY <1>1, <1>4, <2>1, EntryAppended
<1>6. EmitItem("labels", w, "tld")
  BY <1>1 DEF WriteLabel
<1> HIDE DEF w, a, item
<1>7. w \in Writers
  BY <1>5 DEF EntryOut
<1>8. ASSUME ~w.ok PROVE ~WithinLimits(url)
  <2>1. ~Small(item)
    BY <1>5, <1>8 DEF EntryOut, Small
  <2>2. item \in ToSet(LabelsOf(url))
    BY <1>4 DEF ItemsOf
  <2>3. ASSUME LimitsOf(url) PROVE FALSE
    <3>1. CASE Known(NameOf(url), Hosts) \/ Small(NameOf(url))
      <4>1. Labelled(LabelsOf(url)) /\ NameOf(url) \in TidyTexts /\ NameOf(url) \in Names
        BY <1>1 DEF Encoding, Fields, StillToDo, LoopSteps
      <4> QED
        BY <2>1, <2>2, <3>1, <4>1, SmallLabels DEF LabelsOf
    <3>2. CASE \A s \in ToSet(LabelsOf(url)) : Small(s)
      BY <2>1, <2>2, <3>2
    <3> QED
      BY <2>3, <3>1, <3>2 DEF LimitsOf
  <2> QED
    BY <2>3, LimitsSpelt
<1>9. ASSUME w.ok
      PROVE  /\ Wrote(w, a)
             /\ \A b : b.pos = Len(w.bits) /\ GoesOn(c, b, items, "tld") => Laid(url, w.bits, c, b)
  <2>1. Wrote(w, a) /\ EntryAt(w.bits, Len(a), Len(w.bits), item, Hosts, HostBits)
    BY <1>5, <1>9 DEF EntryOut, Wrote
  <2> QED
    BY <1>1, <1>4, <2>1 DEF Laid, ItemsOf
<1>10. w.ok => Wrote(w, out.bits)
  BY <1>9 DEF a
<1>11. Advances(c)
  BY <1>1, <1>3, <1>6, <1>7, <1>8, <1>9, <1>10, ItemAdvances
<1> QED
  BY <1>11

LEMMA PathSegmentAdvances ==
  ASSUME NEW c, Encoding(c), WritePathSegment
  PROVE  Advances(c)
<1> DEFINE items == ItemsOf(url, "segments")
           item == Head(todo)
           a == out.bits
           w == WriteEntry([ok |-> TRUE, bits |-> a], item, PathTokens, PathBits, TRUE)
<1>1. out = [ok |-> TRUE, bits |-> a] /\ a \in Seq(Bit) /\ c.pos = Len(a) /\ c.step = "segments"
  BY EncodingWriter DEF WritePathSegment, EmitItem
<1>2. items \in Seq(TidyTexts)
  BY DEF Encoding, Fields, ItemsOf
<1>3. c.step \in LoopSteps /\ "query" \in EncoderSteps /\ "query" \notin LoopSteps
  BY <1>1 DEF LoopSteps, EncoderSteps
<1>4. item = items[c.done + 1] /\ item \in TidyTexts /\ item \in ToSet(items)
  BY <1>1, <1>2, <1>3, ItemAtHand
<1>5. EntryOut(w, a, item, PathTokens, PathBits)
  <2>1. PathTokens \in Seq(Seq(Ascii)) /\ PathBits \in 0..WordBits /\ Len(PathTokens) <= Pow2[PathBits]
    BY DictionaryFits
  <2> QED
    BY <1>1, <1>4, <2>1, EntryAppended
<1>6. EmitItem("segments", w, "query")
  BY <1>1 DEF WritePathSegment
<1> HIDE DEF w, a, item
<1>7. w \in Writers
  BY <1>5 DEF EntryOut
<1>8. ASSUME ~w.ok PROVE ~WithinLimits(url)
  <2>1. ~Small(item)
    BY <1>5, <1>8 DEF EntryOut, Small
  <2>2. item \in ToSet(url.path)
    BY <1>4, PathItemsArePath DEF ItemsOf, Encoding
  <2> QED
    BY <2>1, <2>2, LimitsSpelt DEF LimitsOf
<1>9. ASSUME w.ok
      PROVE  /\ Wrote(w, a)
             /\ \A b : b.pos = Len(w.bits) /\ GoesOn(c, b, items, "query") => Laid(url, w.bits, c, b)
  <2>1. Wrote(w, a) /\ EntryAt(w.bits, Len(a), Len(w.bits), item, PathTokens, PathBits)
    BY <1>5, <1>9 DEF EntryOut, Wrote
  <2> QED
    BY <1>1, <1>4, <2>1 DEF Laid, ItemsOf
<1>10. w.ok => Wrote(w, out.bits)
  BY <1>9 DEF a
<1>11. Advances(c)
  BY <1>1, <1>3, <1>6, <1>7, <1>8, <1>9, <1>10, ItemAdvances
<1> QED
  BY <1>11

LEMMA QueryPairAdvances ==
  ASSUME NEW c, Encoding(c), WriteQueryPair
  PROVE  Advances(c)
<1> DEFINE items == ItemsOf(url, "pairs")
           item == Head(todo)
           a == out.bits
           w == WritePair([ok |-> TRUE, bits |-> a], item)
<1>1. out = [ok |-> TRUE, bits |-> a] /\ a \in Seq(Bit) /\ c.pos = Len(a) /\ c.step = "pairs"
  BY EncodingWriter DEF WriteQueryPair, EmitItem
<1>2. items \in Seq(TidyPairs)
  BY DEF Encoding, Fields, ItemsOf
<1>3. c.step \in LoopSteps /\ "fragment" \in EncoderSteps /\ "fragment" \notin LoopSteps
  BY <1>1 DEF LoopSteps, EncoderSteps
<1>4. item = items[c.done + 1] /\ item \in TidyPairs /\ item \in ToSet(items)
  BY <1>1, <1>2, <1>3, ItemAtHand
<1>5. PairOut(w, a, item)
  BY <1>1, <1>4, PairWritten
<1>6. EmitItem("pairs", w, "fragment")
  BY <1>1 DEF WriteQueryPair
<1> HIDE DEF w, a, item
<1>7. w \in Writers
  BY <1>5 DEF PairOut
<1>8. ASSUME ~w.ok PROVE ~WithinLimits(url)
  <2>1. ~(Small(item.key) /\ Small(item.value.text))
    BY <1>5, <1>8 DEF PairOut
  <2>2. item \in ToSet(url.query)
    BY <1>4 DEF ItemsOf
  <2> QED
    BY <2>1, <2>2, LimitsSpelt DEF LimitsOf
<1>9. ASSUME w.ok
      PROVE  /\ Wrote(w, a)
             /\ \A b : b.pos = Len(w.bits) /\ GoesOn(c, b, items, "fragment") => Laid(url, w.bits, c, b)
  <2>1. Wrote(w, a) /\ PairAt(item, w.bits, Len(a), Len(w.bits))
    BY <1>5, <1>9 DEF PairOut
  <2> QED
    BY <1>1, <1>4, <2>1 DEF Laid, ItemsOf
<1>10. w.ok => Wrote(w, out.bits)
  BY <1>9 DEF a
<1>11. Advances(c)
  BY <1>1, <1>3, <1>6, <1>7, <1>8, <1>9, <1>10, ItemAdvances
<1> QED
  BY <1>11

LEMMA FragmentPartAdvances ==
  ASSUME NEW c, Encoding(c), WriteFragmentPart
  PROVE  Advances(c)
<1> DEFINE items == ItemsOf(url, "parts")
           item == Head(todo)
           a == out.bits
           w == WriteSegment([ok |-> TRUE, bits |-> a], item, TRUE)
<1>1. out = [ok |-> TRUE, bits |-> a] /\ a \in Seq(Bit) /\ c.pos = Len(a) /\ c.step = "parts"
  BY EncodingWriter DEF WriteFragmentPart, EmitItem
<1>2. items \in Seq(TidyTexts)
  BY DEF Encoding, Fields, ItemsOf
<1>3. c.step \in LoopSteps /\ "finish" \in EncoderSteps /\ "finish" \notin LoopSteps
  BY <1>1 DEF LoopSteps, EncoderSteps
<1>4. item = items[c.done + 1] /\ item \in TidyTexts /\ item \in ToSet(items)
  BY <1>1, <1>2, <1>3, ItemAtHand
<1>5. SegmentOut(w, a, item)
  BY <1>1, <1>4, SegmentAppended
<1>6. EmitItem("parts", w, "finish")
  BY <1>1 DEF WriteFragmentPart
<1> HIDE DEF w, a, item
<1>7. w \in Writers
  BY <1>5 DEF SegmentOut
<1>8. ASSUME ~w.ok PROVE ~WithinLimits(url)
  <2>1. ~Small(item)
    BY <1>5, <1>8 DEF SegmentOut, Small
  <2>2. item \in ToSet(url.fragment)
    BY <1>4 DEF ItemsOf
  <2> QED
    BY <2>1, <2>2, LimitsSpelt DEF LimitsOf
<1>9. ASSUME w.ok
      PROVE  /\ Wrote(w, a)
             /\ \A b : b.pos = Len(w.bits) /\ GoesOn(c, b, items, "finish") => Laid(url, w.bits, c, b)
  <2>1. Wrote(w, a) /\ SegmentAt(w.bits, Len(a), Len(w.bits), item)
    BY <1>5, <1>9 DEF SegmentOut, Wrote
  <2> QED
    BY <1>1, <1>4, <2>1 DEF Laid, ItemsOf
<1>10. w.ok => Wrote(w, out.bits)
  BY <1>9 DEF a
<1>11. Advances(c)
  BY <1>1, <1>3, <1>6, <1>7, <1>8, <1>9, <1>10, ItemAdvances
<1> QED
  BY <1>11

LEMMA MaxSegmentsType ==
  MaxSegments \in Nat
<1>1. MaxSegments \in 0..(Pow2[WordBits] - 1) /\ Pow2[WordBits] \in Nat
  BY WireLimits, Widths, Pow2Type
<1> QED
  BY <1>1

LEMMA CountsAreNumbers ==
  ASSUME NEW u, Fields(u)
  PROVE  /\ MaxSegments \in Nat
         /\ Len(u.path) \in Nat /\ Len(u.query) \in Nat /\ Len(u.fragment) \in Nat
BY MaxSegmentsType, LenProperties DEF Fields

LEMMA ShorterPath ==
  ASSUME NEW u, Fields(u)
  PROVE  Len(PathItems(u)) <= Len(u.path)
<1>1. u.path \in Seq(TidyTexts) /\ (u.index # "none" => u.path # <<>>)
  BY DEF Fields
<1>2. CASE u.index = "none"
  BY <1>1, <1>2, LenProperties DEF PathItems
<1>3. CASE u.index # "none"
  <2>1. Len(u.path) \in Nat /\ Len(u.path) >= 1
    BY <1>1, <1>3, LenProperties, EmptySeq
  <2>2. PathItems(u) = SubSeq(u.path, 1, Len(u.path) - 1)
    BY <1>3 DEF PathItems, Front
  <2>3. Len(PathItems(u)) = Len(u.path) - 1
    BY <1>1, <2>1, <2>2, SubSeqProperties
  <2> QED
    BY <2>1, <2>3
<1> QED
  BY <1>2, <1>3

LEMMA WholeSubSeq ==
  ASSUME NEW S, NEW items \in Seq(S)
  PROVE  items = SubSeq(items, 1, Len(items))
OBVIOUS

LEMMA PathCountAdvances ==
  ASSUME NEW c, Encoding(c), WritePathCount
  PROVE  Advances(c)
<1> DEFINE items == PathItems(url)
           a == out.bits
           w == IF ~(url.path # <<>>) THEN out
                ELSE IF Len(items) > MaxSegments THEN WriteFail(out)
                ELSE WriteCompactCount(out, Len(items))
           next == IF items = <<>> THEN "query" ELSE "segments"
<1>1. out = [ok |-> TRUE, bits |-> a] /\ a \in Seq(Bit) /\ c.pos = Len(a) /\ c.step = "path"
  BY EncodingWriter DEF WritePathCount, OpenRegion
<1>2. /\ Len(items) \in Nat /\ (url.path = <<>> => items = <<>>)
      /\ (items = <<>> <=> Len(items) = 0) /\ items = SubSeq(items, 1, Len(items))
  <2>1. (\E S : items \in Seq(S)) /\ (url.path = <<>> => items = <<>>)
    BY DEF Encoding, Fields
  <2> QED
    BY <2>1, LenProperties, WholeSubSeq
<1>3. Emit(w, next, items)
  BY DEF WritePathCount, OpenRegion
<1> HIDE DEF next
<1>4. next \in EncoderSteps
  BY DEF next, EncoderSteps
<1>5. StillToDo(url, next, items, 0)
  <2>1. items # <<>> => 0 \in 0..(Len(items) - 1)
    BY <1>2
  <2>2. ItemsOf(url, "segments") = items
    BY DEF ItemsOf
  <2> QED
    BY <1>2, <2>1, <2>2 DEF StillToDo, LoopSteps, next
<1>6. ASSUME NEW v, v \in Writers, v.ok, CountedAt(url.path # <<>>, items, v.bits, Len(a), Len(v.bits))
      PROVE  Laid(url, v.bits, c, [step |-> next, pos |-> Len(v.bits), done |-> 0])
  BY <1>1, <1>6 DEF Laid, Goes, next
<1> HIDE DEF w, a
<1>7. CASE url.path = <<>>
  <2>1. w = out
    BY <1>7 DEF w
  <2>2. Wrote(out, a) /\ out \in Writers /\ out.ok
    <3>1. Wrote([ok |-> TRUE, bits |-> a], a)
      BY <1>1, ExtendsItself, WroteBits
    <3> QED
      BY <1>1, <3>1 DEF Wrote
  <2>3. CountedAt(url.path # <<>>, items, out.bits, Len(a), Len(out.bits))
    BY <1>1, <1>2, <1>7 DEF CountedAt
  <2>4. Laid(url, out.bits, c, [step |-> next, pos |-> Len(out.bits), done |-> 0])
    BY <1>6, <2>2, <2>3
  <2>5. Emit(out, next, items) /\ Wrote(out, out.bits)
    BY <1>3, <2>1, <2>2 DEF a
  <2> HIDE DEF items
  <2> QED
    BY <1>4, <1>5, <2>2, <2>4, <2>5, Emitted
<1>8. CASE url.path # <<>> /\ Len(items) > MaxSegments
  <2>1. w = [ok |-> FALSE, bits |-> a]
    BY <1>1, <1>8 DEF w, WriteFail
  <2>2. w \in Writers /\ ~w.ok
    BY <1>1, <2>1 DEF Writers
  <2>3. ~WithinLimits(url)
    <3>1. Len(PathItems(url)) <= Len(url.path)
      BY <1>2, ShorterPath DEF Encoding
    <3>2. Len(url.path) \in Nat /\ MaxSegments \in Nat
      BY CountsAreNumbers DEF Encoding
    <3>3. ~(Len(url.path) <= MaxSegments)
      BY <1>2, <1>8, <3>1, <3>2
    <3> QED
      BY <3>3, LimitsSpelt DEF LimitsOf
  <2> HIDE DEF items
  <2>4. Advances(c)
    BY <1>3, <1>4, <1>5, <2>2, <2>3, Emitted
  <2> QED
    BY <2>4
<1>9. CASE url.path # <<>> /\ ~(Len(items) > MaxSegments)
  <2>1. Len(items) \in 0..MaxSegments
    BY <1>2, <1>9, MaxSegmentsType
  <2>2. PICK v : /\ v = WriteCompactCount([ok |-> TRUE, bits |-> a], Len(items))
                 /\ Wrote(v, a) /\ CountAt(v.bits, Len(a), Len(items))
                 /\ Len(v.bits) = Len(a) + CountBits(Len(items))
    BY <1>1, <2>1, CountOut
  <2>3. w = v /\ v \in Writers /\ v.ok
    BY <1>1, <1>9, <2>2 DEF w, Wrote
  <2>4. CountedAt(url.path # <<>>, items, v.bits, Len(a), Len(v.bits))
    BY <1>9, <2>1, <2>2 DEF CountedAt
  <2>5. Laid(url, v.bits, c, [step |-> next, pos |-> Len(v.bits), done |-> 0])
    BY <1>6, <2>3, <2>4
  <2>6. Emit(v, next, items) /\ Wrote(v, out.bits)
    BY <1>3, <2>2, <2>3 DEF a
  <2> HIDE DEF items
  <2> QED
    BY <1>4, <1>5, <2>3, <2>5, <2>6, Emitted
<1> QED
  BY <1>7, <1>8, <1>9

LEMMA QueryCountAdvances ==
  ASSUME NEW c, Encoding(c), WriteQueryCount
  PROVE  Advances(c)
<1> DEFINE items == url.query
           a == out.bits
           w == IF ~(url.query # <<>>) THEN out
                ELSE IF Len(items) > MaxSegments THEN WriteFail(out)
                ELSE WriteCompactCount(out, Len(items))
           next == IF items = <<>> THEN "fragment" ELSE "pairs"
<1>1. out = [ok |-> TRUE, bits |-> a] /\ a \in Seq(Bit) /\ c.pos = Len(a) /\ c.step = "query"
  BY EncodingWriter DEF WriteQueryCount, OpenRegion
<1>2. /\ Len(items) \in Nat /\ (url.query = <<>> => items = <<>>)
      /\ (items = <<>> <=> Len(items) = 0) /\ items = SubSeq(items, 1, Len(items))
  <2>1. (\E S : items \in Seq(S)) /\ (url.query = <<>> => items = <<>>)
    BY DEF Encoding, Fields
  <2> QED
    BY <2>1, LenProperties, WholeSubSeq
<1>3. Emit(w, next, items)
  BY DEF WriteQueryCount, OpenRegion
<1> HIDE DEF next
<1>4. next \in EncoderSteps
  BY DEF next, EncoderSteps
<1>5. StillToDo(url, next, items, 0)
  <2>1. items # <<>> => 0 \in 0..(Len(items) - 1)
    BY <1>2
  <2>2. ItemsOf(url, "pairs") = items
    BY DEF ItemsOf
  <2> QED
    BY <1>2, <2>1, <2>2 DEF StillToDo, LoopSteps, next
<1>6. ASSUME NEW v, v \in Writers, v.ok, CountedAt(url.query # <<>>, items, v.bits, Len(a), Len(v.bits))
      PROVE  Laid(url, v.bits, c, [step |-> next, pos |-> Len(v.bits), done |-> 0])
  BY <1>1, <1>6 DEF Laid, Goes, next
<1> HIDE DEF w, a
<1>7. CASE url.query = <<>>
  <2>1. w = out
    BY <1>7 DEF w
  <2>2. Wrote(out, a) /\ out \in Writers /\ out.ok
    <3>1. Wrote([ok |-> TRUE, bits |-> a], a)
      BY <1>1, ExtendsItself, WroteBits
    <3> QED
      BY <1>1, <3>1 DEF Wrote
  <2>3. CountedAt(url.query # <<>>, items, out.bits, Len(a), Len(out.bits))
    BY <1>1, <1>2, <1>7 DEF CountedAt
  <2>4. Laid(url, out.bits, c, [step |-> next, pos |-> Len(out.bits), done |-> 0])
    BY <1>6, <2>2, <2>3
  <2>5. Emit(out, next, items) /\ Wrote(out, out.bits)
    BY <1>3, <2>1, <2>2 DEF a
  <2> HIDE DEF items
  <2> QED
    BY <1>4, <1>5, <2>2, <2>4, <2>5, Emitted
<1>8. CASE url.query # <<>> /\ Len(items) > MaxSegments
  <2>1. w = [ok |-> FALSE, bits |-> a]
    BY <1>1, <1>8 DEF w, WriteFail
  <2>2. w \in Writers /\ ~w.ok
    BY <1>1, <2>1 DEF Writers
  <2>3. ~WithinLimits(url)
    <3>1. Len(url.query) <= Len(url.query)
      BY <1>2
    <3>2. Len(url.query) \in Nat /\ MaxSegments \in Nat
      BY CountsAreNumbers DEF Encoding
    <3>3. ~(Len(url.query) <= MaxSegments)
      BY <1>2, <1>8, <3>1, <3>2
    <3> QED
      BY <3>3, LimitsSpelt DEF LimitsOf
  <2> HIDE DEF items
  <2>4. Advances(c)
    BY <1>3, <1>4, <1>5, <2>2, <2>3, Emitted
  <2> QED
    BY <2>4
<1>9. CASE url.query # <<>> /\ ~(Len(items) > MaxSegments)
  <2>1. Len(items) \in 0..MaxSegments
    BY <1>2, <1>9, MaxSegmentsType
  <2>2. PICK v : /\ v = WriteCompactCount([ok |-> TRUE, bits |-> a], Len(items))
                 /\ Wrote(v, a) /\ CountAt(v.bits, Len(a), Len(items))
                 /\ Len(v.bits) = Len(a) + CountBits(Len(items))
    BY <1>1, <2>1, CountOut
  <2>3. w = v /\ v \in Writers /\ v.ok
    BY <1>1, <1>9, <2>2 DEF w, Wrote
  <2>4. CountedAt(url.query # <<>>, items, v.bits, Len(a), Len(v.bits))
    BY <1>9, <2>1, <2>2 DEF CountedAt
  <2>5. Laid(url, v.bits, c, [step |-> next, pos |-> Len(v.bits), done |-> 0])
    BY <1>6, <2>3, <2>4
  <2>6. Emit(v, next, items) /\ Wrote(v, out.bits)
    BY <1>3, <2>2, <2>3 DEF a
  <2> HIDE DEF items
  <2> QED
    BY <1>4, <1>5, <2>3, <2>5, <2>6, Emitted
<1> QED
  BY <1>7, <1>8, <1>9

LEMMA FragmentCountAdvances ==
  ASSUME NEW c, Encoding(c), WriteFragmentCount
  PROVE  Advances(c)
<1> DEFINE items == url.fragment
           a == out.bits
           w == IF ~(url.fragment # <<>>) THEN out
                ELSE IF Len(items) > MaxSegments THEN WriteFail(out)
                ELSE WriteCompactCount(out, Len(items))
           next == IF items = <<>> THEN "finish" ELSE "parts"
<1>1. out = [ok |-> TRUE, bits |-> a] /\ a \in Seq(Bit) /\ c.pos = Len(a) /\ c.step = "fragment"
  BY EncodingWriter DEF WriteFragmentCount, OpenRegion
<1>2. /\ Len(items) \in Nat /\ (url.fragment = <<>> => items = <<>>)
      /\ (items = <<>> <=> Len(items) = 0) /\ items = SubSeq(items, 1, Len(items))
  <2>1. (\E S : items \in Seq(S)) /\ (url.fragment = <<>> => items = <<>>)
    BY DEF Encoding, Fields
  <2> QED
    BY <2>1, LenProperties, WholeSubSeq
<1>3. Emit(w, next, items)
  BY DEF WriteFragmentCount, OpenRegion
<1> HIDE DEF next
<1>4. next \in EncoderSteps
  BY DEF next, EncoderSteps
<1>5. StillToDo(url, next, items, 0)
  <2>1. items # <<>> => 0 \in 0..(Len(items) - 1)
    BY <1>2
  <2>2. ItemsOf(url, "parts") = items
    BY DEF ItemsOf
  <2> QED
    BY <1>2, <2>1, <2>2 DEF StillToDo, LoopSteps, next
<1>6. ASSUME NEW v, v \in Writers, v.ok, CountedAt(url.fragment # <<>>, items, v.bits, Len(a), Len(v.bits))
      PROVE  Laid(url, v.bits, c, [step |-> next, pos |-> Len(v.bits), done |-> 0])
  BY <1>1, <1>6 DEF Laid, Goes, next
<1> HIDE DEF w, a
<1>7. CASE url.fragment = <<>>
  <2>1. w = out
    BY <1>7 DEF w
  <2>2. Wrote(out, a) /\ out \in Writers /\ out.ok
    <3>1. Wrote([ok |-> TRUE, bits |-> a], a)
      BY <1>1, ExtendsItself, WroteBits
    <3> QED
      BY <1>1, <3>1 DEF Wrote
  <2>3. CountedAt(url.fragment # <<>>, items, out.bits, Len(a), Len(out.bits))
    BY <1>1, <1>2, <1>7 DEF CountedAt
  <2>4. Laid(url, out.bits, c, [step |-> next, pos |-> Len(out.bits), done |-> 0])
    BY <1>6, <2>2, <2>3
  <2>5. Emit(out, next, items) /\ Wrote(out, out.bits)
    BY <1>3, <2>1, <2>2 DEF a
  <2> HIDE DEF items
  <2> QED
    BY <1>4, <1>5, <2>2, <2>4, <2>5, Emitted
<1>8. CASE url.fragment # <<>> /\ Len(items) > MaxSegments
  <2>1. w = [ok |-> FALSE, bits |-> a]
    BY <1>1, <1>8 DEF w, WriteFail
  <2>2. w \in Writers /\ ~w.ok
    BY <1>1, <2>1 DEF Writers
  <2>3. ~WithinLimits(url)
    <3>1. Len(url.fragment) <= Len(url.fragment)
      BY <1>2
    <3>2. Len(url.fragment) \in Nat /\ MaxSegments \in Nat
      BY CountsAreNumbers DEF Encoding
    <3>3. ~(Len(url.fragment) <= MaxSegments)
      BY <1>2, <1>8, <3>1, <3>2
    <3> QED
      BY <3>3, LimitsSpelt DEF LimitsOf
  <2> HIDE DEF items
  <2>4. Advances(c)
    BY <1>3, <1>4, <1>5, <2>2, <2>3, Emitted
  <2> QED
    BY <2>4
<1>9. CASE url.fragment # <<>> /\ ~(Len(items) > MaxSegments)
  <2>1. Len(items) \in 0..MaxSegments
    BY <1>2, <1>9, MaxSegmentsType
  <2>2. PICK v : /\ v = WriteCompactCount([ok |-> TRUE, bits |-> a], Len(items))
                 /\ Wrote(v, a) /\ CountAt(v.bits, Len(a), Len(items))
                 /\ Len(v.bits) = Len(a) + CountBits(Len(items))
    BY <1>1, <2>1, CountOut
  <2>3. w = v /\ v \in Writers /\ v.ok
    BY <1>1, <1>9, <2>2 DEF w, Wrote
  <2>4. CountedAt(url.fragment # <<>>, items, v.bits, Len(a), Len(v.bits))
    BY <1>9, <2>1, <2>2 DEF CountedAt
  <2>5. Laid(url, v.bits, c, [step |-> next, pos |-> Len(v.bits), done |-> 0])
    BY <1>6, <2>3, <2>4
  <2>6. Emit(v, next, items) /\ Wrote(v, out.bits)
    BY <1>3, <2>2, <2>3 DEF a
  <2> HIDE DEF items
  <2> QED
    BY <1>4, <1>5, <2>3, <2>5, <2>6, Emitted
<1> QED
  BY <1>7, <1>8, <1>9

(* Every block of the encoder does its part. *)
LEMMA EncoderAdvances ==
  ASSUME NEW c, Encoding(c), EncoderNext, estep # "finish"
  PROVE  Advances(c)
<1>1. ~Finish
  BY DEF Finish
<1> QED
  BY <1>1, HeaderAdvances, PortAdvances, LabelCountAdvances, WholeHostAdvances, LabelAdvances,
     TldAdvances, LiteralAdvances, FlagsAdvance, PathCountAdvances, PathSegmentAdvances,
     QueryCountAdvances, QueryPairAdvances, FragmentCountAdvances, FragmentPartAdvances
     DEF EncoderNext

-----------------------------------------------------------------------------
(* Reading what the encoder wrote, block by block.                         *)

(* What r has read ends where it was written, and r has not failed where   *)
(* the whole of it is there.                                               *)
HearsTo(s, f, r, e) ==
  /\ r.ok => r.pos = e
  /\ s = f => r.ok

LEMMA OkBefore ==
  \A s, r, n : ReadBits(s, r, n).ok => r.ok
BY DEF ReadBits, ReadFail

LEMMA PortHeard ==
  ASSUME stream \in Seq(Bit), pos \in 0..Len(stream), NEW f \in Seq(Bit), Extends(f, stream),
         NEW e, PortAt(f, pos, e)
  PROVE  HearsTo(stream, f, PortRead, e)
<1> DEFINE start == ReaderAt(pos)
           flag == ReadBits(stream, start, 1)
           mode == ReadBits(stream, flag, 2)
           number == ReadBits(stream, mode, PortBits)
<1>1. Hears(stream, f, start, pos, 0)
  BY HearsStart
<1>2. PortRead = IF ~flag.ok \/ flag.val = 0 THEN [flag EXCEPT !.val = NoPort]
                 ELSE IF mode.ok /\ mode.val # LiteralPort
                 THEN [mode EXCEPT !.val = ShortPorts[mode.val + 1]]
                 ELSE number
  BY DEF PortRead
<1>3. (number.ok => mode.ok) /\ pos \in Nat
  BY OkBefore, LenProperties
<1> HIDE DEF start
<1>4. CASE Written(f, pos, 0, 1) /\ e = pos + 1
  <2>1. Hears(stream, f, flag, e, 0)
    BY <1>1, <1>4, HearsBits
  <2> HIDE DEF flag, mode, number
  <2>2. PortRead = [flag EXCEPT !.val = NoPort]
    BY <1>2, <2>1 DEF Hears
  <2>3. PortRead.ok = flag.ok /\ PortRead.pos = flag.pos
    BY <2>1, <2>2 DEF Hears, Inside
  <2> QED
    BY <2>1, <2>3 DEF Hears, HearsTo
<1>5. CASE Written(f, pos, 1, 1)
  <2>1. Hears(stream, f, flag, pos + 1, 1)
    BY <1>1, <1>5, HearsBits
  <2> HIDE DEF flag, number
  <2>2. CASE ~flag.ok
    <3>1. PortRead = [flag EXCEPT !.val = NoPort]
      BY <1>2, <2>2
    <3>2. PortRead.ok = flag.ok
      BY <2>1, <3>1 DEF Hears, Inside
    <3> QED
      BY <2>1, <2>2, <3>2 DEF Hears, HearsTo
  <2>3. CASE flag.ok /\ \E c \in 0..2 : Written(f, pos + 1, c, 2) /\ e = pos + 3
    <3>1. PICK c \in 0..2 : Written(f, pos + 1, c, 2) /\ e = pos + 3
      BY <2>3
    <3>2. Hears(stream, f, mode, (pos + 1) + 2, c) /\ (pos + 1) + 2 = e
      BY <1>3, <2>1, <3>1, HearsBits
    <3> HIDE DEF mode
    <3>3. CASE mode.ok
      <4>1. mode.val # LiteralPort
        BY <3>2, <3>3 DEF Hears, LiteralPort
      <4>2. PortRead = [mode EXCEPT !.val = ShortPorts[mode.val + 1]]
        BY <1>2, <2>1, <2>3, <3>3, <4>1 DEF Hears
      <4>3. PortRead.ok = mode.ok /\ PortRead.pos = mode.pos
        BY <3>2, <4>2 DEF Hears, Inside
      <4> QED
        BY <3>2, <3>3, <4>3 DEF Hears, HearsTo
    <3>4. CASE ~mode.ok
      <4>1. PortRead = number
        BY <1>2, <2>1, <2>3, <3>4 DEF Hears
      <4> QED
        BY <1>3, <3>2, <3>4, <4>1 DEF Hears, HearsTo
    <3> QED
      BY <3>3, <3>4
  <2>4. CASE /\ flag.ok /\ Written(f, pos + 1, LiteralPort, 2)
             /\ \E n : Written(f, pos + 3, n, PortBits)
             /\ e = pos + 3 + PortBits
    <3>1. PICK n : Written(f, pos + 3, n, PortBits)
      BY <2>4
    <3>2. Hears(stream, f, mode, (pos + 1) + 2, LiteralPort) /\ (pos + 1) + 2 = pos + 3
      BY <1>3, <2>1, <2>4, HearsBits
    <3> HIDE DEF mode
    <3>3. Hears(stream, f, number, e, n)
      <4>1. Hears(stream, f, mode, pos + 3, LiteralPort)
        BY <3>2
      <4>2. Hears(stream, f, ReadBits(stream, mode, PortBits), pos + 3 + PortBits, n)
        BY <3>1, <4>1, HearsBits
      <4> QED
        BY <2>4, <4>2 DEF number
    <3>4. PortRead = number
      BY <1>2, <2>1, <2>4, <3>2 DEF Hears
    <3> QED
      BY <3>3, <3>4 DEF Hears, HearsTo
  <2>5. \/ \E c \in 0..2 : Written(f, pos + 1, c, 2) /\ e = pos + 3
        \/ /\ Written(f, pos + 1, LiteralPort, 2)
           /\ \E n : Written(f, pos + 3, n, PortBits)
           /\ e = pos + 3 + PortBits
        \/ Written(f, pos, 0, 1) /\ e = pos + 1
    BY DEF PortAt
  <2> QED
    BY <1>4, <2>2, <2>3, <2>4, <2>5
<1> QED
  BY <1>4, <1>5 DEF PortAt

LEMMA WholeHostHeard ==
  ASSUME stream \in Seq(Bit), NEW f \in Seq(Bit), Extends(f, stream),
         NEW r, NEW p, NEW x, Hears(stream, f, r, p, x), p \in Nat,
         NEW name, NEW e, WholeHostAt(name, f, p, e)
  PROVE  Hears(stream, f, WholeHostRead(r), e, name)
<1> DEFINE mode == ReadBits(stream, r, 2)
           index == ReadBits(stream, mode, HostBits)
           host_ == WholeHostRead(r)
<1>1. host_ = IF mode.ok /\ mode.val = 0
              THEN IF index.ok /\ index.val = HostEscape THEN ReadSegment(stream, index)
                   ELSE ReadIndex(stream, mode, Hosts, HostBits)
              ELSE IF mode.ok /\ mode.val \in {1, 2} THEN ReadSegment(stream, mode)
              ELSE TextFail(mode)
  BY DEF WholeHostRead
<1> HIDE DEF host_
<1>2. ASSUME NEW m, Hears(stream, f, mode, p + 2, m), ~mode.ok
      PROVE  Hears(stream, f, host_, e, name)
  <2> HIDE DEF mode, index
  <2>1. host_ = TextFail(mode)
    BY <1>1, <1>2
  <2>2. Inside(host_, stream) /\ ~host_.ok
    BY <1>2, <2>1, FailInside DEF Hears, TextFail
  <2> QED
    BY <1>2, <2>2 DEF Hears
<1>3. CASE /\ Written(f, p, 0, 2)
           /\ \E i \in 0..(Len(Hosts) - 1) : Written(f, p + 2, i, HostBits) /\ Hosts[i + 1] = name
           /\ e = p + 2 + HostBits
  <2>1. PICK i \in 0..(Len(Hosts) - 1) : Written(f, p + 2, i, HostBits) /\ Hosts[i + 1] = name
    BY <1>3
  <2>2. Hears(stream, f, mode, p + 2, 0)
    BY <1>3, HearsBits
  <2>3. Hears(stream, f, index, e, i)
    BY <1>3, <2>1, <2>2, HearsBits
  <2>4. i \in Nat /\ i < HostEscape /\ i < Len(Hosts)
    <3>1. Len(Hosts) \in Nat
      BY DictionaryFits, LenProperties
    <3>2. i \in Nat /\ i < HostEscape
      BY IndexWidths
    <3> QED
      BY <3>1, <3>2
  <2>5. ReadIndex(stream, mode, Hosts, HostBits)
          = IF index.ok /\ index.val < Len(Hosts) THEN Text(index.pos, Hosts[index.val + 1])
            ELSE TextFail(index)
    BY DEF ReadIndex
  <2> HIDE DEF mode, index
  <2>6. HostEscape \in Nat
    <3>1. Len(Hosts) = HostEscape /\ Hosts \in Seq(Seq(Ascii))
      BY Dictionaries
    <3> QED
      BY <3>1, LenProperties
  <2>7. CASE mode.ok
    <3>1. mode.val = 0
      BY <2>2, <2>7 DEF Hears
    <3>2. index.ok => index.ok = TRUE /\ index.pos = e /\ index.val = i
      BY <2>3 DEF Hears
    <3>3. ~(index.ok /\ index.val = HostEscape)
      BY <2>4, <2>6, <3>2
    <3>4. host_ = ReadIndex(stream, mode, Hosts, HostBits)
      BY <1>1, <2>7, <3>1, <3>3
    <3>5. CASE index.ok
      <4>1. host_ = Text(e, name)
        BY <2>1, <2>4, <2>5, <3>2, <3>4, <3>5
      <4>2. e \in 0..Len(stream)
        BY <2>3, <3>2, <3>5 DEF Hears, Inside
      <4>3. Hears(stream, f, host_, e, name)
        BY <2>3, <3>5, <4>1, <4>2, TextInside DEF Hears, Text
      <4> QED
        BY <4>3 DEF host_
    <3>6. CASE ~index.ok
      <4>1. host_ = TextFail(index)
        BY <2>5, <3>4, <3>6
      <4>2. Inside(host_, stream) /\ ~host_.ok
        BY <2>3, <4>1, FailInside DEF Hears, TextFail
      <4>3. Hears(stream, f, host_, e, name)
        BY <2>3, <3>6, <4>2 DEF Hears
      <4> QED
        BY <4>3 DEF host_
    <3> QED
      BY <3>5, <3>6
  <2>8. CASE ~mode.ok
    <3>1. Hears(stream, f, host_, e, name)
      BY <1>2, <2>2, <2>8 DEF mode
    <3> QED
      BY <3>1 DEF host_
  <2> QED
    BY <2>7, <2>8 DEF host_
<1>4. CASE \E m \in {1, 2} : Written(f, p, m, 2) /\ SegmentAt(f, p + 2, e, name)
  <2>1. PICK m \in {1, 2} : Written(f, p, m, 2) /\ SegmentAt(f, p + 2, e, name)
    BY <1>4
  <2>2. Hears(stream, f, mode, p + 2, m)
    BY <2>1, HearsBits
  <2>3. Hears(stream, f, ReadSegment(stream, mode), e, name)
    BY <2>1, <2>2, HearsSegment
  <2>4. CASE mode.ok
    <3> HIDE DEF mode, index
    <3>1. mode.val = m
      BY <2>2, <2>4 DEF Hears
    <3>2. host_ = ReadSegment(stream, mode)
      BY <1>1, <2>1, <2>4, <3>1
    <3> QED
      BY <2>3, <3>2 DEF host_
  <2>5. CASE ~mode.ok
    <3>1. Hears(stream, f, host_, e, name)
      BY <1>2, <2>2, <2>5
    <3> QED
      BY <3>1 DEF host_
  <2> QED
    BY <2>4, <2>5
<1> QED
  BY <1>3, <1>4 DEF WholeHostAt

LEMMA FailHeard ==
  ASSUME NEW s, NEW f, NEW q, NEW p, NEW x, Hears(s, f, q, p, x), ~q.ok, NEW e, NEW text_
  PROVE  Hears(s, f, TextFail(q), e, text_)
<1>1. Inside(TextFail(q), s) /\ ~TextFail(q).ok
  BY FailInside DEF Hears, TextFail
<1> QED
  BY <1>1 DEF Hears

LEMMA TextHeard ==
  ASSUME NEW s, NEW f, NEW q, NEW p, NEW x, Hears(s, f, q, p, x), q.ok, NEW text_
  PROVE  Hears(s, f, Text(q.pos, text_), p, text_)
<1>1. Inside(Text(q.pos, text_), s)
  BY TextInside DEF Hears, Inside
<1> QED
  BY <1>1 DEF Hears, Text

LEMMA TldHeard ==
  ASSUME stream \in Seq(Bit), pos \in 0..Len(stream), NEW f \in Seq(Bit), Extends(f, stream),
         NEW name, NEW e, TldAt(name, f, pos, e)
  PROVE  Hears(stream, f, TldRead, e, name)
<1> DEFINE start == ReaderAt(pos)
           mode == ReadBits(stream, start, 1)
           index == ReadBits(stream, mode, TldBits)
           t == TldRead
<1>1. t = IF mode.ok /\ mode.val = 1 THEN ReadSegment(stream, mode)
          ELSE IF index.ok /\ index.val = TldEscape THEN Text(index.pos, <<>>)
          ELSE ReadIndex(stream, mode, Tlds, TldBits)
  BY DEF TldRead
<1>2. Hears(stream, f, start, pos, 0)
  BY HearsStart
<1>3. ReadIndex(stream, mode, Tlds, TldBits)
        = IF index.ok /\ index.val < Len(Tlds) THEN Text(index.pos, Tlds[index.val + 1])
          ELSE TextFail(index)
  BY DEF ReadIndex
<1>4. Tlds \in Seq(Seq(Ascii)) /\ Len(Tlds) = TldEscape /\ Len(Tlds) \in Nat
  BY Dictionaries, LenProperties
<1> HIDE DEF start, t
<1>5. CASE /\ Written(f, pos, 0, 1)
           /\ \/ name = <<>> /\ Written(f, pos + 1, TldEscape, TldBits)
              \/ \E i \in 0..(Len(Tlds) - 1) : Written(f, pos + 1, i, TldBits) /\ Tlds[i + 1] = name
           /\ e = pos + 1 + TldBits
  <2>1. Hears(stream, f, mode, pos + 1, 0)
    BY <1>2, <1>5, HearsBits
  <2>2. PICK v : /\ Written(f, pos + 1, v, TldBits)
                 /\ \/ v = TldEscape /\ name = <<>>
                    \/ v \in 0..(Len(Tlds) - 1) /\ Tlds[v + 1] = name
    BY <1>5
  <2>3. Hears(stream, f, index, e, v)
    BY <1>5, <2>1, <2>2, HearsBits
  <2> HIDE DEF mode, index
  <2>4. ~(mode.ok /\ mode.val = 1)
    BY <2>1 DEF Hears
  <2>5. CASE index.ok
    <3>1. index.val = v
      BY <2>3, <2>5 DEF Hears
    <3>2. t = Text(index.pos, name)
      <4>1. CASE v = TldEscape /\ name = <<>>
        BY <1>1, <2>4, <2>5, <3>1, <4>1
      <4>2. CASE v \in 0..(Len(Tlds) - 1) /\ Tlds[v + 1] = name
        <5>1. v # TldEscape /\ v < Len(Tlds)
          BY <1>4, <4>2
        <5> QED
          BY <1>1, <1>3, <2>4, <2>5, <3>1, <4>2, <5>1
      <4> QED
        BY <2>2, <4>1, <4>2
    <3>3. Hears(stream, f, t, e, name)
      BY <2>3, <2>5, <3>2, TextHeard
    <3> QED
      BY <3>3 DEF t
  <2>6. CASE ~index.ok
    <3>1. t = TextFail(index)
      BY <1>1, <1>3, <2>4, <2>6
    <3>2. Hears(stream, f, t, e, name)
      BY <2>3, <2>6, <3>1, FailHeard
    <3> QED
      BY <3>2 DEF t
  <2> QED
    BY <2>5, <2>6
<1>6. CASE Written(f, pos, 1, 1) /\ SegmentAt(f, pos + 1, e, name)
  <2>1. Hears(stream, f, mode, pos + 1, 1)
    BY <1>2, <1>6, HearsBits
  <2>2. Hears(stream, f, ReadSegment(stream, mode), e, name)
    BY <1>6, <2>1, HearsSegment
  <2>3. index.ok => mode.ok
    BY OkBefore
  <2>4. CASE mode.ok
    <3> HIDE DEF mode, index
    <3>1. t = ReadSegment(stream, mode)
      BY <1>1, <2>1, <2>4 DEF Hears
    <3> QED
      BY <2>2, <3>1 DEF t
  <2>5. CASE ~mode.ok
    <3>1. Hears(stream, f, index, pos + 1, 0)
      <4>1. Inside(index, stream)
        BY <2>1, ReadBitsInside, IndexWidths DEF Hears
      <4> HIDE DEF mode, index
      <4> QED
        BY <2>1, <2>3, <2>5, <4>1 DEF Hears
    <3> HIDE DEF mode, index
    <3>2. t = TextFail(index) /\ ~index.ok
      BY <1>1, <1>3, <2>3, <2>5
    <3>3. Hears(stream, f, t, e, name)
      BY <3>1, <3>2, FailHeard
    <3> QED
      BY <3>3 DEF t
  <2> QED
    BY <2>4, <2>5
<1> QED
  BY <1>5, <1>6 DEF TldAt

LEMMA LiteralHeard ==
  ASSUME stream \in Seq(Bit), pos \in 0..Len(stream), NEW f \in Seq(Bit), Extends(f, stream),
         NEW u, u.index \in {"none", "html", "php", "other"}, indexCode = IndexCode(u.index),
         NEW e, LiteralAt(u, f, pos, e)
  PROVE  HearsTo(stream, f, LiteralRead, e)
<1>1. indexCode \in 0..3 /\ (indexCode = 3 <=> u.index = "other")
  BY IndexCodes
<1>2. CASE u.index = "other"
  <2>1. SegmentAt(f, pos, e, Last(u.path))
    BY <1>2 DEF LiteralAt
  <2>2. Hears(stream, f, ReadSegment(stream, ReaderAt(pos)), e, Last(u.path))
    BY <2>1, HearsStart, HearsSegment
  <2>3. LiteralRead = ReadSegment(stream, ReaderAt(pos))
    BY <1>1, <1>2 DEF LiteralRead
  <2> QED
    BY <2>2, <2>3 DEF Hears, HearsTo
<1>3. CASE u.index # "other"
  <2>1. e = pos
    BY <1>3 DEF LiteralAt
  <2>2. LiteralRead.ok /\ LiteralRead.pos = pos
    BY <1>1, <1>3 DEF LiteralRead, Text
  <2> QED
    BY <2>1, <2>2 DEF HearsTo
<1> QED
  BY <1>2, <1>3

LEMMA PairHeard ==
  ASSUME stream \in Seq(Bit), pos \in 0..Len(stream), NEW f \in Seq(Bit), Extends(f, stream),
         NEW pair \in TidyPairs, NEW e, PairAt(pair, f, pos, e)
  PROVE  HearsTo(stream, f, PairRead, e)
<1> DEFINE start == ReaderAt(pos)
           key == ReadEntry(stream, start, QueryKeys, KeyBits)
           flag == ReadBits(stream, key, 1)
           value == ReadEntry(stream, flag, QueryValues, ValueBits)
           t == PairRead
<1>1. t = IF flag.ok /\ flag.val = 0 THEN Text(flag.pos, key.val)
          ELSE IF value.ok THEN Text(value.pos, key.val \o <<"=">> \o value.val)
          ELSE TextFail(value)
  BY DEF PairRead
<1>2. PICK m \in Nat :
        /\ EntryAt(f, pos, m, pair.key, QueryKeys, KeyBits)
        /\ IF pair.value.some
           THEN Written(f, m, 1, 1) /\ EntryAt(f, m + 1, e, pair.value.text, QueryValues, ValueBits)
           ELSE Written(f, m, 0, 1) /\ e = m + 1
  BY DEF PairAt
<1>3. Hears(stream, f, start, pos, 0)
  BY HearsStart
<1>4. KeyBits \in Nat /\ ValueBits \in Nat
  BY IndexWidths
<1> HIDE DEF start, t
<1>5. Hears(stream, f, key, m, pair.key)
  BY <1>2, <1>3, <1>4, HearsEntry
<1> HIDE DEF key
<1>6. CASE pair.value.some
  <2>1. Hears(stream, f, flag, m + 1, 1)
    BY <1>2, <1>5, <1>6, HearsBits
  <2> HIDE DEF flag
  <2>2. Hears(stream, f, value, e, pair.value.text)
    BY <1>2, <1>4, <1>6, <2>1, HearsEntry
  <2> HIDE DEF value
  <2>3. ~(flag.ok /\ flag.val = 0)
    BY <2>1 DEF Hears
  <2>4. HearsTo(stream, f, t, e)
    BY <1>1, <2>2, <2>3 DEF HearsTo, Hears, Text, TextFail
  <2> QED
    BY <2>4 DEF t
<1>7. CASE ~pair.value.some
  <2>1. Hears(stream, f, flag, e, 0)
    BY <1>2, <1>5, <1>7, HearsBits
  <2>2. value.ok => flag.ok
    <3>1. Inside(flag, stream) /\ ValueBits \in Nat
      BY <1>4, <2>1 DEF Hears
    <3> QED
      BY <3>1, ExtendsItself, ReadEntryLonger
  <2> HIDE DEF flag, value
  <2>3. HearsTo(stream, f, t, e)
    BY <1>1, <2>1, <2>2 DEF HearsTo, Hears, Text, TextFail
  <2> QED
    BY <2>3 DEF t
<1> QED
  BY <1>6, <1>7

-----------------------------------------------------------------------------
(* The decoder between two blocks, at the place where the encoder was at a.*)

RegionBlocks == {"path", "segments", "query", "pairs", "fragment", "parts"}

RegionsOf(u) ==
  {region \in Regions : \/ region = "path" /\ u.path # <<>>
                        \/ region = "query" /\ u.query # <<>>
                        \/ region = "fragment" /\ u.fragment # <<>>}

(* The host as far as it is joined: its first done labels. *)
HostJoined(u, done) ==
  \E e : /\ Cuts(e, LabelsOf(u), NameOf(u), Len(NameOf(u)), ".")
         /\ done > 0 => host = SubSeq(NameOf(u), 1, e[done])

DecodedTo(u, a) ==
  /\ pos = a.pos /\ dstep = IF a.step = "finish" THEN "padding" ELSE a.step
  /\ a.step # "header" => indexCode = IndexCode(u.index)
  /\ a.step \in RegionBlocks => regions = RegionsOf(u)
  /\ a.step \in LoopSteps => nth = a.done /\ count = Len(ItemsOf(u, a.step))
  /\ a.step = "labels" => HostJoined(u, a.done)

Overlong(u) == TooLong(NameOf(u)) \/ TooLong(TldOf(u))

(* The decoder follows: it gets to b, or refuses for want of bits or for   *)
(* the length of the host or the TLD.                                      *)
Follows(u, f, b) ==
  \/ DecodedTo(u, b)'
  \/ dstep' = "rejected" /\ (stream = f => Overlong(u))

Ready(u, f, a) ==
  /\ stream \in Seq(Bit) /\ pos \in 0..Len(stream)
  /\ f \in Seq(Bit) /\ Extends(f, stream)
  /\ Fields(u) /\ a \in Configs /\ DecodedTo(u, a)

LEMMA ReadyAt ==
  ASSUME NEW u, NEW f, NEW a, Ready(u, f, a)
  PROVE  /\ pos = a.pos /\ pos \in Nat /\ Hears(stream, f, ReaderAt(pos), pos, 0)
         /\ \A step : dstep = step /\ step # "padding" => a.step = step
<1>1. pos \in Nat
  BY LenProperties DEF Ready
<1>2. Hears(stream, f, ReaderAt(pos), pos, 0)
  BY HearsStart DEF Ready
<1> QED
  BY <1>1, <1>2 DEF Ready, DecodedTo

LEMMA RefusesShort ==
  ASSUME NEW u, NEW f, NEW b, Reject, stream = f => Overlong(u)
  PROVE  Follows(u, f, b)
BY DEF Follows, Reject

LEMMA HeaderFollows ==
  ASSUME NEW u, NEW f, NEW a, NEW b, Ready(u, f, a), Laid(u, f, a, b), ReadHeader
  PROVE  Follows(u, f, b)
<1> DEFINE start   == ReaderAt(pos)
           version == ReadBits(stream, start, 4)
           dict    == ReadBits(stream, version, 4)
           isHttps == ReadBits(stream, dict, 1)
           isWww   == ReadBits(stream, isHttps, 1)
           index   == ReadBits(stream, isWww, 2)
<1>1. /\ pos = a.pos /\ pos \in Nat /\ Hears(stream, f, start, pos, 0) /\ a.step = "header"
      /\ stream \in Seq(Bit) /\ f \in Seq(Bit) /\ Extends(f, stream)
  BY ReadyAt DEF ReadHeader, Ready
<1>2. HeaderAt(u, f, pos, b.pos) /\ Goes(b, "port")
  BY <1>1 DEF Laid
<1>3. IF index.ok /\ version.val = WireVersion /\ dict.val = DictSetId
      THEN /\ Consume(index, "port")
           /\ indexCode' = index.val
      ELSE Reject
  BY DEF ReadHeader
<1> HIDE DEF start
<1>4. /\ Written(f, pos, WireVersion, 4) /\ Written(f, pos + 4, DictSetId, 4)
      /\ Written(f, pos + 8, FlagOf(u.https), 1) /\ Written(f, pos + 9, FlagOf(u.www), 1)
      /\ Written(f, pos + 10, IndexCode(u.index), 2) /\ b.pos = pos + 12
  BY <1>2 DEF HeaderAt
<1>5. Hears(stream, f, version, pos + 4, WireVersion)
  BY <1>1, <1>4, HearsBits
<1>6. Hears(stream, f, dict, pos + 8, DictSetId)
  <2>1. Hears(stream, f, dict, (pos + 4) + 4, DictSetId)
    BY <1>1, <1>4, <1>5, HearsBits
  <2>2. (pos + 4) + 4 = pos + 8
    BY <1>1
  <2> QED
    BY <2>1, <2>2
<1>7. Hears(stream, f, isHttps, pos + 9, FlagOf(u.https))
  <2>1. Hears(stream, f, isHttps, (pos + 8) + 1, FlagOf(u.https))
    BY <1>1, <1>4, <1>6, HearsBits
  <2>2. (pos + 8) + 1 = pos + 9
    BY <1>1
  <2> QED
    BY <2>1, <2>2
<1>8. Hears(stream, f, isWww, pos + 10, FlagOf(u.www))
  <2>1. Hears(stream, f, isWww, (pos + 9) + 1, FlagOf(u.www))
    BY <1>1, <1>4, <1>7, HearsBits
  <2>2. (pos + 9) + 1 = pos + 10
    BY <1>1
  <2> QED
    BY <2>1, <2>2
<1>9. Hears(stream, f, index, pos + 12, IndexCode(u.index))
  <2>1. Hears(stream, f, index, (pos + 10) + 2, IndexCode(u.index))
    BY <1>1, <1>4, <1>8, HearsBits
  <2>2. (pos + 10) + 2 = pos + 12
    BY <1>1
  <2> QED
    BY <2>1, <2>2
<1>10. (index.ok => isWww.ok) /\ (isWww.ok => isHttps.ok) /\ (isHttps.ok => dict.ok)
       /\ (dict.ok => version.ok)
  BY OkBefore
<1> HIDE DEF version, dict, isHttps, isWww, index
<1>11. CASE index.ok
  <2>1. version.val = WireVersion /\ dict.val = DictSetId
    BY <1>5, <1>6, <1>10, <1>11 DEF Hears
  <2>2. pos' = b.pos /\ dstep' = "port" /\ indexCode' = IndexCode(u.index)
    BY <1>3, <1>4, <1>9, <1>11, <2>1 DEF Hears, Consume
  <2> QED
    BY <1>2, <2>2 DEF Follows, DecodedTo, Goes, RegionBlocks, LoopSteps
<1>12. CASE ~index.ok
  <2>1. Reject /\ stream # f
    BY <1>3, <1>9, <1>12 DEF Hears
  <2> QED
    BY <2>1, RefusesShort
<1> QED
  BY <1>11, <1>12

LEMMA PortFollows ==
  ASSUME NEW u, NEW f, NEW a, NEW b, Ready(u, f, a), Laid(u, f, a, b), ReadPort
  PROVE  Follows(u, f, b)
<1> DEFINE r == PortRead
<1>1. /\ pos = a.pos /\ pos \in Nat /\ a.step = "port" /\ pos \in 0..Len(stream)
      /\ stream \in Seq(Bit) /\ f \in Seq(Bit) /\ Extends(f, stream)
      /\ indexCode = IndexCode(u.index)
  BY ReadyAt DEF ReadPort, Ready, DecodedTo
<1>2. PortAt(f, pos, b.pos) /\ Goes(b, "host")
  BY <1>1 DEF Laid
<1>3. HearsTo(stream, f, r, b.pos)
  BY <1>1, <1>2, PortHeard
<1>4. IF r.ok THEN Consume(r, "host") /\ UNCHANGED indexCode ELSE Reject
  BY DEF ReadPort
<1> HIDE DEF r
<1>5. CASE r.ok
  BY <1>1, <1>2, <1>3, <1>4, <1>5 DEF HearsTo, Consume, Follows, DecodedTo, Goes, RegionBlocks, LoopSteps
<1>6. CASE ~r.ok
  BY <1>3, <1>4, <1>6, RefusesShort DEF HearsTo
<1> QED
  BY <1>5, <1>6

LEMMA TldFollows ==
  ASSUME NEW u, NEW f, NEW a, NEW b, Ready(u, f, a), Laid(u, f, a, b), ReadTld
  PROVE  Follows(u, f, b)
<1> DEFINE r == TldRead
<1>1. /\ pos = a.pos /\ pos \in Nat /\ a.step = "tld" /\ pos \in 0..Len(stream)
      /\ stream \in Seq(Bit) /\ f \in Seq(Bit) /\ Extends(f, stream)
      /\ indexCode = IndexCode(u.index)
  BY ReadyAt DEF ReadTld, Ready, DecodedTo
<1>2. TldAt(TldOf(u), f, pos, b.pos) /\ Goes(b, "literal")
  BY <1>1 DEF Laid
<1>3. Hears(stream, f, r, b.pos, TldOf(u))
  BY <1>1, <1>2, TldHeard
<1>4. IF r.ok /\ ~TooLong(r.val) THEN Consume(r, "literal") /\ UNCHANGED indexCode ELSE Reject
  BY DEF ReadTld
<1> HIDE DEF r
<1>5. CASE r.ok /\ ~TooLong(r.val)
  BY <1>1, <1>2, <1>3, <1>4, <1>5 DEF Hears, Consume, Follows, DecodedTo, Goes, RegionBlocks, LoopSteps
<1>6. CASE ~(r.ok /\ ~TooLong(r.val))
  <2>1. stream = f => Overlong(u)
    BY <1>3, <1>6 DEF Hears, Overlong
  <2> QED
    BY <1>4, <1>6, <2>1, RefusesShort
<1> QED
  BY <1>5, <1>6

LEMMA LiteralFollows ==
  ASSUME NEW u, NEW f, NEW a, NEW b, Ready(u, f, a), Laid(u, f, a, b), ReadLiteral
  PROVE  Follows(u, f, b)
<1> DEFINE r == LiteralRead
<1>1. /\ pos = a.pos /\ pos \in Nat /\ a.step = "literal" /\ pos \in 0..Len(stream)
      /\ stream \in Seq(Bit) /\ f \in Seq(Bit) /\ Extends(f, stream)
      /\ indexCode = IndexCode(u.index)
  BY ReadyAt DEF ReadLiteral, Ready, DecodedTo
<1>2. LiteralAt(u, f, pos, b.pos) /\ Goes(b, "flags")
  BY <1>1 DEF Laid
<1>3. HearsTo(stream, f, r, b.pos)
  <2>1. u.index \in {"none", "html", "php", "other"}
    BY DEF Ready, Fields
  <2> QED
    BY <1>1, <1>2, <2>1, LiteralHeard
<1>4. IF r.ok THEN Consume(r, "flags") /\ UNCHANGED indexCode ELSE Reject
  BY DEF ReadLiteral
<1> HIDE DEF r
<1>5. CASE r.ok
  BY <1>1, <1>2, <1>3, <1>4, <1>5 DEF HearsTo, Consume, Follows, DecodedTo, Goes, RegionBlocks, LoopSteps
<1>6. CASE ~r.ok
  BY <1>3, <1>4, <1>6, RefusesShort DEF HearsTo
<1> QED
  BY <1>5, <1>6

LEMMA FlagsFollow ==
  ASSUME NEW u, NEW f, NEW a, NEW b, Ready(u, f, a), Laid(u, f, a, b), ReadFlags
  PROVE  Follows(u, f, b)
<1> DEFINE start    == ReaderAt(pos)
           path     == ReadBits(stream, start, 1)
           query    == ReadBits(stream, path, 1)
           fragment == ReadBits(stream, query, 1)
<1>1. /\ pos = a.pos /\ pos \in Nat /\ Hears(stream, f, start, pos, 0) /\ a.step = "flags"
      /\ stream \in Seq(Bit) /\ f \in Seq(Bit) /\ Extends(f, stream)
      /\ indexCode = IndexCode(u.index)
  BY ReadyAt DEF ReadFlags, Ready, DecodedTo
<1>2. FlagsAt(u, f, pos, b.pos) /\ Goes(b, "path")
  BY <1>1 DEF Laid
<1>3. IF fragment.ok
      THEN /\ Consume(fragment, "path")
           /\ regions' = {region \in Regions :
                            \/ region = "path" /\ path.val = 1
                            \/ region = "query" /\ query.val = 1
                            \/ region = "fragment" /\ fragment.val = 1}
           /\ UNCHANGED indexCode
      ELSE Reject
  BY DEF ReadFlags
<1> HIDE DEF start
<1>4. /\ Written(f, pos, FlagOf(u.path # <<>>), 1) /\ Written(f, pos + 1, FlagOf(u.query # <<>>), 1)
      /\ Written(f, pos + 2, FlagOf(u.fragment # <<>>), 1) /\ b.pos = pos + 3
  BY <1>2 DEF FlagsAt
<1>5. Hears(stream, f, path, pos + 1, FlagOf(u.path # <<>>))
  BY <1>1, <1>4, HearsBits
<1>6. Hears(stream, f, query, pos + 2, FlagOf(u.query # <<>>))
  <2>1. Hears(stream, f, query, (pos + 1) + 1, FlagOf(u.query # <<>>))
    BY <1>1, <1>4, <1>5, HearsBits
  <2>2. (pos + 1) + 1 = pos + 2
    BY <1>1
  <2> QED
    BY <2>1, <2>2
<1>7. Hears(stream, f, fragment, pos + 3, FlagOf(u.fragment # <<>>))
  <2>1. Hears(stream, f, fragment, (pos + 2) + 1, FlagOf(u.fragment # <<>>))
    BY <1>1, <1>4, <1>6, HearsBits
  <2>2. (pos + 2) + 1 = pos + 3
    BY <1>1
  <2> QED
    BY <2>1, <2>2
<1>8. (fragment.ok => query.ok) /\ (query.ok => path.ok)
  BY OkBefore
<1> HIDE DEF path, query, fragment
<1>9. CASE fragment.ok
  <2>1. /\ path.val = 1 <=> u.path # <<>>
        /\ query.val = 1 <=> u.query # <<>>
        /\ fragment.val = 1 <=> u.fragment # <<>>
    BY <1>5, <1>6, <1>7, <1>8, <1>9 DEF Hears, FlagOf
  <2>2. pos' = b.pos /\ dstep' = "path" /\ indexCode' = IndexCode(u.index)
    BY <1>1, <1>3, <1>4, <1>7, <1>9 DEF Hears, Consume
  <2>3. regions' = RegionsOf(u)
    BY <1>3, <1>9, <2>1 DEF RegionsOf
  <2> QED
    BY <1>2, <2>2, <2>3 DEF Follows, DecodedTo, Goes, LoopSteps
<1>10. CASE ~fragment.ok
  <2>1. Reject /\ stream # f
    BY <1>3, <1>7, <1>10 DEF Hears
  <2> QED
    BY <2>1, RefusesShort
<1> QED
  BY <1>9, <1>10

(* The count of a region's items, 0 where there is no region. *)
LEMMA CountHeard ==
  ASSUME stream \in Seq(Bit), pos \in 0..Len(stream), NEW f \in Seq(Bit), Extends(f, stream),
         NEW region, NEW items, Len(items) \in Nat,
         NEW e, CountedAt(region \in regions, items, f, pos, e)
  PROVE  /\ Hears(stream, f, IF region \in regions THEN ReadCompactCount(stream, ReaderAt(pos))
                             ELSE ReaderAt(pos), e, Len(items))
         /\ Len(items) \in 0..MaxSegments
<1>1. Hears(stream, f, ReaderAt(pos), pos, 0)
  BY HearsStart
<1>2. MaxSegments \in Nat /\ 0..MaxSegments \subseteq 0..(Pow2[WordBits] - 1)
  <2>1. MaxSegments \in 0..(Pow2[WordBits] - 1) /\ Pow2[WordBits] \in Nat
    BY WireLimits, Widths, Pow2Type
  <2> QED
    BY <2>1
<1>3. CASE region \in regions
  <2>1. Len(items) \in 0..MaxSegments /\ CountAt(f, pos, Len(items)) /\ e = pos + CountBits(Len(items))
    BY <1>3 DEF CountedAt
  <2>2. Len(items) \in 0..(Pow2[WordBits] - 1)
    BY <1>2, <2>1
  <2>3. Hears(stream, f, ReadCompactCount(stream, ReaderAt(pos)), e, Len(items))
    BY <1>1, <2>1, <2>2, HearsCount
  <2> QED
    BY <1>3, <2>1, <2>3
<1>4. CASE region \notin regions
  <2>1. items = <<>> /\ e = pos
    BY <1>4 DEF CountedAt
  <2>2. Len(items) = 0
    BY <2>1
  <2> QED
    BY <1>1, <1>2, <1>4, <2>1, <2>2
<1> QED
  BY <1>3, <1>4

LEMMA PathCountFollows ==
  ASSUME NEW u, NEW f, NEW a, NEW b, Ready(u, f, a), Laid(u, f, a, b), ReadPathCount
  PROVE  Follows(u, f, b)
<1> DEFINE items == PathItems(u)
           r == IF "path" \in regions THEN ReadCompactCount(stream, ReaderAt(pos))
                ELSE ReaderAt(pos)
<1>1. /\ pos = a.pos /\ pos \in Nat /\ a.step = "path" /\ pos \in 0..Len(stream)
      /\ stream \in Seq(Bit) /\ f \in Seq(Bit) /\ Extends(f, stream)
      /\ indexCode = IndexCode(u.index) /\ regions = RegionsOf(u)
  BY ReadyAt DEF ReadPathCount, ReadCount, Ready, DecodedTo, RegionBlocks
<1>2. /\ Len(items) \in Nat /\ (items = <<>> <=> Len(items) = 0)
  <2>1. \E S : items \in Seq(S)
    BY DEF Ready, Fields
  <2> QED
    BY <2>1, LenProperties
<1>3. /\ CountedAt(u.path # <<>>, items, f, pos, b.pos)
      /\ Goes(b, IF items = <<>> THEN "query" ELSE "segments")
  BY <1>1 DEF Laid
<1>4. "path" \in regions <=> u.path # <<>>
  BY <1>1 DEF RegionsOf, Regions
<1>5. CountedAt("path" \in regions, items, f, pos, b.pos)
  BY <1>3, <1>4 DEF CountedAt
<1>6. items = PathItems(u) /\ ItemsOf(u, "segments") = items
  BY DEF ItemsOf
<1> HIDE DEF items
<1>7. Hears(stream, f, r, b.pos, Len(items)) /\ Len(items) \in 0..MaxSegments
  BY <1>1, <1>2, <1>5, CountHeard
<1>8. IF r.ok /\ r.val \in 0..MaxSegments
      THEN /\ Consume(r, IF r.val = 0 THEN "query" ELSE "segments")
           /\ nth' = 0 /\ count' = r.val
           /\ UNCHANGED <<indexCode, regions>>
      ELSE Reject
  BY DEF ReadPathCount, ReadCount
<1> HIDE DEF r
<1>9. CASE r.ok
  <2>1. r.val = Len(items) /\ r.pos = b.pos
    BY <1>7, <1>9 DEF Hears
  <2>2. /\ pos' = b.pos /\ dstep' = b.step
        /\ nth' = 0 /\ count' = Len(items)
        /\ indexCode' = IndexCode(u.index) /\ regions' = RegionsOf(u)
    BY <1>1, <1>2, <1>3, <1>7, <1>8, <1>9, <2>1 DEF Consume, Goes
  <2> QED
    BY <1>3, <1>6, <2>2 DEF Follows, DecodedTo, Goes, LoopSteps
<1>10. CASE ~r.ok
  <2>1. Reject /\ stream # f
    BY <1>7, <1>8, <1>10 DEF Hears
  <2> QED
    BY <2>1, RefusesShort
<1> QED
  BY <1>9, <1>10

LEMMA QueryCountFollows ==
  ASSUME NEW u, NEW f, NEW a, NEW b, Ready(u, f, a), Laid(u, f, a, b), ReadQueryCount
  PROVE  Follows(u, f, b)
<1> DEFINE items == u.query
           r == IF "query" \in regions THEN ReadCompactCount(stream, ReaderAt(pos))
                ELSE ReaderAt(pos)
<1>1. /\ pos = a.pos /\ pos \in Nat /\ a.step = "query" /\ pos \in 0..Len(stream)
      /\ stream \in Seq(Bit) /\ f \in Seq(Bit) /\ Extends(f, stream)
      /\ indexCode = IndexCode(u.index) /\ regions = RegionsOf(u)
  BY ReadyAt DEF ReadQueryCount, ReadCount, Ready, DecodedTo, RegionBlocks
<1>2. /\ Len(items) \in Nat /\ (items = <<>> <=> Len(items) = 0)
  <2>1. \E S : items \in Seq(S)
    BY DEF Ready, Fields
  <2> QED
    BY <2>1, LenProperties
<1>3. /\ CountedAt(u.query # <<>>, items, f, pos, b.pos)
      /\ Goes(b, IF items = <<>> THEN "fragment" ELSE "pairs")
  BY <1>1 DEF Laid
<1>4. "query" \in regions <=> u.query # <<>>
  BY <1>1 DEF RegionsOf, Regions
<1>5. CountedAt("query" \in regions, items, f, pos, b.pos)
  BY <1>3, <1>4 DEF CountedAt
<1>6. items = u.query /\ ItemsOf(u, "pairs") = items
  BY DEF ItemsOf
<1> HIDE DEF items
<1>7. Hears(stream, f, r, b.pos, Len(items)) /\ Len(items) \in 0..MaxSegments
  BY <1>1, <1>2, <1>5, CountHeard
<1>8. IF r.ok /\ r.val \in 0..MaxSegments
      THEN /\ Consume(r, IF r.val = 0 THEN "fragment" ELSE "pairs")
           /\ nth' = 0 /\ count' = r.val
           /\ UNCHANGED <<indexCode, regions>>
      ELSE Reject
  BY DEF ReadQueryCount, ReadCount
<1> HIDE DEF r
<1>9. CASE r.ok
  <2>1. r.val = Len(items) /\ r.pos = b.pos
    BY <1>7, <1>9 DEF Hears
  <2>2. /\ pos' = b.pos /\ dstep' = b.step
        /\ nth' = 0 /\ count' = Len(items)
        /\ indexCode' = IndexCode(u.index) /\ regions' = RegionsOf(u)
    BY <1>1, <1>2, <1>3, <1>7, <1>8, <1>9, <2>1 DEF Consume, Goes
  <2> QED
    BY <1>3, <1>6, <2>2 DEF Follows, DecodedTo, Goes, LoopSteps
<1>10. CASE ~r.ok
  <2>1. Reject /\ stream # f
    BY <1>7, <1>8, <1>10 DEF Hears
  <2> QED
    BY <2>1, RefusesShort
<1> QED
  BY <1>9, <1>10

LEMMA FragmentCountFollows ==
  ASSUME NEW u, NEW f, NEW a, NEW b, Ready(u, f, a), Laid(u, f, a, b), ReadFragmentCount
  PROVE  Follows(u, f, b)
<1> DEFINE items == u.fragment
           r == IF "fragment" \in regions THEN ReadCompactCount(stream, ReaderAt(pos))
                ELSE ReaderAt(pos)
<1>1. /\ pos = a.pos /\ pos \in Nat /\ a.step = "fragment" /\ pos \in 0..Len(stream)
      /\ stream \in Seq(Bit) /\ f \in Seq(Bit) /\ Extends(f, stream)
      /\ indexCode = IndexCode(u.index) /\ regions = RegionsOf(u)
  BY ReadyAt DEF ReadFragmentCount, ReadCount, Ready, DecodedTo, RegionBlocks
<1>2. /\ Len(items) \in Nat /\ (items = <<>> <=> Len(items) = 0)
  <2>1. \E S : items \in Seq(S)
    BY DEF Ready, Fields
  <2> QED
    BY <2>1, LenProperties
<1>3. /\ CountedAt(u.fragment # <<>>, items, f, pos, b.pos)
      /\ Goes(b, IF items = <<>> THEN "finish" ELSE "parts")
  BY <1>1 DEF Laid
<1>4. "fragment" \in regions <=> u.fragment # <<>>
  BY <1>1 DEF RegionsOf, Regions
<1>5. CountedAt("fragment" \in regions, items, f, pos, b.pos)
  BY <1>3, <1>4 DEF CountedAt
<1>6. items = u.fragment /\ ItemsOf(u, "parts") = items
  BY DEF ItemsOf
<1> HIDE DEF items
<1>7. Hears(stream, f, r, b.pos, Len(items)) /\ Len(items) \in 0..MaxSegments
  BY <1>1, <1>2, <1>5, CountHeard
<1>8. IF r.ok /\ r.val \in 0..MaxSegments
      THEN /\ Consume(r, IF r.val = 0 THEN "padding" ELSE "parts")
           /\ nth' = 0 /\ count' = r.val
           /\ UNCHANGED <<indexCode, regions>>
      ELSE Reject
  BY DEF ReadFragmentCount, ReadCount
<1> HIDE DEF r
<1>9. CASE r.ok
  <2>1. r.val = Len(items) /\ r.pos = b.pos
    BY <1>7, <1>9 DEF Hears
  <2>2. /\ pos' = b.pos /\ dstep' = (IF b.step = "finish" THEN "padding" ELSE b.step)
        /\ nth' = 0 /\ count' = Len(items)
        /\ indexCode' = IndexCode(u.index) /\ regions' = RegionsOf(u)
    BY <1>1, <1>2, <1>3, <1>7, <1>8, <1>9, <2>1 DEF Consume, Goes
  <2> QED
    BY <1>3, <1>6, <2>2 DEF Follows, DecodedTo, Goes, LoopSteps
<1>10. CASE ~r.ok
  <2>1. Reject /\ stream # f
    BY <1>7, <1>8, <1>10 DEF Hears
  <2> QED
    BY <2>1, RefusesShort
<1> QED
  BY <1>9, <1>10

LEMMA PathSegmentFollows ==
  ASSUME NEW u, NEW f, NEW a, NEW b, Ready(u, f, a), Laid(u, f, a, b), ReadPathSegment
  PROVE  Follows(u, f, b)
<1> DEFINE items == PathItems(u)
           r == ReadEntry(stream, ReaderAt(pos), PathTokens, PathBits)
<1>1. /\ pos = a.pos /\ pos \in Nat /\ a.step = "segments" /\ pos \in 0..Len(stream)
      /\ stream \in Seq(Bit) /\ f \in Seq(Bit) /\ Extends(f, stream)
      /\ Hears(stream, f, ReaderAt(pos), pos, 0) /\ a.done \in Nat
      /\ indexCode = IndexCode(u.index) /\ regions = RegionsOf(u)
  BY ReadyAt DEF ReadPathSegment, ReadItem, Ready, DecodedTo, RegionBlocks, Configs
<1>2. items \in Seq(TidyTexts)
  BY DEF Ready, Fields
<1>3. GoesOn(a, b, items, "query") /\ ItemsOf(u, "segments") = items
  BY <1>1 DEF Laid, ItemsOf
<1>4. nth = a.done /\ count = Len(items)
  BY <1>1, <1>3 DEF Ready, DecodedTo, LoopSteps
<1>5. HearsTo(stream, f, r, b.pos)
  <2>1. EntryAt(f, pos, b.pos, items[a.done + 1], PathTokens, PathBits) /\ PathBits \in Nat
    BY <1>1, IndexWidths DEF Laid
  <2> HIDE DEF items
  <2>2. Hears(stream, f, r, b.pos, items[a.done + 1])
    BY <1>1, <2>1, HearsEntry
  <2> QED
    BY <2>2 DEF Hears, HearsTo
<1>6. IF r.ok
      THEN /\ Consume(r, IF nth + 1 < count THEN "segments" ELSE "query")
           /\ nth' = nth + 1
           /\ UNCHANGED <<indexCode, count, regions>>
      ELSE Reject
  BY DEF ReadPathSegment, ReadItem
<1> HIDE DEF items, r
<1>7. CASE r.ok
  <2>1. pos' = b.pos /\ indexCode' = IndexCode(u.index) /\ regions' = RegionsOf(u)
        /\ nth' = a.done + 1 /\ count' = Len(items)
    BY <1>1, <1>4, <1>5, <1>6, <1>7 DEF HearsTo, Consume
  <2>2. Len(items) \in Nat /\ a.done < Len(items)
    BY <1>2, <1>3, LenProperties DEF GoesOn
  <2>3. CASE a.done + 1 = Len(items)
    <3>1. b.step = "query" /\ dstep' = "query"
      BY <1>1, <1>3, <1>4, <1>6, <1>7, <2>2, <2>3 DEF GoesOn, Goes, Consume
    <3> QED
      BY <2>1, <3>1 DEF Follows, DecodedTo, LoopSteps
  <2>4. CASE a.done + 1 # Len(items)
    <3>1. a.done + 1 < Len(items)
      BY <1>1, <2>2, <2>4
    <3>2. b.step = "segments" /\ b.done = a.done + 1 /\ dstep' = "segments"
      BY <1>1, <1>3, <1>4, <1>6, <1>7, <2>4, <3>1 DEF GoesOn, Consume
    <3> QED
      BY <1>3, <2>1, <3>2 DEF Follows, DecodedTo, LoopSteps
  <2> QED
    BY <2>3, <2>4
<1>8. CASE ~r.ok
  BY <1>5, <1>6, <1>8, RefusesShort DEF HearsTo
<1> QED
  BY <1>7, <1>8

LEMMA QueryPairFollows ==
  ASSUME NEW u, NEW f, NEW a, NEW b, Ready(u, f, a), Laid(u, f, a, b), ReadQueryPair
  PROVE  Follows(u, f, b)
<1> DEFINE items == u.query
           r == PairRead
<1>1. /\ pos = a.pos /\ pos \in Nat /\ a.step = "pairs" /\ pos \in 0..Len(stream)
      /\ stream \in Seq(Bit) /\ f \in Seq(Bit) /\ Extends(f, stream)
      /\ Hears(stream, f, ReaderAt(pos), pos, 0) /\ a.done \in Nat
      /\ indexCode = IndexCode(u.index) /\ regions = RegionsOf(u)
  BY ReadyAt DEF ReadQueryPair, ReadItem, Ready, DecodedTo, RegionBlocks, Configs
<1>2. items \in Seq(TidyPairs)
  BY DEF Ready, Fields
<1>3. GoesOn(a, b, items, "fragment") /\ ItemsOf(u, "pairs") = items
  BY <1>1 DEF Laid, ItemsOf
<1>4. nth = a.done /\ count = Len(items)
  BY <1>1, <1>3 DEF Ready, DecodedTo, LoopSteps
<1>5. HearsTo(stream, f, r, b.pos)
  <2>1. PairAt(items[a.done + 1], f, pos, b.pos)
    BY <1>1 DEF Laid
  <2>2. items[a.done + 1] \in TidyPairs
    <3>1. a.done + 1 \in 1..Len(items)
      BY <1>1, <1>2, <1>3, LenProperties DEF GoesOn
    <3> QED
      BY <1>2, <3>1, ElementOfSeq
  <2> HIDE DEF items
  <2> QED
    BY <1>1, <2>1, <2>2, PairHeard
<1>6. IF r.ok
      THEN /\ Consume(r, IF nth + 1 < count THEN "pairs" ELSE "fragment")
           /\ nth' = nth + 1
           /\ UNCHANGED <<indexCode, count, regions>>
      ELSE Reject
  BY DEF ReadQueryPair, ReadItem
<1> HIDE DEF items, r
<1>7. CASE r.ok
  <2>1. pos' = b.pos /\ indexCode' = IndexCode(u.index) /\ regions' = RegionsOf(u)
        /\ nth' = a.done + 1 /\ count' = Len(items)
    BY <1>1, <1>4, <1>5, <1>6, <1>7 DEF HearsTo, Consume
  <2>2. Len(items) \in Nat /\ a.done < Len(items)
    BY <1>2, <1>3, LenProperties DEF GoesOn
  <2>3. CASE a.done + 1 = Len(items)
    <3>1. b.step = "fragment" /\ dstep' = "fragment"
      BY <1>1, <1>3, <1>4, <1>6, <1>7, <2>2, <2>3 DEF GoesOn, Goes, Consume
    <3> QED
      BY <2>1, <3>1 DEF Follows, DecodedTo, LoopSteps
  <2>4. CASE a.done + 1 # Len(items)
    <3>1. a.done + 1 < Len(items)
      BY <1>1, <2>2, <2>4
    <3>2. b.step = "pairs" /\ b.done = a.done + 1 /\ dstep' = "pairs"
      BY <1>1, <1>3, <1>4, <1>6, <1>7, <2>4, <3>1 DEF GoesOn, Consume
    <3> QED
      BY <1>3, <2>1, <3>2 DEF Follows, DecodedTo, LoopSteps
  <2> QED
    BY <2>3, <2>4
<1>8. CASE ~r.ok
  BY <1>5, <1>6, <1>8, RefusesShort DEF HearsTo
<1> QED
  BY <1>7, <1>8

LEMMA FragmentPartFollows ==
  ASSUME NEW u, NEW f, NEW a, NEW b, Ready(u, f, a), Laid(u, f, a, b), ReadFragmentPart
  PROVE  Follows(u, f, b)
<1> DEFINE items == u.fragment
           r == ReadSegment(stream, ReaderAt(pos))
<1>1. /\ pos = a.pos /\ pos \in Nat /\ a.step = "parts" /\ pos \in 0..Len(stream)
      /\ stream \in Seq(Bit) /\ f \in Seq(Bit) /\ Extends(f, stream)
      /\ Hears(stream, f, ReaderAt(pos), pos, 0) /\ a.done \in Nat
      /\ indexCode = IndexCode(u.index) /\ regions = RegionsOf(u)
  BY ReadyAt DEF ReadFragmentPart, ReadItem, Ready, DecodedTo, RegionBlocks, Configs
<1>2. items \in Seq(TidyTexts)
  BY DEF Ready, Fields
<1>3. GoesOn(a, b, items, "finish") /\ ItemsOf(u, "parts") = items
  BY <1>1 DEF Laid, ItemsOf
<1>4. nth = a.done /\ count = Len(items)
  BY <1>1, <1>3 DEF Ready, DecodedTo, LoopSteps
<1>5. HearsTo(stream, f, r, b.pos)
  <2>1. SegmentAt(f, pos, b.pos, items[a.done + 1])
    BY <1>1 DEF Laid
  <2> HIDE DEF items
  <2>2. Hears(stream, f, r, b.pos, items[a.done + 1])
    BY <1>1, <2>1, HearsSegment
  <2> QED
    BY <2>2 DEF Hears, HearsTo
<1>6. IF r.ok
      THEN /\ Consume(r, IF nth + 1 < count THEN "parts" ELSE "padding")
           /\ nth' = nth + 1
           /\ UNCHANGED <<indexCode, count, regions>>
      ELSE Reject
  BY DEF ReadFragmentPart, ReadItem
<1> HIDE DEF items, r
<1>7. CASE r.ok
  <2>1. pos' = b.pos /\ indexCode' = IndexCode(u.index) /\ regions' = RegionsOf(u)
        /\ nth' = a.done + 1 /\ count' = Len(items)
    BY <1>1, <1>4, <1>5, <1>6, <1>7 DEF HearsTo, Consume
  <2>2. Len(items) \in Nat /\ a.done < Len(items)
    BY <1>2, <1>3, LenProperties DEF GoesOn
  <2>3. CASE a.done + 1 = Len(items)
    <3>1. b.step = "finish" /\ dstep' = "padding"
      BY <1>1, <1>3, <1>4, <1>6, <1>7, <2>2, <2>3 DEF GoesOn, Goes, Consume
    <3> QED
      BY <2>1, <3>1 DEF Follows, DecodedTo, LoopSteps
  <2>4. CASE a.done + 1 # Len(items)
    <3>1. a.done + 1 < Len(items)
      BY <1>1, <2>2, <2>4
    <3>2. b.step = "parts" /\ b.done = a.done + 1 /\ dstep' = "parts"
      BY <1>1, <1>3, <1>4, <1>6, <1>7, <2>4, <3>1 DEF GoesOn, Consume
    <3> QED
      BY <1>3, <2>1, <3>2 DEF Follows, DecodedTo, LoopSteps
  <2> QED
    BY <2>3, <2>4
<1>8. CASE ~r.ok
  BY <1>5, <1>6, <1>8, RefusesShort DEF HearsTo
<1> QED
  BY <1>7, <1>8

(* The end of the host block: the whole host is read, and not too long.    *)
LEMMA HostFinished ==
  ASSUME NEW u, NEW f, NEW b, NEW r, NEW name, stream = f => r.ok, r.ok => r.pos = b.pos,
         r.ok => name = NameOf(u), Goes(b, "tld"), indexCode = IndexCode(u.index),
         FinishHost(name, r)
  PROVE  Follows(u, f, b)
<1>1. CASE r.ok /\ ~TooLong(name)
  <2>1. pos' = b.pos /\ dstep' = "tld" /\ indexCode' = IndexCode(u.index)
    BY <1>1 DEF FinishHost, Consume
  <2> QED
    BY <2>1 DEF Follows, DecodedTo, Goes, RegionBlocks, LoopSteps
<1>2. CASE ~(r.ok /\ ~TooLong(name))
  <2>1. Reject
    BY <1>2 DEF FinishHost
  <2>2. stream = f => Overlong(u)
    BY <1>2 DEF Overlong
  <2> QED
    BY <2>1, <2>2, RefusesShort
<1> QED
  BY <1>1, <1>2

LEMMA HostFollows ==
  ASSUME NEW u, NEW f, NEW a, NEW b, Ready(u, f, a), Laid(u, f, a, b), ReadHost
  PROVE  Follows(u, f, b)
<1> DEFINE flag   == ReadBits(stream, ReaderAt(pos), 1)
           labels == ReadBits(stream, flag, 3)
           n == Len(LabelsOf(u))
           r == WholeHostRead(flag)
<1>1. /\ pos = a.pos /\ pos \in Nat /\ a.step = "host" /\ pos \in 0..Len(stream)
      /\ stream \in Seq(Bit) /\ f \in Seq(Bit) /\ Extends(f, stream)
      /\ Hears(stream, f, ReaderAt(pos), pos, 0)
      /\ indexCode = IndexCode(u.index)
  BY ReadyAt DEF ReadHost, Ready, DecodedTo
<1>2. HostAt(u, f, pos, b.pos) /\ Goes(b, IF Labelled(LabelsOf(u)) THEN "labels" ELSE "tld")
  BY <1>1 DEF Laid
<1>3. IF flag.ok /\ flag.val = 1
      THEN IF labels.ok
           THEN /\ Consume(labels, "labels")
                /\ nth' = 0 /\ count' = labels.val + 2 /\ UNCHANGED indexCode
           ELSE Reject
      ELSE FinishHost(r.val, r)
  BY DEF ReadHost
<1>4. CASE Labelled(LabelsOf(u))
  <2>1. /\ Written(f, pos, 1, 1) /\ Written(f, pos + 1, n - 2, 3) /\ b.pos = pos + 4
        /\ Goes(b, "labels")
    BY <1>2, <1>4 DEF HostAt
  <2>2. Hears(stream, f, flag, pos + 1, 1)
    BY <1>1, <2>1, HearsBits
  <2>3. Hears(stream, f, labels, b.pos, n - 2)
    <3>1. Hears(stream, f, labels, (pos + 1) + 3, n - 2)
      BY <1>1, <2>1, <2>2, HearsBits
    <3>2. (pos + 1) + 3 = pos + 4
      BY <1>1
    <3> QED
      BY <2>1, <3>1, <3>2
  <2>4. labels.ok => flag.ok
    BY OkBefore
  <2>5. n \in Nat
    BY <1>4, LabelCounts
  <2>6. HostJoined(u, 0)'
    <3>1. NameOf(u) \in Seq(Ascii)
      BY DEF Ready, Fields, TidyTexts
    <3>2. \E e : Cuts(e, LabelsOf(u), NameOf(u), Len(NameOf(u)), ".")
      BY <3>1, SplitCuts DEF LabelsOf
    <3> QED
      BY <3>2 DEF HostJoined
  <2>7. CASE flag.ok /\ labels.ok
    <3>1. flag.val = 1 /\ labels.val = n - 2 /\ labels.pos = b.pos
      BY <2>2, <2>3, <2>7 DEF Hears
    <3> HIDE DEF flag, labels, n
    <3>2. pos' = b.pos /\ dstep' = "labels" /\ nth' = 0 /\ count' = n
          /\ indexCode' = IndexCode(u.index)
      BY <1>1, <1>3, <2>5, <2>7, <3>1 DEF Consume
    <3> QED
      BY <2>1, <2>6, <3>2 DEF Follows, DecodedTo, Goes, RegionBlocks, LoopSteps, ItemsOf, n
  <2>8. CASE ~labels.ok
    <3>1. stream # f
      BY <2>3, <2>8 DEF Hears
    <3>2. CASE flag.ok /\ flag.val = 1
      BY <1>3, <2>8, <3>1, <3>2, RefusesShort
    <3>3. CASE ~(flag.ok /\ flag.val = 1)
      <4>1. ~flag.ok
        BY <2>2, <3>3 DEF Hears
      <4>2. ~r.ok
        <5> DEFINE mode == ReadBits(stream, flag, 2)
        <5>1. ~mode.ok
          BY <4>1, OkBefore
        <5> HIDE DEF mode
        <5>2. r = TextFail(mode)
          BY <5>1 DEF WholeHostRead, mode
        <5> QED
          BY <5>2 DEF TextFail
      <4>3. Reject
        BY <1>3, <3>3, <4>2 DEF FinishHost
      <4> QED
        BY <3>1, <4>3, RefusesShort
    <3> QED
      BY <3>2, <3>3
  <2> QED
    BY <2>4, <2>7, <2>8
<1>5. CASE ~Labelled(LabelsOf(u))
  <2>1. Written(f, pos, 0, 1) /\ WholeHostAt(NameOf(u), f, pos + 1, b.pos) /\ Goes(b, "tld")
    BY <1>2, <1>5 DEF HostAt
  <2>2. Hears(stream, f, flag, pos + 1, 0)
    BY <1>1, <2>1, HearsBits
  <2>3. Hears(stream, f, r, b.pos, NameOf(u))
    BY <1>1, <2>1, <2>2, WholeHostHeard
  <2>4. FinishHost(r.val, r)
    BY <1>3, <2>2 DEF Hears
  <2> HIDE DEF r, flag, labels
  <2> QED
    BY <1>1, <2>1, <2>3, <2>4, HostFinished DEF Hears
<1> QED
  BY <1>4, <1>5

(* One more label joined to a host of k labels. *)
LEMMA LabelJoins ==
  ASSUME NEW name \in Seq(Ascii), NEW ps \in Seq(Seq(Ascii)), NEW e,
         Cuts(e, ps, name, Len(name), "."), NEW k \in 0..(Len(ps) - 1)
  PROVE  /\ k = 0 => <<>> \o ps[k + 1] = SubSeq(name, 1, e[k + 1])
         /\ k > 0 => SubSeq(name, 1, e[k]) \o <<".">> \o ps[k + 1] = SubSeq(name, 1, e[k + 1])
         /\ k + 1 = Len(ps) => SubSeq(name, 1, e[k + 1]) = name
<1>1. Len(name) \in Nat /\ Len(ps) \in Nat /\ k \in Nat /\ k + 1 \in 1..Len(ps)
  BY LenProperties
<1>2. /\ \A j \in 0..Len(ps) : e[j] \in -1..Len(name)
      /\ \A j \in 1..Len(ps) : PartAt(ps[j], name, e[j - 1] + 1)
  BY CutsAreParts
<1> DEFINE p == ps[k + 1]
           from == e[k]
           to == e[k + 1]
<1>3. p \in Seq(Ascii) /\ Len(p) \in Nat
  BY <1>1, ElementOfSeq, LenProperties
<1>4. /\ from \in -1..Len(name) /\ to \in -1..Len(name) /\ to = from + 1 + Len(p)
      /\ \A i \in 1..Len(p) : p[i] = name[from + 1 + i]
      /\ k = 0 => from = -1
  <2>1. k \in 0..Len(ps) /\ k + 1 \in 0..Len(ps) /\ (k + 1) - 1 = k
    BY <1>1
  <2>2. /\ e[k + 1] = e[(k + 1) - 1] + 1 + Len(ps[k + 1])
        /\ \A i \in 1..Len(ps[k + 1]) : ps[k + 1][i] = name[e[(k + 1) - 1] + 1 + i]
        /\ e[0] = -1
    BY <1>1 DEF Cuts
  <2> QED
    BY <1>2, <2>1, <2>2
<1> HIDE DEF p, from, to
<1> DEFINE head == SubSeq(name, 1, to)
<1>5. /\ head \in Seq(Ascii) /\ Len(head) = to
      /\ \A i \in 1..to : head[i] = name[i]
  <2>1. to \in 0..Len(name)
    BY <1>1, <1>3, <1>4
  <2> QED
    BY <1>1, <2>1
<1> HIDE DEF head
<1>6. ASSUME k = 0 PROVE <<>> \o p = head
  <2>1. Len(p) = Len(head) /\ \A i \in 1..Len(p) : p[i] = head[i]
    BY <1>3, <1>4, <1>5, <1>6
  <2>2. p = head
    BY <1>3, <1>5, <2>1, SeqEqual
  <2> QED
    BY <1>3, <2>2
<1>7. ASSUME k > 0 PROVE SubSeq(name, 1, from) \o <<".">> \o p = head
  <2> DEFINE before_ == SubSeq(name, 1, from)
             dotted == before_ \o <<".">>
             all == dotted \o p
  <2>1. from \in 0..(Len(name) - 1) /\ name[from + 1] = "."
    <3>1. k \in 1..Len(ps) /\ k - 1 \in 0..Len(ps) /\ k < Len(ps)
      BY <1>1, <1>7
    <3>2. e[k] = e[k - 1] + 1 + Len(ps[k]) /\ name[e[k] + 1] = "."
      BY <3>1 DEF Cuts
    <3>3. Len(ps[k]) \in Nat /\ e[k - 1] \in -1..Len(name)
      BY <1>2, <3>1, ElementOfSeq, LenProperties
    <3>4. from >= 0
      <4>1. \A x, y, z : x = y + 1 + z /\ z \in Nat /\ y \in -1..Len(name) => x >= 0
        BY <1>1
      <4>2. e[k] >= 0
        BY <3>2, <3>3, <4>1
      <4> QED
        BY <4>2 DEF from
    <3>5. name[from + 1] = "."
      BY <3>2 DEF from
    <3>6. from <= Len(name) - 1
      BY <1>1, <1>3, <1>4
    <3> QED
      BY <1>1, <1>4, <3>4, <3>5, <3>6
  <2>2. "." \in Ascii
    BY CharacterSet, ClassesAreAscii
  <2>3. /\ before_ \in Seq(Ascii) /\ Len(before_) = from
        /\ \A i \in 1..from : before_[i] = name[i]
    BY <1>1, <2>1
  <2> HIDE DEF before_
  <2>4. /\ dotted \in Seq(Ascii) /\ Len(dotted) = from + 1
        /\ \A i \in 1..from : dotted[i] = name[i]
        /\ dotted[from + 1] = "."
    <3>1. <<".">> \in Seq(Ascii) /\ Len(<<".">>) = 1 /\ <<".">>[1] = "."
      BY <2>2
    <3>2. /\ dotted \in Seq(Ascii) /\ Len(dotted) = Len(before_) + 1
          /\ \A i \in 1..Len(before_) : dotted[i] = before_[i]
          /\ \A i \in 1..1 : dotted[Len(before_) + i] = <<".">>[i]
      BY <2>3, <3>1, JoinedText
    <3> QED
      BY <2>1, <2>3, <3>1, <3>2
  <2> HIDE DEF dotted
  <2>5. /\ all \in Seq(Ascii) /\ Len(all) = Len(dotted) + Len(p)
        /\ \A i \in 1..Len(dotted) : all[i] = dotted[i]
        /\ \A i \in 1..Len(p) : all[Len(dotted) + i] = p[i]
    <3>1. p \in Seq(Ascii) /\ dotted \in Seq(Ascii)
      BY <1>3, <2>4
    <3> QED
      BY <3>1, JoinedText
  <2> HIDE DEF all
  <2>6. Len(all) = Len(head)
    BY <1>3, <1>4, <1>5, <2>1, <2>4, <2>5
  <2>7. ASSUME NEW i \in 1..Len(all) PROVE all[i] = head[i]
    <3>1. i \in 1..to /\ head[i] = name[i]
      BY <1>5, <2>6, <2>7
    <3>2. CASE i <= from
      BY <2>1, <2>4, <2>5, <2>7, <3>1, <3>2
    <3>3. CASE i = from + 1
      BY <2>1, <2>4, <2>5, <2>7, <3>1, <3>3
    <3>4. CASE i > from + 1
      <4>1. PICK m \in 1..Len(p) : i = from + 1 + m
        <5>1. i - (from + 1) \in 1..Len(p) /\ i = from + 1 + (i - (from + 1))
          BY <1>3, <2>1, <2>4, <2>5, <2>7, <3>4
        <5> QED
          BY <5>1
      <4> QED
        BY <1>4, <2>4, <2>5, <3>1, <4>1
    <3> QED
      BY <2>1, <3>2, <3>3, <3>4
  <2>8. all = head
    BY <1>5, <2>5, <2>6, <2>7, SeqEqual
  <2> QED
    BY <2>8 DEF all, dotted, before_
<1>8. ASSUME k + 1 = Len(ps) PROVE head = name
  <2>1. to = Len(name)
    BY <1>8 DEF Cuts, to
  <2>2. Len(head) = Len(name) /\ \A i \in 1..Len(head) : head[i] = name[i]
    BY <1>5, <2>1
  <2> QED
    BY <1>5, <2>2, SeqEqual
<1> QED
  BY <1>6, <1>7, <1>8 DEF p, from, to, head

(* The labels joined so far, with one more. *)
JoinedNext(label) == (IF nth = 0 THEN <<>> ELSE host \o <<".">>) \o label

LEMMA HostGrows ==
  ASSUME NEW u, Fields(u), NEW done \in Nat, done < Len(LabelsOf(u)), HostJoined(u, done),
         nth = done, NEW label, label = LabelsOf(u)[done + 1]
  PROVE  /\ \E e : /\ Cuts(e, LabelsOf(u), NameOf(u), Len(NameOf(u)), ".")
                   /\ JoinedNext(label) = SubSeq(NameOf(u), 1, e[done + 1])
         /\ done + 1 = Len(LabelsOf(u)) => JoinedNext(label) = NameOf(u)
<1> DEFINE name == NameOf(u)
           ps == LabelsOf(u)
<1>1. name \in Seq(Ascii) /\ ps \in Seq(Seq(Ascii)) /\ Len(ps) \in Nat
  <2>1. TidyTexts \subseteq Seq(Ascii)
    BY DEF TidyTexts
  <2>2. name \in TidyTexts /\ ps \in Seq(TidyTexts)
    BY DEF Fields
  <2> HIDE DEF name, ps
  <2> QED
    BY <2>1, <2>2, LenProperties
<1>2. PICK e : /\ Cuts(e, ps, name, Len(name), ".")
               /\ done > 0 => host = SubSeq(name, 1, e[done])
  BY DEF HostJoined
<1> HIDE DEF name, ps
<1>3. done \in 0..(Len(ps) - 1) /\ label = ps[done + 1]
  BY <1>1 DEF ps
<1>9. /\ done = 0 => <<>> \o ps[done + 1] = SubSeq(name, 1, e[done + 1])
      /\ done > 0 => SubSeq(name, 1, e[done]) \o <<".">> \o ps[done + 1] = SubSeq(name, 1, e[done + 1])
      /\ done + 1 = Len(ps) => SubSeq(name, 1, e[done + 1]) = name
  BY <1>1, <1>2, <1>3, LabelJoins
<1>4. /\ done = 0 => <<>> \o label = SubSeq(name, 1, e[done + 1])
      /\ done > 0 => SubSeq(name, 1, e[done]) \o <<".">> \o label = SubSeq(name, 1, e[done + 1])
      /\ done + 1 = Len(ps) => SubSeq(name, 1, e[done + 1]) = name
  BY <1>3, <1>9
<1>5. JoinedNext(label) = SubSeq(name, 1, e[done + 1])
  <2>1. CASE done = 0
    BY <1>4, <2>1 DEF JoinedNext
  <2>2. CASE done # 0
    <3>1. done > 0
      BY <2>2
    <3> QED
      BY <1>2, <1>4, <2>2, <3>1 DEF JoinedNext
  <2> QED
    BY <2>1, <2>2
<1> QED
  BY <1>2, <1>4, <1>5 DEF name, ps

LEMMA LabelFollows ==
  ASSUME NEW u, NEW f, NEW a, NEW b, Ready(u, f, a), Laid(u, f, a, b), ReadLabel
  PROVE  Follows(u, f, b)
<1> DEFINE items == LabelsOf(u)
           r == ReadEntry(stream, ReaderAt(pos), Hosts, HostBits)
           joined == JoinedNext(r.val)
<1>1. /\ pos = a.pos /\ pos \in Nat /\ a.step = "labels" /\ pos \in 0..Len(stream)
      /\ stream \in Seq(Bit) /\ f \in Seq(Bit) /\ Extends(f, stream)
      /\ Hears(stream, f, ReaderAt(pos), pos, 0) /\ a.done \in Nat
      /\ indexCode = IndexCode(u.index) /\ Fields(u) /\ HostJoined(u, a.done)
  BY ReadyAt DEF ReadLabel, Ready, DecodedTo, Configs
<1>2. Len(items) \in Nat
  <2>1. items \in Seq(TidyTexts)
    BY <1>1 DEF Fields
  <2> QED
    BY <2>1, LenProperties
<1>3. GoesOn(a, b, items, "tld") /\ ItemsOf(u, "labels") = items
  BY <1>1 DEF Laid, ItemsOf
<1>4. nth = a.done /\ count = Len(items)
  BY <1>1, <1>3 DEF Ready, DecodedTo, LoopSteps
<1>5. Hears(stream, f, r, b.pos, items[a.done + 1])
  <2>1. EntryAt(f, pos, b.pos, items[a.done + 1], Hosts, HostBits)
    BY <1>1 DEF Laid
  <2>2. HostBits \in Nat
    BY IndexWidths
  <2> HIDE DEF items
  <2> QED
    BY <1>1, <2>1, <2>2, HearsEntry
<1>6. IF r.ok /\ nth + 1 < count
      THEN /\ Consume(r, "labels")
           /\ nth' = nth + 1
           /\ host' = joined
           /\ UNCHANGED <<indexCode, count>>
      ELSE FinishHost(joined, r)
  BY DEF ReadLabel, JoinedNext
<1>7. a.done < Len(items)
  BY <1>3 DEF GoesOn
<1>8. r.ok => /\ r.pos = b.pos
              /\ \E e : /\ Cuts(e, items, NameOf(u), Len(NameOf(u)), ".")
                        /\ joined = SubSeq(NameOf(u), 1, e[a.done + 1])
              /\ a.done + 1 = Len(items) => joined = NameOf(u)
  <2>1. r.ok => r.pos = b.pos /\ r.val = items[a.done + 1]
    BY <1>5 DEF Hears
  <2> HIDE DEF r
  <2>2. ASSUME r.ok
        PROVE  /\ \E e : /\ Cuts(e, items, NameOf(u), Len(NameOf(u)), ".")
                         /\ JoinedNext(r.val) = SubSeq(NameOf(u), 1, e[a.done + 1])
               /\ a.done + 1 = Len(items) => JoinedNext(r.val) = NameOf(u)
    BY <1>1, <1>4, <1>7, <2>1, <2>2, HostGrows
  <2> QED
    BY <2>1, <2>2
<1>9. stream = f => r.ok
  BY <1>5 DEF Hears
<1> HIDE DEF r, joined
<1>10. CASE a.done + 1 = Len(items)
  <2>1. Goes(b, "tld")
    BY <1>3, <1>10 DEF GoesOn
  <2>2. FinishHost(joined, r)
    BY <1>2, <1>4, <1>6, <1>10
  <2> QED
    BY <1>1, <1>8, <1>9, <1>10, <2>1, <2>2, HostFinished
<1>11. CASE a.done + 1 # Len(items) /\ r.ok
  <2>1. a.done + 1 < Len(items) /\ nth + 1 < count
    BY <1>1, <1>2, <1>4, <1>7, <1>11
  <2>2. b.step = "labels" /\ b.done = a.done + 1
    BY <1>1, <1>3, <1>11 DEF GoesOn
  <2>3. /\ pos' = b.pos /\ dstep' = "labels" /\ nth' = b.done /\ count' = Len(items)
        /\ indexCode' = IndexCode(u.index) /\ host' = joined
    BY <1>1, <1>4, <1>6, <1>8, <1>11, <2>1, <2>2 DEF Consume
  <2>4. HostJoined(u, b.done)'
    <3>1. PICK e : /\ Cuts(e, items, NameOf(u), Len(NameOf(u)), ".")
                   /\ joined = SubSeq(NameOf(u), 1, e[a.done + 1])
      BY <1>8, <1>11
    <3> QED
      BY <2>2, <2>3, <3>1 DEF HostJoined
  <2> QED
    BY <1>3, <2>2, <2>3, <2>4 DEF Follows, DecodedTo, LoopSteps, RegionBlocks
<1>12. CASE a.done + 1 # Len(items) /\ ~r.ok
  <2>1. Reject
    BY <1>6, <1>12 DEF FinishHost
  <2> QED
    BY <1>9, <1>12, <2>1, RefusesShort
<1> QED
  BY <1>10, <1>11, <1>12

(* Whatever step the decoder is at, it takes what the encoder put there.   *)
LEMMA DecoderFollows ==
  ASSUME NEW u, NEW f, NEW a, NEW b, Ready(u, f, a), Laid(u, f, a, b), DecoderNext,
         dstep # "padding"
  PROVE  Follows(u, f, b)
<1>1. ~CheckPadding
  BY DEF CheckPadding
<1> QED
  BY <1>1, HeaderFollows, PortFollows, HostFollows, LabelFollows, TldFollows, LiteralFollows,
     FlagsFollow, PathCountFollows, PathSegmentFollows, QueryCountFollows, QueryPairFollows,
     FragmentCountFollows, FragmentPartFollows DEF DecoderNext

-----------------------------------------------------------------------------
(* The encoder's steps as a tape the decoder runs along.                   *)

FirstConfig == [step |-> "header", pos |-> 0, done |-> 0]

(* The places of h the encoder was at between its steps, with what it has  *)
(* written from each to the next in f, and marks, its lengths after them.  *)
Tape(u, f, h, marks) ==
  /\ h \in Seq(Configs) /\ Len(h) > 0
  /\ \A i \in 1..(Len(h) - 1) : Laid(u, f, h[i], h[i + 1])
  /\ marks = [i \in 1..(Len(h) - 1) |-> h[i + 1].pos]

LEMMA TapeBegins ==
  ASSUME NEW u, NEW f
  PROVE  Tape(u, f, <<FirstConfig>>, <<>>) /\ FirstConfig \in Configs
<1>1. FirstConfig \in Configs
  BY DEF FirstConfig, Configs, EncoderSteps
<1>2. <<FirstConfig>> \in Seq(Configs) /\ Len(<<FirstConfig>>) = 1
  BY <1>1
<1>3. \A i \in 1..(1 - 1) : FALSE
  OBVIOUS
<1>4. <<>> = [i \in 1..(1 - 1) |-> <<FirstConfig>>[i + 1].pos]
  OBVIOUS
<1> QED
  BY <1>1, <1>2, <1>3, <1>4 DEF Tape

LEMMA TapeStays ==
  ASSUME NEW u, NEW f \in Seq(Bit), NEW g \in Seq(Bit), Extends(g, f), NEW h, NEW marks,
         Tape(u, f, h, marks)
  PROVE  Tape(u, g, h, marks)
<1>1. h \in Seq(Configs) /\ Len(h) \in Nat
  BY LenProperties DEF Tape
<1>2. ASSUME NEW i \in 1..(Len(h) - 1) PROVE Laid(u, g, h[i], h[i + 1])
  <2>1. i \in 1..Len(h) /\ i + 1 \in 1..Len(h)
    BY <1>1
  <2>2. h[i] \in Configs /\ h[i + 1] \in Configs
    BY <1>1, <2>1, ElementOfSeq
  <2>3. Laid(u, f, h[i], h[i + 1])
    BY DEF Tape
  <2> QED
    BY <2>2, <2>3, LaidStays
<1> QED
  BY <1>2 DEF Tape

LEMMA MarksSpelt ==
  ASSUME NEW m \in Nat, NEW k, \A i \in 1..m : k[i + 1].pos \in Nat
  PROVE  LET marks == [i \in 1..m |-> k[i + 1].pos]
         IN  marks \in Seq(Nat) /\ Len(marks) = m /\ \A i \in 1..m : marks[i] = k[i + 1].pos
OBVIOUS

(* One place more. *)
Grown(h, marks, b, k, more) == k = Append(h, b) /\ more = Append(marks, b.pos)

Grows(u, g, h, b, k, more) == Tape(u, g, k, more) /\ k[1] = h[1] /\ k[Len(k)] = b

LEMMA TapeGrows ==
  ASSUME NEW u, NEW g, NEW h, NEW marks, Tape(u, g, h, marks), NEW b \in Configs,
         Laid(u, g, h[Len(h)], b), NEW k, NEW more, Grown(h, marks, b, k, more)
  PROVE  Grows(u, g, h, b, k, more)
<1> DEFINE n == Len(h)
<1>1. h \in Seq(Configs) /\ n \in Nat /\ n > 0
  BY LenProperties DEF Tape
<1>2. /\ k \in Seq(Configs) /\ Len(k) = n + 1 /\ k[n + 1] = b
      /\ \A i \in 1..n : k[i] = h[i]
  <2>1. k = Append(h, b)
    BY DEF Grown
  <2> QED
    BY <1>1, <2>1
<1>3. marks = [i \in 1..(n - 1) |-> h[i + 1].pos]
  BY DEF Tape
<1>4. /\ marks \in Seq(Nat) /\ Len(marks) = n - 1
  <2>1. \A i \in 1..(n - 1) : h[i + 1].pos \in Nat
    <3>1. ASSUME NEW i \in 1..(n - 1) PROVE h[i + 1] \in Configs
      <4>1. i + 1 \in 1..n
        BY <1>1
      <4> QED
        BY <1>1, <4>1, ElementOfSeq
    <3> QED
      BY <3>1 DEF Configs
  <2>2. n - 1 \in Nat
    BY <1>1
  <2> QED
    BY <1>3, <2>1, <2>2
<1> HIDE DEF n
<1>5. ASSUME NEW i \in 1..(Len(k) - 1) PROVE Laid(u, g, k[i], k[i + 1])
  <2>1. CASE i < n
    <3>1. i \in 1..(n - 1) /\ i \in 1..n /\ i + 1 \in 1..n
      BY <1>1, <1>2, <2>1
    <3>2. Laid(u, g, h[i], h[i + 1])
      BY <3>1 DEF Tape, n
    <3> QED
      BY <1>2, <3>1, <3>2
  <2>2. CASE i = n
    <3>1. k[i] = h[n] /\ k[i + 1] = b
      BY <1>1, <1>2, <2>2
    <3> QED
      BY <3>1 DEF n
  <2> QED
    BY <1>1, <1>2, <2>1, <2>2
<1>6. more = [i \in 1..(Len(k) - 1) |-> k[i + 1].pos]
  <2>1. /\ more \in Seq(Nat) /\ Len(more) = n /\ more[n] = b.pos
        /\ \A i \in 1..(n - 1) : more[i] = marks[i]
    <3>1. b.pos \in Nat /\ more = Append(marks, b.pos)
      BY DEF Configs, Grown
    <3> QED
      BY <1>1, <1>4, <3>1
  <2> DEFINE spelt == [i \in 1..(Len(k) - 1) |-> k[i + 1].pos]
  <2>2. /\ spelt \in Seq(Nat) /\ Len(spelt) = n
        /\ \A i \in 1..n : spelt[i] = k[i + 1].pos
    <3>1. \A i \in 1..n : k[i + 1].pos \in Nat
      <4>1. ASSUME NEW i \in 1..n PROVE k[i + 1] \in Configs
        <5>1. i + 1 \in 1..Len(k)
          BY <1>1, <1>2
        <5> QED
          BY <1>2, <5>1, ElementOfSeq
      <4> QED
        BY <4>1 DEF Configs
    <3>2. Len(k) - 1 = n
      BY <1>1, <1>2
    <3> QED
      BY <1>1, <3>1, <3>2
  <2> HIDE DEF spelt
  <2>3. ASSUME NEW i \in 1..n PROVE more[i] = spelt[i]
    <3>1. CASE i < n
      <4>1. i \in 1..(n - 1) /\ i + 1 \in 1..n
        BY <1>1, <3>1
      <4>2. marks[i] = h[i + 1].pos
        BY <1>3, <4>1
      <4> QED
        BY <1>2, <2>1, <2>2, <4>1, <4>2
    <3>2. CASE i = n
      BY <1>2, <2>1, <2>2, <3>2
    <3>3. i < n \/ i = n
      BY <1>1
    <3> QED
      BY <3>1, <3>2, <3>3
  <2>4. more = spelt
    BY <1>1, <2>1, <2>2, <2>3, SeqEqual
  <2> QED
    BY <2>4 DEF spelt
<1>7. Tape(u, g, k, more)
  <2>1. Len(k) > 0
    BY <1>1, <1>2
  <2> QED
    BY <1>2, <1>5, <1>6, <2>1 DEF Tape
<1> QED
  BY <1>1, <1>2, <1>7 DEF n, Grows

LEMMA TapeRunsOn ==
  ASSUME NEW u, NEW f, NEW h, NEW marks, Tape(u, f, h, marks), Len(h) > 1
  PROVE  /\ Tape(u, f, Tail(h), Tail(marks)) /\ marks # <<>>
         /\ Head(marks) = h[2].pos /\ Laid(u, f, h[1], h[2])
         /\ h[1] \in Configs /\ h[2] \in Configs
         /\ Tail(h)[1] = h[2] /\ Tail(h)[Len(Tail(h))] = h[Len(h)]
<1> DEFINE n == Len(h)
           k == Tail(h)
<1>1. h \in Seq(Configs) /\ n \in Nat /\ n > 1
  BY LenProperties DEF Tape
<1>2. /\ k \in Seq(Configs) /\ Len(k) = n - 1
      /\ \A i \in 1..(n - 1) : k[i] = h[i + 1]
  <2>1. h # <<>>
    BY <1>1, EmptySeq
  <2> QED
    BY <1>1, <2>1, HeadTailProperties
<1>3. marks = [i \in 1..(n - 1) |-> h[i + 1].pos]
  BY DEF Tape
<1>4. \A i \in 1..(n - 1) : h[i] \in Configs /\ h[i + 1] \in Configs /\ h[i + 1].pos \in Nat
  <2>1. ASSUME NEW i \in 1..(n - 1) PROVE h[i] \in Configs /\ h[i + 1] \in Configs
    <3>1. i \in 1..n /\ i + 1 \in 1..n
      BY <1>1
    <3> QED
      BY <1>1, <3>1, ElementOfSeq
  <2> QED
    BY <2>1 DEF Configs
<1> HIDE DEF n, k
<1>5. marks \in Seq(Nat) /\ Len(marks) = n - 1 /\ \A i \in 1..(n - 1) : marks[i] = h[i + 1].pos
  <2>1. n - 1 \in Nat
    BY <1>1
  <2> QED
    BY <1>3, <1>4, <2>1
<1>6. /\ marks # <<>> /\ Head(marks) = marks[1]
      /\ Tail(marks) \in Seq(Nat) /\ Len(Tail(marks)) = n - 2
      /\ \A i \in 1..(n - 2) : Tail(marks)[i] = marks[i + 1]
  <2>1. marks # <<>>
    BY <1>1, <1>5, EmptySeq
  <2>2. /\ Head(marks) = marks[1] /\ Tail(marks) \in Seq(Nat) /\ Len(Tail(marks)) = Len(marks) - 1
        /\ \A i \in 1..(Len(marks) - 1) : Tail(marks)[i] = marks[i + 1]
    BY <1>5, <2>1, HeadTailProperties
  <2> QED
    BY <1>1, <1>5, <2>1, <2>2
<1>7. ASSUME NEW i \in 1..(n - 2) PROVE Laid(u, f, k[i], k[i + 1])
  <2>1. i \in 1..(n - 1) /\ i + 1 \in 1..(n - 1)
    BY <1>1
  <2>2. Laid(u, f, h[i + 1], h[(i + 1) + 1])
    BY <2>1 DEF Tape, n
  <2> QED
    BY <1>2, <2>1, <2>2
<1>8. Tail(marks) = [i \in 1..(n - 2) |-> k[i + 1].pos]
  <2> DEFINE spelt == [i \in 1..(n - 2) |-> k[i + 1].pos]
  <2>1. \A i \in 1..(n - 2) : k[i + 1].pos = h[(i + 1) + 1].pos /\ k[i + 1].pos \in Nat
        /\ i + 1 \in 1..(n - 1)
    <3>1. ASSUME NEW i \in 1..(n - 2) PROVE i + 1 \in 1..(n - 1)
      BY <1>1
    <3> QED
      BY <1>2, <1>4, <3>1
  <2>2. spelt \in Seq(Nat) /\ Len(spelt) = n - 2 /\ \A i \in 1..(n - 2) : spelt[i] = k[i + 1].pos
    <3>1. n - 2 \in Nat
      BY <1>1
    <3>2. \A i \in 1..(n - 2) : k[i + 1].pos \in Nat
      BY <2>1
    <3> QED
      BY <3>1, <3>2, MarksSpelt
  <2> HIDE DEF spelt
  <2>3. ASSUME NEW i \in 1..(n - 2) PROVE Tail(marks)[i] = spelt[i]
    BY <1>5, <1>6, <2>1, <2>2
  <2>4. Tail(marks) = spelt
    BY <1>1, <1>6, <2>2, <2>3, SeqEqual
  <2> QED
    BY <2>4 DEF spelt
<1>9. Tape(u, f, k, Tail(marks))
  <2>1. Len(k) - 1 = n - 2 /\ Len(k) > 0
    BY <1>1, <1>2
  <2> QED
    BY <1>2, <1>7, <1>8, <2>1 DEF Tape
<1>10. Laid(u, f, h[1], h[2]) /\ h[1] \in Configs /\ h[2] \in Configs
  <2>1. 1 \in 1..(n - 1) /\ 1 + 1 = 2
    BY <1>1
  <2>2. Laid(u, f, h[1], h[1 + 1])
    BY <2>1 DEF Tape, n
  <2> QED
    BY <1>4, <2>1, <2>2
<1>11. Head(marks) = h[2].pos
  <2>1. 1 \in 1..(n - 1) /\ 1 + 1 = 2
    BY <1>1
  <2> QED
    BY <1>5, <1>6, <2>1
<1>12. k[1] = h[2] /\ k[Len(k)] = h[n]
  <2>1. 1 \in 1..(n - 1) /\ 1 + 1 = 2 /\ n - 1 \in 1..(n - 1) /\ (n - 1) + 1 = n
    BY <1>1
  <2> QED
    BY <1>2, <2>1
<1> QED
  BY <1>6, <1>9, <1>10, <1>11, <1>12 DEF k, n

(* Where the next place on the tape is, and where there is none.           *)
LEMMA TapeEnds ==
  ASSUME NEW u, NEW f, NEW h, NEW marks, Tape(u, f, h, marks), h[Len(h)].step = "finish"
  PROVE  /\ h[1] \in Configs /\ h[Len(h)] \in Configs
         /\ h[1].step = "finish" <=> Len(h) = 1
         /\ h[1].step # "finish" => Len(h) > 1
<1>1. h \in Seq(Configs) /\ Len(h) \in Nat /\ Len(h) > 0
  BY LenProperties DEF Tape
<1>2. h[1] \in Configs /\ h[Len(h)] \in Configs
  BY <1>1, ElementOfSeq
<1>3. CASE Len(h) = 1
  BY <1>2, <1>3
<1>4. CASE Len(h) # 1
  <2>1. Len(h) > 1 /\ 1 \in 1..(Len(h) - 1)
    <3> DEFINE n == Len(h)
    <3>1. n \in Nat /\ n > 0 /\ n # 1
      BY <1>1, <1>4
    <3> HIDE DEF n
    <3>2. n > 1 /\ 1 \in 1..(n - 1)
      BY <3>1
    <3> QED
      BY <3>2 DEF n
  <2>2. Laid(u, f, h[1], h[1 + 1])
    BY <2>1 DEF Tape
  <2>3. h[1].step # "finish"
    BY <2>2 DEF Laid
  <2> QED
    BY <1>2, <1>4, <2>1, <2>3
<1> QED
  BY <1>3, <1>4

-----------------------------------------------------------------------------
(* The whole system between two steps.                                     *)

(* Every variable holds what its Rust type says, and what the decoder needs*)
(* to keep it so.                                                          *)
CodecTypes ==
  /\ TextInv
  /\ estep \in EncoderSteps /\ out \in Writers
  /\ text \in Seq(Characters) /\ round \in 1..Rounds
  /\ fate \in {"none"} \cup AllFates
  /\ frames \in Seq(Nat) /\ before \in Seq(Bit)

(* The argument has been parsed, with every field in normal form.          *)
Parsed == ParseUrl(text).ok /\ url = ParseUrl(text).url /\ Fields(url)

(* f is what the encoder has written up to c, in whole bytes.              *)
Sealed(f, c) ==
  /\ f \in Seq(Bit) /\ c.step = "finish" /\ c.pos \in 0..Len(f)
  /\ Len(f) % ByteBits = 0 /\ Len(f) - c.pos < ByteBits /\ RestIsZero(f, c.pos)

EncoderHolds ==
  /\ estep = "idle" => frames = <<>>
  /\ estep # "encoded" => dstep = "idle"
  /\ (dstep = "idle") = (fate = "none")
  /\ EncoderRuns => /\ Parsed
                    /\ \E h : /\ Tape(url, out.bits, h, frames) /\ h[1] = FirstConfig
                              /\ Encoding(h[Len(h)])
  /\ RefusedForAReason
  /\ estep = "encoded" => Parsed

(* What decode was given of f, of which the encoder wrote all up to c.     *)
Given(f, c) ==
  /\ Extends(f, stream)
  /\ fate = "intact" => stream = f
  /\ fate = "cut" => Len(stream) < c.pos

DecoderHolds ==
  /\ estep = "encoded" /\ fate = "none" =>
       \E h : /\ Tape(url, out.bits, h, frames) /\ h[1] = FirstConfig
              /\ Sealed(out.bits, h[Len(h)])
  /\ DecoderRuns /\ fate \in {"intact", "cut"} =>
       \E h : /\ Tape(url, out.bits, h, frames) /\ Sealed(out.bits, h[Len(h)])
              /\ DecodedTo(url, h[1]) /\ Given(out.bits, h[Len(h)])
  /\ fate = "intact" /\ dstep = "rejected" => Overlong(url)
  /\ CutIsNoticed

CodecInv == CodecTypes /\ EncoderHolds /\ DecoderHolds

LEMMA CodecInvInit == Init => CodecInv
<1> SUFFICES ASSUME Init PROVE CodecInv
  OBVIOUS
<1>1. /\ text \in Texts /\ url = NoUrl /\ estep = "idle" /\ out = NewWriter
      /\ stream = <<>> /\ dstep = "idle" /\ Start
      /\ round = 1 /\ fate = "none" /\ frames = <<>> /\ before = <<>>
  BY DEF Init, EncoderIdle, DecoderIdle
<1>2. TextInv
  <2>1. stream \in Seq(Bit) /\ pos \in 0..Len(stream) /\ indexCode \in 0..3
    BY <1>1, EmptySeq, LenProperties DEF Start
  <2>2. DecoderLimits
    BY <1>1 DEF DecoderLimits, PastHost, PastTld
  <2>3. TextsTyped
    BY <1>1, EmptySeq DEF Start, TextsTyped, PortRange, DecoderSteps
  <2>4. Bounded
    <3>1. Len(literal) = 0 /\ 0 <= SegmentBudget
      BY <1>1, EmptySeq, BudgetBounds DEF Start
    <3> QED
      BY <1>1, <3>1 DEF Bounded, RegionSteps
  <2> QED
    BY <2>1, <2>2, <2>3, <2>4 DEF TextInv, DecoderInv
<1>3. CodecTypes
  <2>1. out \in Writers
    BY <1>1, EmptySeq DEF NewWriter, Writers
  <2>2. text \in Seq(Characters) /\ round \in 1..Rounds
    BY <1>1, CodecBounds
  <2>3. frames \in Seq(Nat) /\ before \in Seq(Bit)
    BY <1>1, EmptySeq
  <2> QED
    BY <1>1, <1>2, <2>1, <2>2, <2>3 DEF CodecTypes, EncoderSteps
<1>4. EncoderHolds
  BY <1>1 DEF EncoderHolds, EncoderRuns, RefusedForAReason
<1>5. DecoderHolds
  BY <1>1 DEF DecoderHolds, DecoderRuns, CutIsNoticed
<1> QED
  BY <1>3, <1>4, <1>5 DEF CodecInv

(* A step that leaves the decoder alone leaves its part of the types.      *)
LEMMA TextInvStays ==
  TextInv /\ UNCHANGED dvars => TextInv'
<1> SUFFICES ASSUME TextInv, UNCHANGED dvars PROVE TextInv'
  OBVIOUS
<1> QED
  BY TextInvStep

LEMMA CallEncodeKeeps ==
  ASSUME CodecInv, CallEncode
  PROVE  CodecInv'
<1> DEFINE got == ParseUrl(text)
<1>1. /\ estep = "idle" /\ url' = IF got.ok THEN got.url ELSE NoUrl
      /\ estep' = IF got.ok THEN "header" ELSE "rejected"
      /\ out' = NewWriter /\ todo' = <<>>
      /\ UNCHANGED <<dvars, text, round, fate, frames, before>>
  BY DEF CallEncode, EncodeCall
<1>2. /\ dstep = "idle" /\ dstep' = "idle" /\ fate = "none" /\ fate' = "none"
      /\ frames' = <<>> /\ text' = text /\ text \in Seq(Characters)
  BY <1>1 DEF CodecInv, CodecTypes, EncoderHolds, dvars
<1>3. CodecTypes'
  <2>1. TextInv'
    BY <1>1, TextInvStays DEF CodecInv, CodecTypes
  <2>2. out' \in Writers
    BY <1>1, EmptySeq DEF NewWriter, Writers
  <2>3. estep' \in EncoderSteps
    BY <1>1 DEF EncoderSteps
  <2> QED
    BY <1>1, <2>1, <2>2, <2>3 DEF CodecInv, CodecTypes
<1>4. CASE got.ok
  <2>1. url' = got.url /\ estep' = "header" /\ Fields(got.url)
    BY <1>1, <1>2, <1>4, UrlIsTidy, FieldsOfUrl
  <2>2. Fields(url') /\ Parsed'
    BY <1>2, <1>4, <2>1 DEF Parsed
  <2>3. Encoding(FirstConfig)'
    <3>1. out' \in Writers /\ out'.ok = TRUE /\ Len(out'.bits) = 0
      BY <1>1, <1>3, EmptySeq DEF NewWriter, CodecTypes
    <3>2. FirstConfig \in Configs /\ FirstConfig.step = "header" /\ FirstConfig.pos = 0
          /\ FirstConfig.done = 0
      BY TapeBegins DEF FirstConfig
    <3>3. StillToDo(url, estep, todo, FirstConfig.done)'
      BY <2>1, <3>2 DEF StillToDo, LoopSteps
    <3> QED
      BY <2>1, <2>2, <3>1, <3>2, <3>3 DEF Encoding
  <2>4. \E h : Tape(url', out'.bits, h, frames') /\ h[1] = FirstConfig /\ Encoding(h[Len(h)])'
    <3>1. PICK u, f : u = url' /\ f = out'.bits
      OBVIOUS
    <3>2. Tape(u, f, <<FirstConfig>>, <<>>)
      BY TapeBegins
    <3>3. <<FirstConfig>>[1] = FirstConfig /\ Len(<<FirstConfig>>) = 1
      OBVIOUS
    <3>4. Encoding(<<FirstConfig>>[Len(<<FirstConfig>>)])'
      BY <2>3, <3>3
    <3> QED
      BY <1>2, <3>1, <3>2, <3>3, <3>4
  <2>5. EncoderHolds'
    BY <1>2, <2>1, <2>2, <2>4 DEF EncoderHolds, RefusedForAReason
  <2>6. DecoderHolds'
    BY <1>2, <2>1 DEF DecoderHolds, DecoderRuns, CutIsNoticed
  <2> QED
    BY <1>3, <2>5, <2>6 DEF CodecInv
<1>5. CASE ~got.ok
  <2>1. estep' = "rejected"
    BY <1>1, <1>5
  <2>2. EncoderHolds'
    BY <1>2, <1>5, <2>1 DEF EncoderHolds, EncoderRuns, RefusedForAReason
  <2>3. DecoderHolds'
    BY <1>2, <2>1 DEF DecoderHolds, DecoderRuns, CutIsNoticed
  <2> QED
    BY <1>3, <2>2, <2>3 DEF CodecInv
<1> QED
  BY <1>4, <1>5

LEMMA LaidSteps ==
  ASSUME NEW u, NEW f, NEW a, NEW b, Laid(u, f, a, b)
  PROVE  b.step \notin {"idle", "header", "encoded", "rejected"}
BY DEF Laid, Goes, GoesOn

LEMMA OnlyFinish ==
  ASSUME EncoderNext, estep = "finish"
  PROVE  Finish
BY DEF EncoderNext, WriteHeader, WritePort, WriteHost, WriteLabel, WriteTld, WriteLiteral,
       WriteFlags, WritePathCount, WritePathSegment, WriteQueryCount, WriteQueryPair,
       WriteFragmentCount, WriteFragmentPart, EmitItem, OpenRegion

LEMMA BitsReplaced ==
  ASSUME NEW w, NEW ok, NEW g, w = [ok |-> ok, bits |-> w.bits]
  PROVE  [w EXCEPT !.bits = g] = [ok |-> ok, bits |-> g]
OBVIOUS

LEMMA BlockKeeps ==
  ASSUME CodecInv, EncodeStep, EncoderRuns, estep # "finish"
  PROVE  CodecInv'
<1>1. /\ EncoderNext /\ frames' = Append(frames, Len(out'.bits))
      /\ UNCHANGED <<dvars, text, round, fate, before>>
  BY DEF EncodeStep
<1>2. /\ dstep = "idle" /\ dstep' = "idle" /\ fate = "none" /\ fate' = "none"
      /\ Parsed /\ frames \in Seq(Nat) /\ out \in Writers
  BY <1>1 DEF CodecInv, CodecTypes, EncoderHolds, EncoderRuns, dvars
<1>3. PICK h : /\ Tape(url, out.bits, h, frames) /\ h[1] = FirstConfig
               /\ Encoding(h[Len(h)])
  BY DEF CodecInv, EncoderHolds
<1>4. PICK c : c = h[Len(h)]
  OBVIOUS
<1>5. Encoding(c) /\ Advances(c)
  BY <1>1, <1>3, <1>4, EncoderAdvances
<1>6. /\ url' = url /\ out' \in Writers /\ out'.bits \in Seq(Bit) /\ out.bits \in Seq(Bit)
      /\ Parsed'
  <2>1. url' = url /\ out' \in Writers
    BY <1>5 DEF Advances
  <2>2. out'.bits \in Seq(Bit) /\ out.bits \in Seq(Bit)
    BY <1>2, <2>1 DEF Writers
  <2>3. text' = text
    BY <1>1
  <2>4. Parsed' = Parsed
    BY <2>1, <2>3 DEF Parsed
  <2> QED
    BY <1>2, <2>1, <2>2, <2>4
<1>7. frames' \in Seq(Nat)
  <2>1. Len(out'.bits) \in Nat
    BY <1>6, LenProperties
  <2> QED
    BY <1>1, <1>2, <2>1
<1>8. TextInv'
  BY <1>1, TextInvStays DEF CodecInv, CodecTypes
<1>9. estep' \in EncoderSteps => CodecTypes'
  BY <1>1, <1>6, <1>7, <1>8 DEF CodecInv, CodecTypes
<1>10. CASE ~out'.ok
  <2>1. estep' = "rejected" /\ ~WithinLimits(url)
    BY <1>5, <1>10 DEF Advances
  <2>2. RefusedForAReason'
    <3>1. WithinLimits(url)' = WithinLimits(url)
      BY <1>6
    <3> QED
      BY <2>1, <3>1 DEF RefusedForAReason
  <2>3. EncoderHolds'
    BY <1>2, <2>1, <2>2 DEF EncoderHolds, EncoderRuns
  <2>4. DecoderHolds'
    BY <1>2, <2>1 DEF DecoderHolds, DecoderRuns, CutIsNoticed
  <2>5. CodecTypes'
    BY <1>9, <2>1 DEF EncoderSteps
  <2> QED
    BY <2>3, <2>4, <2>5 DEF CodecInv
<1>11. CASE out'.ok
  <2>1. PICK b \in Configs : Encoding(b)' /\ Laid(url, out'.bits, c, b)
    BY <1>5, <1>11 DEF Advances
  <2>2. PICK u, f, g, marks : u = url /\ f = out.bits /\ g = out'.bits /\ marks = frames
    OBVIOUS
  <2>3. f \in Seq(Bit) /\ g \in Seq(Bit) /\ Extends(g, f) /\ Tape(u, f, h, marks)
        /\ Laid(u, g, h[Len(h)], b)
    BY <1>3, <1>4, <1>5, <1>6, <1>11, <2>1, <2>2 DEF Advances
  <2>4. PICK k, more : k = Append(h, b) /\ more = Append(marks, b.pos)
    OBVIOUS
  <2>11. Tape(u, g, k, more) /\ k[1] = h[1] /\ k[Len(k)] = b
    <3>1. b \in Configs
      BY <2>1
    <3>2. Tape(u, g, h, marks)
      BY <2>3, TapeStays
    <3>3. Grown(h, marks, b, k, more)
      BY <2>4 DEF Grown
    <3>4. Grows(u, g, h, b, k, more)
      BY <2>3, <3>1, <3>2, <3>3, TapeGrows
    <3> QED
      BY <3>4 DEF Grows
  <2>5. b.pos = Len(out'.bits) /\ b.step = estep'
    BY <2>1 DEF Encoding
  <2>6. Tape(url', out'.bits, k, frames') /\ k[1] = FirstConfig
    BY <1>1, <1>3, <1>6, <2>2, <2>4, <2>5, <2>11
  <2>7. Encoding(k[Len(k)])'
    BY <2>1, <2>11
  <2>8. estep' \in EncoderSteps /\ estep' \notin {"idle", "encoded", "rejected"}
    <3>1. b.step \in EncoderSteps
      BY <2>1 DEF Configs
    <3>2. b.step \notin {"idle", "header", "encoded", "rejected"}
      BY <2>2, <2>3, LaidSteps
    <3> QED
      BY <2>5, <3>1, <3>2
  <2>9. EncoderHolds'
    BY <1>2, <1>6, <2>6, <2>7, <2>8 DEF EncoderHolds, RefusedForAReason
  <2>10. DecoderHolds'
    BY <1>2, <2>8 DEF DecoderHolds, DecoderRuns, CutIsNoticed
  <2> QED
    BY <1>9, <2>8, <2>9, <2>10 DEF CodecInv
<1> QED
  BY <1>10, <1>11

LEMMA FinishKeeps ==
  ASSUME CodecInv, EncodeStep, estep = "finish"
  PROVE  CodecInv'
<1>1. /\ Finish /\ frames' = frames
      /\ UNCHANGED <<dvars, text, round, fate, before>>
  BY OnlyFinish DEF EncodeStep
<1>2. /\ dstep = "idle" /\ dstep' = "idle" /\ fate = "none" /\ fate' = "none"
      /\ Parsed
  BY <1>1 DEF CodecInv, CodecTypes, EncoderHolds, EncoderRuns, dvars
<1>3. PICK h : /\ Tape(url, out.bits, h, frames) /\ h[1] = FirstConfig
               /\ Encoding(h[Len(h)])
  BY DEF CodecInv, EncoderHolds, EncoderRuns
<1>4. PICK u, f, g, marks, c : /\ u = url /\ f = out.bits /\ g = IntoBytes(out)
                               /\ marks = frames /\ c = h[Len(h)]
  OBVIOUS
<1>5. /\ out = [ok |-> TRUE, bits |-> f] /\ f \in Seq(Bit)
      /\ Len(f) \in Nat /\ c.pos = Len(f) /\ c.step = "finish"
  <2>1. Encoding(c)
    BY <1>3, <1>4
  <2> QED
    BY <1>4, <2>1, EncodingWriter
<1>6. /\ g \in Seq(Bit) /\ Extends(g, f)
      /\ Len(g) - Len(f) < ByteBits /\ Len(g) % ByteBits = 0
      /\ RestIsZero(g, Len(f))
  BY <1>4, <1>5, IntoBytesPads
<1>7. Tape(u, g, h, marks)
  BY <1>3, <1>4, <1>5, <1>6, TapeStays
<1>8. Sealed(g, c)
  <2>1. Len(f) \in 0..Len(g)
    BY <1>5, <1>6, LenProperties DEF Extends
  <2> QED
    BY <1>5, <1>6, <2>1 DEF Sealed
<1>9. /\ out' = [ok |-> TRUE, bits |-> g] /\ url' = url
      /\ estep' = IF PayloadLen(ToPayload(g)) > MaxPayload THEN "rejected" ELSE "encoded"
  <2>1. /\ out' = [out EXCEPT !.bits = IntoBytes(out)] /\ url' = url
        /\ estep' = IF PayloadLen(ToPayload(IntoBytes(out))) > MaxPayload
                    THEN "rejected" ELSE "encoded"
    BY <1>1 DEF Finish
  <2>2. [out EXCEPT !.bits = g] = [ok |-> TRUE, bits |-> g]
    <3>1. PICK w : w = out
      OBVIOUS
    <3>3. w = [ok |-> TRUE, bits |-> w.bits]
      BY <1>5, <3>1
    <3>2. [w EXCEPT !.bits = g] = [ok |-> TRUE, bits |-> g]
      BY <3>3, BitsReplaced
    <3> QED
      BY <3>1, <3>2
  <2>3. IntoBytes(out) = g
    BY <1>4
  <2> QED
    BY <2>1, <2>2, <2>3
<1>10. out'.bits = g /\ out' \in Writers /\ Parsed'
  <2>1. Parsed' = Parsed
    BY <1>1, <1>9 DEF Parsed
  <2> QED
    BY <1>2, <1>6, <1>9, <2>1 DEF Writers
<1>11. CodecTypes'
  <2>1. TextInv'
    BY <1>1, TextInvStays DEF CodecInv, CodecTypes
  <2>2. estep' \in EncoderSteps
    BY <1>9 DEF EncoderSteps
  <2> QED
    BY <1>1, <1>10, <2>1, <2>2 DEF CodecInv, CodecTypes
<1>12. EncoderHolds'
  <2>1. RefusedForAReason'
    BY <1>9, <1>10 DEF RefusedForAReason
  <2>2. estep' \in {"rejected", "encoded"}
    BY <1>9
  <2> QED
    BY <1>2, <1>10, <2>1, <2>2 DEF EncoderHolds, EncoderRuns
<1>13. DecoderHolds'
  <2>1. \E k : /\ Tape(url', out'.bits, k, frames') /\ k[1] = FirstConfig
               /\ Sealed(out'.bits, k[Len(k)])
    BY <1>1, <1>3, <1>4, <1>7, <1>8, <1>9, <1>10
  <2> QED
    BY <1>2, <2>1 DEF DecoderHolds, DecoderRuns, CutIsNoticed
<1> QED
  BY <1>11, <1>12, <1>13 DEF CodecInv

-----------------------------------------------------------------------------
(* What every step of the decoder does.                                    *)

GoesThrough == DecoderRuns /\ stream' = stream /\ dstep' # "idle"

LEMMA RejectsOn ==
  ASSUME DecoderRuns, Reject
  PROVE  GoesThrough
BY DEF Reject, GoesThrough

LEMMA ConsumesOn ==
  ASSUME DecoderRuns, NEW r, NEW next, next # "idle", Consume(r, next)
  PROVE  GoesThrough
BY DEF Consume, GoesThrough

LEMMA FinishesOn ==
  ASSUME DecoderRuns, NEW name, NEW r, FinishHost(name, r)
  PROVE  GoesThrough
<1>1. Consume(r, "tld") \/ Reject
  BY DEF FinishHost
<1> QED
  BY <1>1, RejectsOn, ConsumesOn

LEMMA CountsOn ==
  ASSUME DecoderRuns, NEW region, NEW loop, NEW next, loop # "idle", next # "idle", NEW tail,
         ReadCount(region, loop, next, tail)
  PROVE  GoesThrough
<1> DEFINE items == IF region \in regions THEN ReadCompactCount(stream, ReaderAt(pos))
                    ELSE ReaderAt(pos)
<1>1. Consume(items, IF items.val = 0 THEN next ELSE loop) \/ Reject
  BY DEF ReadCount
<1> HIDE DEF items
<1> QED
  BY <1>1, RejectsOn, ConsumesOn

LEMMA ItemsOn ==
  ASSUME DecoderRuns, NEW loop, NEW r, NEW separator, NEW next, loop # "idle", next # "idle",
         NEW tail, ReadItem(loop, r, separator, next, tail)
  PROVE  GoesThrough
<1>1. Consume(r, IF nth + 1 < count THEN loop ELSE next) \/ Reject
  BY DEF ReadItem
<1> QED
  BY <1>1, RejectsOn, ConsumesOn

LEMMA DecoderGoesThrough ==
  ASSUME DecoderNext
  PROVE  GoesThrough
<1>1. DecoderRuns
  BY DEF DecoderNext, DecoderRuns, ReadHeader, ReadPort, ReadHost, ReadLabel, ReadTld,
         ReadLiteral, ReadFlags, ReadPathCount, ReadPathSegment, ReadQueryCount, ReadQueryPair,
         ReadFragmentCount, ReadFragmentPart, ReadCount, ReadItem, CheckPadding
<1>2. CASE ReadHeader
  <2>1. (\E r : Consume(r, "port")) \/ Reject
    BY <1>2 DEF ReadHeader
  <2> QED
    BY <1>1, <2>1, RejectsOn, ConsumesOn
<1>3. CASE ReadPort
  <2>1. Consume(PortRead, "host") \/ Reject
    BY <1>3 DEF ReadPort
  <2> QED
    BY <1>1, <2>1, RejectsOn, ConsumesOn
<1>4. CASE ReadHost
  <2>1. (\E r : Consume(r, "labels")) \/ Reject \/ (\E name, r : FinishHost(name, r))
    BY <1>4 DEF ReadHost
  <2> QED
    BY <1>1, <2>1, RejectsOn, ConsumesOn, FinishesOn
<1>5. CASE ReadLabel
  <2>1. (\E r : Consume(r, "labels")) \/ (\E name, r : FinishHost(name, r))
    BY <1>5 DEF ReadLabel
  <2> QED
    BY <1>1, <2>1, ConsumesOn, FinishesOn
<1>6. CASE ReadTld
  <2>1. Consume(TldRead, "literal") \/ Reject
    BY <1>6 DEF ReadTld
  <2> QED
    BY <1>1, <2>1, RejectsOn, ConsumesOn
<1>7. CASE ReadLiteral
  <2>1. Consume(LiteralRead, "flags") \/ Reject
    BY <1>7 DEF ReadLiteral
  <2> QED
    BY <1>1, <2>1, RejectsOn, ConsumesOn
<1>8. CASE ReadFlags
  <2>1. (\E r : Consume(r, "path")) \/ Reject
    BY <1>8 DEF ReadFlags
  <2> QED
    BY <1>1, <2>1, RejectsOn, ConsumesOn
<1>9. CASE ReadPathCount
  BY <1>1, <1>9, CountsOn DEF ReadPathCount
<1>10. CASE ReadPathSegment
  BY <1>1, <1>10, ItemsOn DEF ReadPathSegment
<1>11. CASE ReadQueryCount
  BY <1>1, <1>11, CountsOn DEF ReadQueryCount
<1>12. CASE ReadQueryPair
  BY <1>1, <1>12, ItemsOn DEF ReadQueryPair
<1>13. CASE ReadFragmentCount
  BY <1>1, <1>13, CountsOn DEF ReadFragmentCount
<1>14. CASE ReadFragmentPart
  BY <1>1, <1>14, ItemsOn DEF ReadFragmentPart
<1>15. CASE CheckPadding
  BY <1>1, <1>15 DEF CheckPadding, GoesThrough
<1> QED
  BY <1>2, <1>3, <1>4, <1>5, <1>6, <1>7, <1>8, <1>9, <1>10, <1>11, <1>12, <1>13, <1>14, <1>15
     DEF DecoderNext

LEMMA OnlyPadding ==
  ASSUME DecoderNext, dstep = "padding"
  PROVE  CheckPadding
BY DEF DecoderNext, ReadHeader, ReadPort, ReadHost, ReadLabel, ReadTld, ReadLiteral, ReadFlags,
       ReadPathCount, ReadPathSegment, ReadQueryCount, ReadQueryPair, ReadFragmentCount,
       ReadFragmentPart, ReadCount, ReadItem

-----------------------------------------------------------------------------
(* Delivery. *)

(* decode_bits begins on bits. *)
LEMMA CallTyped ==
  ASSUME NEW bits \in Seq(Bit), DecodeCall(bits)
  PROVE  TextInv'
<1>1. /\ stream' = bits /\ dstep' = "header" /\ pos' = 0 /\ https' = FALSE /\ www' = FALSE
      /\ indexCode' = 0 /\ port' = NoPort /\ nth' = 0 /\ count' = 0 /\ host' = <<>>
      /\ tld' = <<>> /\ literal' = <<>> /\ regions' = {} /\ result' = <<>>
  BY DEF DecodeCall
<1>2. (stream \in Seq(Bit) /\ pos \in 0..Len(stream) /\ indexCode \in 0..3)'
  BY <1>1, LenProperties
<1>3. DecoderLimits'
  BY <1>1 DEF DecoderLimits, PastHost, PastTld
<1>4. TextsTyped'
  BY <1>1, EmptySeq DEF TextsTyped, PortRange, DecoderSteps
<1>5. Bounded'
  <2>1. Len(literal') = 0 /\ 0 <= SegmentBudget
    BY <1>1, EmptySeq, BudgetBounds
  <2> QED
    BY <1>1, <2>1 DEF Bounded, RegionSteps
<1> QED
  BY <1>2, <1>3, <1>4, <1>5 DEF TextInv, DecoderInv

(* Whatever is delivered, and as what.                                     *)
LEMMA DeliverKeeps ==
  ASSUME CodecInv, NEW how, NEW bits \in Seq(Bit), Deliver(how, bits),
         NEW f, f = out.bits,
         \A c : Sealed(f, c) /\ how \in {"intact", "cut"} =>
                  /\ Extends(f, bits)
                  /\ how = "intact" => bits = f
                  /\ how = "cut" => Len(bits) < c.pos
  PROVE  CodecInv'
<1>1. /\ estep = "encoded" /\ fate = "none" /\ how \in Fates /\ fate' = how
      /\ DecodeCall(bits) /\ UNCHANGED <<evars, text, round, frames, before>>
  BY DEF Deliver
<1>2. UNCHANGED <<url, estep, out, todo>>
  BY <1>1 DEF evars
<1>3. stream' = bits /\ dstep' = "header" /\ pos' = 0
  BY <1>1 DEF DecodeCall
<1>4. how \in AllFates /\ how # "none"
  BY <1>1, CodecBounds DEF AllFates
<1>5. CodecTypes'
  BY <1>1, <1>2, <1>4, CallTyped DEF CodecInv, CodecTypes
<1>6. EncoderHolds'
  <2>1. Parsed' = Parsed
    BY <1>1, <1>2 DEF Parsed
  <2> QED
    BY <1>1, <1>2, <1>3, <1>4, <2>1 DEF CodecInv, EncoderHolds, EncoderRuns, RefusedForAReason
<1>7. DecoderHolds'
  <2>1. PICK h : /\ Tape(url, out.bits, h, frames) /\ h[1] = FirstConfig
                 /\ Sealed(out.bits, h[Len(h)])
    BY <1>1 DEF CodecInv, DecoderHolds
  <2>2. DecodedTo(url, FirstConfig)'
    BY <1>3 DEF DecodedTo, FirstConfig, RegionBlocks, LoopSteps
  <2>3. how \in {"intact", "cut"} => Given(out.bits, h[Len(h)])'
    BY <1>1, <1>2, <1>3, <2>1 DEF Given
  <2>4. ASSUME how \in {"intact", "cut"}
        PROVE  \E k : /\ Tape(url', out'.bits, k, frames') /\ Sealed(out'.bits, k[Len(k)])
                      /\ DecodedTo(url, k[1])' /\ Given(out.bits, k[Len(k)])'
    BY <1>1, <1>2, <2>1, <2>2, <2>3, <2>4
  <2> QED
    BY <1>1, <1>3, <1>4, <2>4 DEF DecoderHolds, DecoderRuns, CutIsNoticed
<1> QED
  BY <1>5, <1>6, <1>7 DEF CodecInv

(* The four deliveries. *)
LEMMA IntactKeeps ==
  ASSUME CodecInv, Intact
  PROVE  CodecInv'
<1>1. estep = "encoded" /\ fate = "none" /\ Deliver("intact", FromPayload(ToPayload(out.bits)))
  BY DEF Intact, Deliver
<1>2. PICK h : /\ Tape(url, out.bits, h, frames) /\ h[1] = FirstConfig
               /\ Sealed(out.bits, h[Len(h)])
  BY <1>1 DEF CodecInv, DecoderHolds
<1>3. PICK u, f, marks : u = url /\ f = out.bits /\ marks = frames
  OBVIOUS
<1>4. Tape(u, f, h, marks) /\ Sealed(f, h[Len(h)]) /\ f \in Seq(Bit) /\ Len(f) % ByteBits = 0
  BY <1>2, <1>3 DEF Sealed
<1>5. Len(h) > 1
  <2>1. h[Len(h)].step = "finish"
    BY <1>4 DEF Sealed
  <2>2. h[1].step # "finish"
    BY <1>2 DEF FirstConfig
  <2> QED
    BY <1>4, <2>1, <2>2, TapeEnds
<1>6. Laid(u, f, FirstConfig, h[2])
  <2>1. Laid(u, f, h[1], h[2])
    BY <1>4, <1>5, TapeRunsOn
  <2> QED
    BY <1>2, <2>1
<1>7. Written(f, 0, WireVersion, 4)
  <2>1. HeaderAt(u, f, 0, h[2].pos)
    BY <1>6 DEF Laid, FirstConfig
  <2> QED
    BY <2>1 DEF HeaderAt
<1>8. FromPayload(ToPayload(f)) = f
  <2>1. 3 \in 1..Len(f) /\ 3 <= ByteBits /\ f[3] = 1
    BY <1>4, <1>7, VersionIsNotZero
  <2> QED
    BY <1>4, <2>1, PayloadComesBack
<1>9. Deliver("intact", f)
  BY <1>1, <1>3, <1>8
<1>10. Extends(f, f)
  BY <1>4, ExtendsItself
<1> QED
  BY <1>3, <1>4, <1>9, <1>10, DeliverKeeps

LEMMA CutShortKeeps ==
  ASSUME CodecInv, CutShort
  PROVE  CodecInv'
<1>1. PICK f : f = out.bits
  OBVIOUS
<1>2. f \in Seq(Bit)
  BY <1>1 DEF CodecInv, CodecTypes, Writers
<1>3. PICK n \in 0..(Len(f) \div ByteBits - 1) : Deliver("cut", SubSeq(f, 1, n * ByteBits))
  BY <1>1 DEF CutShort
<1>4. ASSUME NEW c, Sealed(f, c)
      PROVE  /\ SubSeq(f, 1, n * ByteBits) \in Seq(Bit)
             /\ Len(SubSeq(f, 1, n * ByteBits)) < c.pos
             /\ Extends(f, SubSeq(f, 1, n * ByteBits))
  <2>1. c.pos \in Nat /\ Len(f) - c.pos < ByteBits
    BY <1>4 DEF Sealed
  <2> QED
    BY <1>2, <2>1, CutIsShorter
<1>5. SubSeq(f, 1, n * ByteBits) \in Seq(Bit)
  <2>1. \E h : Sealed(f, h[Len(h)])
    BY <1>1, <1>3 DEF CodecInv, DecoderHolds, Deliver
  <2> QED
    BY <1>4, <2>1
<1>6. PICK bits : bits = SubSeq(f, 1, n * ByteBits)
  OBVIOUS
<1>7. bits \in Seq(Bit) /\ Deliver("cut", bits)
  BY <1>3, <1>5, <1>6
<1>8. \A c : Sealed(f, c) => Extends(f, bits) /\ Len(bits) < c.pos
  BY <1>4, <1>6
<1> QED
  BY <1>1, <1>7, <1>8, DeliverKeeps

LEMMA FlipKeeps ==
  ASSUME CodecInv, Flip
  PROVE  CodecInv'
<1>1. PICK f : f = out.bits
  OBVIOUS
<1>2. f \in Seq(Bit)
  BY <1>1 DEF CodecInv, CodecTypes, Writers
<1>3. PICK i \in 1..Len(f) : Deliver("flipped", [f EXCEPT ![i] = 1 - @])
  BY <1>1 DEF Flip
<1>4. [f EXCEPT ![i] = 1 - @] \in Seq(Bit)
  BY <1>2, <1>3 DEF Bit
<1> QED
  BY <1>1, <1>3, <1>4, DeliverKeeps

LEMMA PadKeeps ==
  ASSUME CodecInv, Pad
  PROVE  CodecInv'
<1>1. PICK f, z : f = out.bits /\ z = [i \in 1..ByteBits |-> 0]
  OBVIOUS
<1>2. f \in Seq(Bit)
  BY <1>1 DEF CodecInv, CodecTypes, Writers
<1>3. z \in Seq(Bit)
  BY <1>1, BitWidths DEF Bit
<1>4. PICK bits : bits = f \o z
  OBVIOUS
<1>5. bits \in Seq(Bit) /\ Deliver("padded", bits)
  BY <1>1, <1>2, <1>3, <1>4 DEF Pad
<1> QED
  BY <1>1, <1>5, DeliverKeeps

-----------------------------------------------------------------------------
(* A step of the decoder.                                                  *)

(* Where the decoder stands before a block of it, when decode was given    *)
(* what encode wrote or the beginning of that.                             *)
Stands(u, f, h, marks) ==
  /\ Tape(u, f, h, marks) /\ Sealed(f, h[Len(h)])
  /\ DecodedTo(u, h[1]) /\ Given(f, h[Len(h)])

LEMMA StandsReady ==
  ASSUME CodecInv, DecoderRuns, fate \in {"intact", "cut"}
  PROVE  \E u, f, h, marks :
           u = url /\ f = out.bits /\ marks = frames /\ Stands(u, f, h, marks) /\ Ready(u, f, h[1])
<1>1. PICK h : /\ Tape(url, out.bits, h, frames) /\ Sealed(out.bits, h[Len(h)])
               /\ DecodedTo(url, h[1]) /\ Given(out.bits, h[Len(h)])
  BY DEF CodecInv, DecoderHolds
<1>2. PICK u, f, marks : u = url /\ f = out.bits /\ marks = frames
  OBVIOUS
<1>3. Stands(u, f, h, marks)
  BY <1>1, <1>2 DEF Stands
<1>4. h[1] \in Configs
  <2>1. Tape(u, f, h, marks) /\ h[Len(h)].step = "finish"
    BY <1>3 DEF Stands, Sealed
  <2> QED
    BY <2>1, TapeEnds
<1>5. Fields(url)
  BY DEF CodecInv, EncoderHolds, DecoderRuns, Parsed
<1>6. Ready(u, f, h[1])
  BY <1>2, <1>3, <1>4, <1>5 DEF Ready, Stands, Sealed, Given, CodecInv, CodecTypes, TextInv, DecoderInv
<1> QED
  BY <1>2, <1>3, <1>6

(* The last step refuses nothing encode wrote, and comes too late for a    *)
(* stream that was cut.                                                    *)
LEMMA PaddingEnds ==
  ASSUME NEW u, NEW f, NEW h, NEW marks, Stands(u, f, h, marks), Ready(u, f, h[1]), CheckPadding
  PROVE  (fate = "intact" => dstep' = "accepted") /\ fate # "cut"
<1>1. dstep = "padding" /\ dstep' = IF RestIsZero(stream, pos) THEN "accepted" ELSE "rejected"
  BY DEF CheckPadding
<1>2. h[1] \in Configs /\ pos = h[1].pos
  BY DEF Ready, DecodedTo
<1>3. h[1].step = "finish"
  <2>1. h[1].step # "padding"
    BY <1>2 DEF Configs, EncoderSteps
  <2>2. dstep = IF h[1].step = "finish" THEN "padding" ELSE h[1].step
    BY DEF Ready, DecodedTo
  <2> QED
    BY <1>1, <2>1, <2>2
<1>4. Len(h) = 1
  <2>1. Tape(u, f, h, marks) /\ h[Len(h)].step = "finish"
    BY DEF Stands, Sealed
  <2> QED
    BY <1>3, <2>1, TapeEnds
<1>5. RestIsZero(f, pos) /\ (fate = "intact" => stream = f) /\ (fate = "cut" => Len(stream) < pos)
  BY <1>2, <1>4 DEF Stands, Sealed, Given
<1>6. pos <= Len(stream)
  BY LenProperties DEF Ready
<1>7. fate # "cut"
  BY <1>5, <1>6, LenProperties DEF Ready
<1> QED
  BY <1>1, <1>5, <1>7

(* The decoder follows to the next place on the tape.                      *)
FollowsTape(u, f, h, marks) ==
  /\ marks # <<>> /\ Tape(u, f, Tail(h), Tail(marks))
  /\ Head(marks) = h[2].pos /\ Tail(h)[1] = h[2] /\ Tail(h)[Len(Tail(h))] = h[Len(h)]
  /\ h[2] \in Configs /\ Follows(u, f, h[2])
  /\ h[2].step \notin {"idle", "header", "encoded", "rejected"}

LEMMA BlockEnds ==
  ASSUME NEW u, NEW f, NEW h, NEW marks, Stands(u, f, h, marks), Ready(u, f, h[1]),
         DecoderNext, dstep # "padding"
  PROVE  FollowsTape(u, f, h, marks)
<1>1. Tape(u, f, h, marks) /\ h[Len(h)].step = "finish"
  BY DEF Stands, Sealed
<1>2. h[1].step # "finish"
  BY DEF Ready, DecodedTo
<1>3. Len(h) > 1
  BY <1>1, <1>2, TapeEnds
<1>4. Laid(u, f, h[1], h[2])
  BY <1>1, <1>3, TapeRunsOn
<1>5. Follows(u, f, h[2])
  BY <1>4, DecoderFollows
<1>6. h[2].step \notin {"idle", "header", "encoded", "rejected"}
  BY <1>4, LaidSteps
<1> QED
  BY <1>1, <1>3, <1>5, <1>6, TapeRunsOn DEF FollowsTape

LEMMA DecodeStepKeeps ==
  ASSUME CodecInv, DecodeStep
  PROVE  CodecInv'
<1>1. /\ DecoderNext /\ frames' = (IF frames = <<>> THEN <<>> ELSE Tail(frames))
      /\ UNCHANGED <<url, estep, out, todo, text, round, fate, before>>
  BY DEF DecodeStep, evars
<1>2. DecoderRuns /\ stream' = stream /\ dstep # "idle" /\ dstep' # "idle"
  BY <1>1, DecoderGoesThrough DEF GoesThrough, DecoderRuns
<1>3. estep = "encoded" /\ fate # "none" /\ Parsed /\ frames \in Seq(Nat)
  BY <1>2 DEF CodecInv, EncoderHolds, CodecTypes
<1>4. CodecTypes'
  <2>1. TextInv'
    BY <1>1, TextInvStep DEF CodecInv, CodecTypes
  <2>2. frames' \in Seq(Nat)
    <3>1. CASE frames = <<>>
      BY <1>1, <3>1, EmptySeq
    <3>2. CASE frames # <<>>
      BY <1>1, <1>3, <3>2, HeadTailProperties
    <3> QED
      BY <3>1, <3>2
  <2> QED
    BY <1>1, <2>1, <2>2 DEF CodecInv, CodecTypes
<1>5. EncoderHolds'
  <2>1. Parsed' = Parsed
    BY <1>1 DEF Parsed
  <2> QED
    BY <1>1, <1>2, <1>3, <2>1 DEF EncoderHolds, EncoderRuns, RefusedForAReason
<1>6. CASE fate \notin {"intact", "cut"}
  <2>1. DecoderHolds'
    BY <1>1, <1>3, <1>6 DEF DecoderHolds, CutIsNoticed
  <2> QED
    BY <1>4, <1>5, <2>1 DEF CodecInv
<1>7. CASE fate \in {"intact", "cut"}
  <2>1. PICK u, f, h, marks : /\ u = url /\ f = out.bits /\ marks = frames
                              /\ Stands(u, f, h, marks) /\ Ready(u, f, h[1])
    BY <1>2, <1>7, StandsReady
  <2>2. CASE dstep = "padding"
    <3>1. (fate = "intact" => dstep' = "accepted") /\ fate # "cut"
      BY <1>1, <2>1, <2>2, OnlyPadding, PaddingEnds
    <3>2. DecoderHolds'
      BY <1>1, <1>3, <1>7, <3>1 DEF DecoderHolds, DecoderRuns, CutIsNoticed
    <3> QED
      BY <1>4, <1>5, <3>2 DEF CodecInv
  <2>3. CASE dstep # "padding"
    <3>1. /\ marks # <<>> /\ Tape(u, f, Tail(h), Tail(marks))
          /\ Head(marks) = h[2].pos /\ Tail(h)[1] = h[2] /\ Tail(h)[Len(Tail(h))] = h[Len(h)]
          /\ h[2] \in Configs /\ Follows(u, f, h[2])
          /\ h[2].step \notin {"idle", "header", "encoded", "rejected"}
      <4>1. FollowsTape(u, f, h, marks)
        BY <1>1, <2>1, <2>3, BlockEnds
      <4> QED
        BY <4>1 DEF FollowsTape
    <3>2. frames' = Tail(marks)
      BY <1>1, <2>1, <3>1
    <3>3. CASE DecodedTo(u, h[2])'
      <4>1. dstep' \notin {"accepted", "rejected"}
        <5>1. dstep' = IF h[2].step = "finish" THEN "padding" ELSE h[2].step
          BY <3>3 DEF DecodedTo
        <5> QED
          BY <3>1, <5>1 DEF Configs, EncoderSteps
      <4>2. PICK k : k = Tail(h)
        OBVIOUS
      <4>3. Tape(u, f, k, frames') /\ Sealed(f, k[Len(k)]) /\ Given(f, k[Len(k)])'
        <5>1. Given(f, h[Len(h)])' /\ Sealed(f, h[Len(h)])
          BY <1>1, <1>2, <2>1 DEF Stands, Given
        <5> QED
          BY <3>1, <3>2, <4>2, <5>1
      <4>4. DecodedTo(u, k[1])'
        BY <3>1, <3>3, <4>2
      <4>5. /\ Tape(url', out'.bits, k, frames') /\ Sealed(out'.bits, k[Len(k)])
            /\ DecodedTo(url, k[1])' /\ Given(out.bits, k[Len(k)])'
        <5>1. u = url' /\ f = out'.bits
          BY <1>1, <2>1
        <5> QED
          BY <4>3, <4>4, <5>1 DEF DecodedTo, Given, HostJoined
      <4>6. DecoderHolds'
        BY <1>1, <1>3, <4>1, <4>5 DEF DecoderHolds, CutIsNoticed
      <4> QED
        BY <1>4, <1>5, <4>6 DEF CodecInv
    <3>4. CASE dstep' = "rejected" /\ (stream = f => Overlong(u))
      <4>1. fate = "intact" => Overlong(url')
        <5>1. fate = "intact" => stream = f
          BY <2>1 DEF Stands, Given
        <5> QED
          BY <1>1, <2>1, <3>4, <5>1
      <4>2. DecoderHolds'
        BY <1>1, <1>3, <3>4, <4>1 DEF DecoderHolds, DecoderRuns, CutIsNoticed
      <4> QED
        BY <1>4, <1>5, <4>2 DEF CodecInv
    <3> QED
      BY <3>1, <3>3, <3>4 DEF Follows
  <2> QED
    BY <2>2, <2>3
<1> QED
  BY <1>6, <1>7

LEMMA AgainKeeps ==
  ASSUME CodecInv, Again
  PROVE  CodecInv'
<1>1. /\ dstep = "accepted" /\ round < Rounds /\ round' = round + 1 /\ text' = result
      /\ before' = (IF fate \in Unharmed /\ ~HasTrailingDot(text) THEN out.bits ELSE <<>>)
      /\ fate' = "none" /\ frames' = <<>> /\ estep' = "idle" /\ dstep' = "idle"
      /\ UNCHANGED <<url, out, todo, stream, pos, https, www, indexCode, port, nth, count,
                     host, tld, literal, regions, result>>
  BY DEF Again
<1>2. TextInv'
  <2>1. stream' \in Seq(Bit) /\ pos' \in 0..Len(stream') /\ indexCode' \in 0..3
    BY <1>1 DEF CodecInv, CodecTypes, TextInv, DecoderInv
  <2>2. DecoderLimits'
    BY <1>1 DEF DecoderLimits, PastHost, PastTld
  <2>3. TextsTyped'
    BY <1>1 DEF CodecInv, CodecTypes, TextInv, TextsTyped, DecoderSteps
  <2>4. Bounded'
    BY <1>1 DEF CodecInv, CodecTypes, TextInv, Bounded, RegionSteps
  <2> QED
    BY <2>1, <2>2, <2>3, <2>4 DEF TextInv, DecoderInv
<1>3. CodecTypes'
  <2>1. text' \in Seq(Characters)
    BY <1>1 DEF CodecInv, CodecTypes, TextInv, TextsTyped
  <2>2. round' \in 1..Rounds
    BY <1>1, CodecBounds DEF CodecInv, CodecTypes
  <2>3. before' \in Seq(Bit) /\ frames' \in Seq(Nat)
    BY <1>1, EmptySeq DEF CodecInv, CodecTypes, Writers
  <2>4. estep' \in EncoderSteps /\ out' \in Writers /\ fate' \in {"none"} \cup AllFates
    BY <1>1 DEF CodecInv, CodecTypes, EncoderSteps
  <2> QED
    BY <1>2, <2>1, <2>2, <2>3, <2>4 DEF CodecTypes
<1>4. EncoderHolds'
  BY <1>1 DEF EncoderHolds, EncoderRuns, RefusedForAReason
<1>5. DecoderHolds'
  BY <1>1 DEF DecoderHolds, DecoderRuns, CutIsNoticed
<1> QED
  BY <1>3, <1>4, <1>5 DEF CodecInv

-----------------------------------------------------------------------------
(* Every step of the system keeps CodecInv.                                *)
LEMMA CodecInvStep ==
  ASSUME CodecInv, [Next]_vars
  PROVE  CodecInv'
<1>1. CASE EncodeStep
  <2>1. CASE estep = "finish"
    BY <1>1, <2>1, FinishKeeps
  <2>2. CASE estep # "finish"
    <3>1. EncoderRuns
      BY <1>1 DEF EncodeStep, EncoderRuns, EncoderNext, WriteHeader, WritePort, WriteHost,
                  WriteLabel, WriteTld, WriteLiteral, WriteFlags, WritePathCount,
                  WritePathSegment, WriteQueryCount, WriteQueryPair, WriteFragmentCount,
                  WriteFragmentPart, EmitItem, OpenRegion, Finish
    <3> QED
      BY <1>1, <2>2, <3>1, BlockKeeps
  <2> QED
    BY <2>1, <2>2
<1>2. CASE UNCHANGED vars
  <2>1. UNCHANGED <<url, estep, out, todo, text, round, fate, frames, before>> /\ UNCHANGED dvars
    BY <1>2 DEF vars, evars
  <2>2. UNCHANGED <<stream, pos, dstep, https, www, indexCode, port, nth, count, host, tld,
                    literal, regions, result>>
    BY <2>1 DEF dvars
  <2>3. CodecTypes'
    BY <2>1, TextInvStays DEF CodecInv, CodecTypes
  <2>4. EncoderHolds'
    <3>1. Parsed' = Parsed /\ EncoderRuns' = EncoderRuns /\ RefusedForAReason' = RefusedForAReason
      BY <2>1 DEF Parsed, EncoderRuns, RefusedForAReason
    <3>2. \A c : Encoding(c)' = Encoding(c)
      BY <2>1 DEF Encoding
    <3> QED
      BY <2>1, <2>2, <3>1, <3>2 DEF CodecInv, EncoderHolds
  <2>5. DecoderHolds'
    <3>1. DecoderRuns' = DecoderRuns /\ CutIsNoticed' = CutIsNoticed
      BY <2>1, <2>2 DEF DecoderRuns, CutIsNoticed
    <3>2. \A u, c : DecodedTo(u, c)' = DecodedTo(u, c)
      BY <2>2 DEF DecodedTo, HostJoined
    <3>3. \A f, c : Given(f, c)' = Given(f, c)
      BY <2>1, <2>2 DEF Given
    <3> QED
      BY <2>1, <2>2, <3>1, <3>2, <3>3 DEF CodecInv, DecoderHolds
  <2> QED
    BY <2>3, <2>4, <2>5 DEF CodecInv
<1> QED
  BY <1>1, <1>2, CallEncodeKeeps, IntactKeeps, CutShortKeeps, FlipKeeps, PadKeeps,
     DecodeStepKeeps, AgainKeeps DEF Next, Over

LEMMA CodecInvHolds == Spec => []CodecInv
<1>1. CodecInv /\ [Next]_vars => CodecInv'
  BY CodecInvStep
<1> QED
  BY <1>1, CodecInvInit, PTL DEF Spec

-----------------------------------------------------------------------------
(* Every variable holds what its Rust type says, over any number of calls  *)
(* of encode and decode and whatever happens to the bytes in between.      *)
THEOREM CodecTyped == Spec => []TypeOK
<1>1. CodecInv => TypeOK
  BY DEF CodecInv, CodecTypes, TextInv, DecoderInv, TextsTyped, PortRange, Writers, TypeOK,
         DecoderTypeOK
<1> QED
  BY <1>1, CodecInvHolds, PTL

(* encode refuses a URL for one of its limits on counts and lengths or for *)
(* the length of the payload, and never because a field does not fit the   *)
(* bits it is written in.                                                  *)
THEOREM EncoderRefusesForAReason == Spec => []RefusedForAReason
<1>1. CodecInv => RefusedForAReason
  BY DEF CodecInv, EncoderHolds
<1> QED
  BY <1>1, CodecInvHolds, PTL

(* decode refuses nothing encode has written, long hosts apart: the blocks *)
(* of the one take exactly the bits the blocks of the other wrote, for     *)
(* every URL that parses and whatever the dictionaries.                    *)
THEOREM DecoderAcceptsEncoded == Spec => []EncodedIsDecodable
<1>1. CodecInv => EncodedIsDecodable
  <2> SUFFICES ASSUME CodecInv, fate = "intact", dstep = "rejected"
               PROVE  HostTooLong(text)
    BY DEF EncodedIsDecodable
  <2>1. Overlong(url)
    BY DEF CodecInv, DecoderHolds
  <2>2. Parsed
    BY DEF CodecInv, EncoderHolds
  <2> QED
    BY <2>1, <2>2 DEF HostTooLong, Overlong, Parsed, NameOf, TldOf
<1> QED
  BY <1>1, CodecInvHolds, PTL

(* No beginning of an encoded URL is taken for a shorter URL.              *)
THEOREM CutsAreNoticed == Spec => []CutIsNoticed
<1>1. CodecInv => CutIsNoticed
  BY DEF CodecInv, DecoderHolds
<1> QED
  BY <1>1, CodecInvHolds, PTL

(* The decoder is, after each of its blocks, exactly as far into the bits  *)
(* as the encoder was after its block of that name.                        *)
THEOREM DecoderStaysInStep == Spec => InStep
<1>1. CodecInv /\ [Next]_vars =>
        [fate = "intact" /\ DecodeStep /\ dstep' # "rejected" /\ dstep # "padding"
           => pos' = Head(frames)]_vars
  <2> SUFFICES ASSUME CodecInv, fate = "intact", DecodeStep, dstep' # "rejected",
                      dstep # "padding"
               PROVE  pos' = Head(frames)
    OBVIOUS
  <2>1. DecoderNext /\ DecoderRuns
    BY DecoderGoesThrough DEF DecodeStep, GoesThrough
  <2>2. PICK u, f, h, marks : /\ u = url /\ f = out.bits /\ marks = frames
                              /\ Stands(u, f, h, marks) /\ Ready(u, f, h[1])
    BY <2>1, StandsReady
  <2>3. FollowsTape(u, f, h, marks)
    BY <2>1, <2>2, BlockEnds
  <2>4. DecodedTo(u, h[2])'
    BY <2>3 DEF FollowsTape, Follows
  <2> QED
    BY <2>2, <2>3, <2>4 DEF FollowsTape, DecodedTo
<1> QED
  BY <1>1, CodecInvHolds, PTL DEF Spec, InStep

=============================================================================
