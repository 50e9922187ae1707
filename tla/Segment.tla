------------------------------ MODULE Segment ------------------------------
(***************************************************************************)
(* One URL segment on the wire: the choice of an alphabet (segment.rs), the*)
(* fixed-width radix coding (alphabet.rs), and write_segment/read_segment. *)
(*                                                                         *)
(*    alphabet id (3 bits) . symbol count (compact) . payload              *)
(*                                                                         *)
(* The payload carries no length: both sides compute its width from the    *)
(* id and the count, or the prefix code ends it.                           *)
(***************************************************************************)
EXTENDS UrlText, BitFields

CONSTANTS
  MaxSymbols,    (* MAX_SYMBOL_COUNT (4096)                                *)
  MaxValueBits,  (* MAX_VALUE_BIT_LENGTH (65536)                           *)
  HuffCode       (* the default codebook: a prefix-free code of some ASCII *)
                 (* characters, as a function to bit sequences             *)

ASSUME SegmentLimits ==
  /\ MaxSymbols \in 0..(Pow2[WordBits] - 1)
  /\ MaxValueBits \in Nat
  /\ ByteBits = 2 * HexBits
  /\ DOMAIN HuffCode \subseteq Ascii
  /\ \A c \in DOMAIN HuffCode : HuffCode[c] \in Seq(Bit) \ {<<>>}
  /\ \A c, d \in DOMAIN HuffCode : c # d => ~IsPrefix(HuffCode[c], HuffCode[d])

IdBits == 3

ASSUME IdsFitTheWord == IdBits <= WordBits

Huffman == 5
Raw == 6
PctBytes == 7

(* ALPHABETS 0 to 4: base10, base26-lower, base36, base62, base64url *)
Alphabet ==
  [id \in 0..4 |-> <<Digits, Lowers, Digits \o Lowers, Digits \o Uppers \o Lowers,
                    Uppers \o Lowers \o Digits \o Syms>>[id + 1]]

IsBase(id) == id \in 0..4

Index(c, chars) == (CHOOSE i \in 1..Len(chars) : chars[i] = c) - 1

(* The bytes of a character; those of a non-ASCII one are no ASCII bytes.  *)
AsciiOrder == Digits \o Lowers \o Uppers \o Syms \o Others
Byte(c) == Index(c, AsciiOrder)
Utf8Bytes(c) == IF c \in Ascii THEN <<Byte(c)>> ELSE Utf8[c]

ASSUME Utf8Encoding ==
  /\ Len(AsciiOrder) <= Pow2[ByteBits]
  /\ \A c \in DOMAIN Utf8 :
       /\ Utf8[c] \in Seq(Len(AsciiOrder)..(Pow2[ByteBits] - 1)) \ {<<>>}
       /\ \A d \in DOMAIN Utf8 : c # d => ~IsPrefix(Utf8[c], Utf8[d])

(* String::as_bytes, String::len *)
Utf8Text(s) == FlattenSeq([i \in 1..Len(s) |-> Utf8Bytes(s[i])])
ByteLen(s) == Len(Utf8Text(s))

-----------------------------------------------------------------------------
(* analyze_segment; the bytes of a non-ASCII character are CLASS_OTHER, too *)

AlphabetOf(s) ==
  LET has(class) == ToSet(s) \cap ToSet(class) # {}
  IN  IF ~(ToSet(s) \subseteq ToSet(Alphabet[4])) THEN Raw
      ELSE IF has(Syms) THEN 4
      ELSE IF has(Uppers) THEN 3
      ELSE IF has(Digits) /\ has(Lowers) THEN 2
      ELSE IF has(Lowers) THEN 1
      ELSE 0

(* fixed_bit_len: the least width that holds every value of n symbols, at *)
(* most a byte for each.                                                   *)
FixedBitLen(id, n) ==
  LET values == Power(Len(Alphabet[id]), n)
  IN  IF IsBase(id) /\ n > 0
      THEN CHOOSE w \in 0..(ByteBits * n) :
             values <= Pow2[w] /\ \A less \in 0..(w - 1) : Pow2[less] < values
      ELSE ByteBits * n

(* is_pure_percent, decode_pure_percent, encode_pure_percent *)
IsPurePercent(s) ==
  /\ s # <<>> /\ Len(s) % 3 = 0
  /\ \A i \in 1..Len(s) : IF i % 3 = 1 THEN s[i] = "%" ELSE IsHex(s[i])

DecodePurePercent(s) ==
  [k \in 1..(Len(s) \div 3) |-> HexVal[s[3 * k - 1]] * Pow2[HexBits] + HexVal[s[3 * k]]]

EncodePurePercent(raw) == FlattenSeq([k \in 1..Len(raw) |-> Escape(raw[k])])

-----------------------------------------------------------------------------
(* write_segment *)

(* segment_to_biguint: the digits of s in its alphabet, most significant first *)
ValueOf(s, chars) ==
  LET val[i \in 0..Len(s)] ==
        IF i = 0 THEN 0 ELSE val[i - 1] * Len(chars) + Index(s[i], chars)
  IN  val[Len(s)]

HuffmanBits(s) == FlattenSeq([i \in 1..Len(s) |-> HuffCode[s[i]]])

(* bug: the prefix code is used wherever it can be *)
ChosenFormAnyHuffman(s, huffmanAllowed) ==
  IF IsPurePercent(s) THEN PctBytes
  ELSE IF huffmanAllowed /\ s # <<>> /\ ToSet(s) \subseteq DOMAIN HuffCode
  THEN Huffman ELSE AlphabetOf(s)

(* The alphabet whose form is written: the prefix code where it is allowed,*)
(* covers the segment and is strictly shorter than the fixed width.        *)
ChosenForm(s, huffmanAllowed) ==
  LET id == AlphabetOf(s)
  IN  IF IsPurePercent(s) THEN PctBytes
      ELSE IF /\ huffmanAllowed /\ s # <<>>
              /\ ToSet(s) \subseteq DOMAIN HuffCode
              /\ Len(HuffmanBits(s)) < FixedBitLen(id, ByteLen(s))
              /\ Len(HuffmanBits(s)) <= MaxValueBits
      THEN Huffman
      ELSE id

(* bug: leading symbols of value zero are not counted *)
SymbolCountOfValue(s) ==
  IF IsPurePercent(s) THEN Len(s) \div 3
  ELSE IF AlphabetOf(s) # Raw /\ s # <<>> /\ Index(s[1], Alphabet[AlphabetOf(s)]) = 0
  THEN ByteLen(s) - 1 ELSE ByteLen(s)

SymbolCount(s) == IF IsPurePercent(s) THEN Len(s) \div 3 ELSE ByteLen(s)

ByteBitsOf(raw) == FlattenSeq([k \in 1..Len(raw) |-> NatToBits(raw[k], ByteBits)])

Payload(s, form) ==
  CASE form = PctBytes -> ByteBitsOf(DecodePurePercent(s))
    [] form = Huffman  -> HuffmanBits(s)
    [] form = Raw      -> ByteBitsOf(Utf8Text(s))
    [] IsBase(form)    -> NatToBits(ValueOf(s, Alphabet[form]),
                                    FixedBitLen(form, SymbolCount(s)))

WriteSegment(w, s, huffmanAllowed) ==
  LET form == ChosenForm(s, huffmanAllowed)
      head == WriteCompactCount(WriteBits(w, form, IdBits), SymbolCount(s))
  IN  IF ~w.ok \/ SymbolCount(s) > MaxSymbols THEN WriteFail(w)
      ELSE [head EXCEPT !.bits = @ \o Payload(s, form)]

-----------------------------------------------------------------------------
(* read_segment; here val is the text *)

TextFail(r) == [ok |-> FALSE, pos |-> r.pos, val |-> <<>>]
Text(p, s) == [ok |-> TRUE, pos |-> p, val |-> s]

(* biguint_to_symbols: n digits of v, short values padded with alphabet[0] *)
SymbolsOf(v, n, chars) ==
  [i \in 1..n |-> chars[((v \div Power(Len(chars), n - i)) % Len(chars)) + 1]]

ReadBase(bits, r, id, n) ==
  LET width == FixedBitLen(id, n)
      value == BitsToNat(SubSeq(bits, r.pos + 1, r.pos + width))
  IN  IF n = 0 THEN Text(r.pos, <<>>)
      ELSE IF r.pos + width > Len(bits) \/ value >= Power(Len(Alphabet[id]), n)
      THEN TextFail(r)
      ELSE Text(r.pos + width, SymbolsOf(value, n, Alphabet[id]))

(* n whole bytes *)
ReadBytes(bits, r, n) ==
  [k \in 1..n |-> BitsToNat(SubSeq(bits, r.pos + (k - 1) * ByteBits + 1,
                                         r.pos + k * ByteBits))]

(* from_utf8 *)
FromUtf8(raw) ==
  LET starts(i) == {c \in Characters :
                      IsPrefix(Utf8Bytes(c), SubSeq(raw, i, Len(raw)))}
      from[i \in 1..(Len(raw) + 1)] ==
        IF i > Len(raw) THEN [ok |-> TRUE, val |-> <<>>]
        ELSE IF starts(i) = {} THEN [ok |-> FALSE, val |-> <<>>]
        ELSE LET c == CHOOSE c \in starts(i) : TRUE
                 rest == from[i + Len(Utf8Bytes(c))]
             IN  [rest EXCEPT !.val = <<c>> \o @]
  IN  from[1]

ReadUnits(bits, r, id, n) ==
  LET raw == ReadBytes(bits, r, n)
      end == r.pos + n * ByteBits
      valid(text) == IF text.ok THEN Text(end, text.val) ELSE TextFail(r)
  IN  IF end > Len(bits) THEN TextFail(r)
      ELSE IF id = PctBytes THEN Text(end, EncodePurePercent(raw))
      ELSE valid(FromUtf8(raw))

(* decode_from: n symbols, each the one whose code comes next *)
ReadHuffman(bits, r, n) ==
  LET next(p) == {c \in DOMAIN HuffCode :
                    IsPrefix(HuffCode[c], SubSeq(bits, p + 1, Len(bits)))}
      read[k \in 0..n] ==
        IF k = 0 THEN Text(r.pos, <<>>)
        ELSE LET prev == read[k - 1]
             IN  IF ~prev.ok \/ next(prev.pos) = {} THEN TextFail(prev)
                 ELSE LET c == CHOOSE c \in next(prev.pos) : TRUE
                      IN  Text(prev.pos + Len(HuffCode[c]), Append(prev.val, c))
  IN  read[n]

ReadPayload(bits, r, id, n) ==
  IF id \in {Raw, PctBytes} THEN ReadUnits(bits, r, id, n)
  ELSE IF id = Huffman THEN ReadHuffman(bits, r, n)
  ELSE ReadBase(bits, r, id, n)

(* bug: one symbol more than the limit is let through *)
ReadSegmentOffByOne(bits, r) ==
  LET payload(id, count) ==
        IF ~count.ok \/ count.val \notin 0..(MaxSymbols + 1) THEN TextFail(r)
        ELSE ReadPayload(bits, count, id.val, count.val)
      body(id) == payload(id, ReadCompactCount(bits, id))
  IN  body(ReadBits(bits, r, IdBits))

ReadSegment(bits, r) ==
  LET payload(id, count) ==
        IF ~count.ok \/ count.val \notin 0..MaxSymbols THEN TextFail(r)
        ELSE ReadPayload(bits, count, id.val, count.val)
      body(id) == payload(id, ReadCompactCount(bits, id))
  IN  body(ReadBits(bits, r, IdBits))

=============================================================================
