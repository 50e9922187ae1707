---------------------------- MODULE HuffmanCode ----------------------------
(***************************************************************************)
(* HuffmanEncoder and HuffmanDecoder (huffman.rs): a codebook is checked,  *)
(* its canonical codes are assigned symbol by symbol, one text is encoded  *)
(* with them, and one stream, that text's or a foreign one, is decoded bit *)
(* by bit.  Both objects are immutable once built, so one call of each     *)
(* shows what any number of calls does.                                    *)
(*                                                                         *)
(* encode and decode work on a byte vector of their own; encode_into and   *)
(* decode_from, which segments use, in the middle of a stream.             *)
(***************************************************************************)
EXTENDS Codebook, BitFields

CONSTANTS
  Books,            (* the codebooks a program builds its codec from       *)
  Texts,            (* the symbols it encodes                              *)
  Headers,          (* what is in the stream before encode_into            *)
  ForeignStreams,   (* bytes of unknown origin, as bits                    *)
  ForeignCounts     (* the symbol counts they are decoded with             *)

ASSUME CodecInputs ==
  /\ WordBits = MaxCodeLength
  /\ Books \subseteq Codebooks
  /\ Texts \subseteq Seq(Bytes)
  /\ Headers \subseteq Seq(Bit) /\ ForeignStreams \subseteq Seq(Bit)
  /\ ForeignCounts \subseteq Nat

VARIABLES
  book,      (* the codebook                                               *)
  sorted,    (* symbols with a code, by length and value                   *)
  codes,     (* `codes`: a word for each byte                              *)
  table,     (* first_code, first_index and count of each length           *)
  placed,    (* symbols of `sorted` that have got their code               *)
  whole,     (* encode and decode, not encode_into and decode_from         *)
  text,      (* the symbols to encode                                      *)
  head,      (* the stream before encode_into                              *)
  stream,    (* the stream written                                         *)
  written,   (* symbols of `text` written                                  *)
  input,     (* the stream read                                            *)
  want,      (* `symbol_count`                                             *)
  pos,       (* bits of it consumed                                        *)
  len,       (* bits of the current code read                              *)
  code,      (* those bits                                                 *)
  out,       (* symbols decoded                                            *)
  own,       (* `input` is what was encoded                                *)
  hstep      (* program counter                                            *)

bookVars == <<book, sorted, codes, table, placed>>
encVars == <<text, head, stream, written>>
decVars == <<input, want, pos, len, code, out, own>>
hvars == <<bookVars, whole, encVars, decVars, hstep>>

HuffmanSteps ==
  {"new", "assign", "ready", "encode", "check", "write", "encoded", "decode",
   "accepted", "refused", "badBook", "badText"}

Word == Pow2[MaxCodeLength]
Lengths == 0..MaxCodeLength
NoRow == [first |-> 0, index |-> 0, count |-> 0]

HInit ==
  /\ book \in Books /\ sorted = <<>> /\ codes = NoCodes /\ placed = 0
  /\ table = [l \in Lengths |-> NoRow] /\ whole \in BOOLEAN
  /\ text = <<>> /\ head = <<>> /\ stream = <<>> /\ written = 0
  /\ input = <<>> /\ want = 0 /\ pos = 0 /\ len = 0 /\ code = 0 /\ out = <<>>
  /\ own = FALSE /\ hstep = "new"

-----------------------------------------------------------------------------
(* build_canonical_tables *)

(* sort_by_key(length, symbol): in place i stands the symbol that i - 1    *)
(* others come before.                                                     *)
ComesBefore(cb, s, t) == cb[s] < cb[t] \/ (cb[s] = cb[t] /\ s < t)
Before(cb, s) == {t \in UsedBytes(cb) : ComesBefore(cb, t, s)}
InCodeOrder(cb) ==
  [i \in 1..Cardinality(UsedBytes(cb)) |->
     CHOOSE s \in UsedBytes(cb) : Cardinality(Before(cb, s)) = i - 1]

New ==
  /\ hstep = "new"
  /\ IF ValidLengths(book)
     THEN sorted' = InCodeOrder(book) /\ hstep' = "assign"
     ELSE hstep' = "badBook" /\ UNCHANGED sorted
  /\ UNCHANGED <<book, codes, table, placed, whole, encVars, decVars>>

(* bug: a longer code is not shifted to its length *)
NextCodeUnshifted(prev, l) == (codes[prev] + 1) % Word

(* The code behind that of `prev`, l bits long, in a u64. *)
NextCode(prev, l) == ((codes[prev] + 1) * Pow2[l - book[prev]]) % Word

AssignCode ==
  LET sym == sorted[placed + 1]
      l == book[sym]
      c == IF placed = 0 THEN 0 ELSE NextCode(sorted[placed], l)
      row == table[l]
  IN  /\ hstep = "assign" /\ placed < Len(sorted)
      /\ codes' = [codes EXCEPT ![sym] = c]
      /\ table' = [table EXCEPT ![l] =
                     IF row.count = 0 THEN [first |-> c, index |-> placed, count |-> 1]
                     ELSE [row EXCEPT !.count = row.count + 1]]
      /\ placed' = placed + 1
      /\ UNCHANGED <<book, sorted, whole, encVars, decVars, hstep>>

Assigned ==
  /\ hstep = "assign" /\ placed = Len(sorted) /\ hstep' = "ready"
  /\ UNCHANGED <<bookVars, whole, encVars, decVars>>

-----------------------------------------------------------------------------
(* HuffmanEncoder *)

Encodable(s) == s \in Base85 /\ book[s] > 0

(* bit_len, of a text it does not refuse *)
BitLen(t) ==
  LET n[i \in 0..Len(t)] == IF i = 0 THEN 0 ELSE n[i - 1] + book[t[i]] IN n[Len(t)]

EncodeCall ==
  /\ hstep = "ready" /\ text' \in Texts
  /\ IF whole THEN head' = <<>> /\ hstep' = "encode"
              ELSE head' \in Headers /\ hstep' = "check"
  /\ stream' = head'
  /\ UNCHANGED <<bookVars, whole, written, decVars>>

(* bug: encode_into checks each symbol only when its turn comes *)
CheckLate ==
  /\ hstep = "check" /\ hstep' = "encode"
  /\ UNCHANGED <<bookVars, whole, encVars, decVars>>

(* encode_into's first pass *)
Check ==
  /\ hstep = "check"
  /\ hstep' = IF \A i \in 1..Len(text) : Encodable(text[i]) THEN "write" ELSE "badText"
  /\ UNCHANGED <<bookVars, whole, encVars, decVars>>

(* One more symbol: encode looks at it first, encode_into has. *)
WriteSymbol ==
  LET sym == text[written + 1]
      w   == WriteBits([ok |-> TRUE, bits |-> stream], codes[sym], book[sym])
  IN  /\ hstep \in {"encode", "write"} /\ written < Len(text)
      /\ IF (hstep = "encode" => Encodable(sym)) /\ w.ok
         THEN stream' = w.bits /\ written' = written + 1 /\ UNCHANGED hstep
         ELSE hstep' = "badText" /\ UNCHANGED <<stream, written>>
      /\ UNCHANGED <<bookVars, whole, text, head, decVars>>

Encoded ==
  /\ hstep \in {"encode", "write"} /\ written = Len(text) /\ hstep' = "encoded"
  /\ UNCHANGED <<bookVars, whole, encVars, decVars>>

-----------------------------------------------------------------------------
(* HuffmanDecoder *)

DecodeCall(bits, n, from) ==
  /\ input' = bits /\ want' = n /\ pos' = from /\ len' = 0 /\ code' = 0 /\ out' = <<>>
  /\ hstep' = "decode"
  /\ UNCHANGED <<bookVars, whole, encVars>>

DecodeOwn ==
  /\ hstep = "encoded" /\ own' = TRUE
  /\ DecodeCall(IntoBytes([ok |-> TRUE, bits |-> stream]), Len(text), Len(head))

DecodeForeign ==
  /\ hstep = "ready" /\ own' = FALSE
  /\ \E bits \in ForeignStreams, n \in ForeignCounts : DecodeCall(bits, n, 0)

MaxLen == Max({book[b] : b \in Bytes})

(* bug: the first code of a length is left out of the range *)
MatchesBehindFirst(c, l) ==
  table[l].count > 0 /\ table[l].first < c /\ c < (table[l].first + table[l].count) % Word

(* (first..last).contains(&code), with `last` in a u64 *)
Matches(c, l) ==
  table[l].count > 0 /\ table[l].first <= c /\ c < (table[l].first + table[l].count) % Word

(* One more bit, and the symbol when it completes a code. *)
ReadBit ==
  LET rd == ReadBits(input, ReaderAt(pos), 1)
      c  == 2 * code + rd.val
      l  == len + 1
      sym == sorted[table[l].index + (c - table[l].first) + 1]
  IN  /\ hstep = "decode" /\ Len(out) < want /\ len < MaxLen
      /\ pos' = rd.pos
      /\ IF ~rd.ok THEN hstep' = "refused" /\ UNCHANGED <<len, code, out>>
         ELSE IF ~Matches(c, l)
         THEN len' = l /\ code' = c /\ UNCHANGED <<out, hstep>>
         ELSE /\ len' = 0 /\ code' = 0
              /\ IF sym \in Base85 THEN out' = Append(out, sym) /\ UNCHANGED hstep
                 ELSE hstep' = "refused" /\ UNCHANGED out
      /\ UNCHANGED <<bookVars, whole, encVars, input, want, own>>

NoCodeMatched ==
  /\ hstep = "decode" /\ Len(out) < want /\ len = MaxLen /\ hstep' = "refused"
  /\ UNCHANGED <<bookVars, whole, encVars, decVars>>

(* bug: the padding is not looked at *)
DecodedUnpadded ==
  /\ hstep = "decode" /\ Len(out) = want /\ hstep' = "accepted"
  /\ UNCHANGED <<bookVars, whole, encVars, decVars>>

Decoded ==
  /\ hstep = "decode" /\ Len(out) = want
  /\ hstep' = IF whole => RestIsZero(input, pos) THEN "accepted" ELSE "refused"
  /\ UNCHANGED <<bookVars, whole, encVars, decVars>>

Returned ==
  hstep \in {"accepted", "refused", "badBook", "badText"} /\ UNCHANGED hvars

-----------------------------------------------------------------------------
HStep ==
  \/ New \/ AssignCode \/ Assigned \/ Check \/ WriteSymbol \/ Encoded
  \/ ReadBit \/ NoCodeMatched \/ Decoded

HNext == HStep \/ EncodeCall \/ DecodeOwn \/ DecodeForeign \/ Returned

(* A thread that can run does; nobody has to call. *)
Spec == HInit /\ [][HNext]_hvars /\ WF_hvars(HStep)

-----------------------------------------------------------------------------
CodeOf(s) == NatToBits(codes[s], book[s])

(* Any codebook validate_lengths lets through gets a code: every symbol's  *)
(* word fits its length, so no write fails, and no code begins another, so *)
(* a stream can be read in one way only.                                   *)
CodesArePrefixFree ==
  hstep \notin {"new", "assign", "badBook"} =>
    \A s \in UsedBytes(book) :
      /\ codes[s] < Pow2[book[s]]
      /\ \A t \in UsedBytes(book) \ {s} : ~IsPrefix(CodeOf(s), CodeOf(t))

(* A segment in the middle of a payload is written whole or not at all,    *)
(* and takes the bits bit_len said when the segment's form was chosen.     *)
NothingHalfWritten ==
  /\ hstep = "badText" /\ ~whole => stream = head
  /\ hstep = "encoded" => Len(stream) = Len(head) + BitLen(text)

(* The symbols a decoder cannot read: those with codes of MAX_CODE_LENGTH  *)
(* bits when the codes use up the whole code space, because the end of     *)
(* their range is 2^64, which is 0 in a u64.                               *)
Unreadable ==
  {s \in UsedBytes(book) : KraftSum(book) = Word /\ book[s] = MaxCodeLength}

(* What was encoded is decoded to the same symbols, wherever in a stream   *)
(* it is and whatever the codebook, but for the unreadable symbols.        *)
DecodeInvertsEncode ==
  /\ own /\ hstep = "accepted" => out = text
  /\ own /\ hstep = "refused" => \E i \in 1..Len(text) : text[i] \in Unreadable

(* decode accepts a stream in one spelling only: encoding the symbols it   *)
(* found gives the stream back, but for zero bytes at its end.             *)
DecodedReencodes ==
  hstep = "accepted" /\ ~own =>
    LET again == FlattenSeq([i \in 1..Len(out) |-> CodeOf(out[i])])
    IN  /\ \A i \in 1..Len(out) : Encodable(out[i])
        /\ IsPrefix(again, input)
        /\ whole => RestIsZero(input, Len(again))

(* What the module's doc says: a codebook the decoder was built from       *)
(* without an error decodes what it encodes.                               *)
EveryCodebookDecodes == own /\ hstep \in {"accepted", "refused"} => hstep = "accepted"

-----------------------------------------------------------------------------
(* Reading bit by bit and matching ranges per length amounts to reading    *)
(* the one code the stream begins with (as Segment's ReadHuffman does), and*)
(* every call returns.                                                     *)
ReadPhase == IF hstep \in {"decode", "accepted", "refused"} THEN hstep ELSE "idle"

Readable == (UsedBytes(book) \cap Base85) \ Unreadable

ReadableCodes == IF ReadPhase = "idle" THEN <<>> ELSE [s \in Readable |-> CodeOf(s)]

Reader == INSTANCE PrefixReader WITH
  Bits <- input,
  codebook <- ReadableCodes,
  at <- pos - len,
  padded <- whole,
  phase <- ReadPhase

ReadsByPrefix == Reader!SpecPromise

=============================================================================
