--------------------------- MODULE SegmentCoding ---------------------------
(***************************************************************************)
(* write_segment and read_segment run against each other on every segment  *)
(* of a character set, and read_segment alone on bits nobody wrote.        *)
(***************************************************************************)
EXTENDS Segment

CONSTANTS
  Pieces,       (* texts a segment is put together from                    *)
  MaxPieces,    (* bound: pieces of a segment                              *)
  Trails,       (* what may follow a segment in its stream                 *)
  Heads,        (* beginnings of a stream no encoder wrote                 *)
  MaxForeign    (* bound: bits after such a beginning                      *)

ASSUME CodingBounds ==
  /\ MaxPieces \in Nat
  /\ MaxForeign \in Nat
  /\ Pieces \subseteq Seq(Characters)
  /\ Trails \subseteq Seq(Bit)
  /\ Heads \subseteq Seq(Bit)

VARIABLES
  seg,       (* the segment                                                *)
  pieces,    (* how many pieces it was made of, or bits of the stream      *)
  allowed,   (* huffman_allowed of write_segment                           *)
  foreign    (* a stream no encoder wrote                                  *)

cvars == <<seg, pieces, allowed, foreign>>

CodingInit ==
  /\ seg = <<>> /\ pieces = 0
  /\ allowed \in BOOLEAN
  /\ foreign \in {<<>>} \cup Heads

Extend ==
  /\ pieces < MaxPieces /\ foreign = <<>>
  /\ pieces' = pieces + 1
  /\ \E p \in Pieces : seg' = seg \o p
  /\ UNCHANGED <<allowed, foreign>>

ForeignBit ==
  /\ foreign # <<>> /\ ~allowed /\ pieces < MaxForeign
  /\ pieces' = pieces + 1
  /\ \E b \in Bit : foreign' = Append(foreign, b)
  /\ UNCHANGED <<seg, allowed>>

CodingNext == Extend \/ ForeignBit

CodingSpec == CodingInit /\ [][CodingNext]_cvars

-----------------------------------------------------------------------------
(* The encoder only passes texts whose escapes are normalised.             *)
Normalised(s) ==
  IsPurePercent(s) => \A i \in 1..Len(s) : IsHex(s[i]) => HexUp(s[i]) = s[i]

(* A segment write_segment accepts is read back whole, leading zero symbols*)
(* included, and the reader stops exactly where the segment ends whatever  *)
(* the next field of the stream is: the payload carries no length.         *)
SegmentRoundTrip ==
  LET w == WriteSegment(NewWriter, seg, allowed)
  IN  w.ok /\ Normalised(seg) =>
        \A t \in Trails :
          ReadSegment(w.bits \o t, ReaderAt(0)) = Text(Len(w.bits), seg)

(* Every form that could carry the segment, by its payload width. *)
Carries(id) ==
  CASE id = PctBytes -> IsPurePercent(seg)
    [] id = Huffman  -> allowed /\ seg # <<>> /\ ToSet(seg) \subseteq DOMAIN HuffCode
    [] id = Raw      -> TRUE
    [] IsBase(id)    -> ToSet(seg) \subseteq ToSet(Alphabet[id])

Width(id) ==
  CASE id = PctBytes -> (Len(seg) \div 3) * 2 * HexBits
    [] id = Huffman  -> Len(HuffmanBits(seg))
    [] OTHER         -> FixedBitLen(id, ByteLen(seg))

(* "selects the smallest alphabet for a URL segment": no form that could   *)
(* carry the segment has a shorter payload than the one chosen.            *)
ChosenFormIsSmallest ==
  LET form == ChosenForm(seg, allowed)
  IN  /\ Carries(form)
      /\ \A id \in 0..7 : Carries(id) => Width(form) <= Width(id)

(* Bits from anywhere either are refused or name a segment of at most      *)
(* MAX_SYMBOL_COUNT symbols that lies inside the stream and that the       *)
(* encoder, given it in a URL, writes and has read back.                   *)
ForeignSegmentIsWritable ==
  LET r == ReadSegment(foreign, ReaderAt(0))
      w == WriteSegment(NewWriter, r.val, FALSE)
  IN  foreign # <<>> /\ r.ok =>
        /\ r.pos <= Len(foreign)
        /\ ToSet(r.val) \subseteq Characters
        /\ SymbolCount(r.val) <= MaxSymbols
        /\ Normalised(r.val) =>
             w.ok /\ ReadSegment(w.bits, ReaderAt(0)) = Text(Len(w.bits), r.val)

=============================================================================
