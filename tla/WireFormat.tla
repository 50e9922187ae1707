----------------------------- MODULE WireFormat -----------------------------
(***************************************************************************)
(* What the encoder and the decoder of a URL share: version and dictionary *)
(* numbers, the static dictionaries and their index widths, the limits,    *)
(* and the number form a byte string takes on its way through base85.      *)
(***************************************************************************)
EXTENDS Segment

CONSTANTS
  Tlds, Hosts, PathTokens, QueryKeys, QueryValues,  (* dict.rs: sequences of
                                                       texts               *)
  ShortPorts,    (* ports with a two-bit code, in code order: 8080, 8443,  *)
                 (* 3000                                                   *)
  TldBits, HostBits, PathBits, KeyBits, ValueBits,  (* index widths        *)
  MaxSegments,   (* MAX_SEGMENT_COUNT (64)                                 *)
  MaxHostTld,    (* MAX_HOST_TLD_LEN (4096)                                *)
  MaxPayload,    (* MAX_PAYLOAD_BYTES (65536)                              *)
  DigitBits      (* bits one payload character carries (log2 of 85)        *)

LiteralPort == 3   (* port code: the port itself follows in PortBits bits   *)
TldEscape == Pow2[TldBits] - 1     (* TLD_ESCAPE: no TLD                      *)
HostEscape == Pow2[HostBits] - 1   (* HOST_ESCAPE: a literal host follows     *)

ASSUME Dictionaries ==
  /\ \A dict \in {Tlds, Hosts, PathTokens, QueryKeys, QueryValues} :
       /\ dict \in Seq(Seq(Ascii))
       /\ \A i \in DOMAIN dict : Len(dict[i]) <= MaxSymbols
  /\ Len(Tlds) = TldEscape /\ Len(Hosts) = HostEscape
  /\ Len(PathTokens) <= Pow2[PathBits] /\ Len(QueryKeys) <= Pow2[KeyBits]
  /\ Len(QueryValues) <= Pow2[ValueBits]

(* Every field fits a word, a count of segments, too, and the version is   *)
(* in the first byte, which is therefore not zero.                         *)
ASSUME WireLimits ==
  /\ MaxSegments \in 0..(Pow2[WordBits] - 1) /\ MaxHostTld \in Nat /\ MaxPayload \in Nat
  /\ DigitBits \in Nat \ {0}
  /\ {PortBits, TldBits, HostBits, PathBits, KeyBits, ValueBits} \subseteq 0..WordBits
  /\ 4 <= WordBits /\ 4 <= ByteBits
  /\ ShortPorts \in [1..LiteralPort -> DOMAIN PortText]

(* The words urlz itself writes; a small instance has them as characters.  *)
ASSUME OwnWords ==
  {"http", "https", "www", "index", "html", "php"} \subseteq ToSet(Lowers)

WireVersion == 2
DictSetId == 1

NoPort == -1

MaxLabels == 9

IndexKinds == <<"none", "html", "php", "other">>
IndexCode(kind) == Index(kind, IndexKinds)

-----------------------------------------------------------------------------
(* Several fields, each a <<value, width>>, one after the other. *)
WriteFields(w, fields) ==
  LET put[k \in 0..Len(fields)] ==
        IF k = 0 THEN w ELSE WriteBits(put[k - 1], fields[k][1], fields[k][2])
  IN  put[Len(fields)]

Known(s, dict) == Contains(dict, s)

(* is_dict flag, then the index or the segment itself *)
WriteEntry(w, s, dict, width, huffmanAllowed) ==
  IF Known(s, dict)
  THEN WriteFields(w, << <<1, 1>>, <<Index(s, dict), width>> >>)
  ELSE WriteSegment(WriteBits(w, 0, 1), s, huffmanAllowed)

ReadIndex(bits, r, dict, width) ==
  LET i == ReadBits(bits, r, width)
  IN  IF i.ok /\ i.val < Len(dict) THEN Text(i.pos, dict[i.val + 1])
      ELSE TextFail(i)

ReadEntry(bits, r, dict, width) ==
  LET flag == ReadBits(bits, r, 1)
  IN  IF flag.ok /\ flag.val = 1 THEN ReadIndex(bits, flag, dict, width)
      ELSE ReadSegment(bits, flag)

-----------------------------------------------------------------------------
(* The payload is a number written in base 85; here the number, by its bits*)
(* without leading zeros.                                                  *)

ToPayload(bytes) ==
  LET set(b) == b = 1
      first  == SelectInSeq(bytes, set)
  IN  IF first = 0 THEN <<>> ELSE SubSeq(bytes, first, Len(bytes))

(* bug: the number's bits are not filled up to whole bytes *)
FromPayloadUnfilled(number) == number

(* bytes_from_biguint_be *)
FromPayload(number) ==
  [i \in 1..((0 - Len(number)) % ByteBits) |-> 0] \o number

PayloadLen(number) ==
  IF number = <<>> THEN 1 ELSE (Len(number) + DigitBits - 1) \div DigitBits

=============================================================================
