------------------------------ MODULE UrlText ------------------------------
(***************************************************************************)
(* The text urlz works on.  A text is a sequence of characters, and the    *)
(* character set is a parameter: a small instance takes whole words ("www",*)
(* "index", the numeral "8080") as single characters of the class their    *)
(* letters have, which leaves every rule of the code about delimiters,     *)
(* case, escapes and alphabets as it is and keeps the texts short.         *)
(***************************************************************************)
EXTENDS Powers, Sequences, SequencesExt

CONSTANTS
  Digits, Lowers, Uppers, Syms, Others,  (* the ASCII characters by byte    *)
             (* class (BYTE_CLASS), each class a sequence in alphabet order *)
  LowerOf,   (* to_ascii_lowercase on the Uppers                           *)
  HexVal,    (* value of each hex digit, in either case                    *)
  HexUpper,  (* HexUpper[v + 1]: the upper-case hex digit of value v       *)
  HexBits,   (* bits of one hex digit (4)                                  *)
  Utf8,      (* for each non-ASCII character its bytes, of 2 HexBits bits  *)
  Numeral,   (* value of each character parse::<u16>() accepts             *)
  PortText,  (* the character each u16 is printed as                       *)
  PortBits,  (* width of a port number (16)                                *)
  HttpPort, HttpsPort,  (* the default ports (80 and 443)                  *)
  Octets     (* numerals of 1-3 digits, at most 255                        *)

Ascii == ToSet(Digits \o Lowers \o Uppers \o Syms \o Others)

Characters == Ascii \cup DOMAIN Utf8

ASSUME CharacterSet ==
  /\ HexBits \in Nat \ {0} /\ PortBits \in Nat
  /\ \A class \in {Digits, Lowers, Uppers, Syms, Others, HexUpper} :
       class \in Seq(ToSet(class))
  /\ Len(HexUpper) = Pow2[HexBits]
  /\ ToSet(HexUpper) \subseteq DOMAIN HexVal /\ DOMAIN HexVal \subseteq Ascii
  /\ \A v \in 0..(Pow2[HexBits] - 1) : HexVal[HexUpper[v + 1]] = v
  /\ \A c \in DOMAIN HexVal : HexVal[c] \in 0..(Pow2[HexBits] - 1)
  /\ DOMAIN LowerOf = ToSet(Uppers)
  /\ \A c \in DOMAIN LowerOf : LowerOf[c] \in ToSet(Lowers)
  /\ DOMAIN Utf8 \cap Ascii = {}
  /\ \A c \in DOMAIN Utf8 : Utf8[c] \in Seq(0..(Pow2[2 * HexBits] - 1)) \ {<<>>}
  /\ DOMAIN Numeral \subseteq Ascii
  /\ DOMAIN PortText = 0..(Pow2[PortBits] - 1)
  /\ \A c \in DOMAIN Numeral : Numeral[c] \in DOMAIN PortText
  /\ \A p \in DOMAIN PortText : PortText[p] \in DOMAIN Numeral
                                /\ Numeral[PortText[p]] = p
  /\ HttpPort \in DOMAIN PortText /\ HttpsPort \in DOMAIN PortText
  /\ Octets \subseteq DOMAIN Numeral
  /\ {"%", ".", ":", "/", "?", "#", "&", "=", "@", "["} \subseteq ToSet(Others)

(* The characters the code cuts texts at are no letters, digits or numerals. *)
ASSUME DelimitersStandAlone ==
  {"%", ".", ":", "/", "?", "#", "&", "=", "@", "["}
    \cap (ToSet(Digits \o Lowers \o Uppers) \cup DOMAIN HexVal \cup DOMAIN Numeral) = {}

(* BYTE_CLASS gives a letter one case, and parse::<u16>() accepts none.     *)
ASSUME UppersStandAlone ==
  ToSet(Uppers) \cap (ToSet(Lowers) \cup DOMAIN Numeral) = {}

-----------------------------------------------------------------------------
(* str operations the code uses. *)

(* find, rfind: the first and last position of a character of cs; 0: none. *)
Find(s, cs) == LET in(c) == c \in cs IN SelectInSeq(s, in)
RFind(s, cs) == LET in(c) == c \in cs IN SelectLastInSeq(s, in)

(* the parts split_once and rsplit_once return around position i *)
Before(s, i) == SubSeq(s, 1, i - 1)
After(s, i) == SubSeq(s, i + 1, Len(s))

(* split: the last part grows until a c begins the next one. *)
Split(s, c) ==
  LET parts[k \in 0..Len(s)] ==
        IF k = 0 THEN << <<>> >>
        ELSE LET before == parts[k - 1]
             IN  IF s[k] = c THEN Append(before, <<>>)
                 ELSE [before EXCEPT ![Len(before)] = Append(@, s[k])]
  IN  parts[Len(s)]

(* join *)
Join(parts, c) ==
  LET joined[k \in 0..Len(parts)] ==
        IF k = 0 THEN <<>>
        ELSE IF k = 1 THEN parts[1]
        ELSE joined[k - 1] \o <<c>> \o parts[k]
  IN  joined[Len(parts)]

IsHex(c) == c \in DOMAIN HexVal
HexUp(c) == IF IsHex(c) THEN HexUpper[HexVal[c] + 1] ELSE c
Lower(c) == IF c \in DOMAIN LowerOf THEN LowerOf[c] ELSE c

(* push_percent_encoded *)
Escape(byte) ==
  <<"%", HexUpper[(byte \div Pow2[HexBits]) + 1], HexUpper[(byte % Pow2[HexBits]) + 1]>>

=============================================================================
