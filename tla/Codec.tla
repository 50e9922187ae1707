------------------------------- MODULE Codec -------------------------------
(***************************************************************************)
(* encode and decode put together: a URL text is encoded, the result goes  *)
(* to decode as it is or damaged on the way, and what decode returns is    *)
(* encoded and decoded once more.                                          *)
(***************************************************************************)
EXTENDS Encoder, Decoder, UrlReference

CONSTANTS
  Texts,      (* arguments of the first call of encode                     *)
  Fates,      (* what may happen to its result: subset of AllFates         *)
  Rounds      (* bound: calls of encode                                    *)

(* "intact": decode gets the payload.  "cut": decode_bits gets only the    *)
(* first bytes of encode_to_bits, "flipped": all bytes with one bit wrong, *)
(* "padded": a zero byte behind them, as a fixed-size buffer would add.    *)
AllFates == {"intact", "cut", "flipped", "padded"}

Unharmed == {"intact", "padded"}

ASSUME CodecBounds ==
  /\ Texts \subseteq Seq(Characters)
  /\ Fates \subseteq AllFates
  /\ Rounds \in Nat \ {0}

VARIABLES
  text,      (* the argument of encode                                     *)
  round,     (* calls of encode so far                                     *)
  fate,      (* what happened to the encoder's result, "none" before       *)
  frames,    (* the encoder's length after each of its steps; the decoder  *)
             (* takes one off with each of its own                         *)
  before     (* the encoder's result of the round before, if the same URL  *)
             (* came back                                                  *)

vars == <<evars, dvars, text, round, fate, frames, before>>

Init ==
  /\ text \in Texts
  /\ EncoderIdle /\ DecoderIdle
  /\ round = 1 /\ fate = "none" /\ frames = <<>> /\ before = <<>>

CallEncode ==
  /\ EncodeCall(text)
  /\ UNCHANGED <<dvars, text, round, fate, frames, before>>

EncodeStep ==
  /\ EncoderNext
  /\ frames' = IF estep = "finish" THEN frames ELSE Append(frames, Len(out'.bits))
  /\ UNCHANGED <<dvars, text, round, fate, before>>

(* decode, or decode_bits, is called on bits. *)
Deliver(how, bits) ==
  /\ estep = "encoded" /\ fate = "none"
  /\ how \in Fates /\ fate' = how
  /\ DecodeCall(bits)
  /\ UNCHANGED <<evars, text, round, frames, before>>

(* decode refuses an empty or oversized payload before reading any of it;  *)
(* the encoder makes neither.                                              *)
Intact == Deliver("intact", FromPayload(ToPayload(out.bits)))

CutShort == \E n \in 0..(Len(out.bits) \div ByteBits - 1) :
              Deliver("cut", SubSeq(out.bits, 1, n * ByteBits))

Flip == \E i \in 1..Len(out.bits) :
          Deliver("flipped", [out.bits EXCEPT ![i] = 1 - @])

Pad == Deliver("padded", out.bits \o [i \in 1..ByteBits |-> 0])

DecodeStep ==
  /\ DecoderNext
  /\ frames' = IF frames = <<>> THEN <<>> ELSE Tail(frames)
  /\ UNCHANGED <<evars, text, round, fate, before>>

(* What decode returned is encoded in its turn. *)
Again ==
  /\ dstep = "accepted" /\ round < Rounds
  /\ round' = round + 1
  /\ text' = result
  /\ before' = IF fate \in Unharmed /\ ~HasTrailingDot(text) THEN out.bits ELSE <<>>
  /\ fate' = "none" /\ frames' = <<>>
  /\ estep' = "idle" /\ dstep' = "idle"
  /\ UNCHANGED <<url, out, todo, stream, pos, https, www, indexCode, port, nth, count,
                 host, tld, literal, regions, result>>

(* Both calls are over and nobody calls again. *)
Over == /\ \/ estep = "rejected"
           \/ dstep = "rejected"
           \/ dstep = "accepted" /\ round = Rounds
        /\ UNCHANGED vars

Next ==
  \/ CallEncode \/ EncodeStep \/ Intact \/ CutShort \/ Flip \/ Pad \/ DecodeStep \/ Again
  \/ Over

EncoderRuns == estep \notin {"idle", "encoded", "rejected"}

(* A call that has begun runs on; whether anybody delivers a payload or    *)
(* calls again is not the library's doing.  This is weak fairness of the   *)
(* two steps with the condition that enables each of them put in place of  *)
(* ENABLED (which TLC takes too long to evaluate); that a running call has *)
(* a step to take is the absence of deadlock.                              *)
Fairness ==
  /\ <>[]EncoderRuns => []<><<EncodeStep>>_vars
  /\ <>[]DecoderRuns => []<><<DecodeStep>>_vars

Spec == Init /\ [][Next]_vars /\ Fairness

-----------------------------------------------------------------------------
TypeOK ==
  /\ DecoderTypeOK
  /\ estep \in EncoderSteps /\ out.ok \in BOOLEAN /\ out.bits \in Seq(Bit)
  /\ text \in Seq(Characters) /\ round \in 1..Rounds
  /\ fate \in {"none"} \cup AllFates
  /\ frames \in Seq(Nat) /\ before \in Seq(Bit)

(* Hosts the decoder refuses: MAX_HOST_TLD_LEN is no limit of the encoder. *)
HostTooLong(t) ==
  LET parsed == ParseUrl(t)
  IN  parsed.ok /\ (TooLong(Cut(parsed.url.host).text) \/ TooLong(Cut(parsed.url.tld).text))

(* The fields of `url` respect every limit the encoder knows of. *)
WithinLimits(u) ==
  LET Small(s) == SymbolCount(s) <= MaxSymbols
      name == Cut(u.host).text
      labels == Split(name, ".")
  IN  /\ \/ Known(name, Hosts) \/ Small(name)
         \/ Len(labels) \in 2..MaxLabels /\ \A s \in ToSet(labels) : Small(s)
      /\ Small(Cut(u.tld).text)
      /\ \A s \in ToSet(u.path) \cup ToSet(u.fragment) : Small(s)
      /\ \A p \in ToSet(u.query) : Small(p.key) /\ Small(p.value.text)
      /\ \A n \in {Len(u.path), Len(u.query), Len(u.fragment)} : n <= MaxSegments

(* encode refuses a URL only when it cannot be parsed, breaks one of the   *)
(* limits on counts and lengths, or needs too long a payload: no write of  *)
(* a field ever fails for want of bits.                                    *)
RefusedForAReason ==
  estep = "rejected" =>
    \/ ~ParseUrl(text).ok
    \/ ~WithinLimits(url)
    \/ PayloadLen(ToPayload(out.bits)) > MaxPayload

(* The promise of the library: what encode accepts, decode turns back into *)
(* the normalised URL, zero bytes behind the payload or not.  In a later   *)
(* round the text is whatever the decoder made of damaged bits.            *)
RoundTrip ==
  fate \in Unharmed /\ dstep = "accepted" /\ ~HasTrailingDot(text) =>
    result = NormalText(text)

(* decode refuses nothing encode has written. *)
EncodedIsDecodable == fate = "intact" /\ ~HostTooLong(text) => dstep # "rejected"

(* Encoder and decoder agree field by field: no block of the decoder takes *)
(* a bit more or less than the encoder's block of that name wrote, though  *)
(* most widths are computed on both sides and not written.                 *)
InStep ==
  [][fate = "intact" /\ DecodeStep /\ dstep' # "rejected" /\ dstep # "padding"
       => pos' = Head(frames)]_vars

(* The payload is canonical: encoding what was decoded gives the same bits,*)
(* also when decode was given one of the other spellings of that payload.  *)
PayloadIsCanonical ==
  before # <<>> /\ estep = "encoded" => out.bits = before

(* A stream that lost its last bytes is never taken for a shorter URL.     *)
CutIsNoticed == fate = "cut" => dstep # "accepted"

-----------------------------------------------------------------------------
(* encode and decode, block by block, keep the promise of UrlCodecSpec.    *)
Phase ==
  CASE estep = "idle"     -> "idle"
    [] EncoderRuns        -> "encoding"
    [] estep = "rejected" -> "refused"
    [] OTHER -> CASE dstep = "idle"     -> "encoded"
                  [] DecoderRuns        -> "decoding"
                  [] dstep = "accepted" -> "decoded"
                  [] dstep = "rejected" -> "failed"

Promise == INSTANCE UrlCodecSpec WITH
  Normal <- NormalText, LosesDot <- HasTrailingDot, HostTooLong <- HostTooLong,
  TextSet <- Seq(Characters), phase <- Phase,
  answer <- IF dstep = "accepted" THEN result ELSE <<>>

KeepsThePromise == Promise!SpecPromise

-----------------------------------------------------------------------------
(* The promise without the exceptions. *)
EveryUrlRoundTrips ==
  fate = "intact" /\ dstep = "accepted" => result = NormalText(text)

EveryEncodedUrlDecodes == fate = "intact" => dstep # "rejected"

(* ARCHITECTURE.md's edge-case matrix: flipped bits are an error.          *)
FlipIsNoticed == fate = "flipped" => dstep # "accepted"

=============================================================================
