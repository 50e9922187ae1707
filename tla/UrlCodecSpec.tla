---------------------------- MODULE UrlCodecSpec ----------------------------
(***************************************************************************)
(* What urlz promises the program that uses it, with nothing said of bits, *)
(* fields or blocks: a URL given to encode is refused or encoded, what is  *)
(* encoded and handed over intact, or with zero bytes behind it, is decoded*)
(* to the normalised URL, and what lost its end on the way is refused.     *)
(***************************************************************************)
CONSTANTS
  Normal(_),        (* the normalised form of a URL text                   *)
  LosesDot(_),      (* its host ends in a dot, which is not kept           *)
  HostTooLong(_),   (* its host or TLD is longer than decode accepts       *)
  TextSet           (* all texts                                           *)

VARIABLES text, phase, fate, answer

specVars == <<text, phase, fate, answer>>

Unharmed == {"intact", "padded"}

SpecInit == text \in TextSet /\ phase = "idle" /\ fate = "none" /\ answer = <<>>

Call ==
  /\ phase = "idle" /\ phase' \in {"encoding", "refused"}
  /\ UNCHANGED <<text, fate, answer>>

Encoded ==
  /\ phase = "encoding" /\ phase' \in {"encoded", "refused"}
  /\ UNCHANGED <<text, fate, answer>>

HandOver ==
  /\ phase = "encoded" /\ phase' = "decoding"
  /\ fate' \in {"intact", "padded", "cut", "flipped"}
  /\ UNCHANGED <<text, answer>>

Decoded ==
  /\ phase = "decoding" /\ phase' = "decoded"
  /\ fate # "cut"
  /\ answer' \in TextSet
  /\ fate \in Unharmed /\ ~LosesDot(text) => answer' = Normal(text)
  /\ UNCHANGED <<text, fate>>

Failed ==
  /\ phase = "decoding" /\ phase' = "failed"
  /\ fate \in Unharmed => HostTooLong(text)
  /\ UNCHANGED <<text, fate, answer>>

Reuse ==
  /\ phase = "decoded" /\ phase' = "idle"
  /\ text' = answer /\ fate' = "none" /\ answer' = <<>>

SpecNext == Call \/ Encoded \/ HandOver \/ Decoded \/ Failed \/ Reuse

(* Every call that has begun is answered. *)
Answered ==
  /\ phase = "encoding" ~> phase # "encoding"
  /\ phase = "decoding" ~> phase # "decoding"

SpecPromise == SpecInit /\ [][SpecNext]_specVars /\ Answered

=============================================================================
