---------------------------- MODULE PrefixReader ----------------------------
(***************************************************************************)
(* What a Huffman decoder promises: as long as symbols are wanted, the one *)
(* whose code the rest of the stream begins with is read, and a rest that  *)
(* begins with no code is refused.  Nothing is said of bits or of tables.  *)
(***************************************************************************)
EXTENDS Integers, Sequences, SequencesExt

VARIABLES
  Bits,       (* the stream                                                *)
  codebook,   (* the code of each symbol                                   *)
  want,       (* number of symbols wanted                                  *)
  padded,     (* what is left behind them has to be zero                   *)
  at,         (* bits of the stream behind the symbols read                *)
  out,        (* the symbols read                                          *)
  phase       (* "idle", "decode", "accepted", "refused"                   *)

readVars == <<Bits, codebook, want, padded, at, out, phase>>

Rest == SubSeq(Bits, at + 1, Len(Bits))

SpecInit == phase = "idle" /\ out = <<>>

Begin == phase = "idle" /\ phase' = "decode" /\ out' = <<>>

ReadSymbol(s) ==
  /\ phase = "decode" /\ Len(out) < want /\ IsPrefix(codebook[s], Rest)
  /\ out' = Append(out, s) /\ at' = at + Len(codebook[s])
  /\ UNCHANGED <<Bits, codebook, want, padded, phase>>

NoSymbol ==
  /\ phase = "decode" /\ Len(out) < want
  /\ \A s \in DOMAIN codebook : ~IsPrefix(codebook[s], Rest)
  /\ phase' = "refused"
  /\ UNCHANGED <<Bits, codebook, want, padded, out>>

Finish ==
  /\ phase = "decode" /\ Len(out) = want
  /\ phase' = IF padded => \A i \in 1..Len(Rest) : Rest[i] = 0
              THEN "accepted" ELSE "refused"
  /\ UNCHANGED <<Bits, codebook, want, padded, out, at>>

SpecNext == Begin \/ (\E s \in DOMAIN codebook : ReadSymbol(s)) \/ NoSymbol \/ Finish

(* Every call that has begun comes to an end. *)
Ends == phase = "decode" ~> phase # "decode"

(* Between two calls the stream and what is wanted of it may change. *)
seen == <<codebook, out, phase,
          IF phase = "decode" THEN <<Bits, want, padded, at>> ELSE <<>> >>

SpecSteps == SpecInit /\ [][SpecNext]_seen

SpecPromise == SpecSteps /\ Ends

=============================================================================
