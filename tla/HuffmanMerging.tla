--------------------------- MODULE HuffmanMerging ---------------------------
(***************************************************************************)
(* What build_codebook promises: Huffman's algorithm with nothing said of  *)
(* arenas, heaps or walks.  The bytes that occur are put into groups; two  *)
(* lightest groups are joined, which makes the codes of all their bytes one*)
(* bit longer, until one group is left.  Which of several equally light    *)
(* groups are joined is left open here.                                    *)
(***************************************************************************)
EXTENDS Integers, FiniteSets, FiniteSetsExt

CONSTANTS
  Symbols,     (* the bytes                                                *)
  FreqSpace    (* frequencies are counted modulo this                      *)

VARIABLES freqs, groups, depth, phase, answer

specVars == <<freqs, groups, depth, phase, answer>>

Zeros == [s \in Symbols |-> 0]

Weight(g) ==
  LET at(s) == freqs[s] IN MapThenSumSet(at, g) % FreqSpace

SpecInit ==
  /\ freqs = Zeros /\ groups = {} /\ depth = Zeros /\ phase = "idle" /\ answer = Zeros

(* One byte alone gets a code of one bit, though it needs none. *)
Begin ==
  LET used == {s \in Symbols : freqs'[s] > 0}
  IN  /\ phase \in {"idle", "built"}
      /\ freqs' \in [Symbols -> 0..(FreqSpace - 1)]
      /\ groups' = {{s} : s \in used} /\ depth' = Zeros
      /\ IF Cardinality(used) > 1
         THEN phase' = "building" /\ answer' = Zeros
         ELSE phase' = "built" /\ answer' = [s \in Symbols |-> IF s \in used THEN 1 ELSE 0]

Join(g, h) ==
  /\ phase = "building" /\ g # h
  /\ \A k \in groups \ {g, h} : Weight(k) >= Weight(g) /\ Weight(k) >= Weight(h)
  /\ groups' = (groups \ {g, h}) \cup {g \cup h}
  /\ depth' = [s \in Symbols |-> depth[s] + (IF s \in g \cup h THEN 1 ELSE 0)]
  /\ UNCHANGED <<freqs, phase, answer>>

Return ==
  /\ phase = "building" /\ Cardinality(groups) = 1
  /\ phase' = "built" /\ answer' = depth
  /\ UNCHANGED <<freqs, groups, depth>>

(* The process is killed. *)
Forget ==
  /\ freqs' = Zeros /\ groups' = {} /\ depth' = Zeros
  /\ phase' = "idle" /\ answer' = Zeros

SpecNext ==
  Begin \/ (\E g, h \in groups : Join(g, h)) \/ Return \/ Forget

(* Every call that has begun comes to an end. *)
Ends == phase = "building" ~> phase # "building"

SpecSteps == SpecInit /\ [][SpecNext]_specVars

SpecPromise == SpecSteps /\ Ends

=============================================================================
