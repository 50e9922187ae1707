---------------------------- MODULE MCBitStream ----------------------------
(* A word of 5 bits in groups of 2 bits leaves one data bit in the third   *)
(* and last group, as 64 = 9 * 7 + 1 does in the code.                     *)
EXTENDS BitStream

BitsCalls ==
  {[kind |-> "bits", v |-> c[1], n |-> c[2]] :
     c \in {<<0, 0>>, <<1, 1>>, <<5, 3>>, <<4, 2>>, <<31, 5>>, <<0, 6>>}}

(* 0, 3, 4, 15, 16, 31: both sides of each group boundary.              *)
VarintCalls ==
  {[kind |-> "varint", v |-> v, n |-> 0] : v \in {0, 3, 4, 15, 16, 31}}

(* The compact escape is 3: the last plain count, the escape, beyond it. *)
CountCalls ==
  {[kind |-> "count", v |-> v, n |-> 0] : v \in {2, 3, 6, 7}}

MCCalls == BitsCalls \cup VarintCalls \cup CountCalls
=============================================================================
