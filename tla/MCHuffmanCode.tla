--------------------------- MODULE MCHuffmanCode ---------------------------
(* Four characters of the alphabet and one byte outside it; words of three *)
(* bits, bytes of four.                                                    *)
EXTENDS HuffmanCode

MCBase85 == 0..3

(* Every codebook, the invalid ones included. *)
MCBooks == Codebooks

MCTexts == {<<>>, <<0>>, <<3>>, <<4>>} \cup {<<i, j>> : i \in 0..2, j \in 1..4}

MCHeaders == {<<>>, <<1, 0, 1>>}

(* Every byte, and nothing. *)
MCForeignStreams == {<<>>} \cup [1..4 -> Bit]

MCForeignCounts == 0..2
=============================================================================
