---------------------------- MODULE MCDictBuild ----------------------------
(* Five characters of the alphabet and one byte outside it.                *)
EXTENDS DictBuild

MCBase85 == 0..4

(* Every table of frequencies up to 4: trees up to the full depth of 4,    *)
(* which take 9 symbols, and sums that overflow at 16.                    *)
MCFrequencies ==
  {[b \in Bytes |-> IF b \in MCBase85 THEN f[b] ELSE 0] : f \in [MCBase85 -> 0..4]}

(* Balanced, skewed within the limit, and 10 symbols, enough to be too deep*)
(* (with 1, 1, 1, 3 and 4 of them).                                        *)
MCCorpora ==
  { <<>>, <<5, 5, 2, 5>>, <<0, 0, 0>>, <<4, 4, 3, 3, 4>>,
    <<3, 3, 3, 4, 4, 4, 4>>, <<3, 5, 3, 3, 4, 4, 4, 4, 0, 0>> }

MCDefaultBook == [b \in Bytes |-> IF b \in 0..2 THEN 2 ELSE IF b \in 3..4 THEN 3 ELSE 0]
=============================================================================
