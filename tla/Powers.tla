------------------------------- MODULE Powers -------------------------------
(***************************************************************************)
(* Powers of two, 1 << n in the code, by doubling, and of the radices of   *)
(* the alphabets.  What is proved of bits, digits and code lengths rests on*)
(* this; `^` has no rules a prover could use.                              *)
(***************************************************************************)
EXTENDS Integers

Pow2[n \in Nat] == IF n = 0 THEN 1 ELSE 2 * Pow2[n - 1]

(* Those of another base, one multiplication after the other. *)
Power(b, n) == LET p[i \in 0..n] == IF i = 0 THEN 1 ELSE b * p[i - 1] IN p[n]

=============================================================================
