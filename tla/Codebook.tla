------------------------------ MODULE Codebook ------------------------------
(***************************************************************************)
(* A Huffman codebook (huffman.rs): one code length per byte value, 0 for  *)
(* a byte without a code; its validation and its file form, one byte per   *)
(* length.                                                                 *)
(***************************************************************************)
EXTENDS Powers, Sequences, FiniteSets, SequencesExt

CONSTANTS
  NumBytes,       (* number of byte values (256)                           *)
  Base85,         (* BASE85_ALPHABET, as byte values                       *)
  MaxCodeLength   (* MAX_CODE_LENGTH (64), which is also the width of the  *)
                  (* u64 a code is kept in                                 *)

ASSUME CodebookBounds ==
  /\ NumBytes \in Nat \ {0}
  /\ Base85 \subseteq 0..(NumBytes - 1)
  /\ MaxCodeLength \in 1..(NumBytes - 1)

Bytes == 0..(NumBytes - 1)

(* A code length is a byte, too. *)
Codebooks == [Bytes -> Bytes]

NoCodes == [b \in Bytes |-> 0]

UsedBytes(book) == {b \in Bytes : book[b] > 0}

-----------------------------------------------------------------------------
(* validate_lengths *)

KraftSum(book) ==
  LET share(b) == Pow2[MaxCodeLength - book[b]]
  IN  MapThenSumSet(share, UsedBytes(book))

(* bug: a shift by one less lets twice the code space be handed out *)
ValidLengthsLoose(book) ==
  /\ \A b \in Bytes : book[b] <= MaxCodeLength
  /\ KraftSum(book) <= Pow2[MaxCodeLength + 1]

ValidLengths(book) ==
  /\ \A b \in Bytes : book[b] <= MaxCodeLength
  /\ KraftSum(book) <= Pow2[MaxCodeLength]

-----------------------------------------------------------------------------
(* serialize_codebook, deserialize_codebook *)

Serialize(book) == [i \in 1..NumBytes |-> book[i - 1]]

Refusal == [ok |-> FALSE, book |-> NoCodes]

(* bug: only an empty file is too short, others are filled up with zeros *)
DeserializeFilled(file) ==
  LET book == [b \in Bytes |-> IF b < Len(file) THEN file[b + 1] ELSE 0]
  IN  IF file # <<>> /\ ValidLengths(book)
      THEN [ok |-> TRUE, book |-> book] ELSE Refusal

Deserialize(file) ==
  LET book == [b \in Bytes |-> file[b + 1]]
  IN  IF Len(file) = NumBytes /\ ValidLengths(book)
      THEN [ok |-> TRUE, book |-> book] ELSE Refusal

=============================================================================
