----------------------------- MODULE BitFields -----------------------------
(***************************************************************************)
(* The bit-level vocabulary of the urlz wire format: what one call of the  *)
(* bit writer appends, what one call of the bit reader takes, the varint   *)
(* and compact-count codes built on them, and the byte padding.            *)
(*                                                                         *)
(* A writer is a record [ok, bits]; the `?` after every write of the code  *)
(* is the sticky `ok`.  A reader position is a record [ok, pos, val]: pos  *)
(* bits of the stream are consumed and val is the last value read.  Again  *)
(* a failed read makes every later read of the chain fail.                 *)
(***************************************************************************)
EXTENDS Powers, Sequences

CONSTANTS
  WordBits,    (* width of u64 (64 in the code)                            *)
  GroupBits,   (* data bits of one varint group (7)                        *)
  MaxGroups,   (* VARINT_MAX_GROUPS (10)                                   *)
  NibbleBits,  (* width of a compact count's first field (4)               *)
  ByteBits     (* width of a byte (8)                                      *)

ASSUME BitWidths ==
  /\ WordBits \in Nat \ {0}
  /\ GroupBits \in Nat \ {0}
  /\ MaxGroups \in Nat \ {0}
  /\ NibbleBits \in Nat \ {0}
  /\ ByteBits \in Nat \ {0}
  /\ MaxGroups * GroupBits >= WordBits
  /\ (MaxGroups - 1) * GroupBits < WordBits
  /\ GroupBits < WordBits /\ NibbleBits <= WordBits

Bit == {0, 1}

(* bug: the bits above the one wanted are not masked off *)
NatToBitsUnmasked(v, n) == [i \in 1..n |-> v \div Pow2[n - i]]

NatToBits(v, n) == [i \in 1..n |-> (v \div Pow2[n - i]) % 2]

BitsToNat(b) ==
  LET val[i \in 0..Len(b)] == IF i = 0 THEN 0 ELSE 2 * val[i - 1] + b[i]
  IN  val[Len(b)]

-----------------------------------------------------------------------------
(* Writing. *)

NewWriter == [ok |-> TRUE, bits |-> <<>>]

WriteFail(w) == [w EXCEPT !.ok = FALSE]

(* bug: the value goes out before it is checked *)
WriteBitsThenCheck(w, v, n) ==
  [ok   |-> w.ok /\ n <= WordBits /\ v < Pow2[n],
   bits |-> w.bits \o NatToBits(v % Pow2[n], n)]

WriteBits(w, v, n) ==
  IF w.ok /\ n <= WordBits /\ v < Pow2[n]
  THEN [w EXCEPT !.bits = @ \o NatToBits(v, n)]
  ELSE WriteFail(w)

(* bug: a value of all ones takes one group too many *)
VarintGroupsLoose(v) ==
  CHOOSE n \in 1..(WordBits + 1) :
    /\ v + 1 < Pow2[GroupBits * n]
    /\ n > 1 => v + 1 >= Pow2[GroupBits * (n - 1)]

(* The number of groups of v: at least one, as many as v has digits in     *)
(* base 2^GroupBits.                                                       *)
VarintGroups(v) ==
  CHOOSE n \in 1..(WordBits + 1) :
    /\ v < Pow2[GroupBits * n]
    /\ n > 1 => v >= Pow2[GroupBits * (n - 1)]

WriteVarint(w, v) ==
  LET n == VarintGroups(v)
      group(i) == (v \div Pow2[GroupBits * (i - 1)]) % Pow2[GroupBits]
      cont(i) == IF i < n THEN Pow2[GroupBits] ELSE 0
      put[i \in 0..n] ==
        IF i = 0 THEN w
        ELSE WriteBits(put[i - 1], cont(i) + group(i), GroupBits + 1)
  IN  IF n > MaxGroups THEN WriteFail(w) ELSE put[n]

(* The first value that does not fit the nibble of a compact count. *)
CountEscape == Pow2[NibbleBits] - 1

(* bug: the escape value itself is written as a plain nibble *)
WriteCompactCountOffByOne(w, count) ==
  IF count <= CountEscape
  THEN WriteBits(w, count, NibbleBits)
  ELSE WriteVarint(WriteBits(w, CountEscape, NibbleBits), count - CountEscape)

WriteCompactCount(w, count) ==
  IF count < CountEscape
  THEN WriteBits(w, count, NibbleBits)
  ELSE WriteVarint(WriteBits(w, CountEscape, NibbleBits), count - CountEscape)

(* bug: an aligned stream gets a whole byte of padding *)
IntoBytesAlwaysPads(w) ==
  w.bits \o [i \in 1..(ByteBits - (Len(w.bits) % ByteBits)) |-> 0]

(* into_bytes: zero bits up to the next byte boundary. *)
IntoBytes(w) == w.bits \o [i \in 1..((0 - Len(w.bits)) % ByteBits) |-> 0]

-----------------------------------------------------------------------------
(* Reading. *)

ReaderAt(p) == [ok |-> TRUE, pos |-> p, val |-> 0]

ReadFail(r) == [ok |-> FALSE, pos |-> r.pos, val |-> 0]

(* bug: the bits missing at the end of the stream are taken to be zero *)
ReadBitsPastEnd(bits, r, n) ==
  IF r.ok /\ n <= WordBits
  THEN [ok  |-> TRUE,
        pos |-> r.pos + n,
        val |-> BitsToNat([i \in 1..n |-> IF r.pos + i <= Len(bits)
                                          THEN bits[r.pos + i] ELSE 0])]
  ELSE ReadFail(r)

ReadBits(bits, r, n) ==
  IF r.ok /\ n <= WordBits /\ r.pos + n <= Len(bits)
  THEN [ok  |-> TRUE,
        pos |-> r.pos + n,
        val |-> BitsToNat(SubSeq(bits, r.pos + 1, r.pos + n))]
  ELSE ReadFail(r)

(* bug: the last group may shift bits out of the word unnoticed *)
AddGroupUnchecked(prev, rd, shift) ==
  [rd   |-> rd,
   sum  |-> prev.sum + (rd.val % Pow2[GroupBits]) * Pow2[shift],
   more |-> rd.ok => rd.val \div Pow2[GroupBits] = 1]

(* One more group of a varint, read as rd: its data goes to `shift`, and a *)
(* group that does not fit the word is refused.  (A failed reader stays    *)
(* failed, with `more` set.)                                               *)
AddGroup(prev, rd, shift) ==
  LET data == rd.val % Pow2[GroupBits]
      fits == shift > 0 => data < Pow2[WordBits - shift]
  IN  [rd   |-> IF fits THEN rd ELSE ReadFail(rd),
       sum  |-> prev.sum + data * Pow2[shift],
       more |-> rd.ok => rd.val \div Pow2[GroupBits] = 1]

(* Behind the last group; an endless run of groups is refused. *)
EndVarint(last) ==
  IF last.more THEN ReadFail(last.rd) ELSE [last.rd EXCEPT !.val = last.sum]

ReadVarint(bits, r) ==
  LET group(prev, shift) ==
        IF ~prev.more THEN prev
        ELSE AddGroup(prev, ReadBits(bits, prev.rd, GroupBits + 1), shift)
      take[i \in 0..MaxGroups] ==
        IF i = 0 THEN [rd |-> r, sum |-> 0, more |-> TRUE]
        ELSE group(take[i - 1], GroupBits * (i - 1))
  IN  EndVarint(take[MaxGroups])

EscapedCount(extra) ==
  IF extra.ok /\ CountEscape + extra.val < Pow2[WordBits]
  THEN [extra EXCEPT !.val = CountEscape + @] ELSE ReadFail(extra)

ReadCompactCount(bits, r) ==
  LET count(nibble) ==
        IF nibble.ok /\ nibble.val < CountEscape THEN nibble
        ELSE EscapedCount(ReadVarint(bits, nibble))
  IN  count(ReadBits(bits, r, NibbleBits))

(* read_remaining_all_zero *)
RestIsZero(bits, p) == \A i \in (p + 1)..Len(bits) : bits[i] = 0

=============================================================================
