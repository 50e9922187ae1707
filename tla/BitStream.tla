----------------------------- MODULE BitStream -----------------------------
(***************************************************************************)
(* WriteBitStream and ReadBitStream (bitstream.rs) as their callers drive  *)
(* them: a session of write calls, some of which are refused; into_bytes;  *)
(* then a reader that either issues the matching read calls in the same    *)
(* order, or is handed bytes nobody wrote.                                 *)
(*                                                                         *)
(* Unlike the encoder, which gives up at the first refused write, a caller *)
(* of this API may go on after an error, and so does the session here.     *)
(***************************************************************************)
EXTENDS BitFields

CONSTANTS
  Calls,       (* the calls a session may make: records [kind, v, n]       *)
  MaxCalls,    (* bound: calls written in one session                      *)
  MaxForeign   (* bound: bits of a stream no writer of ours produced       *)

ASSUME SessionBounds == MaxCalls \in Nat /\ MaxForeign \in Nat

(* v is a u64, or a usize of the same width, and n a u32.                  *)
ASSUME CallsFitTheWord ==
  Calls \subseteq [kind : {"bits", "varint", "count"}, v : 0..(Pow2[WordBits] - 1), n : Nat]

VARIABLES
  phase,   (* "writing", "reading" our own bytes, or "foreign"             *)
  out,     (* the writer's bits                                            *)
  done,    (* the calls the writer accepted, oldest first                  *)
  bits,    (* the bytes handed to the reader, as bits                      *)
  pos,     (* bit_pos of the reader                                        *)
  got      (* values the reader returned, oldest first                     *)

vars == <<phase, out, done, bits, pos, got>>

(* The writer after one call; `out` is what an earlier call left. *)
Write(c) ==
  LET w == [ok |-> TRUE, bits |-> out]
  IN  CASE c.kind = "bits"   -> WriteBits(w, c.v, c.n)
        [] c.kind = "varint" -> WriteVarint(w, c.v)
        [] c.kind = "count"  -> WriteCompactCount(w, c.v)

Read(c, r) ==
  CASE c.kind = "bits"   -> ReadBits(bits, r, c.n)
    [] c.kind = "varint" -> ReadVarint(bits, r)
    [] c.kind = "count"  -> ReadCompactCount(bits, r)

Init ==
  /\ phase \in {"writing", "foreign"}
  /\ out = <<>> /\ done = <<>> /\ bits = <<>> /\ pos = 0 /\ got = <<>>

(* A call that fits appends; one that does not returns the error and must  *)
(* leave the stream fit for the next call.                                 *)
CallWrite ==
  /\ phase = "writing"
  /\ Len(done) < MaxCalls
  /\ \E c \in Calls :
       LET w == Write(c)
       IN  /\ out' = w.bits
           /\ done' = IF w.ok THEN Append(done, c) ELSE done
  /\ UNCHANGED <<phase, bits, pos, got>>

Seal ==
  /\ phase = "writing"
  /\ phase' = "reading"
  /\ bits' = IntoBytes([ok |-> TRUE, bits |-> out])
  /\ UNCHANGED <<out, done, pos, got>>

CallRead ==
  /\ phase = "reading"
  /\ Len(got) < Len(done)
  /\ LET r == Read(done[Len(got) + 1], ReaderAt(pos))
     IN  /\ pos' = r.pos
         /\ got' = Append(got, IF r.ok THEN r.val ELSE -1)
  /\ UNCHANGED <<phase, out, done, bits>>

(* Bytes from elsewhere reach the reader. *)
ForeignBit ==
  /\ phase = "foreign"
  /\ Len(bits) < MaxForeign
  /\ \E b \in Bit : bits' = Append(bits, b)
  /\ UNCHANGED <<phase, out, done, pos, got>>

Next == CallWrite \/ Seal \/ CallRead \/ ForeignBit

Spec == Init /\ [][Next]_vars

-----------------------------------------------------------------------------
TypeOK ==
  /\ phase \in {"writing", "reading", "foreign"}
  /\ out \in Seq(Bit)
  /\ done \in Seq(Calls)
  /\ bits \in Seq(Bit)
  /\ pos \in 0..Len(bits)
  /\ got \in Seq(Int)

(* Reading back in order returns exactly the values written, however the   *)
(* calls were mixed and whichever of them were refused in between: fields  *)
(* carry no delimiter, so one wrong width would shift all that follow.     *)
ReadsWhatWasWritten == \A i \in 1..Len(got) : got[i] = done[i].v

(* After the last field only the padding of into_bytes is left: less than  *)
(* a byte, all of it zero, which is what decode_bits checks before it      *)
(* accepts a payload.                                                      *)
OnlyPaddingLeft ==
  phase = "reading" /\ Len(got) = Len(done) =>
    /\ Len(bits) - pos < ByteBits
    /\ Len(bits) % ByteBits = 0
    /\ RestIsZero(bits, pos)

(* A refused call adds nothing: the stream holds the accepted calls only.  *)
(* (write_bits refuses before it writes, write_varint counts its groups    *)
(* before the first of them.)                                              *)
RefusedCallAddsNothing == [][done' = done /\ phase' = phase => out' = out]_vars

(* Whatever bytes it is given, read_varint returns a value that fits u64   *)
(* (the shifted last group never loses bits) and read_compact_count one    *)
(* that fits usize; both stay inside the stream.                           *)
ForeignCountsFitTheWord ==
  LET v == ReadVarint(bits, ReaderAt(0))
      c == ReadCompactCount(bits, ReaderAt(0))
  IN  phase = "foreign" =>
        /\ v.ok => v.val \in 0..(Pow2[WordBits] - 1) /\ v.pos <= Len(bits)
        /\ c.ok => c.val \in 0..(Pow2[WordBits] - 1) /\ c.pos <= Len(bits)

(* A varint the reader accepts is never shorter than the one the writer    *)
(* would produce: the writer's form is the shortest of a value.            *)
WriterVarintIsShortest ==
  LET v == ReadVarint(bits, ReaderAt(0))
  IN  phase = "foreign" /\ v.ok =>
        LET w == WriteVarint(NewWriter, v.val)
        IN  w.ok /\ Len(w.bits) <= v.pos

=============================================================================
