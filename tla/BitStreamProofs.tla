-------------------------- MODULE BitStreamProofs --------------------------
(***************************************************************************)
(* The session of BitStream, for every set of calls whose values are       *)
(* words, every width and every bound: what is written in any mixture of   *)
(* calls, some of them refused, is read back value by value, and only the  *)
(* padding is left.                                                        *)
(***************************************************************************)
EXTENDS BitStream, BitFieldsProofs

-----------------------------------------------------------------------------
(* One call. *)

(* The bits of s behind position p hold call c. *)
CallAt(s, p, c) ==
  /\ c.kind = "bits" => c.n <= WordBits /\ c.v < Pow2[c.n] /\ FieldAt(s, p, c.v, c.n)
  /\ c.kind = "varint" => VarintAt(s, p, c.v)
  /\ c.kind = "count" => CountAt(s, p, c.v)

CallBits(c) ==
  IF c.kind = "bits" THEN c.n
  ELSE IF c.kind = "varint" THEN VarintBits(c.v) ELSE CountBits(c.v)

LEMMA CallType ==
  ASSUME NEW c \in Calls
  PROVE  /\ c.kind \in {"bits", "varint", "count"} /\ c.n \in Nat
         /\ c.v \in Nat /\ c.v < Pow2[WordBits]
<1>1. c \in [kind : {"bits", "varint", "count"}, v : 0..(Pow2[WordBits] - 1), n : Nat]
  BY CallsFitTheWord
<1>2. Pow2[WordBits] \in Nat
  BY Widths, Pow2Type
<1> QED
  BY <1>1, <1>2

LEMMA CallStays ==
  ASSUME NEW c \in Calls, NEW s \in Seq(Bit), NEW t \in Seq(Bit), Extends(t, s),
         NEW p \in Nat, CallAt(s, p, c)
  PROVE  CallAt(t, p, c)
<1>1. CASE c.kind = "bits"
  BY <1>1, CallType, FieldStays DEF CallAt
<1>2. CASE c.kind = "varint"
  BY <1>2, CallType, VarintStays DEF CallAt
<1>3. CASE c.kind = "count"
  BY <1>3, CallType, CountStays DEF CallAt
<1> QED
  BY <1>1, <1>2, <1>3, CallType

(* A call appends all of itself or nothing. *)
LEMMA WriteAllOrNothing ==
  ASSUME NEW c \in Calls, out \in Seq(Bit)
  PROVE  \/ Write(c) = [ok |-> FALSE, bits |-> out]
         \/ \E t \in Seq(Bit) :
              /\ Write(c) = [ok |-> TRUE, bits |-> t]
              /\ Len(t) = Len(out) + CallBits(c) /\ Extends(t, out) /\ CallAt(t, Len(out), c)
<1> DEFINE w == [ok |-> TRUE, bits |-> out]
<1>1. CASE c.kind = "bits"
  <2>1. Write(c) = WriteBits(w, c.v, c.n)
    BY <1>1 DEF Write
  <2>2. c.v \in Nat /\ c.n \in Nat
    BY CallType
  <2>3. CASE c.n <= WordBits /\ c.v < Pow2[c.n]
    <3>1. PICK t \in Seq(Bit) :
            /\ WriteBits(w, c.v, c.n) = [ok |-> TRUE, bits |-> t]
            /\ Len(t) = Len(out) + c.n /\ Extends(t, out) /\ FieldAt(t, Len(out), c.v, c.n)
      BY <2>2, <2>3, WriteBitsAppends
    <3> QED
      BY <1>1, <2>1, <2>3, <3>1 DEF CallAt, CallBits
  <2>4. CASE ~(c.n <= WordBits /\ c.v < Pow2[c.n])
    BY <2>1, <2>2, <2>4, WriteBitsRefuses
  <2> QED
    BY <2>3, <2>4
<1>2. CASE c.kind = "varint"
  <2>1. Write(c) = WriteVarint(w, c.v)
    BY <1>2 DEF Write
  <2>2. PICK t \in Seq(Bit) :
          /\ WriteVarint(w, c.v) = [ok |-> TRUE, bits |-> t]
          /\ Len(t) = Len(out) + VarintBits(c.v) /\ Extends(t, out) /\ VarintAt(t, Len(out), c.v)
    BY CallType, WriteVarintAppends
  <2> QED
    BY <1>2, <2>1, <2>2 DEF CallAt, CallBits
<1>3. CASE c.kind = "count"
  <2>1. Write(c) = WriteCompactCount(w, c.v)
    BY <1>3 DEF Write
  <2>2. PICK t \in Seq(Bit) :
          /\ WriteCompactCount(w, c.v) = [ok |-> TRUE, bits |-> t]
          /\ Len(t) = Len(out) + CountBits(c.v) /\ Extends(t, out) /\ CountAt(t, Len(out), c.v)
    BY CallType, WriteCompactCountAppends
  <2> QED
    BY <1>3, <2>1, <2>2 DEF CallAt, CallBits
<1> QED
  BY <1>1, <1>2, <1>3, CallType

(* A read stays inside the stream, whatever the bits. *)
LEMMA ReadStaysInside ==
  ASSUME NEW c \in Calls, bits \in Seq(Bit), NEW p \in 0..Len(bits)
  PROVE  /\ Read(c, ReaderAt(p)).pos \in 0..Len(bits)
         /\ Read(c, ReaderAt(p)).ok => Read(c, ReaderAt(p)).val \in Int
<1> DEFINE r == ReaderAt(p)
<1>1. Inside(r, bits)
  BY ReaderAtInside
<1> HIDE DEF r
<1>2. CASE c.kind = "bits"
  <2>1. Read(c, r) = ReadBits(bits, r, c.n)
    BY <1>2 DEF Read
  <2>2. Inside(ReadBits(bits, r, c.n), bits)
        /\ ReadBits(bits, r, c.n).val \in 0..(Pow2[c.n] - 1)
    BY <1>1, CallType, ReadBitsInside
  <2> QED
    BY <2>1, <2>2 DEF Inside, r
<1>3. CASE c.kind = "varint"
  <2>1. Read(c, r) = ReadVarint(bits, r)
    BY <1>3 DEF Read
  <2>2. /\ Inside(ReadVarint(bits, r), bits)
        /\ ReadVarint(bits, r).ok => ReadVarint(bits, r).val \in 0..(Pow2[WordBits] - 1)
    BY <1>1, ReadVarintInside
  <2> QED
    BY <2>1, <2>2 DEF Inside, r
<1>4. CASE c.kind = "count"
  <2>1. Read(c, r) = ReadCompactCount(bits, r)
    BY <1>4 DEF Read
  <2>2. /\ Inside(ReadCompactCount(bits, r), bits)
        /\ ReadCompactCount(bits, r).ok
             => ReadCompactCount(bits, r).val \in 0..(Pow2[WordBits] - 1)
    BY <1>1, ReadCompactCountInside
  <2> QED
    BY <2>1, <2>2 DEF Inside, r
<1> QED
  BY <1>2, <1>3, <1>4, CallType

(* The call that wrote the bits at p is read back from them. *)
LEMMA ReadReadsCall ==
  ASSUME NEW c \in Calls, bits \in Seq(Bit), NEW p \in 0..Len(bits), CallAt(bits, p, c)
  PROVE  Read(c, ReaderAt(p)) = [ok |-> TRUE, pos |-> p + CallBits(c), val |-> c.v]
<1> DEFINE r == ReaderAt(p)
<1>1. Inside(r, bits) /\ r.ok = TRUE /\ r.pos = p /\ p \in Nat
  <2>1. p \in Nat
    BY LenProperties
  <2> QED
    BY <2>1, ReaderAtInside
<1> HIDE DEF r
<1>2. CASE c.kind = "bits"
  <2>1. Read(c, r) = ReadBits(bits, r, c.n)
    BY <1>2 DEF Read
  <2>2. c.n <= WordBits /\ c.v < Pow2[c.n] /\ FieldAt(bits, r.pos, c.v, c.n)
    BY <1>1, <1>2 DEF CallAt
  <2>3. ReadBits(bits, r, c.n) = [ok |-> TRUE, pos |-> r.pos + c.n, val |-> c.v]
    BY <1>1, <2>2, CallType, ReadBitsReadsField
  <2> QED
    BY <1>1, <1>2, <2>1, <2>3 DEF CallBits, r
<1>3. CASE c.kind = "varint"
  <2>1. Read(c, r) = ReadVarint(bits, r)
    BY <1>3 DEF Read
  <2>2. VarintAt(bits, r.pos, c.v)
    BY <1>1, <1>3 DEF CallAt
  <2>3. ReadVarint(bits, r) = [ok |-> TRUE, pos |-> r.pos + VarintBits(c.v), val |-> c.v]
    BY <1>1, <2>2, CallType, ReadVarintReadsGroups
  <2> QED
    BY <1>1, <1>3, <2>1, <2>3 DEF CallBits, r
<1>4. CASE c.kind = "count"
  <2>1. Read(c, r) = ReadCompactCount(bits, r)
    BY <1>4 DEF Read
  <2>2. CountAt(bits, r.pos, c.v)
    BY <1>1, <1>4 DEF CallAt
  <2>3. ReadCompactCount(bits, r) = [ok |-> TRUE, pos |-> r.pos + CountBits(c.v), val |-> c.v]
    BY <1>1, <2>2, CallType, ReadCompactCountReads
  <2> QED
    BY <1>1, <1>4, <2>1, <2>3 DEF CallBits, r
<1> QED
  BY <1>2, <1>3, <1>4, CallType

-----------------------------------------------------------------------------
(* The session. *)

(* TypeOK does not say where the reader stands before Seal hands it bits.  *)
TypeInv == TypeOK /\ (phase # "reading" => pos = 0)

(* Every step keeps the types: above all, no read leaves the stream. *)
LEMMA TypeKept ==
  TypeInv /\ [Next]_vars => TypeInv'
<1>1. SUFFICES ASSUME TypeOK, phase # "reading" => pos = 0, [Next]_vars PROVE TypeInv'
  BY DEF TypeInv
<1>2. CASE CallWrite
  <2>1. PICK c \in Calls : /\ out' = Write(c).bits
                           /\ done' = IF Write(c).ok THEN Append(done, c) ELSE done
    BY <1>2 DEF CallWrite
  <2>2. Write(c).bits \in Seq(Bit)
    BY <1>1, WriteAllOrNothing DEF TypeOK
  <2>3. Append(done, c) \in Seq(Calls)
    BY <1>1, AppendProperties DEF TypeOK
  <2> QED
    BY <1>1, <1>2, <2>1, <2>2, <2>3 DEF TypeInv, TypeOK, CallWrite
<1>3. CASE Seal
  <2>1. bits' \in Seq(Bit)
    BY <1>1, <1>3, IntoBytesPads DEF TypeOK, Seal
  <2>2. pos' \in 0..Len(bits')
    BY <1>1, <1>3, <2>1, LenProperties DEF TypeOK, Seal
  <2> QED
    BY <1>1, <1>3, <2>1, <2>2 DEF TypeInv, TypeOK, Seal
<1>4. CASE CallRead
  <2> DEFINE c == done[Len(got) + 1]
             r == Read(c, ReaderAt(pos))
             x == IF r.ok THEN r.val ELSE -1
  <2>1. c \in Calls
    BY <1>1, <1>4, ElementOfSeq, LenProperties DEF TypeOK, CallRead
  <2>2. pos' = r.pos /\ got' = Append(got, x)
    BY <1>4 DEF CallRead
  <2>3. r.pos \in 0..Len(bits) /\ (r.ok => r.val \in Int)
    BY <1>1, <2>1, ReadStaysInside DEF TypeOK
  <2> HIDE DEF r
  <2>4. x \in Int
    BY <2>3
  <2>5. Append(got, x) \in Seq(Int)
    BY <1>1, <2>4, AppendProperties DEF TypeOK
  <2> QED
    BY <1>1, <1>4, <2>2, <2>3, <2>5 DEF TypeInv, TypeOK, CallRead
<1>5. CASE ForeignBit
  <2>1. PICK b \in Bit : bits' = Append(bits, b)
    BY <1>5 DEF ForeignBit
  <2>2. bits' \in Seq(Bit) /\ Len(bits') = Len(bits) + 1 /\ Len(bits) \in Nat
    BY <1>1, <2>1, AppendProperties, LenProperties DEF TypeOK
  <2> QED
    BY <1>1, <1>5, <2>2 DEF TypeInv, TypeOK, ForeignBit
<1>6. CASE UNCHANGED vars
  BY <1>1, <1>6 DEF TypeInv, TypeOK, vars
<1> QED
  BY <1>1, <1>2, <1>3, <1>4, <1>5, <1>6 DEF Next

(* The values, the streams and the reader's position keep their types; the *)
(* reader never stands outside the bits it was given.                      *)
THEOREM TypeCorrect == Spec => []TypeOK
<1>1. Init => TypeInv
  BY DEF Init, TypeInv, TypeOK
<1>2. TypeInv => TypeOK
  BY DEF TypeInv
<1> QED
  BY <1>1, <1>2, TypeKept, PTL DEF Spec

(* A call write_bits refuses leaves the stream as it was, and no other     *)
(* call of a u64 is refused: no error of the writer leaves half a value    *)
(* behind.                                                                 *)
THEOREM RefusalsAddNothing == Spec => RefusedCallAddsNothing
<1>1. TypeOK /\ [Next]_vars => [done' = done /\ phase' = phase => out' = out]_vars
  <2>1. SUFFICES ASSUME TypeOK, [Next]_vars, done' = done, phase' = phase, ~(UNCHANGED vars)
                 PROVE  out' = out
    BY DEF vars
  <2>2. CASE CallWrite
    <3>1. PICK c \in Calls : /\ out' = Write(c).bits
                             /\ done' = IF Write(c).ok THEN Append(done, c) ELSE done
      BY <2>2 DEF CallWrite
    <3>2. ~Write(c).ok
      <4>1. Len(Append(done, c)) # Len(done)
        BY <2>1, AppendProperties, LenProperties DEF TypeOK
      <4> QED
        BY <2>1, <3>1, <4>1
    <3> QED
      BY <2>1, <3>1, <3>2, WriteAllOrNothing DEF TypeOK
  <2> QED
    BY <2>1, <2>2 DEF Next, Seal, CallRead, ForeignBit, vars
<1> QED
  BY <1>1, TypeCorrect, PTL DEF Spec, RefusedCallAddsNothing

(* Where each accepted call starts in the writer's bits. *)
Starts(starts) ==
  /\ starts \in [1..(Len(done) + 1) -> Nat]
  /\ starts[1] = 0 /\ starts[Len(done) + 1] = Len(out)
  /\ \A i \in 1..Len(done) : /\ CallAt(out, starts[i], done[i])
                             /\ starts[i + 1] = starts[i] + CallBits(done[i])
  /\ pos = starts[Len(got) + 1]

(* The calls lie end to end in the writer's bits, the reader stands where  *)
(* the next one starts, and has returned what the earlier ones hold.       *)
SessionInv ==
  /\ TypeInv
  /\ phase = "foreign" => done = <<>>
  /\ phase # "reading" => got = <<>>
  /\ phase = "reading" => bits = IntoBytes([ok |-> TRUE, bits |-> out])
  /\ Len(got) <= Len(done)
  /\ ReadsWhatWasWritten
  /\ \E starts : Starts(starts)

LEMMA SessionStarts == Init => SessionInv
<1>1. SUFFICES ASSUME Init PROVE SessionInv
  OBVIOUS
<1>2. Starts([i \in 1..1 |-> 0])
  BY <1>1 DEF Init, Starts
<1> QED
  BY <1>1, <1>2 DEF Init, SessionInv, TypeInv, TypeOK, ReadsWhatWasWritten

LEMMA SessionKept ==
  SessionInv /\ [Next]_vars => SessionInv'
<1>1. SUFFICES ASSUME SessionInv, [Next]_vars PROVE SessionInv'
  OBVIOUS
<1>2. TypeOK /\ TypeInv'
  BY <1>1, TypeKept DEF SessionInv, TypeInv
<1>3. /\ Len(done) \in Nat /\ Len(got) \in Nat /\ Len(out) \in Nat /\ Len(bits) \in Nat
      /\ out \in Seq(Bit) /\ bits \in Seq(Bit)
      /\ \A i \in 1..Len(done) : done[i] \in Calls
  BY <1>2, LenProperties, ElementOfSeq DEF TypeOK
<1>4. PICK starts : Starts(starts)
  BY <1>1 DEF SessionInv
<1>5. CASE CallWrite
  <2>1. PICK c \in Calls : /\ out' = Write(c).bits
                           /\ done' = IF Write(c).ok THEN Append(done, c) ELSE done
    BY <1>5 DEF CallWrite
  <2>2. phase = "writing" /\ phase' = phase /\ pos' = pos /\ got' = got /\ bits' = bits
    BY <1>5 DEF CallWrite
  <2>3. got = <<>> /\ Len(got) = 0
    BY <1>1, <2>2 DEF SessionInv
  <2>4. CASE ~Write(c).ok
    <3>1. out' = out /\ done' = done
      BY <1>3, <2>1, <2>4, WriteAllOrNothing
    <3> QED
      BY <1>1, <1>2, <2>2, <3>1 DEF SessionInv, Starts, ReadsWhatWasWritten
  <2>5. CASE Write(c).ok
    <3>1. PICK t \in Seq(Bit) : /\ Write(c) = [ok |-> TRUE, bits |-> t]
                                /\ Len(t) = Len(out) + CallBits(c)
                                /\ Extends(t, out) /\ CallAt(t, Len(out), c)
      BY <1>3, <2>5, WriteAllOrNothing
    <3>2. out' = t /\ done' = Append(done, c)
      BY <2>1, <3>1
    <3> DEFINE N == Len(done)
               longer == [i \in 1..(N + 2) |-> IF i <= N + 1 THEN starts[i] ELSE Len(t)]
    <3>3. /\ Len(done') = N + 1 /\ done'[N + 1] = c
          /\ \A i \in 1..N : done'[i] = done[i]
      BY <1>2, <3>2, AppendProperties DEF TypeOK
    <3>4. Len(t) \in Nat
      BY <3>1, LenProperties
    <3> HIDE DEF N
    <3>5. N \in Nat /\ starts \in [1..(N + 1) -> Nat] /\ starts[1] = 0 /\ starts[N + 1] = Len(out)
          /\ pos = starts[1]
          /\ \A i \in 1..N : /\ CallAt(out, starts[i], done[i])
                             /\ starts[i + 1] = starts[i] + CallBits(done[i])
      BY <1>3, <1>4, <2>3 DEF Starts, N
    <3>6. PICK new : /\ new \in [1..(N + 2) -> Nat] /\ new[1] = 0 /\ new[N + 2] = Len(t)
                     /\ \A i \in 1..(N + 1) : new[i] = starts[i]
      <4>1. /\ longer \in [1..(N + 2) -> Nat] /\ longer[1] = 0 /\ longer[N + 2] = Len(t)
            /\ \A i \in 1..(N + 1) : longer[i] = starts[i]
        BY <3>4, <3>5
      <4> HIDE DEF longer
      <4> QED
        BY <4>1
    <3>7. ASSUME NEW i \in 1..(N + 1)
          PROVE  CallAt(t, new[i], done'[i]) /\ new[i + 1] = new[i] + CallBits(done'[i])
      <4>1. CASE i = N + 1
        <5>1. new[i] = Len(out) /\ done'[i] = c /\ i + 1 = N + 2
          BY <3>3, <3>5, <3>6, <4>1
        <5> QED
          BY <3>1, <3>6, <5>1
      <4>2. CASE i # N + 1
        <5>1. i \in 1..N /\ i + 1 \in 1..(N + 1)
          BY <3>5, <4>2
        <5>2. new[i] = starts[i] /\ new[i + 1] = starts[i + 1] /\ done'[i] = done[i]
              /\ starts[i] \in Nat
          BY <3>3, <3>5, <3>6, <5>1
        <5>3. CallAt(out, starts[i], done[i]) /\ done[i] \in Calls
          BY <1>3, <3>5, <5>1 DEF N
        <5>4. CallAt(t, starts[i], done[i])
          BY <1>3, <3>1, <5>2, <5>3, CallStays
        <5> QED
          BY <3>5, <5>1, <5>2, <5>4
      <4> QED
        BY <4>1, <4>2
    <3>8. Starts(new)'
      <4>1. N + 1 + 1 = N + 2
        BY <3>5
      <4> QED
        BY <2>2, <2>3, <3>2, <3>3, <3>5, <3>6, <3>7, <4>1 DEF Starts, N
    <3>9. Len(got') <= Len(done') /\ ReadsWhatWasWritten'
      BY <1>3, <2>2, <2>3, <3>3, <3>5 DEF ReadsWhatWasWritten
    <3> QED
      BY <1>2, <2>2, <2>3, <3>8, <3>9 DEF SessionInv
  <2> QED
    BY <2>4, <2>5
<1>6. CASE Seal
  <2>1. /\ phase' = "reading" /\ phase = "writing" /\ out' = out /\ done' = done
        /\ pos' = pos /\ got' = got /\ bits' = IntoBytes([ok |-> TRUE, bits |-> out])
    BY <1>6 DEF Seal
  <2>2. Starts(starts)' /\ ReadsWhatWasWritten'
    BY <1>1, <1>4, <2>1 DEF SessionInv, Starts, ReadsWhatWasWritten
  <2> QED
    BY <1>1, <1>2, <2>1, <2>2 DEF SessionInv
<1>7. CASE CallRead
  <2> DEFINE k == Len(got) + 1
             c == done[k]
             r == Read(c, ReaderAt(pos))
  <2>1. /\ phase = "reading" /\ phase' = phase /\ out' = out /\ done' = done /\ bits' = bits
        /\ pos' = r.pos /\ got' = Append(got, IF r.ok THEN r.val ELSE -1)
        /\ Len(got) < Len(done)
    BY <1>7 DEF CallRead
  <2>2. k \in 1..Len(done) /\ c \in Calls
    BY <1>3, <2>1
  <2>3. pos = starts[k] /\ CallAt(out, pos, c) /\ starts[k + 1] = pos + CallBits(c)
        /\ pos \in 0..Len(bits)
    BY <1>2, <1>4, <2>2 DEF Starts, TypeOK
  <2>4. CallAt(bits, pos, c)
    <3>1. Extends(bits, out)
      BY <1>1, <1>3, <2>1, IntoBytesPads DEF SessionInv
    <3>2. pos \in Nat
      BY <1>3, <2>3
    <3> HIDE DEF c
    <3> QED
      BY <1>3, <2>2, <2>3, <3>1, <3>2, CallStays
  <2> HIDE DEF c
  <2>5. r = [ok |-> TRUE, pos |-> pos + CallBits(c), val |-> c.v]
    BY <1>3, <2>2, <2>3, <2>4, ReadReadsCall
  <2> HIDE DEF r
  <2>6. pos' = starts[k + 1] /\ got' = Append(got, c.v)
    BY <2>1, <2>3, <2>5
  <2>7. Len(got') = k /\ got'[k] = c.v /\ \A i \in 1..Len(got) : got'[i] = got[i]
    BY <1>2, <2>6, AppendProperties DEF TypeOK
  <2>8. Starts(starts)'
    BY <1>4, <2>1, <2>6, <2>7 DEF Starts
  <2>9. ReadsWhatWasWritten'
    <3>1. ASSUME NEW i \in 1..k PROVE got'[i] = done[i].v
      <4>1. CASE i = k
        BY <2>7, <4>1 DEF c
      <4>2. CASE i # k
        <5>1. i \in 1..Len(got)
          BY <1>3, <4>2
        <5> QED
          BY <1>1, <2>7, <5>1 DEF SessionInv, ReadsWhatWasWritten
      <4> QED
        BY <4>1, <4>2
    <3> QED
      BY <2>1, <2>7, <3>1 DEF ReadsWhatWasWritten
  <2>10. Len(got') <= Len(done')
    BY <1>3, <2>1, <2>7
  <2> QED
    BY <1>1, <1>2, <2>1, <2>8, <2>9, <2>10 DEF SessionInv
<1>8. CASE ForeignBit
  <2>1. phase = "foreign" /\ phase' = phase /\ out' = out /\ done' = done
        /\ pos' = pos /\ got' = got
    BY <1>8 DEF ForeignBit
  <2>2. Starts(starts)' /\ ReadsWhatWasWritten'
    BY <1>1, <1>4, <2>1 DEF SessionInv, Starts, ReadsWhatWasWritten
  <2> QED
    BY <1>1, <1>2, <2>1, <2>2 DEF SessionInv
<1>9. CASE UNCHANGED vars
  BY <1>1, <1>2, <1>9 DEF SessionInv, Starts, ReadsWhatWasWritten, vars
<1> QED
  BY <1>1, <1>5, <1>6, <1>7, <1>8, <1>9 DEF Next

LEMMA SessionAlways == Spec => []SessionInv
BY SessionStarts, SessionKept, PTL DEF Spec

(* Whatever the mixture of calls, and whichever were refused in between,   *)
(* the i-th value read is the i-th value written.                          *)
THEOREM WrittenIsRead == Spec => []ReadsWhatWasWritten
<1>1. SessionInv => ReadsWhatWasWritten
  BY DEF SessionInv
<1> QED
  BY <1>1, SessionAlways, PTL

(* Behind the last value there is less than a byte, all of it zero.        *)
THEOREM PaddingIsLeft == Spec => []OnlyPaddingLeft
<1>1. SessionInv => OnlyPaddingLeft
  <2>1. SUFFICES ASSUME SessionInv, phase = "reading", Len(got) = Len(done)
                 PROVE  /\ Len(bits) - pos < ByteBits
                        /\ Len(bits) % ByteBits = 0
                        /\ RestIsZero(bits, pos)
    BY DEF OnlyPaddingLeft
  <2>2. pos = Len(out)
    BY <2>1 DEF SessionInv, Starts
  <2>3. out \in Seq(Bit) /\ bits = IntoBytes([ok |-> TRUE, bits |-> out])
    BY <2>1 DEF SessionInv, TypeInv, TypeOK
  <2> QED
    BY <2>2, <2>3, IntoBytesPads
<1> QED
  BY <1>1, SessionAlways, PTL

(* Bytes from elsewhere: a varint that is accepted is a u64, a count a     *)
(* usize, and neither reads beyond the end.                                *)
THEOREM ForeignCountsFit == Spec => []ForeignCountsFitTheWord
<1>1. TypeOK => ForeignCountsFitTheWord
  <2>1. SUFFICES ASSUME TypeOK PROVE ForeignCountsFitTheWord
    OBVIOUS
  <2> DEFINE r == ReaderAt(0)
             v == ReadVarint(bits, r)
             c == ReadCompactCount(bits, r)
  <2>2. bits \in Seq(Bit) /\ Inside(r, bits)
    <3>1. bits \in Seq(Bit) /\ 0 \in 0..Len(bits)
      BY <2>1, LenProperties DEF TypeOK
    <3> QED
      BY <3>1, ReaderAtInside
  <2> HIDE DEF r
  <2>3. Inside(v, bits) /\ (v.ok => v.val \in 0..(Pow2[WordBits] - 1))
    BY <2>2, ReadVarintInside
  <2>4. Inside(c, bits) /\ (c.ok => c.val \in 0..(Pow2[WordBits] - 1))
    BY <2>2, ReadCompactCountInside
  <2>5. v.pos <= Len(bits) /\ c.pos <= Len(bits)
    BY <2>2, <2>3, <2>4, LenProperties DEF Inside
  <2> QED
    BY <2>3, <2>4, <2>5 DEF ForeignCountsFitTheWord, r
<1> QED
  BY <1>1, TypeCorrect, PTL

(* The groups write_varint chooses are the fewest: no varint the reader    *)
(* accepts is shorter than the writer's own of the same value.             *)
THEOREM ShortestVarint == Spec => []WriterVarintIsShortest
<1>1. TypeOK => WriterVarintIsShortest
  <2> DEFINE r == ReaderAt(0)
             v == ReadVarint(bits, r)
             w == WriteVarint(NewWriter, v.val)
  <2>1. SUFFICES ASSUME TypeOK, v.ok PROVE w.ok /\ Len(w.bits) <= v.pos
    BY DEF WriterVarintIsShortest
  <2>2. bits \in Seq(Bit) /\ Inside(r, bits) /\ r.pos = 0
    <3>1. bits \in Seq(Bit) /\ 0 \in 0..Len(bits)
      BY <2>1, LenProperties DEF TypeOK
    <3> QED
      BY <3>1, ReaderAtInside
  <2> HIDE DEF r
  <2>3. v.val \in 0..(Pow2[WordBits] - 1)
        /\ \E k \in Nat \ {0} : v.val < Pow2[GroupBits * k] /\ v.pos = r.pos + (GroupBits + 1) * k
    BY <2>1, <2>2, ReadVarintInside
  <2>4. PICK k \in Nat \ {0} : v.val < Pow2[GroupBits * k] /\ v.pos = r.pos + (GroupBits + 1) * k
    BY <2>3
  <2> DEFINE x == v.val
  <2>5. x \in Nat /\ x < Pow2[WordBits]
    BY <2>3, Pow2Type, Widths
  <2>6. NewWriter = [ok |-> TRUE, bits |-> <<>>] /\ <<>> \in Seq(Bit) /\ Len(<<>>) = 0
    BY DEF NewWriter
  <2> HIDE DEF v
  <2>7. PICK t \in Seq(Bit) : /\ w = [ok |-> TRUE, bits |-> t]
                              /\ Len(t) = Len(<<>>) + VarintBits(x)
    BY <2>5, <2>6, WriteVarintAppends
  <2>8. VarintGroups(x) \in Nat /\ VarintGroups(x) <= k
    BY <2>4, <2>5, VarintGroupsLeast, Widths
  <2>9. \A a, b, g \in Nat : a <= b => g * a <= g * b /\ g * a \in Nat /\ g * b \in Nat
    OBVIOUS
  <2>10. (GroupBits + 1) * VarintGroups(x) <= (GroupBits + 1) * k
         /\ (GroupBits + 1) * VarintGroups(x) \in Nat /\ (GroupBits + 1) * k \in Nat
    BY <2>8, <2>9, Widths
  <2> HIDE DEF w, x
  <2> QED
    BY <2>2, <2>4, <2>6, <2>7, <2>10 DEF VarintBits
<1> QED
  BY <1>1, TypeCorrect, PTL

=============================================================================
