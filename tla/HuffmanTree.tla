---------------------------- MODULE HuffmanTree ----------------------------
(***************************************************************************)
(* build_codebook (huffman.rs): Huffman's tree, merge by merge, in an arena*)
(* of nodes with a min-heap over it, and the walk that turns the depths of *)
(* its leaves into code lengths.                                           *)
(*                                                                         *)
(* The heap is the set of its entries: a pop takes the least by frequency  *)
(* and id, and no two entries share an id.  Frequencies are u64 and their  *)
(* sums wrap, as they do in the release profile (overflow-checks = false). *)
(***************************************************************************)
EXTENDS Codebook

CONSTANTS
  FreqBits,      (* width of a frequency (64)                              *)
  Frequencies    (* the tables build_codebook is called on by a program    *)

FreqSpace == Pow2[FreqBits]

ASSUME FrequencyTables ==
  /\ FreqSpace \in Nat \ {0, 1}
  /\ Frequencies \subseteq [Bytes -> 0..(FreqSpace - 1)]

VARIABLES
  freqs,     (* `frequencies`                                              *)
  nodes,     (* the arena: frequency, id and children of each node         *)
  heap,      (* entries: frequency, id and place in the arena              *)
  nextId,    (* `next_id`                                                  *)
  stack,     (* the walk's stack: places in the arena with their depths    *)
  lengths,   (* the code lengths                                           *)
  tstep      (* program counter                                            *)

tvars == <<freqs, nodes, heap, nextId, stack, lengths, tstep>>

TreeSteps == {"idle", "merge", "walk", "built"}

TreeIdle ==
  /\ freqs = NoCodes /\ nodes = <<>> /\ heap = {} /\ nextId = NumBytes
  /\ stack = <<>> /\ lengths = NoCodes /\ tstep = "idle"

(* The bytes that occur, in ascending order. *)
Occurring(f) ==
  LET below[b \in 0..NumBytes] ==
        IF b = 0 THEN <<>>
        ELSE IF f[b - 1] > 0 THEN Append(below[b - 1], b - 1) ELSE below[b - 1]
  IN  below[NumBytes]

Entry(freq, id, index) == [freq |-> freq, id |-> id, index |-> index]
Leaf(freq, id) == [freq |-> freq, id |-> id, kids |-> <<>>]

(* The call: a leaf for every byte that occurs.  With less than two of them*)
(* the heap is emptied and the function returns at once.                   *)
BuildCall(f) ==
  LET used == Occurring(f)
      leaves == {Entry(f[used[i]], used[i], i) : i \in 1..Len(used)}
  IN  /\ tstep \in {"idle", "built"}
      /\ freqs' = f
      /\ nodes' = [i \in 1..Len(used) |-> Leaf(f[used[i]], used[i])]
      /\ heap' = IF Len(used) > 1 THEN leaves ELSE {}
      /\ lengths' = [b \in Bytes |-> IF Len(used) = 1 /\ f[b] > 0 THEN 1 ELSE 0]
      /\ tstep' = IF Len(used) > 1 THEN "merge" ELSE "built"
      /\ nextId' = NumBytes /\ stack' = <<>>

(* bug: of two equal frequencies the younger node comes first *)
BeforeYoungest(m, n) == m.freq < n.freq \/ (m.freq = n.freq /\ m.id > n.id)

(* bug: the max-heap of the library is used as it is *)
BeforeHeaviest(m, n) == m.freq > n.freq \/ (m.freq = n.freq /\ m.id < n.id)

(* Ord for HeapNode, turned round for the max-heap of the library *)
Before(m, n) == m.freq < n.freq \/ (m.freq = n.freq /\ m.id < n.id)

Least(entries) == CHOOSE m \in entries : \A n \in entries : m # n => Before(m, n)

(* bug: the second node is not taken off the heap's new top *)
MergeUnpopped ==
  LET left  == Least(heap)
      right == Least(heap \ {left})
      sum   == (left.freq + right.freq) % FreqSpace
  IN  /\ tstep = "merge" /\ Cardinality(heap) >= 2
      /\ nodes' = Append(nodes, [freq |-> sum, id |-> nextId,
                                 kids |-> <<left.index, left.index>>])
      /\ heap' = (heap \ {left, right}) \cup {Entry(sum, nextId, Len(nodes) + 1)}
      /\ nextId' = nextId + 1
      /\ UNCHANGED <<freqs, stack, lengths, tstep>>

Merge ==
  LET left  == Least(heap)
      right == Least(heap \ {left})
      sum   == (left.freq + right.freq) % FreqSpace
  IN  /\ tstep = "merge" /\ Cardinality(heap) >= 2
      /\ nodes' = Append(nodes, [freq |-> sum, id |-> nextId,
                                 kids |-> <<left.index, right.index>>])
      /\ heap' = (heap \ {left, right}) \cup {Entry(sum, nextId, Len(nodes) + 1)}
      /\ nextId' = nextId + 1
      /\ UNCHANGED <<freqs, stack, lengths, tstep>>

TakeRoot ==
  /\ tstep = "merge" /\ tstep' = "walk"
  /\ \E root \in heap : heap = {root} /\ stack' = << <<root.index, 0>> >>
  /\ heap' = {}
  /\ UNCHANGED <<freqs, nodes, nextId, lengths>>

(* bug: the second child is put one level too deep *)
VisitSkewed ==
  LET index == Last(stack)[1]
      depth == Last(stack)[2]
      node  == nodes[index]
  IN  /\ tstep = "walk" /\ stack # <<>>
      /\ IF node.kids = <<>>
         THEN stack' = Front(stack) /\ lengths' = [lengths EXCEPT ![node.id] = depth]
         ELSE /\ stack' = Front(stack) \o << <<node.kids[1], depth + 1>>,
                                             <<node.kids[2], depth + 2>> >>
              /\ UNCHANGED lengths
      /\ UNCHANGED <<freqs, nodes, heap, nextId, tstep>>

Visit ==
  LET index == Last(stack)[1]
      depth == Last(stack)[2]
      node  == nodes[index]
  IN  /\ tstep = "walk" /\ stack # <<>>
      /\ IF node.kids = <<>>
         THEN stack' = Front(stack) /\ lengths' = [lengths EXCEPT ![node.id] = depth]
         ELSE /\ stack' = Front(stack) \o << <<node.kids[1], depth + 1>>,
                                             <<node.kids[2], depth + 1>> >>
              /\ UNCHANGED lengths
      /\ UNCHANGED <<freqs, nodes, heap, nextId, tstep>>

WalkDone ==
  /\ tstep = "walk" /\ stack = <<>> /\ tstep' = "built"
  /\ UNCHANGED <<freqs, nodes, heap, nextId, stack, lengths>>

TreeNext == Merge \/ TakeRoot \/ Visit \/ WalkDone

-----------------------------------------------------------------------------
(* The leaves below each node of the arena, with their depths. *)
DepthsBelow ==
  LET leaf(id) == [b \in {id} |-> 0]
      deeper(d, e) == [b \in DOMAIN d \cup DOMAIN e |->
                         1 + (IF b \in DOMAIN d THEN d[b] ELSE e[b])]
      below[i \in 1..Len(nodes)] ==
        IF nodes[i].kids = <<>> THEN leaf(nodes[i].id)
        ELSE deeper(below[nodes[i].kids[1]], below[nodes[i].kids[2]])
  IN  below

(* The roots of the trees built so far: those in the heap, and when it has *)
(* been emptied the last node.                                             *)
Roots ==
  IF heap # {} THEN {e.index : e \in heap}
  ELSE IF nodes = <<>> THEN {} ELSE {Len(nodes)}

Trees == LET below == DepthsBelow IN {below[i] : i \in Roots}

Sum(f, bytes) == LET at(b) == f[b] IN MapThenSumSet(at, bytes)

Total == Sum(freqs, Bytes)

Overflows == Total >= FreqSpace

-----------------------------------------------------------------------------
TreeTypeOK ==
  /\ freqs \in [Bytes -> 0..(FreqSpace - 1)]
  /\ \A i \in 1..Len(nodes) :
       /\ nodes[i].freq \in 0..(FreqSpace - 1)
       /\ nodes[i].id \in 0..(2 * NumBytes - 2)
       /\ nodes[i].kids \in {<<>>} \cup ((1..(i - 1)) \X (1..(i - 1)))
  /\ \A e \in heap : e.index \in 1..Len(nodes)
  /\ nextId \in NumBytes..(2 * NumBytes - 1)
  /\ \A i \in 1..Len(stack) : stack[i] \in (1..Len(nodes)) \X Bytes
  /\ lengths \in Codebooks /\ tstep \in TreeSteps

(* The lengths returned use up the code space exactly, so the code the     *)
(* canonical construction makes of them has no gap: any two or more bytes, *)
(* any frequencies, sums that overflow included.                           *)
CodeSpaceIsFull ==
  tstep = "built" /\ Cardinality(UsedBytes(freqs)) >= 2 =>
    LET share(b) == Pow2[NumBytes - lengths[b]]
    IN  /\ UsedBytes(lengths) = UsedBytes(freqs)
        /\ MapThenSumSet(share, UsedBytes(freqs)) = Pow2[NumBytes]

(* bits of the text the frequencies were counted in *)
Cost(book) ==
  LET bits(b) == freqs[b] * book[b] IN MapThenSumSet(bits, UsedBytes(freqs))

(* Lengths a prefix-free code of these bytes can have (Kraft). *)
CodeLengths(bytes) ==
  LET n == Cardinality(bytes)
      full(l) == LET share(b) == Pow2[n - l[b]] IN MapThenSumSet(share, bytes) = Pow2[n]
  IN  {l \in [bytes -> 1..n] : full(l)}

AllCodeLengths ==
  UNION {CodeLengths(bytes) : bytes \in SUBSET Base85 \ {{}}}

Longest(book) == Max({book[b] : b \in DOMAIN book})

(* No prefix-free code writes the text the frequencies come from in fewer  *)
(* bits, and none that needs as many bits has a shorter longest code,      *)
(* unless a sum of frequencies overflowed on the way.  The second part is  *)
(* what the tie-break is good for: of two equal frequencies the leaf comes *)
(* before the tree, which keeps the code away from MAX_CODE_LENGTH.        *)
LengthsAreOptimal ==
  tstep = "built" /\ Cardinality(UsedBytes(freqs)) >= 2 /\ ~Overflows =>
    LET cost == Cost(lengths)
        longest == Longest(lengths)
    IN  \A l \in {l \in AllCodeLengths : DOMAIN l = UsedBytes(freqs)} :
          LET other == Cost(l) IN cost < other \/ (cost = other /\ longest <= Longest(l))

(* How few symbols a text can have whose tree is d deep: 2, 3, 5, 8, 13,   *)
(* the Fibonacci numbers.  build_codebook does not look at MAX_CODE_LENGTH,*)
(* and this is what keeps a code within it (65 bits: about 4 * 10^13).     *)
LeastTotal(depth) ==
  LET fib[n \in 0..(depth + 2)] == IF n < 2 THEN n ELSE fib[n - 1] + fib[n - 2]
  IN  fib[depth + 2]

(* A long code takes a long text.                                          *)
DeepTreesTakeLongTexts ==
  tstep = "built" /\ ~Overflows =>
    \A b \in UsedBytes(lengths) : lengths[b] > 1 => Total >= LeastTotal(lengths[b])

=============================================================================
