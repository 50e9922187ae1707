-------------------------- MODULE DictBuildProofs --------------------------
(***************************************************************************)
(* First build_codebook: it stays inside its arena, gives out no id twice  *)
(* and never counts a depth past what a byte holds, for every set of byte  *)
(* values and every table of frequencies, sums that wrap included.         *)
(*                                                                         *)
(* A depth is bounded by where a node stands in the arena: children stand  *)
(* before their parent, so an inner node is at most as deep as there are   *)
(* inner nodes behind it (Fits).  That there are fewer of them than leaves *)
(* comes from the heap, which every merge makes smaller (HeapInv).         *)
(*                                                                         *)
(* Then the tree itself (TreeShape): the leaves are the bytes that occur,  *)
(* and the arena is a forest whose roots are what the heap still holds.    *)
(* While no sum has wrapped an inner node weighs what its two children do, *)
(* and nothing in the heap is lighter than what was taken out before it,   *)
(* so a node's sibling weighs at least what either of its children does:   *)
(* going down a path, weights grow no slower than Fibonacci numbers, which *)
(* is why a deep tree takes a long text.  The lengths the walk writes are  *)
(* the levels of the leaves, and a level's share of the code space is that *)
(* of the two below it, so the lengths fill the space.                     *)
(*                                                                         *)
(* Then `urlz dict build`, killed or failing at any moment and run any     *)
(* number of times: what can be loaded, and what the exit code says.  Both *)
(* need to know how far the file has been written at every step of the     *)
(* command, and that a file, whoever left it and however it was torn, is   *)
(* the beginning of a codebook some run had built (FileInv); and that a    *)
(* book built from a short text is one validate_lengths takes (BookInv).   *)
(*                                                                         *)
(* Last, that all this is Huffman's algorithm, step by step: the bytes     *)
(* below a root are a group, a node weighs what its bytes sum to, wrapped  *)
(* or not (GroupInv), and so the two least entries of the heap stand for   *)
(* two lightest groups.                                                    *)
(***************************************************************************)
EXTENDS DictBuild, NaturalSets, SequenceTheorems, FiniteSetTheorems

(* The merges done, which is how many ids have been given out. *)
Merged == nextId - NumBytes

(* The leaves come first in the arena. *)
Leaves == Len(nodes) - Merged

Freqs == 0..(FreqSpace - 1)

Node == [freq : Freqs, id : Nat, kids : {<<>>} \cup (Nat \X Nat)]

WellPlaced(i) ==
  IF i <= Leaves THEN nodes[i].kids = <<>> /\ nodes[i].id \in Bytes
  ELSE /\ nodes[i].kids \in (1..(i - 1)) \X (1..(i - 1))
       /\ nodes[i].id \in 0..(nextId - 1)

ArenaInv ==
  /\ nodes \in Seq(Node)
  /\ nextId \in NumBytes..(2 * NumBytes - 1)
  /\ Leaves \in 0..NumBytes
  /\ \A i \in 1..Len(nodes) : WellPlaced(i)

HeapEntries(top, size) == [freq : Nat, id : 0..top, index : 1..size]

DistinctIds(entries) == \A m, n \in entries : m.id = n.id => m = n

HeapInv ==
  /\ IsFiniteSet(heap)
  /\ heap \subseteq HeapEntries(nextId - 1, Len(nodes))
  /\ DistinctIds(heap)
  /\ tstep = "merge" => Cardinality(heap) \in 1..(Leaves - Merged)

(* An inner node is at most as deep as there are inner nodes behind it, and*)
(* a leaf less deep than there are leaves.                                 *)
Fits(place) ==
  /\ place[1] \in 1..Len(nodes) /\ place[2] \in Nat
  /\ IF place[1] <= Leaves THEN place[2] < Leaves
     ELSE place[2] <= 2 * Leaves - 1 - place[1]

Places == {place \in Nat \X Nat : Fits(place)}

StackInv ==
  /\ stack \in Seq(Places)
  /\ tstep # "walk" => stack = <<>>

TreeInv ==
  /\ ArenaInv /\ HeapInv /\ StackInv
  /\ freqs \in [Bytes -> Freqs] /\ lengths \in Codebooks /\ tstep \in TreeSteps

LEMMA Sizes ==
  /\ NumBytes \in Nat /\ NumBytes >= 2 /\ FreqSpace \in Nat /\ FreqSpace >= 2
  /\ 0 \in Bytes /\ 1 \in Bytes /\ 0 \in Freqs /\ 1 \in Freqs
<1>1. NumBytes \in Nat /\ NumBytes >= 2
  BY CodebookBounds
<1>2. FreqSpace \in Nat /\ FreqSpace >= 2
  BY FrequencyTables
<1> QED
  BY <1>1, <1>2 DEF Bytes, Freqs

-----------------------------------------------------------------------------
(* The operators of the tree. *)

(* n of the bytes below b, in ascending order. *)
Ascending(s, b) ==
  /\ s \in Seq(Bytes) /\ Len(s) <= b
  /\ \A i \in 1..Len(s) : s[i] < b
  /\ \A i, j \in 1..Len(s) : i < j => s[i] < s[j]

LEMMA AscendingAppend ==
  ASSUME NEW b \in Nat, b < NumBytes, NEW s, Ascending(s, b)
  PROVE  Ascending(s, b + 1) /\ Ascending(Append(s, b), b + 1)
<1>1. b \in Bytes /\ Len(s) \in Nat
  BY Sizes, LenProperties DEF Bytes, Ascending
<1>2. /\ Append(s, b) \in Seq(Bytes)
      /\ Len(Append(s, b)) = Len(s) + 1
      /\ \A i \in 1..Len(s) : Append(s, b)[i] = s[i]
      /\ Append(s, b)[Len(s) + 1] = b
  BY <1>1, AppendProperties DEF Ascending
<1>3. \A i \in 1..Len(s) : s[i] \in Nat
  <2>1. \A i \in 1..Len(s) : s[i] \in Bytes
    BY ElementOfSeq DEF Ascending
  <2> QED
    BY <2>1, Sizes DEF Bytes
<1>4. Ascending(s, b + 1)
  BY <1>1, <1>3 DEF Ascending
<1> DEFINE t == Append(s, b)
<1> HIDE DEF t
<1>5. \A i \in 1..Len(t) : t[i] < b + 1
  BY <1>1, <1>2, <1>3 DEF Ascending, t
<1>6. \A i, j \in 1..Len(t) : i < j => t[i] < t[j]
  BY <1>1, <1>2, <1>3 DEF Ascending, t
<1> QED
  BY <1>1, <1>2, <1>4, <1>5, <1>6 DEF Ascending, t

(* The bytes below b that occur, in ascending order. *)
Lists(s, f, b) ==
  /\ Ascending(s, b)
  /\ \A c \in 0..(b - 1) : f[c] > 0 <=> \E i \in 1..Len(s) : s[i] = c

LEMMA ListsOneMore ==
  ASSUME NEW b \in Nat, b < NumBytes, NEW s, NEW f, Lists(s, f, b), NEW t,
         t = IF f[b] > 0 THEN Append(s, b) ELSE s
  PROVE  Lists(t, f, b + 1)
<1>1. b \in Bytes /\ Len(s) \in Nat /\ s \in Seq(Bytes)
  BY Sizes, LenProperties DEF Bytes, Ascending, Lists
<1>2. Ascending(t, b + 1)
  BY AscendingAppend DEF Lists
<1>3. ASSUME NEW c \in 0..((b + 1) - 1)
      PROVE  f[c] > 0 <=> \E i \in 1..Len(t) : t[i] = c
  <2>1. CASE f[b] > 0
    <3>1. t = Append(s, b)
      BY <2>1
    <3>2. /\ Len(t) = Len(s) + 1 /\ t[Len(s) + 1] = b
          /\ \A i \in 1..Len(s) : t[i] = s[i]
      BY <1>1, <3>1, AppendProperties
    <3>3. CASE c = b
      <4>1. Len(s) + 1 \in 1..Len(t)
        BY <1>1, <3>2
      <4> QED
        BY <2>1, <3>2, <3>3, <4>1
    <3>4. CASE c # b
      <4>1. c \in 0..(b - 1)
        BY <3>4
      <4>2. \A i \in 1..Len(t) : i \in 1..Len(s) \/ i = Len(s) + 1
        BY <1>1, <3>2
      <4>3. \A i \in 1..Len(s) : i \in 1..Len(t)
        BY <1>1, <3>2
      <4>4. f[c] > 0 <=> \E i \in 1..Len(s) : s[i] = c
        BY <4>1 DEF Lists
      <4> QED
        BY <3>2, <3>4, <4>2, <4>3, <4>4
    <3> QED
      BY <3>3, <3>4
  <2>2. CASE ~(f[b] > 0)
    <3>1. t = s
      BY <2>2
    <3>2. CASE c = b
      <4>1. \A i \in 1..Len(s) : s[i] < b
        BY DEF Lists, Ascending
      <4> QED
        BY <2>2, <3>1, <3>2, <4>1
    <3>3. CASE c # b
      <4>1. c \in 0..(b - 1)
        BY <3>3
      <4> QED
        BY <3>1, <4>1 DEF Lists
    <3> QED
      BY <3>2, <3>3
  <2> QED
    BY <2>1, <2>2
<1> QED
  BY <1>2, <1>3 DEF Lists

(* Occurring lists the bytes that occur, each once. *)
LEMMA OccurringLists ==
  ASSUME NEW f
  PROVE  Lists(Occurring(f), f, NumBytes)
<1> DEFINE next(s, b) == IF f[b - 1] > 0 THEN Append(s, b - 1) ELSE s
           chain(g, m) == [b \in 0..m |-> IF b = 0 THEN <<>> ELSE next(g[b - 1], b)]
           below == CHOOSE g : g = [b \in 0..NumBytes |->
                       IF b = 0 THEN <<>>
                       ELSE IF f[b - 1] > 0 THEN Append(g[b - 1], b - 1) ELSE g[b - 1]]
<1>1. Occurring(f) = below[NumBytes]
  BY Zenon DEF Occurring
<1>2. \E g : g = chain(g, NumBytes)
  <2> DEFINE T == {m \in Nat : \E g : g = chain(g, m)}
  <2> HIDE DEF next
  <2>1. 0 \in T
    <3>1. [b \in 0..0 |-> <<>>] = chain([b \in 0..0 |-> <<>>], 0)
      OBVIOUS
    <3> QED
      BY <3>1
  <2>2. ASSUME NEW m \in T PROVE m + 1 \in T
    <3>1. PICK g : g = chain(g, m)
      OBVIOUS
    <3> DEFINE h == [b \in 0..(m + 1) |-> IF b <= m THEN g[b] ELSE next(g[m], m + 1)]
    <3>2. ASSUME NEW b \in 0..(m + 1)
          PROVE  h[b] = IF b = 0 THEN <<>> ELSE next(h[b - 1], b)
      BY <3>1
    <3>3. h = chain(h, m + 1)
      BY <3>2
    <3> HIDE DEF h, chain
    <3> QED
      BY <3>3
  <2>3. T \in SUBSET Nat
    OBVIOUS
  <2> HIDE DEF T
  <2>4. T = Nat
    BY <2>1, <2>2, <2>3, NatSetInduction
  <2> QED
    BY <2>4, Sizes DEF T
<1>3. below = chain(below, NumBytes)
  BY <1>2, Zenon
<1> HIDE DEF below
<1>4. Lists(below[NumBytes], f, NumBytes)
  <2> DEFINE T == {m \in Nat : m <= NumBytes => Lists(below[m], f, m)}
  <2>1. 0 \in T
    <3>1. below[0] = <<>>
      BY <1>3, Sizes
    <3>2. Lists(<<>>, f, 0)
      BY EmptySeq DEF Lists, Ascending
    <3> QED
      BY <3>1, <3>2
  <2>2. ASSUME NEW m \in T PROVE m + 1 \in T
    <3>1. CASE m + 1 <= NumBytes
      <4>1. m \in Nat /\ m < NumBytes /\ m + 1 \in Nat /\ (m + 1) - 1 = m
        BY <3>1, Sizes
      <4>2. below[m + 1] = next(below[m], m + 1)
        <5> HIDE DEF next
        <5> QED
          BY <1>3, <3>1, <4>1, Sizes
      <4>3. below[m + 1] = IF f[m] > 0 THEN Append(below[m], m) ELSE below[m]
        BY <4>1, <4>2
      <4>4. Lists(below[m], f, m)
        BY <3>1, <4>1, Sizes
      <4>5. Lists(below[m + 1], f, m + 1)
        BY <4>1, <4>3, <4>4, ListsOneMore
      <4> QED
        BY <4>1, <4>5
    <3> QED
      BY <3>1, Sizes
  <2>3. T \in SUBSET Nat
    OBVIOUS
  <2> HIDE DEF T
  <2>4. T = Nat
    BY <2>1, <2>2, <2>3, NatSetInduction
  <2> QED
    BY <2>4, Sizes DEF T
<1> QED
  BY <1>1, <1>4

(* A heap that is not empty has a least entry. *)
LEMMA LeastInHeap ==
  ASSUME NEW top, NEW size, NEW entries \in SUBSET HeapEntries(top, size),
         top \in Nat, DistinctIds(entries), entries # {}
  PROVE  /\ Least(entries) \in entries
         /\ \A n \in entries : ~(n.freq < Least(entries).freq)
<1> DEFINE keys == {e.freq : e \in entries}
<1>1. keys \in SUBSET Nat /\ keys # {}
  BY DEF HeapEntries
<1>2. PICK low \in keys : \A k \in keys : ~(k < low)
  BY <1>1, LeastElement
<1> DEFINE ids == {e.id : e \in {e \in entries : e.freq = low}}
<1>3. ids \in SUBSET Nat /\ ids # {}
  BY DEF HeapEntries
<1>4. PICK first \in ids : \A k \in ids : ~(k < first)
  BY <1>3, LeastElement
<1>5. PICK m \in entries : m.freq = low /\ m.id = first
  OBVIOUS
<1>6. ASSUME NEW n \in entries, m # n PROVE Before(m, n)
  <2>1. m.freq \in Nat /\ n.freq \in Nat /\ m.id \in Nat /\ n.id \in Nat
    BY DEF HeapEntries
  <2>2. ~(n.freq < m.freq)
    BY <1>2, <1>5
  <2>3. n.freq = m.freq => ~(n.id < m.id)
    BY <1>4, <1>5
  <2>4. m.id # n.id
    BY <1>6 DEF DistinctIds
  <2> QED
    BY <2>1, <2>2, <2>3, <2>4 DEF Before
<1>7. PICK least \in entries : /\ least = Least(entries)
                               /\ \A n \in entries : least # n => Before(least, n)
  BY <1>6, Zenon DEF Least
<1>8. ASSUME NEW n \in entries PROVE ~(n.freq < least.freq)
  <2>1. n.freq \in Nat /\ least.freq \in Nat
    BY DEF HeapEntries
  <2> QED
    BY <1>7, <2>1 DEF Before
<1> QED
  BY <1>7, <1>8

-----------------------------------------------------------------------------
(* One lemma per action.                                                   *)

LEMMA IdleKeepsTree == TreeIdle => TreeInv
<1> SUFFICES ASSUME TreeIdle PROVE TreeInv
  OBVIOUS
<1>1. nodes = <<>> /\ Len(nodes) = 0 /\ nextId = NumBytes /\ heap = {} /\ stack = <<>>
  BY EmptySeq DEF TreeIdle
<1>2. ArenaInv
  BY <1>1, Sizes, EmptySeq DEF ArenaInv, Leaves, Merged
<1>3. HeapInv
  BY <1>1, FS_EmptySet DEF HeapInv, TreeIdle, DistinctIds
<1>4. StackInv
  BY <1>1, EmptySeq DEF StackInv
<1>5. NoCodes \in [Bytes -> Freqs] /\ NoCodes \in Codebooks
  BY Sizes DEF NoCodes, Codebooks
<1> QED
  BY <1>2, <1>3, <1>4, <1>5 DEF TreeInv, TreeIdle, TreeSteps

LEMMA BuildCallKeepsTree ==
  ASSUME NEW f \in [Bytes -> Freqs], BuildCall(f)
  PROVE  TreeInv'
<1> DEFINE used   == Occurring(f)
           n      == Len(used)
           node(i) == Leaf(f[used[i]], used[i])
           entry(i) == Entry(f[used[i]], used[i], i)
           leaves == {entry(i) : i \in 1..n}
<1>1. Ascending(used, NumBytes) /\ n \in Nat /\ n <= NumBytes
  BY OccurringLists, LenProperties DEF Lists, Ascending
<1>2. /\ nodes' = [i \in 1..n |-> node(i)] /\ nextId' = NumBytes /\ stack' = <<>>
      /\ freqs' = f /\ heap' = (IF n > 1 THEN leaves ELSE {})
      /\ lengths' = [b \in Bytes |-> IF n = 1 /\ f[b] > 0 THEN 1 ELSE 0]
      /\ tstep' = IF n > 1 THEN "merge" ELSE "built"
  BY DEF BuildCall
<1> HIDE DEF used
<1>3. \A i \in 1..n : used[i] \in Bytes /\ f[used[i]] \in Freqs
  <2>1. \A i \in 1..n : used[i] \in Bytes
    BY <1>1, ElementOfSeq DEF Ascending
  <2> QED
    BY <2>1
<1>4. nodes' \in Seq(Node) /\ Len(nodes') = n
  <2>1. \A i \in 1..n : node(i) \in Node
    BY <1>3 DEF Leaf, Node, Bytes
  <2> HIDE DEF node
  <2> QED
    BY <1>1, <1>2, <2>1
<1>5. ArenaInv'
  <2>1. Leaves' = n
    BY <1>1, <1>2, <1>4, Sizes DEF Leaves, Merged
  <2>2. \A i \in 1..n : nodes'[i].kids = <<>> /\ nodes'[i].id \in Bytes
    BY <1>2, <1>3 DEF Leaf
  <2>3. ASSUME NEW i \in (1..Len(nodes))'
        PROVE  WellPlaced(i)'
    <3>1. i \in 1..n /\ i <= Leaves'
      BY <1>1, <1>4, <2>1
    <3> QED
      BY <2>2, <3>1 DEF WellPlaced
  <2> QED
    BY <1>1, <1>2, <1>4, <2>1, <2>3, Sizes DEF ArenaInv
<1>6. IsFiniteSet(leaves) /\ Cardinality(leaves) \in Nat /\ Cardinality(leaves) <= n
  <2> DEFINE g == [i \in 1..n |-> entry(i)]
  <2>1. g \in Surjection(1..n, leaves)
    <3> HIDE DEF entry
    <3> QED
      BY DEF Surjection
  <2>2. IsFiniteSet(1..n) /\ Cardinality(1..n) = n
    <3> HIDE DEF n
    <3> QED
      BY <1>1, FS_Interval
  <2> HIDE DEF g, leaves
  <2> QED
    BY <2>1, <2>2, FS_Surjection, FS_CardinalityType
<1>7. leaves \subseteq HeapEntries(NumBytes - 1, n)
  BY <1>1, <1>3, Sizes DEF HeapEntries, Entry, Bytes, Freqs
<1>8. DistinctIds(leaves)
  <2>1. ASSUME NEW i \in 1..n, NEW j \in 1..n, used[i] = used[j] PROVE i = j
    <3>1. used[i] \in Nat
      BY <1>3, Sizes DEF Bytes
    <3> QED
      BY <1>1, <2>1, <3>1 DEF Ascending
  <2> QED
    BY <2>1 DEF DistinctIds, Entry
<1>9. HeapInv'
  <2>1. CASE n > 1
    <3>1. leaves # {} /\ Cardinality(leaves) \in 1..n
      <4>1. entry(1) \in leaves
        BY <1>1, <2>1
      <4> HIDE DEF leaves
      <4> QED
        BY <1>1, <1>6, <4>1, FS_EmptySet
    <3>2. (Leaves - Merged)' = n
      BY <1>1, <1>2, <1>4, Sizes DEF Leaves, Merged
    <3> HIDE DEF leaves
    <3>3. heap' = leaves
      BY <1>2, <2>1
    <3> QED
      BY <1>2, <1>4, <1>6, <1>7, <1>8, <3>1, <3>2, <3>3 DEF HeapInv
  <2>2. CASE ~(n > 1)
    <3>1. heap' = {} /\ tstep' # "merge"
      BY <1>2, <2>2
    <3> QED
      BY <3>1, FS_EmptySet DEF HeapInv, DistinctIds
  <2> QED
    BY <2>1, <2>2
<1>10. StackInv'
  BY <1>2, EmptySeq DEF StackInv
<1>11. lengths' \in Codebooks /\ tstep' \in TreeSteps /\ freqs' \in [Bytes -> Freqs]
  BY <1>2, Sizes DEF Codebooks, TreeSteps
<1> QED
  BY <1>5, <1>9, <1>10, <1>11 DEF TreeInv

(* A merge takes the two lightest entries of the heap.                     *)
LEMMA MergeTakes ==
  ASSUME TreeInv, Cardinality(heap) >= 2
  PROVE  LET left  == Least(heap)
             rest  == heap \ {left}
             right == Least(rest)
         IN  /\ left \in heap /\ right \in rest
             /\ IsFiniteSet(rest) /\ Cardinality(rest) = Cardinality(heap) - 1
             /\ \A e \in heap : left.freq <= e.freq
             /\ \A e \in rest : right.freq <= e.freq
<1> DEFINE left  == Least(heap)
           rest  == heap \ {left}
           right == Least(rest)
           size  == Len(nodes)
<1>2. nextId \in Nat /\ size \in Nat /\ nextId - 1 \in Nat
  BY Sizes, LenProperties DEF TreeInv, ArenaInv
<1>3. /\ IsFiniteSet(heap) /\ heap \in SUBSET HeapEntries(nextId - 1, size)
      /\ DistinctIds(heap) /\ Cardinality(heap) \in Nat
      /\ \A e \in heap : e.freq \in Nat
  BY FS_CardinalityType DEF TreeInv, HeapInv, HeapEntries
<1>4. left \in heap /\ \A e \in heap : ~(e.freq < left.freq)
  <2>1. heap # {}
    BY FS_EmptySet
  <2> QED
    BY <1>2, <1>3, <2>1, Sizes, LeastInHeap
<1> HIDE DEF left
<1>5. IsFiniteSet(rest) /\ Cardinality(rest) = Cardinality(heap) - 1
  BY <1>3, <1>4, FS_RemoveElement
<1>6. right \in rest /\ \A e \in rest : ~(e.freq < right.freq)
  <2>1. rest # {}
    BY <1>3, <1>5, FS_EmptySet
  <2>2. rest \in SUBSET HeapEntries(nextId - 1, size) /\ DistinctIds(rest)
    BY <1>3 DEF DistinctIds
  <2> HIDE DEF rest
  <2> QED
    BY <1>2, <2>1, <2>2, Sizes, LeastInHeap
<1> HIDE DEF right
<1>7. \A e \in heap : left.freq <= e.freq
  BY <1>3, <1>4
<1>8. \A e \in rest : right.freq <= e.freq
  BY <1>3, <1>6
<1> QED
  BY <1>4, <1>5, <1>6, <1>7, <1>8 DEF left, right

(* What a merge does to the arena and to the heap.                         *)
LEMMA MergeJoins ==
  ASSUME TreeInv, Merge
  PROVE  LET left  == Least(heap)
             rest  == heap \ {left}
             right == Least(rest)
             sum   == (left.freq + right.freq) % FreqSpace
             size  == Len(nodes)
         IN  /\ tstep = "merge" /\ Cardinality(heap) \in 2..(Leaves - Merged)
             /\ left \in heap /\ right \in rest
             /\ heap' = (heap \ {left, right}) \cup {Entry(sum, nextId, size + 1)}
             /\ sum \in Freqs
             /\ left.index \in 1..size /\ right.index \in 1..size
             /\ nodes' \in Seq(Node) /\ Len(nodes') = size + 1
             /\ \A i \in 1..size : nodes'[i] = nodes[i]
             /\ nodes'[size + 1] = [freq |-> sum, id |-> nextId,
                                    kids |-> <<left.index, right.index>>]
             /\ Leaves' = Leaves /\ Merged' = Merged + 1 /\ Merged + 1 <= Leaves - 1
             /\ size = Leaves + Merged
             /\ nextId' = nextId + 1 /\ UNCHANGED <<freqs, stack, lengths, tstep>>
<1> DEFINE left  == Least(heap)
           rest  == heap \ {left}
           right == Least(rest)
           sum   == (left.freq + right.freq) % FreqSpace
           node  == [freq |-> sum, id |-> nextId, kids |-> <<left.index, right.index>>]
           size  == Len(nodes)
           entry == Entry(sum, nextId, size + 1)
           kept  == heap \ {left, right}
<1>1. /\ tstep = "merge" /\ Cardinality(heap) >= 2
      /\ nodes' = Append(nodes, node) /\ heap' = kept \cup {entry}
      /\ nextId' = nextId + 1
      /\ UNCHANGED <<freqs, stack, lengths, tstep>>
  BY DEF Merge
<1>2. /\ nodes \in Seq(Node) /\ size \in Nat /\ nextId \in NumBytes..(2 * NumBytes - 1)
      /\ Leaves \in 0..NumBytes /\ Merged \in Nat /\ nextId \in Nat
      /\ \A i \in 1..size : WellPlaced(i)
  BY Sizes, LenProperties DEF TreeInv, ArenaInv, Merged
<1>3. /\ IsFiniteSet(heap) /\ heap \in SUBSET HeapEntries(nextId - 1, size)
      /\ DistinctIds(heap) /\ Cardinality(heap) \in 2..(Leaves - Merged)
  BY <1>1 DEF TreeInv, HeapInv
<1>4. left \in heap /\ right \in rest
      /\ IsFiniteSet(rest) /\ Cardinality(rest) = Cardinality(heap) - 1
  BY <1>1, MergeTakes
<1> HIDE DEF left
<1> HIDE DEF right
<1>7. /\ left.freq \in Nat /\ right.freq \in Nat
      /\ left.index \in 1..size /\ right.index \in 1..size
  BY <1>3, <1>4 DEF HeapEntries
<1>8. sum \in Freqs /\ sum \in Nat
  BY <1>7, Sizes DEF Freqs
<1> HIDE DEF sum
<1>9. node \in Node
  BY <1>2, <1>7, <1>8 DEF Node
<1>10. /\ nodes' \in Seq(Node) /\ Len(nodes') = size + 1
       /\ \A i \in 1..size : nodes'[i] = nodes[i]
       /\ nodes'[size + 1] = node
  <2> HIDE DEF node
  <2> QED
    BY <1>1, <1>2, <1>9, AppendProperties
<1>11. Leaves' = Leaves /\ Merged' = Merged + 1 /\ Merged + 1 <= Leaves - 1
       /\ size = Leaves + Merged
  <2>1. Merged' = Merged + 1
    BY <1>1, <1>2, Sizes DEF Merged
  <2>2. Leaves' = size + 1 - (Merged + 1)
    BY <1>10, <2>1 DEF Leaves
  <2> QED
    BY <1>2, <1>3, <2>1, <2>2 DEF Leaves
<1> QED
  BY <1>1, <1>3, <1>4, <1>7, <1>8, <1>10, <1>11 DEF left, right, sum, rest, kept

LEMMA MergeKeepsTree ==
  ASSUME TreeInv, Merge
  PROVE  TreeInv'
<1> DEFINE left  == Least(heap)
           rest  == heap \ {left}
           right == Least(rest)
           sum   == (left.freq + right.freq) % FreqSpace
           node  == [freq |-> sum, id |-> nextId, kids |-> <<left.index, right.index>>]
           size  == Len(nodes)
           entry == Entry(sum, nextId, size + 1)
           kept  == heap \ {left, right}
<1>1. /\ tstep = "merge" /\ Cardinality(heap) >= 2
      /\ nodes' = Append(nodes, node) /\ heap' = kept \cup {entry}
      /\ nextId' = nextId + 1
      /\ UNCHANGED <<freqs, stack, lengths, tstep>>
  BY DEF Merge
<1>2. /\ nodes \in Seq(Node) /\ size \in Nat /\ nextId \in NumBytes..(2 * NumBytes - 1)
      /\ Leaves \in 0..NumBytes /\ Merged \in Nat /\ nextId \in Nat
      /\ \A i \in 1..size : WellPlaced(i)
  BY Sizes, LenProperties DEF TreeInv, ArenaInv, Merged
<1>3. /\ IsFiniteSet(heap) /\ heap \in SUBSET HeapEntries(nextId - 1, size)
      /\ DistinctIds(heap) /\ Cardinality(heap) \in 2..(Leaves - Merged)
  BY <1>1 DEF TreeInv, HeapInv
<1>4. /\ left \in heap /\ right \in rest
      /\ left.index \in 1..size /\ right.index \in 1..size
      /\ sum \in Freqs
      /\ nodes' \in Seq(Node) /\ Len(nodes') = size + 1
      /\ \A i \in 1..size : nodes'[i] = nodes[i]
      /\ nodes'[size + 1] = node
      /\ Leaves' = Leaves /\ Merged' = Merged + 1 /\ Merged + 1 <= Leaves - 1
      /\ size = Leaves + Merged
  BY MergeJoins
<1>5. IsFiniteSet(rest) /\ Cardinality(rest) = Cardinality(heap) - 1
  BY <1>1, MergeTakes
<1> HIDE DEF left, right, sum
<1>7. left.index \in 1..size /\ right.index \in 1..size
  BY <1>4
<1>8. sum \in Freqs /\ sum \in Nat
  BY <1>4, Sizes DEF Freqs
<1>10. /\ nodes' \in Seq(Node) /\ Len(nodes') = size + 1
       /\ \A i \in 1..size : nodes'[i] = nodes[i]
       /\ nodes'[size + 1] = node
  BY <1>4
<1>11. Leaves' = Leaves /\ Merged' = Merged + 1 /\ Merged + 1 <= Leaves - 1
       /\ size = Leaves + Merged
  BY <1>4
<1>12. ArenaInv'
  <2>1. nextId' \in NumBytes..(2 * NumBytes - 1)
    BY <1>1, <1>2, <1>11, Sizes DEF Merged
  <2>2. ASSUME NEW i \in 1..(size + 1) PROVE WellPlaced(i)'
    <3>1. CASE i \in 1..size
      <4>1. WellPlaced(i) /\ nodes'[i] = nodes[i] /\ Leaves' = Leaves
        BY <1>2, <1>10, <1>11, <3>1
      <4>2. CASE i <= Leaves
        BY <4>1, <4>2 DEF WellPlaced
      <4>3. CASE ~(i <= Leaves)
        BY <1>1, <1>2, <4>1, <4>3, SMTT(30) DEF WellPlaced
      <4> QED
        BY <4>2, <4>3
    <3>2. CASE i = size + 1
      <4>1. ~(i <= Leaves')
        BY <1>2, <1>11, <3>2
      <4>2. nodes'[i].kids \in (1..(i - 1)) \X (1..(i - 1)) /\ nodes'[i].id = nextId
        BY <1>2, <1>7, <1>10, <3>2
      <4>3. nextId \in 0..(nextId' - 1)
        BY <1>1, <1>2
      <4> QED
        BY <4>1, <4>2, <4>3 DEF WellPlaced
    <3> QED
      BY <1>2, <3>1, <3>2
  <2> QED
    BY <1>2, <1>10, <1>11, <2>1, <2>2 DEF ArenaInv
<1>13. IsFiniteSet(kept) /\ Cardinality(kept) = Cardinality(heap) - 2
  <2>1. kept = rest \ {right}
    OBVIOUS
  <2> HIDE DEF rest, kept
  <2>2. IsFiniteSet(kept) /\ Cardinality(kept) = Cardinality(rest) - 1
    BY <1>4, <1>5, <2>1, FS_RemoveElement
  <2> QED
    BY <1>3, <1>5, <2>2
<1>14. kept \cup {entry} \subseteq HeapEntries(nextId, size + 1)
  <2>1. entry \in HeapEntries(nextId, size + 1)
    BY <1>2, <1>8 DEF HeapEntries, Entry
  <2>2. kept \subseteq HeapEntries(nextId, size + 1)
    BY <1>2, <1>3 DEF HeapEntries
  <2> QED
    BY <2>1, <2>2
<1>15. DistinctIds(kept \cup {entry})
  <2>1. \A m \in kept : m.id # entry.id
    BY <1>2, <1>3 DEF HeapEntries, Entry
  <2> QED
    BY <1>3, <2>1 DEF DistinctIds
<1>16. IsFiniteSet(heap') /\ Cardinality(heap') = Cardinality(heap) - 1
  <2>1. entry \notin kept
    BY <1>2, <1>3 DEF HeapEntries, Entry
  <2> HIDE DEF kept, entry
  <2> QED
    BY <1>1, <1>3, <1>13, <2>1, FS_AddElement, SMTT(30)
<1>17. HeapInv'
  <2>1. Cardinality(heap') \in 1..(Leaves - Merged)'
    BY <1>2, <1>3, <1>11, <1>16
  <2>2. nextId' - 1 = nextId
    BY <1>1, <1>2
  <2>3. heap' \subseteq HeapEntries(nextId' - 1, Len(nodes'))
    BY <1>1, <1>10, <1>14, <2>2
  <2> QED
    BY <1>1, <1>15, <1>16, <2>1, <2>3 DEF HeapInv
<1>18. StackInv'
  BY <1>1, EmptySeq DEF StackInv, TreeInv
<1> QED
  BY <1>1, <1>12, <1>17, <1>18 DEF TreeInv

LEMMA TakeRootKeepsTree ==
  ASSUME TreeInv, TakeRoot
  PROVE  TreeInv'
<1>1. /\ tstep = "merge" /\ tstep' = "walk" /\ heap' = {}
      /\ UNCHANGED <<freqs, nodes, nextId, lengths>>
  BY DEF TakeRoot
<1>2. PICK root \in heap : heap = {root} /\ stack' = << <<root.index, 0>> >>
  BY DEF TakeRoot
<1>3. ArenaInv' /\ Leaves' = Leaves /\ Len(nodes') = Len(nodes)
  BY <1>1 DEF TreeInv, ArenaInv, WellPlaced, Leaves, Merged
<1>4. HeapInv'
  BY <1>1, FS_EmptySet DEF HeapInv, DistinctIds
<1>5. Fits(<<root.index, 0>>)
  <2>1. root.index \in 1..Len(nodes) /\ Cardinality(heap) \in 1..(Leaves - Merged)
    BY <1>1, <1>2 DEF TreeInv, HeapInv, HeapEntries
  <2>2. Len(nodes) \in Nat /\ Leaves \in Nat /\ Merged \in Nat /\ Len(nodes) = Leaves + Merged
    BY Sizes, LenProperties DEF TreeInv, ArenaInv, Leaves, Merged
  <2>3. Merged < Leaves
    BY <2>1, <2>2
  <2> QED
    BY <2>1, <2>2, <2>3 DEF Fits
<1>6. <<root.index, 0>> \in Places'
  <2>1. Fits(<<root.index, 0>>)'
    BY <1>3, <1>5 DEF Fits
  <2>2. root.index \in Nat
    BY <1>5, LenProperties DEF Fits, TreeInv, ArenaInv
  <2> QED
    BY <2>1, <2>2 DEF Places
<1>7. StackInv'
  BY <1>1, <1>2, <1>6 DEF StackInv
<1> QED
  BY <1>1, <1>3, <1>4, <1>7 DEF TreeInv, TreeSteps

(* A child of an inner node that fits, fits. *)
LEMMA KidFits ==
  ASSUME ArenaInv, NEW place \in Places, place[1] > Leaves,
         NEW kid \in 1..(place[1] - 1)
  PROVE  <<kid, place[2] + 1>> \in Places
<1>1. /\ Leaves \in Nat /\ Len(nodes) \in Nat
      /\ place[1] \in 1..Len(nodes) /\ place[2] \in Nat
      /\ place[2] <= 2 * Leaves - 1 - place[1]
  BY Sizes, LenProperties DEF ArenaInv, Places, Fits
<1>2. Fits(<<kid, place[2] + 1>>)
  BY <1>1, SMTT(30) DEF Fits
<1> QED
  BY <1>1, <1>2 DEF Places

LEMMA VisitKeepsTree ==
  ASSUME TreeInv, Visit
  PROVE  TreeInv'
<1> DEFINE place == Last(stack)
           node  == nodes[place[1]]
           deeper(k) == <<node.kids[k], place[2] + 1>>
<1>1. /\ tstep = "walk" /\ stack # <<>>
      /\ UNCHANGED <<freqs, nodes, heap, nextId, tstep>>
  BY DEF Visit
<1>2. stack \in Seq(Places) /\ ArenaInv
  BY DEF TreeInv, StackInv
<1>3. place \in Places /\ Front(stack) \in Seq(Places)
  <2>1. Len(stack) \in Nat \ {0}
    BY <1>1, <1>2, EmptySeq
  <2>2. place \in Places
    BY <1>2, <2>1, ElementOfSeq DEF Last
  <2>3. \A i \in 1..(Len(stack) - 1) : stack[i] \in Places
    BY <1>2, <2>1, ElementOfSeq
  <2>4. Front(stack) \in Seq(Places)
    BY <2>1, <2>3, SubSeqProperties DEF Front
  <2> QED
    BY <2>2, <2>4
<1>4. Leaves \in 0..NumBytes /\ WellPlaced(place[1]) /\ place[1] \in 1..Len(nodes)
      /\ place[1] \in Nat /\ place[2] \in Nat
  BY <1>2, <1>3 DEF ArenaInv, Places, Fits
<1>5. ArenaInv' /\ Leaves' = Leaves /\ Places' = Places
  BY <1>1, <1>2 DEF ArenaInv, WellPlaced, Leaves, Merged, Places, Fits
<1>6. HeapInv'
  BY <1>1 DEF TreeInv, HeapInv, Leaves, Merged
<1>7. stack' \in Seq(Places) /\ lengths' \in Codebooks
  <2>1. CASE node.kids = <<>>
    <3>1. stack' = Front(stack) /\ lengths' = [lengths EXCEPT ![node.id] = place[2]]
      BY <2>1, Zenon DEF Visit
    <3>2. place[1] <= Leaves
      BY <1>4, <2>1 DEF WellPlaced
    <3>3. place[2] \in Bytes
      BY <1>3, <1>4, <3>2, Sizes DEF Places, Fits, Bytes
    <3> QED
      BY <1>3, <3>1, <3>3 DEF TreeInv, Codebooks
  <2>2. CASE node.kids # <<>>
    <3>1. stack' = Front(stack) \o <<deeper(1), deeper(2)>> /\ lengths' = lengths
      BY <2>2, Zenon DEF Visit
    <3>2. place[1] > Leaves
      BY <1>4, <2>2, Sizes DEF WellPlaced
    <3>3. node.kids \in (1..(place[1] - 1)) \X (1..(place[1] - 1))
      BY <1>4, <3>2, Sizes DEF WellPlaced
    <3>4. deeper(1) \in Places /\ deeper(2) \in Places
      <4>1. node.kids[1] \in 1..(place[1] - 1) /\ node.kids[2] \in 1..(place[1] - 1)
        BY <3>3
      <4> HIDE DEF node, place
      <4> QED
        BY <1>2, <1>3, <3>2, <4>1, KidFits
    <3> HIDE DEF deeper
    <3>5. <<deeper(1), deeper(2)>> \in Seq(Places)
      BY <3>4
    <3>6. stack' \in Seq(Places)
      BY <1>3, <3>1, <3>5, ConcatProperties
    <3> QED
      BY <3>1, <3>6 DEF TreeInv
  <2> QED
    BY <2>1, <2>2
<1>8. StackInv'
  BY <1>1, <1>5, <1>7 DEF StackInv
<1> QED
  BY <1>1, <1>5, <1>6, <1>7, <1>8 DEF TreeInv

LEMMA WalkDoneKeepsTree ==
  ASSUME TreeInv, WalkDone
  PROVE  TreeInv'
<1>1. /\ stack = <<>> /\ tstep' = "built"
      /\ UNCHANGED <<freqs, nodes, heap, nextId, stack, lengths>>
  BY DEF WalkDone
<1>2. ArenaInv'
  BY <1>1 DEF TreeInv, ArenaInv, WellPlaced, Leaves, Merged
<1>3. HeapInv'
  BY <1>1 DEF TreeInv, HeapInv
<1>4. StackInv'
  BY <1>1, EmptySeq DEF StackInv
<1> QED
  BY <1>1, <1>2, <1>3, <1>4 DEF TreeInv, TreeSteps

LEMMA TreeStutters ==
  ASSUME TreeInv, UNCHANGED tvars
  PROVE  TreeInv'
BY DEF TreeInv, ArenaInv, WellPlaced, HeapInv, StackInv, Places, Fits, Leaves, Merged, tvars

LEMMA TreeNextKeepsTree ==
  ASSUME TreeInv, TreeNext
  PROVE  TreeInv'
BY MergeKeepsTree, TakeRootKeepsTree, VisitKeepsTree, WalkDoneKeepsTree DEF TreeNext

(* TreeInv is what TreeTypeOK needs. *)
LEMMA TreeIsTyped == TreeInv => TreeTypeOK
<1> SUFFICES ASSUME TreeInv PROVE TreeTypeOK
  OBVIOUS
<1>1. ASSUME NEW i \in 1..Len(nodes)
      PROVE  /\ nodes[i].freq \in Freqs /\ nodes[i].id \in 0..(2 * NumBytes - 2)
             /\ nodes[i].kids \in {<<>>} \cup ((1..(i - 1)) \X (1..(i - 1)))
  <2>1. nodes[i] \in Node /\ WellPlaced(i) /\ nextId \in NumBytes..(2 * NumBytes - 1)
    BY ElementOfSeq DEF TreeInv, ArenaInv
  <2> QED
    BY <2>1, Sizes DEF WellPlaced, Node, Bytes
<1>2. \A e \in heap : e.index \in 1..Len(nodes)
  BY DEF TreeInv, HeapInv, HeapEntries
<1>3. ASSUME NEW i \in 1..Len(stack)
      PROVE  stack[i] \in (1..Len(nodes)) \X Bytes
  <2>1. stack[i] \in Places
    BY ElementOfSeq DEF TreeInv, StackInv
  <2>2. Leaves \in 0..NumBytes /\ Len(nodes) \in Nat
    BY LenProperties DEF TreeInv, ArenaInv
  <2>3. stack[i][2] \in Bytes /\ stack[i][1] \in 1..Len(nodes)
    BY <2>1, <2>2, Sizes DEF Places, Fits, Bytes
  <2> QED
    BY <2>1, <2>3 DEF Places
<1> QED
  BY <1>1, <1>2, <1>3 DEF TreeTypeOK, TreeInv, ArenaInv, Freqs

-----------------------------------------------------------------------------
(* The arena as a forest. *)

Kids(ns, i) == {ns[i].kids[1], ns[i].kids[2]}

Inner(ns, low) == (low + 1)..Len(ns)

(* The first `low` nodes of ns are leaves, every other one has two children*)
(* before it, and every node but the roots is the child of one node.       *)
Forest(ns, low, roots) ==
  /\ roots \subseteq 1..Len(ns)
  /\ \A j \in Inner(ns, low) :
       /\ ns[j].kids[1] \in 1..(j - 1) /\ ns[j].kids[2] \in 1..(j - 1)
       /\ ns[j].kids[1] # ns[j].kids[2]
  /\ \A i \in 1..Len(ns) : i \in roots \/ \E j \in Inner(ns, low) : i \in Kids(ns, j)
  /\ \A i \in roots : \A j \in Inner(ns, low) : i \notin Kids(ns, j)
  /\ \A i, j \in Inner(ns, low) : i # j => Kids(ns, i) \cap Kids(ns, j) = {}

(* What is split among the children of each inner node, is the same in     *)
(* total at the roots and at the leaves: the trees are cut off node by     *)
(* node, from the last in the arena.                                       *)
LEMMA CutSums ==
  ASSUME NEW ns, Len(ns) \in Nat, NEW low, low \in 0..Len(ns),
         NEW roots, Forest(ns, low, roots), NEW g, g \in [1..Len(ns) -> Nat],
         \A j \in Inner(ns, low) : g[j] = g[ns[j].kids[1]] + g[ns[j].kids[2]]
  PROVE  Sums(g, 1..Len(ns))[roots] = Sums(g, 1..Len(ns))[1..low]
<1> DEFINE n == Len(ns)
           S == 1..n
           I == Inner(ns, low)
           sum == Sums(g, S)
           F(k) == {i \in 1..k : i \in roots \/ \E j \in I : j > k /\ i \in Kids(ns, j)}
<1>1. n \in Nat /\ low \in Nat /\ low <= n /\ IsFiniteSet(S) /\ I = (low + 1)..n
  BY FS_Interval DEF Inner
<1>2. sum \in [SUBSET S -> Nat]
  BY <1>1, SumsType
<1>3. \A T \in SUBSET S : \A x \in T : sum[T] = g[x] + sum[T \ {x}]
  <2>1. IsFiniteSet(S) /\ g \in [S -> Nat]
    BY <1>1
  <2> QED
    BY ONLY <2>1, SumsStep DEF sum
<1>4. /\ roots \subseteq S
      /\ \A j \in I : /\ ns[j].kids[1] \in 1..(j - 1) /\ ns[j].kids[2] \in 1..(j - 1)
                      /\ ns[j].kids[1] # ns[j].kids[2]
      /\ \A i \in S : i \in roots \/ \E j \in I : i \in Kids(ns, j)
      /\ \A i \in roots : \A j \in I : i \notin Kids(ns, j)
      /\ \A i, j \in I : i # j => Kids(ns, i) \cap Kids(ns, j) = {}
  BY DEF Forest
<1>5. \A j \in I : g[j] = g[ns[j].kids[1]] + g[ns[j].kids[2]]
  OBVIOUS
<1> HIDE DEF n, I, sum
<1>6. F(n) = roots
  <2>1. \A j \in I : ~(j > n)
    BY <1>1
  <2> QED
    BY <1>4, <2>1
<1>7. F(low) = 1..low
  <2>1. \A i \in 1..low : i \in S
    BY <1>1
  <2>2. \A j \in I : j > low
    BY <1>1
  <2> QED
    BY <1>4, <2>1, <2>2
<1>8. ASSUME NEW k \in (low + 1)..n PROVE sum[F(k)] = sum[F(k - 1)]
  <2> DEFINE a == ns[k].kids[1]
             b == ns[k].kids[2]
             X == F(k) \ {k}
  <2>1. k \in I /\ k \in S /\ k \in Nat /\ k - 1 \in Nat /\ 1..k \subseteq S /\ k \in 1..k
        /\ 1..(k - 1) \subseteq 1..k
    BY <1>1
  <2>2. a \in 1..(k - 1) /\ b \in 1..(k - 1) /\ a # b /\ Kids(ns, k) = {a, b}
    BY <1>4, <2>1 DEF Kids
  <2> HIDE DEF a, b
  <2>3. k \in F(k)
    <3>1. CASE k \in roots
      BY <2>1, <3>1
    <3>2. CASE k \notin roots
      <4>1. PICK j \in I : k \in Kids(ns, j)
        BY <1>4, <2>1, <3>2
      <4>2. k \in 1..(j - 1) /\ j \in Nat
        BY <1>1, <1>4, <4>1 DEF Kids
      <4>3. j > k
        BY <2>1, <4>2
      <4> QED
        BY <2>1, <4>1, <4>3
    <3> QED
      BY <3>1, <3>2
  <2>4. \A i \in {a, b} : i \notin roots /\ \A j \in I : j # k => i \notin Kids(ns, j)
    BY <1>4, <2>1, <2>2
  <2>5. a \notin F(k) /\ b \notin F(k)
    <3>1. \A j \in I : j > k => j # k
      BY <2>1
    <3> QED
      BY <2>4, <3>1
  <2>6. F(k - 1) = (X \cup {a}) \cup {b}
    <3>1. ASSUME NEW i \in F(k - 1) PROVE i \in (X \cup {a}) \cup {b}
      <4>1. i \in 1..k /\ i # k
        BY <2>1
      <4>2. CASE i \in roots
        BY <4>1, <4>2
      <4>3. CASE i \notin roots
        <5>1. PICK j \in I : j > k - 1 /\ i \in Kids(ns, j)
          BY <4>3
        <5>2. j = k \/ j > k
          BY <1>1, <2>1, <5>1
        <5> QED
          BY <2>2, <4>1, <5>1, <5>2
      <4> QED
        BY <4>2, <4>3
    <3>2. ASSUME NEW i \in X PROVE i \in F(k - 1)
      <4>1. i \in 1..(k - 1)
        BY <2>1
      <4>2. \A j \in I : j > k => j > k - 1
        BY <1>1, <2>1
      <4> QED
        BY <4>1, <4>2
    <3>3. a \in F(k - 1) /\ b \in F(k - 1)
      <4>1. k > k - 1
        BY <2>1
      <4> QED
        BY <2>1, <2>2, <4>1
    <3> HIDE DEF F
    <3> QED
      BY <3>1, <3>2, <3>3
  <2>7. F(k) \in SUBSET S /\ X \in SUBSET S
    BY <2>1
  <2>8. a \in S /\ b \in S /\ k \in S /\ a \notin X /\ b \notin X \cup {a}
    BY <2>1, <2>2, <2>5
  <2> HIDE DEF F
  <2>9. sum[F(k)] = g[k] + sum[X]
    BY <1>3, <2>3, <2>7
  <2> HIDE DEF X
  <2> DEFINE Y == X \cup {a}
             Z == Y \cup {b}
  <2>10. Y \in SUBSET S /\ a \in Y /\ Y \ {a} = X /\ Z \in SUBSET S /\ b \in Z /\ Z \ {b} = Y
    BY <2>7, <2>8
  <2>14. F(k - 1) = Z
    BY <2>6 DEF X
  <2> HIDE DEF Y, Z
  <2>11. sum[Y] = g[a] + sum[X]
    BY <1>3, <2>10
  <2>12. sum[Z] = g[b] + sum[Y]
    BY <1>3, <2>10
  <2>13. g[k] = g[a] + g[b]
    BY <1>5, <2>1 DEF a, b
  <2>15. g[a] \in Nat /\ g[b] \in Nat /\ sum[X] \in Nat
    BY <1>2, <2>7, <2>8 DEF n
  <2> QED
    BY <2>9, <2>11, <2>12, <2>13, <2>14, <2>15
<1> HIDE DEF F
<1> DEFINE A == {m \in 0..(n - low) : sum[F(n - m)] = sum[roots]}
<1>9. 0 \in A /\ n - low \in Nat /\ n - (n - low) = low
  BY <1>1, <1>6
<1>10. ASSUME NEW m \in 0..((n - low) - 1), m \in A PROVE m + 1 \in A
  <2>1. n - m \in (low + 1)..n /\ (n - m) - 1 = n - (m + 1) /\ m + 1 \in 0..(n - low)
    BY <1>1
  <2> QED
    BY <1>8, <1>10, <2>1
<1> HIDE DEF A
<1>11. n - low \in A
  <2>1. \A m \in 0..(n - low) : m \in A
    BY <1>9, <1>10, UpTo
  <2>2. n - low \in 0..(n - low)
    BY <1>9
  <2> QED
    BY <2>1, <2>2
<1>12. sum[F(low)] = sum[roots]
  BY <1>9, <1>11 DEF A
<1> QED
  BY <1>7, <1>12 DEF n, sum, S

(* How deep each node of a tree is. *)
Levels(d, ns, low) ==
  /\ d \in [1..Len(ns) -> Nat]
  /\ d[Len(ns)] = 0
  /\ \A j \in Inner(ns, low) : \A i \in Kids(ns, j) : d[i] = d[j] + 1

(* A tree has its levels; they are found from the root down.               *)
LEMMA LevelsExist ==
  ASSUME NEW ns, Len(ns) \in Nat \ {0}, NEW low \in 0..Len(ns),
         Forest(ns, low, {Len(ns)})
  PROVE  \E d : Levels(d, ns, low) /\ \A i \in 1..Len(ns) : d[i] <= Len(ns) - i
<1> DEFINE n == Len(ns)
           I == Inner(ns, low)
           Good(d, m) ==
             /\ d \in [(n - m)..n -> Nat] /\ d[n] = 0
             /\ \A i \in (n - m)..n : /\ d[i] <= n - i
                                      /\ \A j \in I : i \in Kids(ns, j) => d[i] = d[j] + 1
           A == {m \in 0..(n - 1) : \E d : Good(d, m)}
<1>1. n \in Nat /\ n > 0 /\ I = (low + 1)..n /\ low \in Nat
  BY DEF Inner
<1>2. /\ \A j \in I : Kids(ns, j) \subseteq 1..(j - 1)
      /\ \A i \in 1..n : i = n \/ \E j \in I : i \in Kids(ns, j)
      /\ \A j \in I : n \notin Kids(ns, j)
      /\ \A i, j \in I : i # j => Kids(ns, i) \cap Kids(ns, j) = {}
  BY DEF Forest, Kids
<1> HIDE DEF n, I
<1>3. 0 \in A
  <2> DEFINE d == [i \in n..n |-> 0]
  <2>1. n - 0 = n /\ n \in n..n /\ \A i \in n..n : i = n /\ 0 <= n - i
    BY <1>1
  <2>2. d \in [(n - 0)..n -> Nat] /\ d[n] = 0
    BY <2>1
  <2>4. ASSUME NEW i \in (n - 0)..n
        PROVE  d[i] <= n - i /\ \A j \in I : i \in Kids(ns, j) => d[i] = d[j] + 1
    <3>1. i = n
      BY <2>1
    <3> QED
      BY <1>2, <2>1, <2>2, <3>1
  <2>3. 0 \in 0..(n - 1)
    BY <1>1
  <2> HIDE DEF d
  <2>5. Good(d, 0)
    BY <2>2, <2>4
  <2> HIDE DEF Good
  <2> QED
    BY <2>3, <2>5
<1>4. ASSUME NEW m \in 0..((n - 1) - 1), m \in A PROVE m + 1 \in A
  <2>1. PICK d : Good(d, m)
    BY <1>4
  <2> DEFINE k == n - (m + 1)
  <2>2. k \in 1..n /\ k \in Nat /\ k # n /\ n - m = k + 1 /\ m + 1 \in 0..(n - 1) /\ k <= n
    BY <1>1
  <2> HIDE DEF k
  <2>3. PICK p \in I : k \in Kids(ns, p)
    BY <1>2, <2>2
  <2>4. p \in (k + 1)..n /\ p \in Nat
    <3>1. k \in 1..(p - 1) /\ p \in Nat /\ p <= n
      BY <1>1, <1>2, <2>3
    <3> QED
      BY <3>1, <2>2
  <2>5. \A j \in I : k \in Kids(ns, j) => j = p
    BY <1>2, <2>3
  <2> DEFINE e == [i \in k..n |-> IF i = k THEN d[p] + 1 ELSE d[i]]
  <2>6. /\ d \in [(k + 1)..n -> Nat] /\ d[n] = 0
        /\ \A i \in (k + 1)..n : /\ d[i] <= n - i
                                 /\ \A j \in I : i \in Kids(ns, j) => d[i] = d[j] + 1
    BY <2>1, <2>2
  <2>7. d[p] \in Nat /\ d[p] <= n - p /\ p >= k + 1
    BY <2>4, <2>6
  <2>8. \A i \in k..n : i # k => i \in (k + 1)..n /\ d[i] \in Nat
    BY <2>2, <2>6
  <2>9. e \in [k..n -> Nat]
    BY <2>7, <2>8
  <2>10. e[k] = d[p] + 1 /\ \A i \in (k + 1)..n : e[i] = d[i]
    <3>1. k \in k..n /\ \A i \in (k + 1)..n : i \in k..n /\ i # k
      BY <2>2
    <3> QED
      BY <3>1
  <2> HIDE DEF e
  <2>11. e[n] = 0
    <3>1. n \in (k + 1)..n
      BY <1>1, <2>2
    <3> QED
      BY <2>6, <2>10, <3>1
  <2>12. ASSUME NEW i \in k..n
         PROVE  e[i] <= n - i /\ \A j \in I : i \in Kids(ns, j) => e[i] = e[j] + 1
    <3>1. CASE i = k
      <4>1. e[i] <= n - i
        BY <1>1, <2>2, <2>4, <2>7, <2>10, <3>1
      <4>2. e[p] = d[p]
        BY <2>4, <2>10
      <4> QED
        BY <2>5, <2>10, <3>1, <4>1, <4>2
    <3>2. CASE i # k
      <4>1. i \in (k + 1)..n
        BY <2>8, <3>2
      <4>2. ASSUME NEW j \in I, i \in Kids(ns, j) PROVE j \in (k + 1)..n
        <5>1. i \in 1..(j - 1) /\ j \in Nat /\ j <= n
          BY <1>1, <1>2, <4>2
        <5> QED
          BY <1>1, <2>2, <4>1, <5>1
      <4> QED
        BY <2>6, <2>10, <4>1, <4>2
    <3> QED
      BY <3>1, <3>2
  <2>13. Good(e, m + 1)
    BY <2>9, <2>11, <2>12 DEF k
  <2> HIDE DEF Good
  <2> QED
    BY <2>2, <2>13
<1> HIDE DEF A
<1>5. n - 1 \in A
  <2>1. n - 1 \in Nat /\ n - 1 \in 0..(n - 1)
    BY <1>1
  <2>2. \A m \in 0..(n - 1) : m \in A
    BY <1>3, <1>4, <2>1, UpTo
  <2> QED
    BY <2>1, <2>2
<1>6. PICK d : Good(d, n - 1)
  BY <1>5 DEF A
<1>7. n - (n - 1) = 1 /\ \A j \in I : \A i \in Kids(ns, j) : i \in 1..n
  <2>1. \A j \in I : 1..(j - 1) \subseteq 1..n
    BY <1>1
  <2> QED
    BY <1>1, <1>2, <2>1
<1>8. d \in [1..n -> Nat] /\ d[n] = 0 /\ \A i \in 1..n : d[i] <= n - i
  BY <1>6, <1>7
<1>9. \A j \in I : \A i \in Kids(ns, j) : d[i] = d[j] + 1
  BY <1>6, <1>7
<1>10. Levels(d, ns, low)
  BY <1>8, <1>9 DEF Levels, n, I
<1> QED
  BY <1>8, <1>10 DEF n
(* A leaf stands for each byte that occurs. *)
LeafIds ==
  /\ \A i \in 1..Leaves : /\ nodes[i].id \in UsedBytes(freqs)
                          /\ nodes[i].freq = freqs[nodes[i].id]
  /\ \A b \in UsedBytes(freqs) : \E i \in 1..Leaves : nodes[i].id = b
  /\ \A i, j \in 1..Leaves : nodes[i].id = nodes[j].id => i = j

(* A heap entry speaks of its node. *)
HeapIds == \A e \in heap : e.id = nodes[e.index].id /\ e.freq = nodes[e.index].freq

ShapeInv ==
  /\ LeafIds /\ HeapIds
  /\ Forest(nodes, Leaves, Roots)
  /\ tstep \in {"merge", "walk"} => Leaves >= 2
  /\ tstep # "merge" => heap = {}

(* While no sum wraps, an inner node is as heavy as its children, and what *)
(* is still in the heap is at least as heavy as what has been taken out of *)
(* it: so is the sibling of a node than the children of that node.         *)
WeightInv ==
  ~Overflows =>
    /\ \A i \in 1..Len(nodes) : nodes[i].freq >= 1
    /\ \A j \in Inner(nodes, Leaves) :
         nodes[j].freq = nodes[nodes[j].kids[1]].freq + nodes[nodes[j].kids[2]].freq
    /\ \A j \in Inner(nodes, Leaves) : \A i \in Kids(nodes, j) :
         /\ \A e \in heap : nodes[i].freq <= e.freq
         /\ \A k \in Kids(nodes, j) : i # k /\ i \in Inner(nodes, Leaves) =>
              \A c \in Kids(nodes, i) : nodes[c].freq <= nodes[k].freq

(* The walk has been to the nodes in seen, the next ones are on its stack, *)
(* and everything has the depth of its level.                              *)
Walked(d, seen) ==
  LET ahead == {stack[s][1] : s \in 1..Len(stack)}
  IN  /\ Levels(d, nodes, Leaves)
      /\ \A i \in 1..Len(nodes) : d[i] <= Len(nodes) - i
      /\ seen \subseteq 1..Len(nodes) /\ Len(nodes) \in seen \cup ahead
      /\ \A s \in 1..Len(stack) : stack[s][2] = d[stack[s][1]]
      /\ \A i \in seen : IF i <= Leaves THEN lengths[nodes[i].id] = d[i]
                         ELSE Kids(nodes, i) \subseteq seen \cup ahead

WalkInv ==
  /\ tstep \in {"walk", "built"} /\ Leaves >= 2 => \E d, seen : Walked(d, seen)
  /\ tstep = "built" => stack = <<>>
  /\ tstep = "built" /\ Leaves < 2 =>
       \A b \in Bytes : lengths[b] = IF freqs[b] > 0 THEN 1 ELSE 0
  /\ \A b \in Bytes : lengths[b] > 0 => freqs[b] > 0

TreeShape == ShapeInv /\ WeightInv /\ WalkInv

-----------------------------------------------------------------------------
(* What is split among the children of each inner node, is the same in     *)
(* total at the roots of the arena and over the bytes that occur.          *)
LEMMA RootsToBytes ==
  ASSUME TreeInv, LeafIds, Forest(nodes, Leaves, Roots),
         NEW share, share \in [1..Len(nodes) -> Nat],
         \A j \in Inner(nodes, Leaves) :
           share[j] = share[nodes[j].kids[1]] + share[nodes[j].kids[2]],
         NEW part, part \in [UsedBytes(freqs) -> Nat],
         \A i \in 1..Leaves : share[i] = part[nodes[i].id]
  PROVE  Sums(share, 1..Len(nodes))[Roots] = Sums(part, UsedBytes(freqs))[UsedBytes(freqs)]
<1> DEFINE n == Len(nodes)
           S == 1..n
           L == 1..Leaves
           U == UsedBytes(freqs)
           own == [i \in L |-> share[i]]
           same == [i \in L |-> i]
           ids == [i \in L |-> nodes[i].id]
<1>f. /\ Forest(nodes, Leaves, Roots) /\ share \in [1..Len(nodes) -> Nat]
      /\ \A j \in Inner(nodes, Leaves) :
           share[j] = share[nodes[j].kids[1]] + share[nodes[j].kids[2]]
  OBVIOUS
<1>1. n \in Nat /\ Leaves \in 0..n /\ Leaves \in Nat /\ L \in SUBSET S
  <2>1. n \in Nat /\ Leaves \in 0..NumBytes /\ Merged \in Nat /\ Leaves = n - Merged
    BY Sizes, LenProperties DEF TreeInv, ArenaInv, Leaves, Merged
  <2> QED
    BY <2>1
<1>2. IsFiniteSet(S) /\ IsFiniteSet(L) /\ IsFiniteSet(U)
  <2>1. IsFiniteSet(Bytes)
    BY Sizes, FS_Interval DEF Bytes
  <2>2. U \in SUBSET Bytes
    BY DEF UsedBytes
  <2> QED
    BY <1>1, <2>1, <2>2, FS_Interval, FS_Subset, SMTT(30)
<1>3. Sums(share, S)[Roots] = Sums(share, S)[L]
  <2>1. Len(nodes) \in Nat /\ Leaves \in 0..Len(nodes)
    BY <1>1
  <2>2. Sums(share, 1..Len(nodes))[Roots] = Sums(share, 1..Len(nodes))[1..Leaves]
    BY ONLY <2>1, <1>f, CutSums
  <2> QED
    BY <2>2
<1>4. \A i \in L : nodes[i].id \in U /\ share[i] = part[nodes[i].id] /\ share[i] \in Nat
  BY <1>1 DEF LeafIds
<1>5. own \in [L -> Nat]
  BY <1>4
<1>6. /\ \A i \in L : same[i] \in S /\ own[i] = share[same[i]]
      /\ \A i, j \in L : same[i] = same[j] => i = j
      /\ {same[i] : i \in L} = L
  BY <1>1
<1>7. /\ \A i \in L : ids[i] \in U /\ own[i] = part[ids[i]]
      /\ \A i, j \in L : ids[i] = ids[j] => i = j
      /\ {ids[i] : i \in L} = U
  BY <1>4 DEF LeafIds
<1>8. share \in [S -> Nat] /\ part \in [U -> Nat]
  OBVIOUS
<1> HIDE DEF n, S, L, U, own, same, ids
<1>9. Sums(own, L)[L] = Sums(share, S)[{same[i] : i \in L}]
  BY ONLY <1>2, <1>5, <1>6, <1>8, SumsCarried
<1>10. Sums(own, L)[L] = Sums(part, U)[{ids[i] : i \in L}]
  BY ONLY <1>2, <1>5, <1>7, <1>8, SumsCarried
<1> QED
  BY <1>3, <1>6, <1>7, <1>9, <1>10 DEF n, S, U

LEMMA TotalIsSums ==
  ASSUME NEW f \in [Bytes -> Nat]
  PROVE  Sum(f, Bytes) = Sums(f, Bytes)[Bytes]
<1> DEFINE e(it) == [s \in SUBSET Bytes |->
                       IF s = {} THEN 0
                       ELSE f[CHOOSE x \in s : TRUE] + it[s \ {CHOOSE x \in s : TRUE}]]
           iter == CHOOSE it : it = e(it)
<1>1. Sum(f, Bytes) = iter[Bytes]
  BY DEF Sum, MapThenSumSet, MapThenFoldSet
<1>2. ASSUME NEW it PROVE (it = e(it)) <=> IsSum(it, f, Bytes)
  BY DEF IsSum, Chosen
<1> HIDE DEF e
<1>3. iter = Sums(f, Bytes)
  BY <1>2 DEF Sums
<1> QED
  BY <1>1, <1>3

(* Unless a sum wrapped, the trees of the heap weigh together what the     *)
(* frequencies sum to.                                                     *)
LEMMA RootsWeighTotal ==
  ASSUME TreeInv, LeafIds, Forest(nodes, Leaves, Roots),
         \A j \in Inner(nodes, Leaves) :
           nodes[j].freq = nodes[nodes[j].kids[1]].freq + nodes[nodes[j].kids[2]].freq
  PROVE  LET weight == [i \in 1..Len(nodes) |-> nodes[i].freq]
         IN  /\ weight \in [1..Len(nodes) -> Nat] /\ IsFiniteSet(1..Len(nodes))
             /\ Sums(weight, 1..Len(nodes))[Roots] = Total
<1> DEFINE n == Len(nodes)
           weight == [i \in 1..n |-> nodes[i].freq]
           U == UsedBytes(freqs)
           f == [b \in U |-> freqs[b]]
           same == [b \in U |-> b]
<1>1. n \in Nat /\ Leaves \in 0..n /\ IsFiniteSet(1..n) /\ nodes \in Seq(Node)
  <2>1. n \in Nat /\ Leaves \in 0..NumBytes /\ Merged \in Nat /\ Leaves = n - Merged
        /\ nodes \in Seq(Node)
    BY Sizes, LenProperties DEF TreeInv, ArenaInv, Leaves, Merged
  <2> QED
    BY <2>1, FS_Interval, SMTT(30)
<1>2. \A i \in 1..n : nodes[i].freq \in Nat
  <2>1. \A i \in 1..n : nodes[i] \in Node
    BY <1>1, ElementOfSeq
  <2> QED
    BY <2>1, Sizes DEF Node, Freqs
<1>3. weight \in [1..n -> Nat]
  BY <1>2
<1>4. freqs \in [Bytes -> Nat] /\ U \in SUBSET Bytes /\ f \in [U -> Nat]
  BY Sizes DEF TreeInv, Freqs, UsedBytes
<1>5. \A j \in Inner(nodes, Leaves) :
        weight[j] = weight[nodes[j].kids[1]] + weight[nodes[j].kids[2]]
  <2>1. ASSUME NEW j \in Inner(nodes, Leaves)
        PROVE  j \in 1..n /\ nodes[j].kids[1] \in 1..n /\ nodes[j].kids[2] \in 1..n
    <3>1. j \in 1..n
      BY <1>1 DEF Inner
    <3>2. nodes[j].kids[1] \in 1..(j - 1) /\ nodes[j].kids[2] \in 1..(j - 1)
      BY DEF Forest
    <3> QED
      BY <1>1, <3>1, <3>2
  <2> QED
    BY <2>1
<1>6. \A i \in 1..Leaves : weight[i] = f[nodes[i].id]
  <2>1. \A i \in 1..Leaves : i \in 1..n
    BY <1>1
  <2> QED
    BY <2>1 DEF LeafIds
<1> HIDE DEF weight, f
<1>7. Sums(weight, 1..n)[Roots] = Sums(f, U)[U]
  BY <1>3, <1>4, <1>5, <1>6, RootsToBytes
<1>8. IsFiniteSet(Bytes) /\ IsFiniteSet(U)
  <2>1. IsFiniteSet(Bytes)
    BY Sizes, FS_Interval DEF Bytes
  <2> QED
    BY <1>4, <2>1, FS_Subset
<1>9. /\ \A b \in U : same[b] \in Bytes /\ f[b] = freqs[same[b]]
      /\ \A b, c \in U : same[b] = same[c] => b = c
      /\ {same[b] : b \in U} = U
  BY <1>4 DEF f
<1>12. \A b \in Bytes \ U : freqs[b] = 0
  BY <1>4 DEF UsedBytes
<1> HIDE DEF U, same
<1>10. Sums(f, U)[U] = Sums(freqs, Bytes)[{same[b] : b \in U}]
  BY ONLY <1>4, <1>8, <1>9, SumsCarried
<1>11. Sums(freqs, Bytes)[Bytes] = Sums(freqs, Bytes)[U]
  BY ONLY <1>4, <1>8, <1>12, SumsWithin
<1>13. Total = Sums(freqs, Bytes)[Bytes]
  BY <1>4, TotalIsSums DEF Total
<1> QED
  BY <1>1, <1>3, <1>7, <1>9, <1>10, <1>11, <1>13 DEF weight

-----------------------------------------------------------------------------
(* The shape of the trees is kept: one lemma per action again.             *)

(* Where the leaves end. *)
LEMMA ArenaSizes ==
  ASSUME TreeInv
  PROVE  /\ Len(nodes) \in Nat /\ Leaves \in Nat /\ Leaves \in 0..Len(nodes)
         /\ Leaves <= NumBytes /\ Merged \in Nat /\ Len(nodes) = Leaves + Merged
         /\ \A i \in 1..Len(nodes) : nodes[i].freq \in Nat /\ WellPlaced(i)
<1>1. /\ Len(nodes) \in Nat /\ Leaves \in 0..NumBytes /\ Merged \in Nat
      /\ Leaves = Len(nodes) - Merged /\ nodes \in Seq(Node)
      /\ \A i \in 1..Len(nodes) : WellPlaced(i)
  BY Sizes, LenProperties DEF TreeInv, ArenaInv, Leaves, Merged
<1>2. \A i \in 1..Len(nodes) : nodes[i] \in Node
  BY <1>1, ElementOfSeq
<1>3. \A i \in 1..Len(nodes) : nodes[i].freq \in Nat
  BY <1>2, Sizes DEF Node, Freqs
<1> QED
  BY <1>1, <1>3, Sizes

LEMMA IdleHasShape == TreeIdle => TreeShape
<1> SUFFICES ASSUME TreeIdle PROVE TreeShape
  OBVIOUS
<1>1. /\ nodes = <<>> /\ Len(nodes) = 0 /\ nextId = NumBytes /\ heap = {}
      /\ freqs = NoCodes /\ lengths = NoCodes /\ tstep = "idle"
  BY EmptySeq DEF TreeIdle
<1>2. Leaves = 0 /\ Roots = {} /\ UsedBytes(freqs) = {} /\ Inner(nodes, Leaves) = {}
  <2>1. Leaves = 0
    BY <1>1, Sizes DEF Leaves, Merged
  <2>2. UsedBytes(freqs) = {}
    BY <1>1 DEF UsedBytes, NoCodes
  <2> QED
    BY <1>1, <2>1, <2>2 DEF Roots, Inner
<1>3. ShapeInv
  BY <1>1, <1>2 DEF ShapeInv, LeafIds, HeapIds, Forest
<1>4. WeightInv
  BY <1>1, <1>2 DEF WeightInv
<1>5. WalkInv
  BY <1>1 DEF WalkInv, NoCodes
<1> QED
  BY <1>3, <1>4, <1>5 DEF TreeShape

LEMMA BuildCallGivesShape ==
  ASSUME NEW f \in [Bytes -> Freqs], BuildCall(f)
  PROVE  TreeShape'
<1> DEFINE used   == Occurring(f)
           n      == Len(used)
           leaves == {Entry(f[used[i]], used[i], i) : i \in 1..n}
<1>1. /\ n \in Nat /\ n <= NumBytes /\ \A i \in 1..n : used[i] \in Bytes
      /\ \A i, j \in 1..n : i < j => used[i] < used[j]
      /\ \A b \in Bytes : f[b] > 0 <=> \E i \in 1..n : used[i] = b
  <2>1. Lists(used, f, NumBytes)
    BY OccurringLists
  <2> HIDE DEF used
  <2>2. used \in Seq(Bytes) /\ n \in Nat /\ n <= NumBytes
    BY <2>1, LenProperties DEF Lists, Ascending
  <2>3. \A i \in 1..n : used[i] \in Bytes
    BY <2>2, ElementOfSeq
  <2> QED
    BY <2>1, <2>2, <2>3 DEF Lists, Ascending, Bytes
<1>2. /\ nodes' = [i \in 1..n |-> Leaf(f[used[i]], used[i])]
      /\ nextId' = NumBytes /\ stack' = <<>>
      /\ freqs' = f /\ heap' = (IF n > 1 THEN leaves ELSE {})
      /\ lengths' = [b \in Bytes |-> IF n = 1 /\ f[b] > 0 THEN 1 ELSE 0]
      /\ tstep' = IF n > 1 THEN "merge" ELSE "built"
  BY DEF BuildCall
<1> HIDE DEF used
<1>3. \A i, j \in 1..n : used[i] = used[j] => i = j
  <2>1. ASSUME NEW i \in 1..n, NEW j \in 1..n, used[i] = used[j] PROVE i = j
    <3>1. used[i] \in Nat /\ i \in Nat /\ j \in Nat
      BY <1>1, Sizes DEF Bytes
    <3> QED
      BY <1>1, <2>1, <3>1
  <2> QED
    BY <2>1
<1>4. /\ Len(nodes') = n
      /\ \A i \in 1..n : /\ nodes'[i].id = used[i] /\ nodes'[i].freq = f[used[i]]
                         /\ f[used[i]] > 0 /\ f[used[i]] \in Nat
  <2>1. Len(nodes') = n
    BY <1>1, <1>2
  <2>2. \A i \in 1..n : f[used[i]] \in Freqs
    BY <1>1
  <2> QED
    BY <1>1, <1>2, <2>1, <2>2, Sizes DEF Leaf, Freqs
<1>5. Leaves' = n /\ Inner(nodes', Leaves') = {}
  <2>1. Leaves' = n
    BY <1>1, <1>2, <1>4, Sizes DEF Leaves, Merged
  <2> QED
    BY <1>1, <1>4, <2>1 DEF Inner
<1>6. Roots' = 1..n
  <2>1. CASE n > 1
    <3>1. heap' = leaves
      BY <1>2, <2>1
    <3>3. {e.index : e \in leaves} = 1..n
      <4>1. \A e \in leaves : e.index \in 1..n
        BY DEF Entry
      <4>2. ASSUME NEW i \in 1..n PROVE \E e \in leaves : e.index = i
        <5>1. Entry(f[used[i]], used[i], i) \in leaves
          OBVIOUS
        <5>2. Entry(f[used[i]], used[i], i).index = i
          BY DEF Entry
        <5> QED
          BY <5>1, <5>2
      <4> HIDE DEF leaves, n
      <4> QED
        BY <4>1, <4>2
    <3>2. leaves # {}
      <4>1. 1 \in 1..n
        BY <1>1, <2>1
      <4> QED
        BY <4>1
    <3> HIDE DEF leaves, n
    <3> QED
      BY <3>1, <3>2, <3>3 DEF Roots
  <2>2. CASE n = 1
    <3>1. heap' = {} /\ Len(nodes') = 1 /\ nodes' # <<>>
      BY <1>2, <1>4, <2>2
    <3> QED
      BY <2>2, <3>1 DEF Roots
  <2>3. CASE n = 0
    <3>1. heap' = {} /\ nodes' = <<>>
      BY <1>2, <2>3
    <3> QED
      BY <2>3, <3>1 DEF Roots
  <2>4. n > 1 \/ n = 1 \/ n = 0
    BY <1>1
  <2> QED
    BY <2>1, <2>2, <2>3, <2>4
<1>7. ShapeInv'
  <2>1. \A b \in UsedBytes(f) : b \in Bytes /\ f[b] > 0
    BY DEF UsedBytes
  <2>2. \A i \in 1..n : used[i] \in UsedBytes(f)
    BY <1>1, <1>4 DEF UsedBytes
  <2>3. LeafIds'
    BY <1>1, <1>2, <1>3, <1>4, <1>5, <2>1, <2>2 DEF LeafIds
  <2>4. HeapIds'
    BY <1>2, <1>4 DEF HeapIds, Entry
  <2>5. Forest(nodes, Leaves, Roots)'
    BY <1>4, <1>5, <1>6 DEF Forest
  <2> QED
    BY <1>1, <1>2, <1>5, <2>3, <2>4, <2>5 DEF ShapeInv
<1>8. WeightInv'
  BY <1>4, <1>5 DEF WeightInv
<1>9. WalkInv'
  <2>1. tstep' \notin {"walk"} /\ (tstep' = "built" => n = 0 \/ n = 1)
    <3>1. n > 1 \/ n = 0 \/ n = 1
      BY <1>1
    <3>2. tstep' = IF n > 1 THEN "merge" ELSE "built"
      BY <1>2
    <3> HIDE DEF n
    <3> QED
      BY <3>1, <3>2
  <2>2. ASSUME NEW b \in Bytes
        PROVE  /\ lengths'[b] > 0 => f[b] > 0
               /\ n \in {0, 1} => lengths'[b] = IF f[b] > 0 THEN 1 ELSE 0
    <3>1. n = 0 => ~(f[b] > 0)
      BY <1>1
    <3> QED
      BY <1>2, <3>1
  <2> QED
    BY <1>1, <1>2, <1>5, <2>1, <2>2 DEF WalkInv
<1> QED
  BY <1>7, <1>8, <1>9 DEF TreeShape

LEMMA ForestJoins ==
  ASSUME NEW ns, Len(ns) \in Nat, NEW low, low \in 0..Len(ns),
         NEW roots, Forest(ns, low, roots),
         NEW a, a \in roots, NEW b, b \in roots, a # b,
         NEW ms, Len(ms) = Len(ns) + 1, \A i \in 1..Len(ns) : ms[i] = ns[i],
         ms[Len(ns) + 1].kids = <<a, b>>
  PROVE  /\ Inner(ms, low) = Inner(ns, low) \cup {Len(ns) + 1}
         /\ \A j \in Inner(ns, low) : j \in 1..Len(ns) /\ ms[j] = ns[j] /\ Kids(ms, j) = Kids(ns, j)
         /\ Kids(ms, Len(ns) + 1) = {a, b}
         /\ Forest(ms, low, (roots \ {a, b}) \cup {Len(ns) + 1})
<1> DEFINE n == Len(ns)
           I == Inner(ns, low)
           J == Inner(ms, low)
           top == (roots \ {a, b}) \cup {n + 1}
<1>1. n \in Nat /\ n + 1 \in Nat /\ low \in Nat /\ J = I \cup {n + 1} /\ I \subseteq 1..n
  BY DEF Inner
<1>2. \A j \in I : j \in 1..n /\ ms[j] = ns[j] /\ Kids(ms, j) = Kids(ns, j)
  BY <1>1 DEF Kids
<1>3. Kids(ms, n + 1) = {a, b}
  BY DEF Kids
<1>4. /\ roots \subseteq 1..n
      /\ \A j \in I : /\ ns[j].kids[1] \in 1..(j - 1) /\ ns[j].kids[2] \in 1..(j - 1)
                      /\ ns[j].kids[1] # ns[j].kids[2]
      /\ \A i \in 1..n : i \in roots \/ \E j \in I : i \in Kids(ns, j)
      /\ \A i \in roots : \A j \in I : i \notin Kids(ns, j)
      /\ \A i, j \in I : i # j => Kids(ns, i) \cap Kids(ns, j) = {}
  BY DEF Forest
<1>5. \A j \in I : Kids(ns, j) \subseteq 1..n
  <2>1. \A j \in I : 1..(j - 1) \subseteq 1..n
    BY <1>1
  <2> QED
    BY <1>4, <2>1 DEF Kids
<1>6. n + 1 \notin 1..n /\ 1..(n + 1) = 1..n \cup {n + 1} /\ Len(ms) = n + 1
  BY <1>1
<1> HIDE DEF I, J
<1>7. top \subseteq 1..(n + 1)
  BY <1>4, <1>6
<1>8. \A j \in J : /\ ms[j].kids[1] \in 1..(j - 1) /\ ms[j].kids[2] \in 1..(j - 1)
                   /\ ms[j].kids[1] # ms[j].kids[2]
  <2>1. a \in 1..n /\ b \in 1..n /\ (n + 1) - 1 = n
    BY <1>1, <1>4
  <2>2. ms[n + 1].kids[1] = a /\ ms[n + 1].kids[2] = b
    OBVIOUS
  <2> QED
    BY <1>1, <1>2, <1>4, <2>1, <2>2
<1>9. \A i \in 1..(n + 1) : i \in top \/ \E j \in J : i \in Kids(ms, j)
  BY <1>1, <1>2, <1>3, <1>4, <1>6
<1>10. \A i \in top : \A j \in J : i \notin Kids(ms, j)
  <2>1. a \in 1..n /\ b \in 1..n
    BY <1>4
  <2> QED
    BY <1>1, <1>2, <1>3, <1>4, <1>5, <1>6, <2>1, SMTT(30)
<1>11. \A i, j \in J : i # j => Kids(ms, i) \cap Kids(ms, j) = {}
  <2>1. \A i \in I : a \notin Kids(ms, i) /\ b \notin Kids(ms, i)
    BY <1>2, <1>4
  <2>2. \A i \in I : Kids(ms, i) \cap Kids(ms, n + 1) = {}
    BY <1>3, <2>1
  <2>3. \A i, j \in I : i # j => Kids(ms, i) \cap Kids(ms, j) = {}
    BY <1>2, <1>4
  <2> QED
    BY <1>1, <2>2, <2>3
<1>12. Forest(ms, low, top)
  BY <1>6, <1>7, <1>8, <1>9, <1>10, <1>11 DEF Forest, J
<1> QED
  BY <1>1, <1>2, <1>3, <1>12 DEF I, J

(* Two entries of the heap stand for two roots. *)
LEMMA HeapRoots ==
  ASSUME TreeInv, ShapeInv, heap # {}
  PROVE  /\ Roots = {e.index : e \in heap}
         /\ \A e, m \in heap : e.index = m.index => e = m
<1>1. ASSUME NEW e \in heap, NEW m \in heap, e.index = m.index PROVE e = m
  <2>1. e.id = m.id
    BY <1>1 DEF ShapeInv, HeapIds
  <2> QED
    BY <2>1 DEF TreeInv, HeapInv, DistinctIds
<1> QED
  BY <1>1 DEF Roots

(* While the sum of all frequencies fits, so does that of two roots. *)
LEMMA RootsFit ==
  ASSUME TreeInv, ShapeInv, WeightInv, ~Overflows, heap # {},
         NEW left, left \in heap, NEW right, right \in heap, left # right
  PROVE  /\ left.freq \in Nat /\ right.freq \in Nat
         /\ left.freq = nodes[left.index].freq /\ right.freq = nodes[right.index].freq
         /\ left.freq >= 1 /\ right.freq >= 1
         /\ left.freq + right.freq < FreqSpace
<1> DEFINE n == Len(nodes)
           weight == [i \in 1..n |-> nodes[i].freq]
           S == 1..n
           a == left.index
           b == right.index
<1>1. /\ left.freq = nodes[a].freq /\ right.freq = nodes[b].freq
      /\ a \in 1..n /\ b \in 1..n
  BY DEF ShapeInv, HeapIds, TreeInv, HeapInv, HeapEntries
<1>2. a \in Roots /\ b \in Roots /\ a # b /\ Roots \in SUBSET S
  BY HeapRoots DEF ShapeInv, Forest
<1>3. left.freq \in Nat /\ right.freq \in Nat
  BY <1>1, ArenaSizes
<1>4. left.freq >= 1 /\ right.freq >= 1
  BY <1>1 DEF WeightInv
<1>5. weight \in [S -> Nat] /\ IsFiniteSet(S) /\ Sums(weight, S)[Roots] = Total
  <2>1. LeafIds /\ Forest(nodes, Leaves, Roots)
    BY DEF ShapeInv
  <2>2. \A j \in Inner(nodes, Leaves) :
          nodes[j].freq = nodes[nodes[j].kids[1]].freq + nodes[nodes[j].kids[2]].freq
    BY DEF WeightInv
  <2> QED
    BY <2>1, <2>2, RootsWeighTotal
<1>6. weight[a] = left.freq /\ weight[b] = right.freq
  BY <1>1
<1> HIDE DEF weight, S, a, b
<1>7. weight[a] + weight[b] <= Sums(weight, S)[Roots]
  BY ONLY <1>2, <1>5, SumsBound
<1>8. Sums(weight, S)[Roots] \in Nat
  <2>1. IsFiniteSet(S) /\ weight \in [S -> Nat]
    BY <1>5
  <2>2. Sums(weight, S) \in [SUBSET S -> Nat]
    BY ONLY <2>1, SumsType
  <2> QED
    BY <1>2, <2>2
<1>9. Total < FreqSpace
  BY <1>5, <1>8, Sizes DEF Overflows
<1> QED
  BY <1>1, <1>3, <1>4, <1>5, <1>6, <1>7, <1>8, <1>9, Sizes DEF a, b

LEMMA MergeKeepsShape ==
  ASSUME TreeInv, TreeShape, Merge
  PROVE  TreeShape'
<1> DEFINE left  == Least(heap)
           rest  == heap \ {left}
           right == Least(rest)
           sum   == (left.freq + right.freq) % FreqSpace
           n     == Len(nodes)
           a     == left.index
           b     == right.index
           I     == Inner(nodes, Leaves)
<1>1. /\ tstep = "merge" /\ Cardinality(heap) >= 2 /\ Leaves >= 2
      /\ left \in heap /\ right \in rest
      /\ heap' = (heap \ {left, right}) \cup {Entry(sum, nextId, n + 1)}
      /\ sum \in Freqs /\ a \in 1..n /\ b \in 1..n
      /\ Len(nodes') = n + 1 /\ \A i \in 1..n : nodes'[i] = nodes[i]
      /\ nodes'[n + 1] = [freq |-> sum, id |-> nextId, kids |-> <<a, b>>]
      /\ Leaves' = Leaves /\ UNCHANGED <<freqs, stack, lengths, tstep>>
  <2>1. Leaves \in Nat /\ Merged \in Nat
    BY ArenaSizes
  <2>2. Cardinality(heap) \in 2..(Leaves - Merged)
    BY MergeJoins
  <2>3. Cardinality(heap) >= 2 /\ Leaves >= 2
    BY <2>1, <2>2
  <2> QED
    BY <2>3, MergeJoins
<1>2. /\ \A e \in heap : left.freq <= e.freq
      /\ \A e \in rest : right.freq <= e.freq
  BY <1>1, MergeTakes
<1>3. /\ n \in Nat /\ Leaves \in 0..n /\ Leaves \in Nat
      /\ \A i \in 1..n : nodes[i].freq \in Nat
  BY ArenaSizes
<1>4. left # right /\ right \in heap /\ heap # {}
  BY <1>1
<1> HIDE DEF left, right
<1>5. /\ Roots = {e.index : e \in heap}
      /\ \A e, m \in heap : e.index = m.index => e = m
  BY <1>4, HeapRoots DEF TreeShape
<1>6. a \in Roots /\ b \in Roots /\ a # b
  BY <1>1, <1>4, <1>5
<1>7. Roots' = (Roots \ {a, b}) \cup {n + 1}
  <2>1. Roots' = {e.index : e \in heap'}
    <3>1. heap' # {}
      BY <1>1
    <3> QED
      BY <3>1 DEF Roots
  <2>2. Entry(sum, nextId, n + 1).index = n + 1
    BY DEF Entry
  <2>3. {e.index : e \in heap \ {left, right}} = Roots \ {a, b}
    BY <1>1, <1>4, <1>5
  <2> HIDE DEF sum, n, a, b
  <2> QED
    BY <1>1, <2>1, <2>2, <2>3, SMTT(30)
<1>8. /\ Inner(nodes', Leaves) = I \cup {n + 1}
      /\ \A j \in I : j \in 1..n /\ nodes'[j] = nodes[j] /\ Kids(nodes', j) = Kids(nodes, j)
      /\ Kids(nodes', n + 1) = {a, b}
      /\ Forest(nodes', Leaves, (Roots \ {a, b}) \cup {n + 1})
  <2>1. Forest(nodes, Leaves, Roots)
    BY DEF TreeShape, ShapeInv
  <2>2. nodes'[Len(nodes) + 1].kids = <<a, b>>
    BY <1>1
  <2>3. Len(nodes) \in Nat /\ Leaves \in 0..Len(nodes) /\ Len(nodes') = Len(nodes) + 1
        /\ \A i \in 1..Len(nodes) : nodes'[i] = nodes[i]
    BY <1>1, <1>3
  <2> HIDE DEF a, b
  <2> QED
    BY ONLY <1>6, <2>1, <2>2, <2>3, ForestJoins DEF n, I
<1>9. \A j \in I : Kids(nodes, j) \subseteq 1..n
  <2>1. \A j \in I : 1..(j - 1) \subseteq 1..n
    BY <1>3, <1>8
  <2> QED
    BY <2>1 DEF TreeShape, ShapeInv, Forest, Kids
<1> HIDE DEF n, a, b, sum, I
<1>10. ShapeInv'
  <2>1. LeafIds'
    <3>1. \A i \in 1..Leaves : i \in 1..n
      BY <1>3
    <3>2. \A i \in 1..Leaves : nodes'[i] = nodes[i]
      BY <1>1, <3>1
    <3> QED
      BY <1>1, <3>2 DEF TreeShape, ShapeInv, LeafIds
  <2>2. HeapIds'
    <3>1. \A e \in heap : e.index \in 1..n
      BY DEF TreeInv, HeapInv, HeapEntries, n
    <3> QED
      BY <1>1, <3>1 DEF TreeShape, ShapeInv, HeapIds, Entry
  <2>3. Forest(nodes', Leaves', Roots')
    BY <1>1, <1>7, <1>8
  <2> QED
    BY <1>1, <2>1, <2>2, <2>3 DEF ShapeInv
<1>11. ASSUME ~Overflows
       PROVE  /\ left.freq \in Nat /\ right.freq \in Nat
              /\ left.freq = nodes[a].freq /\ right.freq = nodes[b].freq
              /\ left.freq >= 1 /\ right.freq >= 1
              /\ sum = left.freq + right.freq
  <2>1. /\ left.freq \in Nat /\ right.freq \in Nat
        /\ left.freq = nodes[left.index].freq /\ right.freq = nodes[right.index].freq
        /\ left.freq >= 1 /\ right.freq >= 1
        /\ left.freq + right.freq < FreqSpace
    BY <1>1, <1>4, <1>11, RootsFit DEF TreeShape
  <2>2. sum = left.freq + right.freq
    BY <2>1, Sizes DEF sum
  <2> QED
    BY <2>1, <2>2 DEF a, b
<1>12. WeightInv'
  <2>1. Overflows' = Overflows
    BY <1>1 DEF Overflows, Total
  <2> SUFFICES ASSUME ~Overflows
               PROVE  /\ \A i \in 1..Len(nodes') : nodes'[i].freq >= 1
                      /\ \A j \in I \cup {n + 1} :
                           nodes'[j].freq = nodes'[nodes'[j].kids[1]].freq
                                            + nodes'[nodes'[j].kids[2]].freq
                      /\ \A j \in I \cup {n + 1} : \A i \in Kids(nodes', j) :
                           /\ \A e \in heap' : nodes'[i].freq <= e.freq
                           /\ \A k \in Kids(nodes', j) : i # k /\ i \in I \cup {n + 1} =>
                                \A c \in Kids(nodes', i) : nodes'[c].freq <= nodes'[k].freq
    BY <1>1, <1>8, <2>1 DEF WeightInv
  <2>2. /\ left.freq \in Nat /\ right.freq \in Nat
        /\ left.freq = nodes[a].freq /\ right.freq = nodes[b].freq
        /\ left.freq >= 1 /\ right.freq >= 1
        /\ nodes'[n + 1].freq = left.freq + right.freq
    BY <1>1, <1>11
  <2>3. /\ \A i \in 1..n : nodes[i].freq >= 1
        /\ \A j \in I :
             nodes[j].freq = nodes[nodes[j].kids[1]].freq + nodes[nodes[j].kids[2]].freq
        /\ \A j \in I : \A i \in Kids(nodes, j) :
             /\ \A e \in heap : nodes[i].freq <= e.freq
             /\ \A k \in Kids(nodes, j) : i # k /\ i \in I =>
                  \A c \in Kids(nodes, i) : nodes[c].freq <= nodes[k].freq
    BY DEF TreeShape, WeightInv, I, n
  <2>4. \A i \in 1..(n + 1) : i \in 1..n \/ i = n + 1
    BY <1>3 DEF n
  <2>5. \A i \in 1..Len(nodes') : nodes'[i].freq >= 1
    BY <1>1, <2>2, <2>3, <2>4
  <2>6. \A j \in I : nodes[j].kids[1] \in 1..n /\ nodes[j].kids[2] \in 1..n
    BY <1>9 DEF Kids
  <2>7. ASSUME NEW j \in I \cup {n + 1}
        PROVE  nodes'[j].freq = nodes'[nodes'[j].kids[1]].freq
                                + nodes'[nodes'[j].kids[2]].freq
    <3>1. CASE j \in I
      BY <1>1, <1>8, <2>3, <2>6, <3>1, SMTT(30)
    <3>2. CASE j = n + 1
      BY <1>1, <2>2, <3>2
    <3> QED
      BY <3>1, <3>2
  <2>8. \A e \in heap' : e \in heap \/ e.freq = left.freq + right.freq
    BY <1>1, <1>11 DEF Entry
  <2>9. \A e \in heap : e.freq \in Nat
    BY DEF TreeInv, HeapInv, HeapEntries
  <2>10. ASSUME NEW j \in I \cup {n + 1}, NEW i \in Kids(nodes', j), NEW e \in heap'
         PROVE  nodes'[i].freq <= e.freq
    <3>1. CASE j \in I
      <4>1. i \in Kids(nodes, j) /\ i \in 1..n
        BY <1>8, <1>9, <3>1
      <4>2. nodes'[i] = nodes[i] /\ nodes[i].freq \in Nat
        BY <1>1, <1>3, <4>1 DEF n
      <4>3. \A m \in heap : nodes[i].freq <= m.freq
        BY <2>3, <3>1, <4>1
      <4> QED
        BY <1>4, <2>2, <2>8, <4>2, <4>3, <1>1
    <3>2. CASE j = n + 1
      <4>1. i \in {a, b}
        BY <1>8, <3>2
      <4>2. nodes'[a].freq = left.freq /\ nodes'[b].freq = right.freq
        BY <1>1, <2>2
      <4>3. CASE e \in heap \ {left, right}
        BY <1>2, <4>1, <4>2, <4>3
      <4>4. CASE e.freq = left.freq + right.freq
        BY <2>2, <4>1, <4>2, <4>4
      <4> QED
        BY <1>1, <1>11, <4>3, <4>4 DEF Entry
    <3> QED
      BY <3>1, <3>2
  <2>11. ASSUME NEW j \in I \cup {n + 1}, NEW i \in Kids(nodes', j),
                NEW k \in Kids(nodes', j), i # k, i \in I \cup {n + 1},
                NEW c \in Kids(nodes', i)
         PROVE  nodes'[c].freq <= nodes'[k].freq
    <3>1. i \in 1..n /\ k \in 1..n
      BY <1>1, <1>8, <1>9
    <3>2. i \in I
      <4>1. n + 1 \notin 1..n
        BY <1>3 DEF n
      <4> QED
        BY <2>11, <3>1, <4>1
    <3>3. c \in Kids(nodes, i) /\ c \in 1..n
      BY <1>8, <1>9, <3>2
    <3>4. nodes'[c] = nodes[c] /\ nodes'[k] = nodes[k]
      BY <1>1, <3>1, <3>3
    <3>5. CASE j \in I
      BY <1>8, <2>3, <2>11, <3>2, <3>3, <3>4, <3>5
    <3>6. CASE j = n + 1
      <4>1. k \in {a, b}
        BY <1>8, <3>6
      <4>2. \E e \in heap : nodes[k].freq = e.freq
        BY <1>1, <1>4, <2>2, <4>1
      <4> QED
        BY <2>3, <3>2, <3>3, <3>4, <4>2
    <3> QED
      BY <3>5, <3>6
  <2> QED
    BY <2>5, <2>7, <2>10, <2>11
<1>13. WalkInv'
  BY <1>1 DEF TreeShape, WalkInv
<1> QED
  BY <1>10, <1>12, <1>13 DEF TreeShape

LEMMA TakeRootKeepsShape ==
  ASSUME TreeInv, TreeShape, TakeRoot
  PROVE  TreeShape'
<1> DEFINE n == Len(nodes)
<1>1. /\ tstep = "merge" /\ tstep' = "walk" /\ heap' = {}
      /\ UNCHANGED <<freqs, nodes, nextId, lengths>>
  BY DEF TakeRoot
<1>2. PICK root \in heap : heap = {root} /\ stack' = << <<root.index, 0>> >>
  BY DEF TakeRoot
<1>3. Leaves' = Leaves /\ Leaves >= 2 /\ n \in Nat /\ n # 0 /\ Leaves \in 0..n /\ Leaves \in Nat
  <2>1. Leaves' = Leaves
    BY <1>1 DEF Leaves, Merged
  <2> QED
    BY <1>1, <2>1, ArenaSizes DEF TreeShape, ShapeInv
<1>4. Forest(nodes, Leaves, Roots) /\ Roots = {root.index}
  BY <1>2 DEF TreeShape, ShapeInv, Roots
<1>5. root.index = n
  <2>1. \A j \in Inner(nodes, Leaves) : n \notin Kids(nodes, j)
    <3>1. \A j \in Inner(nodes, Leaves) : j \in Nat /\ j <= n
      BY <1>3 DEF Inner
    <3>2. \A j \in Inner(nodes, Leaves) : n \notin 1..(j - 1)
      BY <1>3, <3>1
    <3> QED
      BY <1>4, <3>2 DEF Forest, Kids
  <2>2. n \in 1..n
    BY <1>3
  <2> QED
    BY <1>4, <2>1, <2>2 DEF Forest
<1>6. Roots' = {n}
  <2>1. nodes # <<>>
    BY <1>3, EmptySeq
  <2> QED
    BY <1>1, <2>1 DEF Roots
<1>7. ShapeInv'
  <2>1. LeafIds'
    BY <1>1, <1>3 DEF TreeShape, ShapeInv, LeafIds
  <2>2. HeapIds'
    BY <1>1 DEF HeapIds
  <2>3. Forest(nodes', Leaves', Roots')
    BY <1>1, <1>3, <1>4, <1>5, <1>6
  <2> QED
    BY <1>1, <1>3, <2>1, <2>2, <2>3 DEF ShapeInv
<1>8. WeightInv'
  <2>1. Overflows' = Overflows
    BY <1>1 DEF Overflows, Total
  <2> QED
    BY <1>1, <1>3, <2>1 DEF TreeShape, WeightInv
<1>9. \E d, seen : Walked(d, seen)'
  <2>1. Len(nodes) \in Nat \ {0} /\ Leaves \in 0..Len(nodes) /\ Forest(nodes, Leaves, {Len(nodes)})
    BY <1>3, <1>4, <1>5
  <2>2. PICK d : Levels(d, nodes, Leaves) /\ \A i \in 1..n : d[i] <= n - i
    BY ONLY <2>1, LevelsExist DEF n
  <2>3. stack' = << <<n, 0>> >> /\ Len(stack') = 1 /\ stack'[1] = <<n, 0>>
    BY <1>2, <1>5
  <2>4. {stack'[s][1] : s \in 1..Len(stack')} = {n}
    <3>1. 1..1 = {1}
      OBVIOUS
    <3> QED
      BY <2>3, <3>1
  <2>5. d[n] = 0
    BY <2>2 DEF Levels
  <2>6. \A s \in 1..Len(stack') : stack'[s][2] = d[stack'[s][1]]
    <3>1. 1..1 = {1}
      OBVIOUS
    <3> QED
      BY <2>3, <2>5, <3>1
  <2>7. Walked(d, {})'
    BY <1>1, <1>3, <2>2, <2>4, <2>6 DEF Walked
  <2> QED
    BY <2>7
<1>10. WalkInv'
  BY <1>1, <1>9 DEF TreeShape, WalkInv
<1> QED
  BY <1>7, <1>8, <1>10 DEF TreeShape

(* What stays with the arena and the heap.                                 *)
LEMMA ShapeStays ==
  ASSUME TreeInv, TreeShape, UNCHANGED <<freqs, nodes, heap, nextId>>,
         tstep' = tstep \/ (tstep = "walk" /\ tstep' = "built")
  PROVE  (ShapeInv /\ WeightInv)' /\ Leaves' = Leaves
<1>1. Leaves' = Leaves /\ Roots' = Roots
  BY DEF Leaves, Merged, Roots
<1>2. ShapeInv'
  BY <1>1 DEF TreeShape, ShapeInv, LeafIds, HeapIds
<1>3. Overflows' = Overflows
  BY DEF Overflows, Total
<1>4. WeightInv'
  BY <1>1, <1>3 DEF TreeShape, WeightInv
<1> QED
  BY <1>1, <1>2, <1>4

(* Two places put where the last of a stack was. *)
LEMMA FrontOfStack ==
  ASSUME NEW P, NEW st, st \in Seq(P), Len(st) >= 1
  PROVE  /\ Front(st) \in Seq(P) /\ Len(Front(st)) = Len(st) - 1
         /\ \A s \in 1..(Len(st) - 1) : Front(st)[s] = st[s]
<1> DEFINE m == Len(st) - 1
<1>1. Len(st) \in Nat /\ m \in Nat /\ m \in Int /\ 1 \in Int
  BY LenProperties
<1>2. \A s \in 1..m : st[s] \in P
  BY <1>1, ElementOfSeq
<1>3. Front(st) = SubSeq(st, 1, m)
  BY DEF Front
<1> HIDE DEF m
<1>4. /\ SubSeq(st, 1, m) \in Seq(P)
      /\ Len(SubSeq(st, 1, m)) = IF 1 <= m THEN (m - 1) + 1 ELSE 0
      /\ \A s \in 1..((m - 1) + 1) : SubSeq(st, 1, m)[s] = st[(1 + s) - 1]
  BY ONLY <1>1, <1>2, SubSeqProperties
<1>5. (m - 1) + 1 = m /\ \A s \in 1..m : (1 + s) - 1 = s
  BY <1>1
<1>6. Len(SubSeq(st, 1, m)) = m
  BY <1>1, <1>4
<1> QED
  BY <1>3, <1>4, <1>5, <1>6 DEF m

LEMMA TwoMore ==
  ASSUME NEW P, NEW front, front \in Seq(P), NEW x, NEW y
  PROVE  LET more == front \o <<x, y>>
             m    == Len(front)
         IN  /\ Len(more) = m + 2
             /\ \A s \in 1..m : more[s] = front[s]
             /\ more[m + 1] = x /\ more[m + 2] = y
<1> DEFINE Q == P \cup {x, y}
           two == <<x, y>>
           m == Len(front)
<1>1. two \in Seq(Q) /\ Len(two) = 2 /\ two[1] = x /\ two[2] = y
  OBVIOUS
<1>2. front \in Seq(Q) /\ m \in Nat
  BY LenProperties
<1> HIDE DEF Q, two
<1>3. /\ Len(front \o two) = Len(front) + Len(two)
      /\ \A s \in 1..(Len(front) + Len(two)) :
           (front \o two)[s] = IF s <= Len(front) THEN front[s] ELSE two[s - Len(front)]
  BY <1>1, <1>2, ConcatProperties
<1> HIDE DEF m
<1>4. /\ \A s \in 1..m : s \in 1..(m + 2) /\ s <= m
      /\ m + 1 \in 1..(m + 2) /\ ~(m + 1 <= m) /\ (m + 1) - m = 1
      /\ m + 2 \in 1..(m + 2) /\ ~(m + 2 <= m) /\ (m + 2) - m = 2
  BY <1>2
<1>5. Len(front) = m
  BY DEF m
<1> QED
  BY <1>1, <1>3, <1>4, <1>5 DEF two

LEMMA VisitKeepsShape ==
  ASSUME TreeInv, TreeShape, Visit
  PROVE  TreeShape'
<1> DEFINE n     == Len(nodes)
           place == Last(stack)
           i     == place[1]
           node  == nodes[i]
           ahead == {stack[s][1] : s \in 1..Len(stack)}
           next  == {stack'[s][1] : s \in 1..Len(stack')}
           m     == Len(stack)
<1>1. /\ tstep = "walk" /\ stack # <<>>
      /\ UNCHANGED <<freqs, nodes, heap, nextId, tstep>>
  BY DEF Visit
<1>2. ShapeInv' /\ WeightInv' /\ Leaves' = Leaves
  BY <1>1, ShapeStays
<1>3. Leaves >= 2 /\ n \in Nat /\ Leaves \in 0..n /\ Leaves \in Nat
  BY <1>1, ArenaSizes DEF TreeShape, ShapeInv
<1>4. PICK d, seen : Walked(d, seen)
  BY <1>1, <1>3 DEF TreeShape, WalkInv
<1>5. /\ stack \in Seq(Places) /\ m \in Nat /\ m >= 1 /\ place = stack[m]
      /\ i \in 1..n /\ WellPlaced(i) /\ i \in Nat
  <2>1. stack \in Seq(Places) /\ m \in Nat
    BY LenProperties DEF TreeInv, StackInv
  <2>2. m >= 1
    BY <1>1, <2>1, EmptySeq
  <2>3. place = stack[m]
    BY DEF Last
  <2>4. place \in Places
    BY <2>1, <2>2, <2>3, ElementOfSeq
  <2>5. i \in 1..n
    BY <2>4 DEF Places, Fits
  <2> QED
    BY <2>1, <2>2, <2>3, <2>5, ArenaSizes
<1>6. place[2] = d[i] /\ d \in [1..n -> Nat]
  <2>1. m \in 1..m
    BY <1>5
  <2> QED
    BY <1>4, <1>5, <2>1 DEF Walked, Levels
<1>7. /\ Front(stack) \in Seq(Places) /\ Len(Front(stack)) = m - 1
      /\ \A s \in 1..(m - 1) : Front(stack)[s] = stack[s]
  BY <1>5, FrontOfStack
<1>8. /\ i \in ahead
      /\ \A k \in ahead : k = i \/ \E s \in 1..(m - 1) : k = stack[s][1]
  <2>1. \A s \in 1..m : s = m \/ s \in 1..(m - 1)
    BY <1>5
  <2>2. m \in 1..m
    BY <1>5
  <2> QED
    BY <1>5, <2>1, <2>2
<1>9. /\ seen \subseteq 1..n /\ n \in seen \cup ahead
      /\ \A s \in 1..m : stack[s][2] = d[stack[s][1]]
      /\ \A k \in seen : IF k <= Leaves THEN lengths[nodes[k].id] = d[k]
                         ELSE Kids(nodes, k) \subseteq seen \cup ahead
      /\ Levels(d, nodes, Leaves) /\ \A k \in 1..n : d[k] <= n - k
  BY <1>4 DEF Walked
<1>10. SUFFICES ASSUME lengths' \in Codebooks
                PROVE  /\ \A b \in Bytes : lengths'[b] > 0 => freqs[b] > 0
                       /\ ahead \ {i} \subseteq next
                       /\ \A s \in 1..Len(stack') : stack'[s][2] = d[stack'[s][1]]
                       /\ \A k \in 1..Leaves : k # i => lengths'[nodes[k].id] = lengths[nodes[k].id]
                       /\ i <= Leaves => lengths'[nodes[i].id] = d[i]
                       /\ i > Leaves => Kids(nodes, i) \subseteq next
  <2>0. PICK more : more = seen \cup {i}
    OBVIOUS
  <2>1. lengths' \in Codebooks
    BY VisitKeepsTree DEF TreeInv
  <2>2. /\ \A b \in Bytes : lengths'[b] > 0 => freqs[b] > 0
        /\ ahead \ {i} \subseteq next
        /\ \A s \in 1..Len(stack') : stack'[s][2] = d[stack'[s][1]]
        /\ \A k \in 1..Leaves : k # i => lengths'[nodes[k].id] = lengths[nodes[k].id]
        /\ i <= Leaves => lengths'[nodes[i].id] = d[i]
        /\ i > Leaves => Kids(nodes, i) \subseteq next
    BY <1>10, <2>1
  <2> HIDE DEF i, ahead, next, m
  <2>3. more \subseteq 1..n /\ seen \cup ahead \subseteq more \cup next
    BY <1>5, <1>9, <2>0, <2>2
  <2>4. ASSUME NEW k \in more
        PROVE  IF k <= Leaves THEN lengths'[nodes[k].id] = d[k]
               ELSE Kids(nodes, k) \subseteq more \cup next
    <3>1. CASE k = i
      BY <1>3, <1>5, <2>2, <2>3, <3>1
    <3>2. CASE k # i
      <4>1. k \in seen /\ k \in Nat /\ k >= 1
        BY <1>9, <2>0, <3>2
      <4>2. CASE k <= Leaves
        <5>1. k \in 1..Leaves
          BY <1>3, <4>1, <4>2
        <5> QED
          BY <1>9, <2>2, <3>2, <4>1, <4>2, <5>1
      <4>3. CASE ~(k <= Leaves)
        BY <1>9, <2>3, <4>1, <4>3
      <4> QED
        BY <4>2, <4>3
    <3> QED
      BY <3>1, <3>2
  <2>5. n \in more \cup next
    BY <1>9, <2>3
  <2>6. Walked(d, more)'
    <3>1. Len(nodes') = n /\ nodes' = nodes
      BY <1>1
    <3>3. Levels(d, nodes', Leaves') /\ \A k \in 1..Len(nodes') : d[k] <= Len(nodes') - k
      BY <1>2, <1>9, <3>1
    <3>4. more \subseteq 1..Len(nodes') /\ Len(nodes') \in more \cup next
      BY <2>3, <2>5, <3>1
    <3>5. \A s \in 1..Len(stack') : stack'[s][2] = d[stack'[s][1]]
      BY <2>2
    <3>6. \A k \in more : IF k <= Leaves' THEN lengths'[nodes'[k].id] = d[k]
                          ELSE Kids(nodes', k) \subseteq more \cup next
      BY <1>2, <2>4, <3>1
    <3> HIDE DEF n
    <3> QED
      BY <3>3, <3>4, <3>5, <3>6 DEF Walked, next
  <2>7. WalkInv'
    BY <1>1, <2>2, <2>6 DEF WalkInv
  <2> QED
    BY <1>2, <2>7 DEF TreeShape
<1>11. nodes[i].id \in Bytes => freqs[nodes[i].id] \in Nat
  BY Sizes DEF TreeInv, Freqs
<1>12. CASE node.kids = <<>>
  <2>1. stack' = Front(stack) /\ lengths' = [lengths EXCEPT ![node.id] = place[2]]
    BY <1>12, Zenon DEF Visit
  <2>2. i <= Leaves /\ i \in 1..Leaves
    BY <1>3, <1>5, <1>12 DEF WellPlaced
  <2>3. node.id \in UsedBytes(freqs) /\ node.id \in Bytes /\ freqs[node.id] > 0
    BY <2>2 DEF TreeShape, ShapeInv, LeafIds, UsedBytes
  <2>4. \A k \in 1..Leaves : k # i => nodes[k].id # nodes[i].id
    BY <2>2 DEF TreeShape, ShapeInv, LeafIds
  <2>5. lengths \in [Bytes -> Bytes] /\ \A b \in Bytes : lengths[b] > 0 => freqs[b] > 0
    BY DEF TreeInv, TreeShape, WalkInv, Codebooks
  <2>6. \A k \in 1..Leaves : nodes[k].id \in Bytes
    BY DEF TreeShape, ShapeInv, LeafIds, UsedBytes
  <2>7. \A b \in Bytes : lengths'[b] = IF b = node.id THEN d[i] ELSE lengths[b]
    BY <1>6, <2>1, <2>5
  <2>8. Len(stack') = m - 1 /\ \A s \in 1..(m - 1) : stack'[s] = stack[s]
    BY <1>7, <2>1
  <2>9. \A s \in 1..(m - 1) : s \in 1..m
    BY <1>5
  <2>10. ahead \ {i} \subseteq next
    <3>1. \A s \in 1..(m - 1) : stack[s][1] \in next
      BY <2>8
    <3> HIDE DEF i, m, ahead, next
    <3> QED
      BY <1>8, <3>1
  <2>11. \A s \in 1..Len(stack') : stack'[s][2] = d[stack'[s][1]]
    BY <1>9, <2>8, <2>9
  <2>12. \A b \in Bytes : lengths'[b] > 0 => freqs[b] > 0
    BY <2>3, <2>5, <2>7
  <2>13. ~(i > Leaves)
    BY <1>3, <2>2
  <2> HIDE DEF ahead, next
  <2> QED
    BY <2>2, <2>4, <2>6, <2>7, <2>10, <2>11, <2>12, <2>13
<1>13. CASE node.kids # <<>>
  <2> DEFINE deeper(k) == <<node.kids[k], place[2] + 1>>
  <2>1. stack' = Front(stack) \o <<deeper(1), deeper(2)>> /\ lengths' = lengths
    BY <1>13, Zenon DEF Visit
  <2>2. i > Leaves /\ i \in Inner(nodes, Leaves)
    BY <1>3, <1>5, <1>13 DEF WellPlaced, Inner
  <2>3. \A k \in {1, 2} : d[node.kids[k]] = d[i] + 1
    BY <1>9, <2>2 DEF Levels, Kids
  <2> HIDE DEF node
  <2>4. /\ Len(stack') = m + 1
        /\ \A s \in 1..(m - 1) : stack'[s] = stack[s]
        /\ stack'[m] = deeper(1) /\ stack'[m + 1] = deeper(2)
    <3> DEFINE front == Front(stack)
               x == deeper(1)
               y == deeper(2)
    <3> HIDE DEF front, x, y, deeper
    <3>1. front \in Seq(Places) /\ Len(front) = m - 1 /\ \A s \in 1..(m - 1) : front[s] = stack[s]
      BY <1>7 DEF front
    <3>2. /\ Len(front \o <<x, y>>) = Len(front) + 2
          /\ \A s \in 1..Len(front) : (front \o <<x, y>>)[s] = front[s]
          /\ (front \o <<x, y>>)[Len(front) + 1] = x
          /\ (front \o <<x, y>>)[Len(front) + 2] = y
      BY <3>1, TwoMore
    <3>3. m \in Nat /\ (m - 1) + 1 = m /\ (m - 1) + 2 = m + 1
      BY <1>5
    <3>4. stack' = front \o <<x, y>>
      BY <2>1 DEF front, x, y
    <3> HIDE DEF m
    <3> QED
      BY <3>1, <3>2, <3>3, <3>4 DEF x, y
  <2>5. Kids(nodes, i) = {node.kids[1], node.kids[2]}
    BY DEF Kids, node
  <2>6. /\ m \in 1..(m + 1) /\ m + 1 \in 1..(m + 1)
        /\ \A s \in 1..(m - 1) : s \in 1..(m + 1) /\ s \in 1..m
        /\ \A s \in 1..(m + 1) : s \in 1..(m - 1) \/ s = m \/ s = m + 1
    BY <1>5
  <2>7. deeper(1) = <<node.kids[1], d[i] + 1>> /\ deeper(2) = <<node.kids[2], d[i] + 1>>
    BY <1>6
  <2> HIDE DEF m, deeper, i
  <2>8. \A s \in 1..Len(stack') : stack'[s][2] = d[stack'[s][1]]
    BY <1>9, <2>3, <2>4, <2>6, <2>7
  <2>9. ahead \ {i} \subseteq next
    <3>1. \A s \in 1..(m - 1) : stack[s][1] \in next
      BY <2>4, <2>6
    <3> HIDE DEF ahead, next
    <3> QED
      BY <1>8, <3>1
  <2>10. Kids(nodes, i) \subseteq next
    BY <2>4, <2>5, <2>6, <2>7
  <2>11. \A b \in Bytes : lengths[b] > 0 => freqs[b] > 0
    BY DEF TreeShape, WalkInv
  <2>12. ~(i <= Leaves)
    BY <1>3, <1>5, <2>2
  <2> QED
    BY <2>1, <2>8, <2>9, <2>10, <2>11, <2>12
<1> QED
  BY <1>12, <1>13

LEMMA WalkDoneKeepsShape ==
  ASSUME TreeInv, TreeShape, WalkDone
  PROVE  TreeShape'
<1>1. /\ tstep = "walk" /\ stack = <<>> /\ tstep' = "built"
      /\ UNCHANGED <<freqs, nodes, heap, nextId, stack, lengths>>
  BY DEF WalkDone
<1>2. ShapeInv' /\ WeightInv' /\ Leaves' = Leaves
  BY <1>1, ShapeStays
<1>3. Leaves >= 2 /\ ~(Leaves < 2)
  BY <1>1, ArenaSizes DEF TreeShape, ShapeInv
<1>4. PICK d, seen : Walked(d, seen)
  BY <1>1, <1>3 DEF TreeShape, WalkInv
<1>5. Walked(d, seen)'
  BY <1>1, <1>2, <1>4 DEF Walked
<1>6. WalkInv'
  BY <1>1, <1>2, <1>3, <1>5 DEF TreeShape, WalkInv
<1> QED
  BY <1>2, <1>6 DEF TreeShape

LEMMA ShapeStutters ==
  ASSUME TreeInv, TreeShape, UNCHANGED tvars
  PROVE  TreeShape'
<1>1. UNCHANGED <<freqs, nodes, heap, nextId, stack, lengths, tstep>>
  BY DEF tvars
<1>2. ShapeInv' /\ WeightInv' /\ Leaves' = Leaves
  BY <1>1, ShapeStays
<1>3. \A d, seen : Walked(d, seen) => Walked(d, seen)'
  BY <1>1, <1>2 DEF Walked
<1>4. WalkInv'
  BY <1>1, <1>2, <1>3 DEF TreeShape, WalkInv
<1> QED
  BY <1>2, <1>4 DEF TreeShape

LEMMA TreeNextKeepsShape ==
  ASSUME TreeInv, TreeShape, TreeNext
  PROVE  TreeShape'
BY MergeKeepsShape, TakeRootKeepsShape, VisitKeepsShape, WalkDoneKeepsShape DEF TreeNext

-----------------------------------------------------------------------------
(* What the lengths are worth once the walk is done.                       *)

(* The walk has been everywhere: the lengths are the levels of the leaves. *)
LEMMA BuiltLevels ==
  ASSUME TreeInv, TreeShape, tstep = "built", Leaves >= 2
  PROVE  /\ Roots = {Len(nodes)} /\ UsedBytes(lengths) = UsedBytes(freqs)
         /\ \E d : /\ Levels(d, nodes, Leaves)
                   /\ \A i \in 1..Leaves : d[i] = lengths[nodes[i].id]
<1> DEFINE n == Len(nodes)
           I == Inner(nodes, Leaves)
<1>1. /\ n \in Nat /\ n >= 1 /\ Leaves \in Nat /\ Leaves <= n /\ 1 \in 1..n /\ n \in 1..n
      /\ I = (Leaves + 1)..n
  BY ArenaSizes DEF Inner
<1>2. Roots = {n}
  <2>1. heap = {} /\ nodes # <<>>
    BY <1>1, EmptySeq DEF TreeShape, ShapeInv
  <2> QED
    BY <2>1 DEF Roots
<1>3. PICK d, seen : Walked(d, seen)
  BY DEF TreeShape, WalkInv
<1>4. /\ Levels(d, nodes, Leaves) /\ seen \subseteq 1..n /\ n \in seen
      /\ \A i \in seen : IF i <= Leaves THEN lengths[nodes[i].id] = d[i]
                         ELSE Kids(nodes, i) \subseteq seen
  <2>1. stack = <<>>
    BY DEF TreeShape, WalkInv
  <2>2. {stack[s][1] : s \in 1..Len(stack)} = {}
    BY <2>1, EmptySeq
  <2> HIDE DEF n
  <2> QED
    BY <1>3, <2>2 DEF Walked, n
<1>5. /\ \A j \in I : Kids(nodes, j) \subseteq 1..(j - 1)
      /\ \A i \in 1..n : i = n \/ \E j \in I : i \in Kids(nodes, j)
  BY <1>2 DEF TreeShape, ShapeInv, Forest, Kids
<1>6. \A i \in 1..n : i = n \/ \E j \in I : i \in Kids(nodes, j) /\ j > i /\ j \in 1..n
  <2>1. ASSUME NEW j \in I, NEW i \in Kids(nodes, j) PROVE j > i /\ j \in 1..n
    <3>1. j \in Nat /\ j <= n /\ j >= 1
      BY <1>1
    <3>2. i \in 1..(j - 1)
      BY <1>5
    <3> QED
      BY <1>1, <3>1, <3>2
  <2> QED
    BY <1>5, <2>1
<1>7. \A j \in I : j > Leaves /\ ~(j <= Leaves)
  BY <1>1
<1> HIDE DEF n, I
<1>8. seen = 1..n
  <2> DEFINE missing == {i \in 1..n : i \notin seen}
  <2>1. SUFFICES ASSUME missing # {} PROVE FALSE
    BY <1>4
  <2>2. missing \in SUBSET Nat /\ \A x \in missing : x <= n
    BY <1>1
  <2>3. PICK i \in missing : \A y \in missing : i >= y
    <3> HIDE DEF missing
    <3> QED
      BY <1>1, <2>1, <2>2, GreatestElement
  <2>4. PICK j \in I : i \in Kids(nodes, j) /\ j > i /\ j \in 1..n
    BY <1>4, <1>6, <2>3
  <2>5. j \in seen
    <3>1. i \in Nat /\ j \in Nat /\ ~(i >= j)
      BY <1>1, <2>4
    <3> QED
      BY <2>3, <2>4, <3>1
  <2>6. i \in seen
    BY <1>4, <1>7, <2>4, <2>5
  <2> QED
    BY <2>3, <2>6
<1>9. \A i \in 1..Leaves : i \in 1..n /\ i <= Leaves
  BY <1>1
<1>10. \A i \in 1..Leaves : d[i] = lengths[nodes[i].id]
  BY <1>4, <1>8, <1>9
<1>11. \A i \in 1..Leaves : d[i] >= 1
  <2>1. n # Leaves
    <3>1. SUFFICES ASSUME n = Leaves PROVE FALSE
      OBVIOUS
    <3>2. \A j \in I : FALSE
      BY <1>1, <1>7, <3>1 DEF I
    <3> QED
      BY <1>1, <1>6, <3>1, <3>2
  <2>2. ASSUME NEW i \in 1..Leaves PROVE d[i] >= 1
    <3>1. i \in 1..n /\ i # n
      BY <1>1, <2>1
    <3>2. PICK j \in I : i \in Kids(nodes, j) /\ j \in 1..n
      BY <1>6, <3>1
    <3>3. d[i] = d[j] + 1 /\ d[j] \in Nat
      BY <1>4, <3>2 DEF Levels, I, n
    <3> QED
      BY <3>3
  <2> QED
    BY <2>2
<1>12. UsedBytes(lengths) = UsedBytes(freqs)
  <2>1. ASSUME NEW b \in UsedBytes(freqs) PROVE b \in UsedBytes(lengths)
    <3>1. PICK i \in 1..Leaves : nodes[i].id = b
      BY DEF TreeShape, ShapeInv, LeafIds
    <3>2. lengths[b] >= 1 /\ b \in Bytes /\ lengths[b] \in Nat
      BY <1>10, <1>11, <3>1, Sizes, SMTT(30) DEF UsedBytes, TreeInv, Codebooks, Bytes
    <3> QED
      BY <3>2 DEF UsedBytes
  <2>2. UsedBytes(lengths) \subseteq UsedBytes(freqs)
    BY DEF TreeShape, WalkInv, UsedBytes
  <2> QED
    BY <2>1, <2>2
<1> QED
  BY <1>2, <1>4, <1>10, <1>12 DEF n

(* A level further down halves the share of the code space, so the shares  *)
(* of all leaves make the whole.                                           *)
LEMMA LevelShares ==
  ASSUME TreeInv, TreeShape, tstep = "built", Leaves >= 2,
         NEW e, e \in Nat, \A b \in UsedBytes(freqs) : lengths[b] <= e,
         NEW part, part = [b \in UsedBytes(freqs) |-> Pow2[e - lengths[b]]]
  PROVE  /\ part \in [UsedBytes(freqs) -> Nat] /\ IsFiniteSet(UsedBytes(freqs))
         /\ Sums(part, UsedBytes(freqs))[UsedBytes(freqs)] = Pow2[e]
<1> DEFINE n == Len(nodes)
           I == Inner(nodes, Leaves)
           U == UsedBytes(freqs)
           S == 1..n
<1>1. /\ n \in Nat /\ n >= 1 /\ Leaves \in Nat /\ Leaves <= n /\ n \in S
      /\ I = (Leaves + 1)..n
  BY ArenaSizes DEF Inner
<1>2. Roots = {n}
  BY BuiltLevels
<1>3. PICK d : Levels(d, nodes, Leaves) /\ \A i \in 1..Leaves : d[i] = lengths[nodes[i].id]
  BY BuiltLevels
<1>4. /\ d \in [S -> Nat] /\ d[n] = 0
      /\ \A j \in I : \A i \in Kids(nodes, j) : d[i] = d[j] + 1
  BY <1>3 DEF Levels
<1>5. \A j \in I : /\ nodes[j].kids[1] \in 1..(j - 1) /\ nodes[j].kids[1] \in Kids(nodes, j)
                   /\ nodes[j].kids[2] \in 1..(j - 1) /\ nodes[j].kids[2] \in Kids(nodes, j)
  BY DEF TreeShape, ShapeInv, Forest, Kids
<1>6. \A i \in 1..Leaves : nodes[i].id \in U /\ d[i] <= e
  BY <1>3 DEF TreeShape, ShapeInv, LeafIds
<1>7. \A i \in S : d[i] <= e
  <2> DEFINE deep == {i \in S : ~(d[i] <= e)}
  <2>1. SUFFICES ASSUME deep # {} PROVE FALSE
    OBVIOUS
  <2>2. deep \in SUBSET Nat
    OBVIOUS
  <2>3. PICK j \in deep : \A k \in deep : ~(k < j)
    <3> HIDE DEF deep
    <3> QED
      BY <2>1, <2>2, LeastElement
  <2>4. j \in I
    BY <1>1, <1>6, <2>3
  <2> DEFINE k == nodes[j].kids[1]
  <2>5. k \in 1..(j - 1) /\ d[k] = d[j] + 1
    BY <1>4, <1>5, <2>4
  <2> HIDE DEF k
  <2>6. k \in S /\ k < j /\ d[j] \in Nat /\ ~(d[k] <= e)
    BY <1>1, <1>4, <2>3, <2>5
  <2> QED
    BY <2>3, <2>6
<1> DEFINE share == [i \in S |-> Pow2[e - d[i]]]
<1>8. \A i \in S : d[i] \in Nat /\ e - d[i] \in Nat
  BY <1>4, <1>7
<1>9. share \in [S -> Nat]
  BY <1>8, Pow2Type
<1>10. ASSUME NEW j \in I
       PROVE  share[j] = share[nodes[j].kids[1]] + share[nodes[j].kids[2]]
  <2> DEFINE a == nodes[j].kids[1]
             b == nodes[j].kids[2]
  <2>1. j \in S /\ a \in S /\ b \in S
    <3>1. j \in Nat /\ j <= n /\ j >= 1
      BY <1>1
    <3> QED
      BY <1>1, <1>5, <3>1
  <2>2. d[a] = d[j] + 1 /\ d[b] = d[j] + 1
    BY <1>4, <1>5
  <2> HIDE DEF a, b
  <2>3. e - d[a] \in Nat /\ e - d[a] = e - d[b] /\ e - d[j] = (e - d[a]) + 1
    <3>1. /\ d[a] \in Nat /\ d[b] \in Nat /\ d[j] \in Nat
          /\ e - d[a] \in Nat /\ e - d[j] \in Nat
      BY <1>8, <2>1
    <3> DEFINE x == d[a]
               y == d[b]
               z == d[j]
    <3>2. x = z + 1 /\ y = z + 1 /\ x \in Nat /\ z \in Nat /\ e - x \in Nat
      BY <2>2, <3>1
    <3> HIDE DEF x, y, z
    <3>3. e - x = e - y /\ e - z = (e - x) + 1
      BY <3>2
    <3> QED
      BY <3>1, <3>3 DEF x, y, z
  <2>4. Pow2[(e - d[a]) + 1] = 2 * Pow2[e - d[a]] /\ Pow2[e - d[a]] \in Nat
    BY <2>3, Pow2Def
  <2>5. share[j] = Pow2[e - d[j]] /\ share[a] = Pow2[e - d[a]] /\ share[b] = Pow2[e - d[b]]
    BY <2>1
  <2> HIDE DEF share
  <2>6. share[j] = share[a] + share[b]
    BY <2>3, <2>4, <2>5
  <2> QED
    BY <2>6 DEF a, b
<1>11. ASSUME NEW b \in U PROVE e - lengths[b] \in Nat
  <2>1. b \in Bytes
    BY DEF UsedBytes
  <2>2. lengths[b] \in Nat /\ lengths[b] <= e
    BY <2>1, Sizes DEF TreeInv, Codebooks, Bytes
  <2> QED
    BY <2>2
<1>12. part \in [U -> Nat]
  BY <1>11, Pow2Type
<1>13. \A i \in 1..Leaves : share[i] = part[nodes[i].id]
  <2>1. \A i \in 1..Leaves : i \in S
    BY <1>1
  <2> QED
    BY <1>3, <1>6, <2>1
<1>14. IsFiniteSet(S) /\ IsFiniteSet(U)
  <2>1. IsFiniteSet(Bytes) /\ U \in SUBSET Bytes
    BY Sizes, FS_Interval DEF Bytes, UsedBytes
  <2> QED
    BY <1>1, <2>1, FS_Interval, FS_Subset
<1>15. share[n] = Pow2[e]
  BY <1>1, <1>4
<1> HIDE DEF share
<1>16. Sums(share, S)[Roots] = Sums(part, U)[U]
  <2>1. LeafIds /\ Forest(nodes, Leaves, Roots)
    BY DEF TreeShape, ShapeInv
  <2> HIDE DEF I
  <2>2. share \in [1..Len(nodes) -> Nat]
    BY <1>9
  <2>3. \A j \in Inner(nodes, Leaves) :
          share[j] = share[nodes[j].kids[1]] + share[nodes[j].kids[2]]
    BY <1>10 DEF I
  <2>4. part \in [UsedBytes(freqs) -> Nat]
    BY <1>12
  <2>5. TreeInv
    OBVIOUS
  <2> QED
    BY ONLY <2>1, <2>2, <2>3, <2>4, <2>5, <1>13, RootsToBytes DEF S, U, n
<1>17. Sums(share, S)[{n}] = share[n] + Sums(share, S)[{}]
  <2>1. {n} \in SUBSET S /\ n \in {n} /\ {n} \ {n} = {}
    BY <1>1
  <2>2. IsFiniteSet(S) /\ share \in [S -> Nat]
    BY <1>9, <1>14
  <2> HIDE DEF S, n
  <2>3. \A T \in SUBSET S : \A x \in T : Sums(share, S)[T] = share[x] + Sums(share, S)[T \ {x}]
    BY ONLY <2>2, SumsStep
  <2> QED
    BY <2>1, <2>3
<1>18. Sums(share, S)[{}] = 0
  <2>1. IsFiniteSet(S) /\ share \in [S -> Nat]
    BY <1>9, <1>14
  <2> QED
    BY ONLY <2>1, SumsType
<1>19. Pow2[e] \in Nat
  BY Pow2Type
<1> QED
  BY <1>2, <1>12, <1>14, <1>15, <1>16, <1>17, <1>18, <1>19

(* The numbers LeastTotal is made of. *)
LEMMA Fibonacci ==
  ASSUME NEW D \in Nat
  PROVE  \E fib : /\ fib \in [0..(D + 2) -> Nat]
                  /\ fib[0] = 0 /\ fib[1] = 1
                  /\ \A k \in 0..D : fib[k + 2] = fib[k + 1] + fib[k]
                  /\ LeastTotal(D) = fib[D + 2]
<1> DEFINE eq(f, m) == [k \in 0..m |-> IF k < 2 THEN k ELSE f[k - 1] + f[k - 2]]
           fib == CHOOSE f : f = eq(f, D + 2)
<1>1. LeastTotal(D) = fib[D + 2]
  BY DEF LeastTotal
<1>2. \E f : f = eq(f, D + 2)
  <2> DEFINE T == {m \in Nat : \E f : f = eq(f, m)}
  <2>1. 0 \in T
    <3>1. [k \in 0..0 |-> k] = eq([k \in 0..0 |-> k], 0)
      OBVIOUS
    <3> QED
      BY <3>1
  <2>2. ASSUME NEW m \in T PROVE m + 1 \in T
    <3>1. PICK f : f = eq(f, m)
      OBVIOUS
    <3> DEFINE h == [k \in 0..(m + 1) |->
                       IF k <= m THEN f[k] ELSE IF k < 2 THEN k ELSE f[k - 1] + f[k - 2]]
    <3>2. ASSUME NEW k \in 0..(m + 1)
          PROVE  h[k] = IF k < 2 THEN k ELSE h[k - 1] + h[k - 2]
      <4>1. CASE k <= m
        BY <3>1, <4>1
      <4>2. CASE ~(k <= m)
        BY <4>2
      <4> QED
        BY <4>1, <4>2
    <3>3. h = eq(h, m + 1)
      BY <3>2
    <3> HIDE DEF h, eq
    <3> QED
      BY <3>3
  <2>3. T \in SUBSET Nat
    OBVIOUS
  <2> HIDE DEF T
  <2>4. T = Nat
    BY <2>1, <2>2, <2>3, NatSetInduction
  <2>5. D + 2 \in T
    BY <2>4
  <2> HIDE DEF eq
  <2> QED
    BY <2>5 DEF T
<1>3. fib = eq(fib, D + 2)
  BY <1>2, Zenon
<1> HIDE DEF fib
<1>4. \A k \in 0..(D + 2) : fib[k] = IF k < 2 THEN k ELSE fib[k - 1] + fib[k - 2]
  BY <1>3
<1>5. DOMAIN fib = 0..(D + 2) /\ fib = [k \in 0..(D + 2) |-> fib[k]]
  BY <1>3
<1>6. fib[0] = 0 /\ fib[1] = 1
  BY <1>4
<1>7. \A k \in 0..D : fib[k + 2] = fib[k + 1] + fib[k]
  <2>1. ASSUME NEW k \in 0..D PROVE fib[k + 2] = fib[k + 1] + fib[k]
    <3>1. k + 2 \in 0..(D + 2) /\ ~(k + 2 < 2) /\ (k + 2) - 1 = k + 1 /\ (k + 2) - 2 = k
      OBVIOUS
    <3> QED
      BY <1>4, <3>1
  <2> QED
    BY <2>1
<1>8. \A k \in 0..(D + 2) : fib[k] \in Nat
  <2> DEFINE T == {k \in 0..(D + 1) : fib[k] \in Nat /\ fib[k + 1] \in Nat}
  <2>1. 0 \in T
    BY <1>6
  <2>2. ASSUME NEW k \in 0..((D + 1) - 1), k \in T PROVE k + 1 \in T
    <3>1. k \in 0..D /\ (k + 1) + 1 = k + 2 /\ k + 1 \in 0..(D + 1)
      OBVIOUS
    <3>2. fib[k] \in Nat /\ fib[k + 1] \in Nat
      BY <2>2
    <3>3. fib[k + 2] \in Nat
      BY <1>7, <3>1, <3>2
    <3> QED
      BY <3>1, <3>2, <3>3
  <2> HIDE DEF T
  <2>3. \A k \in 0..(D + 1) : k \in T
    BY <2>1, <2>2, UpTo
  <2>4. ASSUME NEW k \in 0..(D + 2) PROVE fib[k] \in Nat
    <3>1. CASE k = 0
      BY <1>6, <3>1
    <3>2. CASE k # 0
      <4>1. k - 1 \in 0..(D + 1) /\ (k - 1) + 1 = k
        BY <3>2
      <4> QED
        BY <2>3, <4>1 DEF T
    <3> QED
      BY <3>1, <3>2
  <2> QED
    BY <2>4
<1> QED
  BY <1>1, <1>5, <1>6, <1>7, <1>8

LEMMA TotalType ==
  ASSUME TreeInv
  PROVE  Total \in Nat
<1>1. freqs \in [Bytes -> Nat] /\ IsFiniteSet(Bytes)
  <2>1. IsFiniteSet(Bytes)
    BY Sizes, FS_Interval DEF Bytes
  <2> QED
    BY <2>1, Sizes DEF TreeInv, Freqs
<1>2. Total = Sums(freqs, Bytes)[Bytes]
  BY <1>1, TotalIsSums DEF Total
<1>3. Sums(freqs, Bytes) \in [SUBSET Bytes -> Nat]
  BY ONLY <1>1, SumsType
<1> QED
  BY <1>2, <1>3

(* A code of D bits takes LeastTotal(D) symbols.  Going down from the root,*)
(* a node i of level k and a child c of it weigh as much as the text has   *)
(* symbols, when i is counted fib(k + 1) times and c fib(k) times: i weighs*)
(* as much as c and its sibling, and the sibling at least as much as the   *)
(* children of c, which came off the heap before it.                       *)
LEMMA DepthTakesText ==
  ASSUME TreeInv, TreeShape, tstep = "built", Leaves >= 2, ~Overflows,
         NEW D, D \in Nat, D >= 1, NEW b0, b0 \in UsedBytes(freqs), D <= lengths[b0]
  PROVE  Total >= LeastTotal(D)
<1> DEFINE n == Len(nodes)
           I == Inner(nodes, Leaves)
           S == 1..n
<1>1. /\ n \in Nat /\ n >= 1 /\ Leaves \in Nat /\ Leaves <= n /\ n \in S
      /\ I = (Leaves + 1)..n /\ I \subseteq S
      /\ \A i \in S : nodes[i].freq \in Nat
  BY ArenaSizes DEF Inner
<1>2. Roots = {n}
  BY BuiltLevels
<1>3. PICK d : Levels(d, nodes, Leaves) /\ \A i \in 1..Leaves : d[i] = lengths[nodes[i].id]
  BY BuiltLevels
<1>4. /\ d \in [S -> Nat] /\ d[n] = 0
      /\ \A j \in I : \A i \in Kids(nodes, j) : d[i] = d[j] + 1
  BY <1>3 DEF Levels
<1>5. /\ \A j \in I : Kids(nodes, j) \subseteq 1..(j - 1)
      /\ \A j \in I : /\ nodes[j].kids[1] \in Kids(nodes, j) /\ nodes[j].kids[2] \in Kids(nodes, j)
                      /\ nodes[j].kids[1] # nodes[j].kids[2]
      /\ \A i \in S : i = n \/ \E j \in I : i \in Kids(nodes, j)
  BY <1>2 DEF TreeShape, ShapeInv, Forest, Kids
<1>6. \A j \in I : \A i \in Kids(nodes, j) : j > i /\ i \in S
  <2>1. ASSUME NEW j \in I, NEW i \in Kids(nodes, j) PROVE j > i /\ i \in S
    <3>1. j \in Nat /\ j <= n /\ j >= 1
      BY <1>1
    <3>2. i \in 1..(j - 1)
      BY <1>5
    <3> QED
      BY <1>1, <3>1, <3>2
  <2> QED
    BY <2>1
<1>7. /\ \A i \in S : nodes[i].freq >= 1
      /\ \A j \in I :
           nodes[j].freq = nodes[nodes[j].kids[1]].freq + nodes[nodes[j].kids[2]].freq
      /\ \A j \in I : \A i, k \in Kids(nodes, j) : i # k /\ i \in I =>
           \A c \in Kids(nodes, i) : nodes[c].freq <= nodes[k].freq
  BY DEF TreeShape, WeightInv
<1>8. PICK fib : /\ fib \in [0..(D + 2) -> Nat]
                 /\ fib[0] = 0 /\ fib[1] = 1
                 /\ \A k \in 0..D : fib[k + 2] = fib[k + 1] + fib[k]
                 /\ LeastTotal(D) = fib[D + 2]
  BY Fibonacci
<1>9. Total = nodes[n].freq
  <2> DEFINE weight == [i \in S |-> nodes[i].freq]
  <2>1. weight \in [S -> Nat] /\ IsFiniteSet(S) /\ Sums(weight, S)[Roots] = Total
    <3>1. LeafIds /\ Forest(nodes, Leaves, Roots)
      BY DEF TreeShape, ShapeInv
    <3>2. \A j \in Inner(nodes, Leaves) :
            nodes[j].freq = nodes[nodes[j].kids[1]].freq + nodes[nodes[j].kids[2]].freq
      BY <1>7
    <3> QED
      BY <3>1, <3>2, RootsWeighTotal
  <2>2. weight[n] = nodes[n].freq
    BY <1>1
  <2> HIDE DEF weight
  <2>3. {n} \in SUBSET S /\ n \in {n} /\ {n} \ {n} = {}
    BY <1>1
  <2>4. IsFiniteSet(S) /\ weight \in [S -> Nat]
    BY <2>1
  <2> HIDE DEF S, n
  <2>5. \A T \in SUBSET S : \A x \in T : Sums(weight, S)[T] = weight[x] + Sums(weight, S)[T \ {x}]
    BY ONLY <2>4, SumsStep
  <2>6. Sums(weight, S)[{}] = 0
    BY ONLY <2>4, SumsType
  <2>7. Sums(weight, S)[{n}] = weight[n] + Sums(weight, S)[{}]
    BY <2>3, <2>5
  <2>8. weight[n] \in Nat
    BY <1>1, <2>4
  <2> QED
    BY <1>2, <2>1, <2>2, <2>6, <2>7, <2>8
<1>10. Total \in Nat
  BY TotalType
<1> HIDE DEF n, S, I
<1> DEFINE w(i) == nodes[i].freq
           Held(j) == \A c \in Kids(nodes, j) :
                        Total >= fib[d[j] + 1] * w(j) + fib[d[j]] * w(c)
<1>11. \A j \in I : d[j] <= D => Held(j)
  <2> DEFINE light == {j \in I : d[j] <= D /\ ~Held(j)}
  <2>1. SUFFICES ASSUME light # {} PROVE FALSE
    OBVIOUS
  <2>2. light \in SUBSET Nat /\ \A j \in light : j <= n
    BY <1>1 DEF S
  <2>3. PICK i \in light : \A y \in light : i >= y
    <3> HIDE DEF light
    <3> QED
      BY <1>1, <2>1, <2>2, GreatestElement
  <2>4. i \in I /\ i \in S /\ d[i] <= D /\ ~Held(i)
    BY <1>1, <2>3
  <2>5. PICK e \in Kids(nodes, i) : ~(Total >= fib[d[i] + 1] * w(i) + fib[d[i]] * w(e))
    BY <2>4
  <2>6. e \in S /\ w(e) \in Nat /\ w(i) \in Nat
    BY <1>1, <1>6, <2>4
  <2>7. CASE i = n
    <3>1. d[i] = 0 /\ fib[d[i] + 1] = 1 /\ fib[d[i]] = 0
      BY <1>4, <1>8, <2>7, SMTT(30)
    <3>2. fib[d[i] + 1] * w(i) + fib[d[i]] * w(e) = w(i)
      <4> DEFINE x == w(i)
                 y == w(e)
      <4>1. x \in Nat /\ y \in Nat
        BY <2>6
      <4> HIDE DEF x, y
      <4>2. 1 * x + 0 * y = x
        BY <4>1
      <4> QED
        BY <3>1, <4>2 DEF x, y
    <3> QED
      BY <1>9, <1>10, <2>5, <2>7, <3>2
  <2>8. CASE i # n
    <3>1. PICK p \in I : i \in Kids(nodes, p)
      BY <1>5, <2>4, <2>8
    <3> DEFINE k == d[p]
    <3>2. k \in Nat /\ d[i] = k + 1 /\ k + 1 <= D /\ p > i /\ p \in S
      BY <1>1, <1>4, <1>6, <2>4, <3>1
    <3>3. p \notin light
      <4>1. p \in Nat /\ i \in Nat
        BY <2>4, <3>2 DEF S
      <4> QED
        BY <2>3, <3>2, <4>1
    <3>4. Held(p)
      <4>1. d[p] <= D
        BY <3>2
      <4> QED
        BY <3>3, <4>1
    <3>5. Total >= fib[k + 1] * w(p) + fib[k] * w(i)
      BY <3>1, <3>4
    <3>6. PICK s \in Kids(nodes, p) : s # i /\ w(p) = w(i) + w(s)
      <4> DEFINE x == nodes[p].kids[1]
                 y == nodes[p].kids[2]
      <4>1. Kids(nodes, p) = {x, y} /\ x # y
        BY <1>5 DEF Kids
      <4>2. w(p) = w(x) + w(y) /\ w(x) \in Nat /\ w(y) \in Nat
        BY <1>1, <1>5, <1>6, <1>7
      <4> HIDE DEF x, y
      <4>3. i = x \/ i = y
        BY <3>1, <4>1
      <4>4. w(x) + w(y) = w(y) + w(x)
        BY <4>2
      <4> QED
        BY <4>1, <4>2, <4>3, <4>4
    <3>7. w(e) <= w(s) /\ w(s) \in Nat
      BY <1>1, <1>6, <1>7, <2>4, <3>1, <3>6
    <3>8. fib[k] \in Nat /\ fib[k + 1] \in Nat /\ fib[k + 2] = fib[k + 1] + fib[k]
      <4>1. k \in 0..D /\ k \in 0..(D + 2) /\ k + 1 \in 0..(D + 2)
        <5> HIDE DEF k
        <5> QED
          BY <3>2
      <4> QED
        BY <1>8, <4>1
    <3> DEFINE a == fib[k]
               b == fib[k + 1]
               x == w(i)
               y == w(e)
               z == w(s)
    <3>9. a \in Nat /\ b \in Nat /\ x \in Nat /\ y \in Nat /\ z \in Nat /\ y <= z
      BY <2>6, <3>7, <3>8
    <3>10. Total >= b * (x + z) + a * x
      BY <3>5, <3>6
    <3>11. ~(Total >= (b + a) * x + b * y)
      <4>1. d[i] + 1 = k + 2
        BY <3>2
      <4> HIDE DEF k
      <4> QED
        BY <2>5, <3>2, <3>8, <4>1
    <3> HIDE DEF a, b, x, y, z
    <3>12. b * (x + z) = b * x + b * z /\ (b + a) * x = b * x + a * x
      BY <3>9
    <3>13. b * y <= b * z
      BY <3>9
    <3>14. b * x \in Nat /\ b * y \in Nat /\ b * z \in Nat /\ a * x \in Nat
      BY <3>9
    <3> QED
      BY <1>10, <3>10, <3>11, <3>12, <3>13, <3>14
  <2> QED
    BY <2>7, <2>8
<1>12. PICK j \in I : d[j] = D - 1
  <2> DEFINE deep == {i \in S : d[i] >= D}
  <2>1. deep # {}
    <3>1. PICK i \in 1..Leaves : nodes[i].id = b0
      BY DEF TreeShape, ShapeInv, LeafIds
    <3>2. i \in S /\ d[i] = lengths[b0]
      BY <1>1, <1>3, <3>1 DEF S
    <3> QED
      BY <1>4, <3>2
  <2>2. deep \in SUBSET Nat /\ \A x \in deep : x <= n
    BY DEF S
  <2>3. PICK i \in deep : \A y \in deep : i >= y
    <3> HIDE DEF deep
    <3> QED
      BY <1>1, <2>1, <2>2, GreatestElement
  <2>4. i \in S /\ d[i] >= D /\ d[i] \in Nat /\ i # n
    BY <1>4, <2>3
  <2>5. PICK p \in I : i \in Kids(nodes, p)
    BY <1>5, <2>4
  <2>6. p > i /\ p \in S /\ d[i] = d[p] + 1 /\ d[p] \in Nat
    BY <1>1, <1>4, <1>6, <2>5
  <2>7. ~(d[p] >= D)
    <3>1. p \in Nat /\ i \in Nat
      BY <2>4, <2>6 DEF S
    <3> QED
      BY <2>3, <2>6, <3>1
  <2>8. d[p] = D - 1
    BY <2>4, <2>6, <2>7
  <2> QED
    BY <2>5, <2>8
<1> DEFINE a == fib[D - 1]
           b == fib[D]
           x == nodes[j].kids[1]
           y == nodes[j].kids[2]
<1>13. a \in Nat /\ b \in Nat /\ LeastTotal(D) = (b + a) + b
  <2>1. D - 1 \in 0..D /\ D \in 0..D /\ (D - 1) + 2 = D + 1 /\ (D - 1) + 1 = D
        /\ D - 1 \in 0..(D + 2) /\ D \in 0..(D + 2)
    OBVIOUS
  <2>2. fib[(D - 1) + 2] = fib[(D - 1) + 1] + fib[D - 1]
    BY <1>8, <2>1
  <2>3. fib[D + 2] = fib[D + 1] + fib[D]
    BY <1>8, <2>1
  <2> QED
    BY <1>8, <2>1, <2>2, <2>3
<1>14. w(x) >= 1 /\ w(y) >= 1 /\ w(x) \in Nat /\ w(y) \in Nat /\ w(j) = w(x) + w(y)
  BY <1>1, <1>5, <1>6, <1>7
<1>15. Total >= b * w(j) + a * w(x)
  <2>1. Held(j)
    BY <1>11, <1>12
  <2>2. x \in Kids(nodes, j)
    BY <1>5
  <2>3. (D - 1) + 1 = D
    OBVIOUS
  <2> QED
    BY <1>12, <2>1, <2>2, <2>3
<1> DEFINE u == w(x)
           v == w(j)
<1>16. u \in Nat /\ v \in Nat /\ u >= 1 /\ v >= 2 /\ Total >= b * v + a * u
  BY <1>14, <1>15
<1> HIDE DEF a, b, u, v
<1>17. b * 2 <= b * v /\ a * 1 <= a * u
  BY <1>13, <1>16
<1>18. b * v \in Nat /\ a * u \in Nat
  BY <1>13, <1>16
<1> QED
  BY <1>10, <1>13, <1>16, <1>17, <1>18

(* With less than two leaves at most one byte occurs. *)
LEMMA FewLeaves ==
  ASSUME TreeInv, TreeShape, Leaves < 2
  PROVE  UsedBytes(freqs) = {} \/ \E b : UsedBytes(freqs) = {b}
<1> DEFINE U == UsedBytes(freqs)
<1>1. \A i \in 1..Leaves : i = 1
  <2>1. Leaves \in Nat
    BY ArenaSizes
  <2> QED
    BY <2>1
<1>2. \A b \in U : b = nodes[1].id
  BY <1>1 DEF TreeShape, ShapeInv, LeafIds
<1> HIDE DEF U
<1>3. U = {} \/ U = {nodes[1].id}
  BY <1>2
<1> QED
  BY <1>3 DEF U

LEMMA CodeSpaceFilled ==
  ASSUME TreeInv, TreeShape
  PROVE  CodeSpaceIsFull
<1> SUFFICES ASSUME tstep = "built", Cardinality(UsedBytes(freqs)) >= 2
             PROVE  LET share(b) == Pow2[NumBytes - lengths[b]]
                    IN  /\ UsedBytes(lengths) = UsedBytes(freqs)
                        /\ MapThenSumSet(share, UsedBytes(freqs)) = Pow2[NumBytes]
  BY DEF CodeSpaceIsFull
<1> DEFINE U == UsedBytes(freqs)
           share(b) == Pow2[NumBytes - lengths[b]]
           part == [b \in U |-> Pow2[NumBytes - lengths[b]]]
<1>1. Leaves >= 2
  <2>1. CASE Leaves < 2
    <3>1. U = {} \/ \E b : U = {b}
      BY <2>1, FewLeaves
    <3> HIDE DEF U
    <3>2. Cardinality(U) = 0 \/ Cardinality(U) = 1
      BY <3>1, FS_EmptySet, FS_Singleton
    <3> QED
      BY <3>2 DEF U
  <2> QED
    BY <2>1, ArenaSizes
<1>2. UsedBytes(lengths) = U
  BY <1>1, BuiltLevels
<1>3. \A b \in U : lengths[b] <= NumBytes
  <2>1. \A b \in U : b \in Bytes
    BY DEF UsedBytes
  <2> QED
    BY <2>1, Sizes DEF TreeInv, Codebooks, Bytes
<1>4. Sums(part, U)[U] = Pow2[NumBytes]
  BY <1>1, <1>3, Sizes, LevelShares
<1>5. MapThenSumSet(share, U) = Sums(part, U)[U]
  <2> DEFINE e(it) == [s \in SUBSET U |->
                         IF s = {} THEN 0
                         ELSE Pow2[NumBytes - lengths[CHOOSE x \in s : TRUE]]
                              + it[s \ {CHOOSE x \in s : TRUE}]]
             iter == CHOOSE it : it = e(it)
  <2>1. MapThenSumSet(share, U) = iter[U]
    BY DEF MapThenSumSet, MapThenFoldSet
  <2> HIDE DEF U
  <2>2. ASSUME NEW it PROVE (it = e(it)) <=> IsSum(it, part, U)
    <3>1. ASSUME NEW s \in SUBSET U, s # {}
          PROVE  part[Chosen(s)] = Pow2[NumBytes - lengths[Chosen(s)]]
      <4>1. Chosen(s) \in U
        BY <3>1, ChosenIn
      <4> QED
        BY <4>1
    <3>2. e(it) = [s \in SUBSET U |->
                     IF s = {} THEN 0 ELSE part[Chosen(s)] + it[s \ {Chosen(s)}]]
      <4> HIDE DEF part
      <4> QED
        BY <3>1 DEF Chosen
    <3> HIDE DEF e, part
    <3> QED
      BY <3>2 DEF IsSum
  <2> HIDE DEF e, part
  <2>3. iter = Sums(part, U)
    BY <2>2 DEF Sums
  <2> QED
    BY <2>1, <2>3
<1> QED
  BY <1>2, <1>4, <1>5

LEMMA DeepTakesLong ==
  ASSUME TreeInv, TreeShape
  PROVE  DeepTreesTakeLongTexts
<1> SUFFICES ASSUME tstep = "built", ~Overflows, NEW b \in UsedBytes(lengths), lengths[b] > 1
             PROVE  Total >= LeastTotal(lengths[b])
  BY DEF DeepTreesTakeLongTexts
<1>1. b \in UsedBytes(freqs) /\ b \in Bytes /\ lengths[b] \in Nat
  <2>1. b \in Bytes /\ lengths[b] > 0
    BY DEF UsedBytes
  <2> QED
    BY <2>1, Sizes DEF TreeShape, WalkInv, UsedBytes, TreeInv, Codebooks, Bytes
<1>2. Leaves >= 2
  <2>1. CASE Leaves < 2
    <3>1. lengths[b] = IF freqs[b] > 0 THEN 1 ELSE 0
      BY <1>1, <2>1 DEF TreeShape, WalkInv
    <3> QED
      BY <3>1
  <2> QED
    BY <2>1, ArenaSizes
<1> DEFINE D == lengths[b]
<1>3. D \in Nat /\ D >= 1 /\ D <= lengths[b]
  BY <1>1
<1> HIDE DEF D
<1>4. Total >= LeastTotal(D)
  BY <1>1, <1>2, <1>3, DepthTakesText
<1> QED
  BY <1>4 DEF D

(* What validate_lengths adds up, as Sums does. *)
LEMMA KraftIsSums ==
  ASSUME NEW cb, NEW part,
         part = [b \in UsedBytes(cb) |-> Pow2[MaxCodeLength - cb[b]]]
  PROVE  KraftSum(cb) = Sums(part, UsedBytes(cb))[UsedBytes(cb)]
<1> DEFINE U == UsedBytes(cb)
           e(it) == [s \in SUBSET U |->
                       IF s = {} THEN 0
                       ELSE Pow2[MaxCodeLength - cb[CHOOSE x \in s : TRUE]]
                            + it[s \ {CHOOSE x \in s : TRUE}]]
           iter == CHOOSE it : it = e(it)
<1>1. KraftSum(cb) = iter[U]
  BY DEF KraftSum, MapThenSumSet, MapThenFoldSet
<1>2. ASSUME NEW s \in SUBSET U, s # {}
      PROVE  part[Chosen(s)] = Pow2[MaxCodeLength - cb[Chosen(s)]]
  <2>1. Chosen(s) \in U
    BY <1>2, ChosenIn
  <2> QED
    BY <2>1
<1> HIDE DEF U
<1>3. ASSUME NEW it PROVE (it = e(it)) <=> IsSum(it, part, U)
  <2>1. e(it) = [s \in SUBSET U |->
                   IF s = {} THEN 0 ELSE part[Chosen(s)] + it[s \ {Chosen(s)}]]
    BY <1>2 DEF Chosen
  <2> HIDE DEF e
  <2> QED
    BY <2>1 DEF IsSum
<1> HIDE DEF e
<1>4. iter = Sums(part, U)
  BY <1>3 DEF Sums
<1> QED
  BY <1>1, <1>4 DEF U

(* The lengths of a text too short for a tree deeper than MAX_CODE_LENGTH  *)
(* pass validate_lengths, and every byte that occurs has a code.           *)
LEMMA ShortTextsFit ==
  ASSUME TreeInv, TreeShape, tstep = "built", Total < LeastTotal(MaxCodeLength + 1)
  PROVE  ValidLengths(lengths) /\ UsedBytes(lengths) = UsedBytes(freqs)
<1> DEFINE M == MaxCodeLength
           U == UsedBytes(freqs)
           part == [b \in U |-> Pow2[M - lengths[b]]]
<1>1. M \in Nat /\ M >= 1 /\ M + 1 \in Nat /\ M + 1 >= 2
  BY CodebookBounds
<1>2. Total \in Nat /\ FreqSpace \in Nat
  BY TotalType, Sizes
<1>3. LeastTotal(M + 1) \in Nat
  <2> DEFINE D == M + 1
  <2>1. D \in Nat
    BY <1>1
  <2> HIDE DEF D
  <2>2. PICK fib : fib \in [0..(D + 2) -> Nat] /\ LeastTotal(D) = fib[D + 2]
    BY <2>1, Fibonacci
  <2>3. D + 2 \in 0..(D + 2)
    BY <2>1
  <2> QED
    BY <2>2, <2>3 DEF D
<1>4. ~Overflows
  BY <1>2, <1>3, DeepTreesCount DEF Overflows
<1>5. \A b \in Bytes : lengths[b] \in Nat
  BY Sizes DEF TreeInv, Codebooks, Bytes
<1>6. \A b \in Bytes : b \notin U => lengths[b] = 0
  <2>1. \A b \in Bytes : lengths[b] > 0 => b \in U
    BY DEF TreeShape, WalkInv, UsedBytes
  <2> QED
    BY <1>5, <2>1
<1>7. CASE Leaves >= 2
  <2>1. UsedBytes(lengths) = U
    BY <1>7, BuiltLevels
  <2>2. \A b \in U : lengths[b] <= M
    <3>1. ASSUME NEW b \in U, ~(lengths[b] <= M) PROVE FALSE
      <4> DEFINE D == M + 1
      <4>1. b \in UsedBytes(freqs) /\ lengths[b] \in Nat
        BY <1>5 DEF UsedBytes
      <4>2. D \in Nat /\ D >= 1 /\ D <= lengths[b]
        BY <1>1, <3>1, <4>1
      <4> HIDE DEF D
      <4>3. Total >= LeastTotal(D)
        BY <1>4, <1>7, <4>1, <4>2, DepthTakesText
      <4> QED
        BY <1>2, <1>3, <4>3 DEF D
    <3> QED
      BY <3>1
  <2>3. \A b \in Bytes : lengths[b] <= M
    BY <1>1, <1>6, <2>2
  <2>4. Sums(part, U)[U] = Pow2[M]
    BY <1>1, <1>7, <2>2, LevelShares
  <2>5. KraftSum(lengths) = Sums(part, U)[U]
    <3>1. part = [b \in UsedBytes(lengths) |-> Pow2[MaxCodeLength - lengths[b]]]
      BY <2>1
    <3> HIDE DEF part
    <3> QED
      BY <2>1, <3>1, KraftIsSums
  <2>6. Pow2[M] \in Nat
    BY <1>1, Pow2Type
  <2> QED
    BY <2>1, <2>3, <2>4, <2>5, <2>6 DEF ValidLengths
<1>8. CASE Leaves < 2
  <2>1. \A b \in Bytes : lengths[b] = IF freqs[b] > 0 THEN 1 ELSE 0
    BY <1>8 DEF TreeShape, WalkInv
  <2>2. UsedBytes(lengths) = U
    BY <2>1 DEF UsedBytes
  <2>3. \A b \in Bytes : lengths[b] <= M
    BY <1>1, <2>1
  <2>4. KraftSum(lengths) = Sums(part, U)[U]
    <3>1. part = [b \in UsedBytes(lengths) |-> Pow2[MaxCodeLength - lengths[b]]]
      BY <2>2
    <3> HIDE DEF part
    <3> QED
      BY <2>2, <3>1, KraftIsSums
  <2>5. part \in [U -> Nat] /\ IsFiniteSet(U)
    <3>1. \A b \in U : M - lengths[b] \in Nat
      <4>1. \A b \in U : b \in Bytes
        BY DEF UsedBytes
      <4> QED
        BY <1>1, <1>5, <2>3, <4>1
    <3>2. IsFiniteSet(U)
      <4>1. IsFiniteSet(Bytes)
        BY Sizes, FS_Interval DEF Bytes
      <4>2. U \in SUBSET Bytes
        BY DEF UsedBytes
      <4> HIDE DEF U
      <4> QED
        BY <4>1, <4>2, FS_Subset
    <3> QED
      BY <3>1, <3>2, Pow2Type
  <2>6. Sums(part, U)[{}] = 0
    <3> HIDE DEF part, U
    <3> QED
      BY ONLY <2>5, SumsType
  <2>7. \A T \in SUBSET U : \A x \in T : Sums(part, U)[T] = part[x] + Sums(part, U)[T \ {x}]
    <3> HIDE DEF part, U
    <3> QED
      BY ONLY <2>5, SumsStep
  <2>8. Pow2[M] \in Nat /\ \A b \in U : part[b] \in Nat /\ part[b] <= Pow2[M]
    <3>1. ASSUME NEW b \in U PROVE part[b] \in Nat /\ part[b] <= Pow2[M]
      <4>1. b \in Bytes
        BY DEF UsedBytes
      <4>2. M - lengths[b] \in Nat /\ M - lengths[b] <= M
        BY <1>1, <1>5, <2>3, <4>1
      <4> QED
        BY <1>1, <4>2, Pow2Type, Pow2Monotone
    <3> QED
      BY <1>1, <3>1, Pow2Type
  <2>9. Sums(part, U)[U] <= Pow2[M]
    <3>1. CASE U = {}
      BY <2>6, <2>8, <3>1
    <3>2. CASE \E b : U = {b}
      <4>1. PICK b : U = {b}
        BY <3>2
      <4>2. U \in SUBSET U /\ b \in U /\ U \ {b} = {}
        BY <4>1
      <4> HIDE DEF U, part
      <4>3. Sums(part, U)[U] = part[b] + 0
        BY <2>6, <2>7, <4>2
      <4> QED
        BY <2>8, <4>2, <4>3
    <3> QED
      BY <1>8, <3>1, <3>2, FewLeaves
  <2> QED
    BY <2>2, <2>3, <2>4, <2>9 DEF ValidLengths
<1>9. Leaves >= 2 \/ Leaves < 2
  BY ArenaSizes
<1> QED
  BY <1>7, <1>8, <1>9

-----------------------------------------------------------------------------
(* `urlz dict build`. *)

CommandTypeOK ==
  /\ cstep \in CommandSteps /\ corpus \in Seq(Bytes) /\ book \in Codebooks
  /\ file \in Seq(Bytes) /\ found \in Seq(Bytes) /\ made \subseteq Codebooks
  /\ exit \in {"none", "ok", "panic", "error", "killed"} /\ runs \in 0..MaxRuns

FileInv ==
  /\ cstep # "exited" => exit = "none"
  /\ cstep \in {"read", "build", "mkdir", "create"} => file = found
  /\ cstep = "write" => IsStrictPrefix(file, Serialize(book))
  /\ cstep = "report" => file = Serialize(book)
  /\ cstep \in {"mkdir", "create", "write", "report"} => book \in made
  /\ file # <<>> => \E b \in made : IsPrefix(file, Serialize(b))
  /\ ExitTellsTheFile

DictInv == TreeInv /\ CommandTypeOK /\ FileInv

-----------------------------------------------------------------------------
(* The file form of a codebook. *)
LEMMA SerializeType ==
  ASSUME NEW b \in Codebooks
  PROVE  /\ Serialize(b) \in Seq(Bytes) /\ Len(Serialize(b)) = NumBytes
         /\ \A i \in 1..NumBytes : Serialize(b)[i] = b[i - 1] /\ b[i - 1] \in Bytes
<1>1. \A i \in 1..NumBytes : b[i - 1] \in Bytes
  BY Sizes DEF Codebooks, Bytes
<1> QED
  BY <1>1, Sizes DEF Serialize

(* What a write that got as far as n bytes leaves. *)
LEMMA Beginnings ==
  ASSUME NEW b \in Codebooks, NEW n \in 0..NumBytes
  PROVE  LET begun == SubSeq(Serialize(b), 1, n)
         IN  /\ begun \in Seq(Bytes) /\ IsPrefix(begun, Serialize(b))
             /\ n < NumBytes => IsStrictPrefix(begun, Serialize(b))
             /\ n = NumBytes => begun = Serialize(b)
<1> DEFINE whole == Serialize(b)
           begun == SubSeq(whole, 1, n)
<1>1. whole \in Seq(Bytes) /\ Len(whole) = NumBytes /\ NumBytes \in Nat
  BY SerializeType, Sizes
<1> HIDE DEF whole
<1>2. \A i \in 1..n : whole[i] \in Bytes
  BY <1>1, ElementOfSeq
<1>3. begun \in Seq(Bytes) /\ Len(begun) = n
  BY <1>1, <1>2, SubSeqProperties
<1>4. SubSeq(begun, 1, n) = begun
  <2> HIDE DEF begun
  <2> QED
    BY <1>3, SubSeqFull
<1>5. IsPrefix(begun, whole)
  BY <1>1, <1>3, <1>4 DEF IsPrefix
<1>6. n < NumBytes => begun # whole
  BY <1>1, <1>3
<1>7. n = NumBytes => begun = whole
  BY <1>1, SubSeqFull
<1> QED
  BY <1>3, <1>5, <1>6, <1>7 DEF IsStrictPrefix, whole

LEMMA EmptyBegins ==
  ASSUME NEW b \in Codebooks
  PROVE  IsStrictPrefix(<<>>, Serialize(b))
<1>1. SubSeq(Serialize(b), 1, 0) = <<>>
  BY SubSeqEmpty
<1>2. 0 \in 0..NumBytes /\ 0 < NumBytes
  BY Sizes
<1>3. IsStrictPrefix(SubSeq(Serialize(b), 1, 0), Serialize(b))
  BY <1>2, Beginnings
<1> QED
  BY <1>1, <1>3

(* The frequencies counted in a corpus fit. *)
LEMMA CountsFit ==
  ASSUME NEW text \in Corpora
  PROVE  text \in Seq(Bytes) /\ Counts(text) \in [Bytes -> Freqs]
<1>1. text \in Seq(Bytes) /\ Len(text) < FreqSpace /\ Len(text) \in Nat
  BY DictInputs, LenProperties
<1>2. ASSUME NEW b \in Bytes
      PROVE  Occurrences(text, b) \in Freqs
  <2> DEFINE places == {i \in 1..Len(text) : text[i] = b}
  <2>1. IsFiniteSet(1..Len(text)) /\ Cardinality(1..Len(text)) = Len(text)
    <3>1. 1 \in Int /\ Len(text) \in Int
      BY <1>1
    <3> QED
      BY <1>1, <3>1, FS_Interval, SMTT(30)
  <2>2. places \in SUBSET (1..Len(text))
    OBVIOUS
  <2> HIDE DEF places
  <2>3. Cardinality(places) \in Nat /\ Cardinality(places) <= Len(text)
    BY <2>1, <2>2, FS_Subset, FS_CardinalityType
  <2> QED
    BY <1>1, <2>3, Sizes DEF Occurrences, Freqs, places
<1> QED
  BY <1>1, <1>2, Sizes DEF Counts

-----------------------------------------------------------------------------
LEMMA InitialInv == Init => DictInv
<1> SUFFICES ASSUME Init PROVE DictInv
  OBVIOUS
<1>1. TreeInv
  BY IdleKeepsTree DEF Init
<1>2. NoCodes \in Codebooks
  BY Sizes DEF NoCodes, Codebooks
<1>3. CommandTypeOK
  BY <1>2, EmptySeq, DictInputs DEF Init, CommandTypeOK, CommandSteps
<1>4. FileInv
  BY DEF Init, FileInv, ExitTellsTheFile
<1> QED
  BY <1>1, <1>3, <1>4 DEF DictInv

LEMMA NextKeepsInv == DictInv /\ [Next]_vars => DictInv'
<1> SUFFICES ASSUME DictInv, [Next]_vars PROVE DictInv'
  OBVIOUS
<1>a. TreeInv /\ CommandTypeOK /\ FileInv
  BY DEF DictInv
<1>1. CASE LibraryCall
  <2>1. PICK f \in Frequencies : BuildCall(f)
    BY <1>1 DEF LibraryCall
  <2>2. f \in [Bytes -> Freqs]
    BY FrequencyTables DEF Freqs
  <2>3. TreeInv'
    BY <2>1, <2>2, BuildCallKeepsTree
  <2>4. (CommandTypeOK /\ FileInv)'
    BY <1>a, <1>1 DEF LibraryCall, CommandTypeOK, CommandSteps, FileInv, ExitTellsTheFile
  <2> QED
    BY <2>3, <2>4 DEF DictInv
<1>2. CASE RunWithCorpus
  <2>1. TreeInv'
    BY <1>a, <1>2, TreeStutters DEF RunWithCorpus, Begin
  <2>2. NoCodes \in Codebooks
    BY Sizes DEF NoCodes, Codebooks
  <2>3. CommandTypeOK'
    BY <1>a, <1>2, <2>2, DictInputs, EmptySeq
    DEF RunWithCorpus, Begin, CommandTypeOK, CommandSteps
  <2>4. FileInv'
    BY <1>a, <1>2 DEF RunWithCorpus, Begin, FileInv, ExitTellsTheFile
  <2> QED
    BY <2>1, <2>3, <2>4 DEF DictInv
<1>3. CASE RunWithDefault
  <2>1. TreeInv'
    BY <1>a, <1>3, TreeStutters DEF RunWithDefault, Begin
  <2>2. CommandTypeOK'
    BY <1>a, <1>3, DictInputs, EmptySeq
    DEF RunWithDefault, Begin, CommandTypeOK, CommandSteps
  <2>3. FileInv'
    BY <1>a, <1>3 DEF RunWithDefault, Begin, FileInv, ExitTellsTheFile
  <2> QED
    BY <2>1, <2>2, <2>3 DEF DictInv
<1>4. CASE LibraryStep \/ BuildStep
  <2>1. TreeInv'
    BY <1>a, <1>4, TreeNextKeepsTree DEF LibraryStep, BuildStep
  <2>2. (CommandTypeOK /\ FileInv)'
    BY <1>a, <1>4 DEF LibraryStep, BuildStep, cvars, CommandTypeOK, FileInv, ExitTellsTheFile
  <2> QED
    BY <2>1, <2>2 DEF DictInv
<1>5. CASE ReadCorpus
  <2>1. PICK text \in Corpora : corpus' = text /\ BuildCall(Counts(text))
    BY <1>5 DEF ReadCorpus
  <2>2. TreeInv'
    BY <2>1, CountsFit, BuildCallKeepsTree
  <2>3. CommandTypeOK'
    BY <1>a, <1>5, <2>1, CountsFit DEF ReadCorpus, CommandTypeOK, CommandSteps
  <2>4. FileInv'
    BY <1>a, <1>5 DEF ReadCorpus, FileInv, ExitTellsTheFile
  <2> QED
    BY <2>2, <2>3, <2>4 DEF DictInv
<1>6. CASE BookBuilt
  <2>1. TreeInv'
    BY <1>a, <1>6, TreeStutters DEF BookBuilt
  <2>2. CommandTypeOK'
    BY <1>a, <1>6 DEF BookBuilt, CommandTypeOK, CommandSteps, TreeInv
  <2>3. FileInv'
    BY <1>a, <1>6 DEF BookBuilt, FileInv, ExitTellsTheFile
  <2> QED
    BY <2>1, <2>2, <2>3 DEF DictInv
<1>7. CASE MakeDir
  <2>1. TreeInv'
    BY <1>a, <1>7, TreeStutters DEF MakeDir
  <2>2. (CommandTypeOK /\ FileInv)'
    BY <1>a, <1>7 DEF MakeDir, CommandTypeOK, CommandSteps, FileInv, ExitTellsTheFile
  <2> QED
    BY <2>1, <2>2 DEF DictInv
<1>8. CASE Create
  <2>1. TreeInv'
    BY <1>a, <1>8, TreeStutters DEF Create
  <2>2. CommandTypeOK'
    BY <1>a, <1>8, EmptySeq DEF Create, CommandTypeOK, CommandSteps
  <2>3. IsStrictPrefix(file', Serialize(book'))
    BY <1>a, <1>8, EmptyBegins DEF Create, CommandTypeOK
  <2>4. FileInv'
    BY <1>a, <1>8, <2>3 DEF Create, FileInv, ExitTellsTheFile
  <2> QED
    BY <2>1, <2>2, <2>4 DEF DictInv
<1>9. CASE Write
  <2>1. TreeInv'
    BY <1>a, <1>9, TreeStutters DEF Write
  <2>2. PICK n \in (Len(file) + 1)..NumBytes :
          /\ file' = SubSeq(Serialize(book), 1, n)
          /\ cstep' = IF n = NumBytes THEN "report" ELSE "write"
    BY <1>9 DEF Write
  <2>3. cstep = "write" /\ UNCHANGED <<corpus, book, found, made, exit, runs>>
    BY <1>9 DEF Write
  <2>4. n \in 0..NumBytes /\ n \in Nat
    BY <1>a, <2>2, LenProperties, Sizes DEF CommandTypeOK
  <2>5. /\ file' \in Seq(Bytes) /\ IsPrefix(file', Serialize(book))
        /\ n < NumBytes => IsStrictPrefix(file', Serialize(book))
        /\ n = NumBytes => file' = Serialize(book)
    BY <1>a, <2>2, <2>4, Beginnings DEF CommandTypeOK
  <2>6. CommandTypeOK'
    BY <1>a, <2>2, <2>3, <2>5 DEF CommandTypeOK, CommandSteps
  <2>7. n < NumBytes \/ n = NumBytes
    BY <2>4, Sizes
  <2>8. FileInv'
    BY <1>a, <2>2, <2>3, <2>5, <2>7 DEF FileInv, ExitTellsTheFile
  <2> QED
    BY <2>1, <2>6, <2>8 DEF DictInv
<1>10. CASE Report
  <2>1. TreeInv'
    BY <1>a, <1>10, TreeStutters DEF Report
  <2>2. CommandTypeOK'
    BY <1>a, <1>10 DEF Report, CommandTypeOK, CommandSteps
  <2>3. FileInv'
    BY <1>a, <1>10 DEF Report, FileInv, ExitTellsTheFile
  <2> QED
    BY <2>1, <2>2, <2>3 DEF DictInv
<1>11. CASE Fail
  <2>1. TreeInv'
    BY <1>a, <1>11, TreeStutters DEF Fail
  <2>2. CommandTypeOK'
    BY <1>a, <1>11 DEF Fail, CommandTypeOK, CommandSteps
  <2>3. FileInv'
    BY <1>a, <1>11 DEF Fail, FileInv, ExitTellsTheFile
  <2> QED
    BY <2>1, <2>2, <2>3 DEF DictInv
<1>12. CASE Kill
  <2>1. TreeInv'
    <3>1. TreeIdle'
      BY <1>12 DEF Kill, TreeIdle
    <3> QED
      BY <3>1, IdleKeepsTree, PTL
  <2>2. CommandTypeOK'
    BY <1>a, <1>12 DEF Kill, CommandTypeOK, CommandSteps
  <2>3. FileInv'
    BY <1>a, <1>12 DEF Kill, FileInv, ExitTellsTheFile
  <2> QED
    BY <2>1, <2>2, <2>3 DEF DictInv
<1>13. CASE UNCHANGED vars
  <2>1. TreeInv'
    BY <1>a, <1>13, TreeStutters DEF vars
  <2>2. (CommandTypeOK /\ FileInv)'
    BY <1>a, <1>13 DEF vars, cvars, CommandTypeOK, FileInv, ExitTellsTheFile
  <2> QED
    BY <2>1, <2>2 DEF DictInv
<1>14. CASE Over
  BY <1>13, <1>14 DEF Over
<1> QED
  BY <1>1, <1>2, <1>3, <1>4, <1>5, <1>6, <1>7, <1>8, <1>9, <1>10, <1>11, <1>12, <1>13, <1>14
  DEF Next, OwnStep

LEMMA DictInvHolds == Spec => []DictInv
BY InitialInv, NextKeepsInv, PTL DEF Spec

-----------------------------------------------------------------------------
(* Every variable keeps its type: build_codebook reads no place outside its*)
(* arena, its ids stay below twice the number of byte values, and a depth  *)
(* is never more than a byte can hold.                                     *)
THEOREM DictTypeCorrect == Spec => []TypeOK
<1>1. DictInv => TypeOK
  BY TreeIsTyped DEF DictInv, CommandTypeOK, TypeOK
<1> QED
  BY <1>1, DictInvHolds, PTL

(* The exit code tells what is in the file, whatever fails or is killed    *)
(* wherever.                                                               *)
THEOREM ExitIsTrue == Spec => []ExitTellsTheFile
<1>1. DictInv => ExitTellsTheFile
  BY DEF DictInv, FileInv
<1> QED
  BY <1>1, DictInvHolds, PTL

(* No torn file loads as a codebook that was never built.                  *)
THEOREM OnlyBuiltBooksLoad == Spec => []LoadedBookWasBuilt
<1>1. DictInv => LoadedBookWasBuilt
  <2> SUFFICES ASSUME DictInv, Deserialize(file).ok
               PROVE  Deserialize(file).book \in made
    BY DEF LoadedBookWasBuilt
  <2>1. /\ Len(file) = NumBytes
        /\ Deserialize(file).book = [c \in Bytes |-> file[c + 1]]
    BY DEF Deserialize, Refusal
  <2>2. file \in Seq(Bytes) /\ file # <<>> /\ made \subseteq Codebooks
    BY <2>1, EmptySeq, Sizes DEF DictInv, CommandTypeOK
  <2>3. PICK b \in made : IsPrefix(file, Serialize(b))
    BY <2>2 DEF DictInv, FileInv
  <2>4. b \in Codebooks /\ Serialize(b) \in Seq(Bytes) /\ Len(Serialize(b)) = NumBytes
    BY <2>2, <2>3, SerializeType
  <2>5. file = Serialize(b)
    <3>1. SubSeq(file, 1, NumBytes) = SubSeq(Serialize(b), 1, NumBytes)
      BY <2>1, <2>3 DEF IsPrefix
    <3>2. SubSeq(file, 1, NumBytes) = file
      BY <2>1, <2>2, SubSeqFull
    <3>3. SubSeq(Serialize(b), 1, NumBytes) = Serialize(b)
      BY <2>4, SubSeqFull
    <3> QED
      BY <3>1, <3>2, <3>3
  <2>6. [c \in Bytes |-> file[c + 1]] = b
    <3>1. \A c \in Bytes : file[c + 1] = b[c]
      BY <2>4, <2>5, SerializeType, Sizes DEF Bytes
    <3> QED
      BY <2>4, <3>1 DEF Codebooks
  <2> QED
    BY <2>1, <2>3, <2>6
<1> QED
  BY <1>1, DictInvHolds, PTL

-----------------------------------------------------------------------------
(* Whoever called it, build_codebook has the shape of Huffman's trees at   *)
(* every step.                                                             *)
LEMMA NextKeepsShape == DictInv /\ TreeShape /\ [Next]_vars => TreeShape'
<1> SUFFICES ASSUME DictInv, TreeShape, [Next]_vars PROVE TreeShape'
  OBVIOUS
<1>a. TreeInv
  BY DEF DictInv
<1>1. CASE LibraryCall
  <2>1. PICK f \in Frequencies : BuildCall(f)
    BY <1>1 DEF LibraryCall
  <2>2. f \in [Bytes -> Freqs]
    BY FrequencyTables DEF Freqs
  <2> QED
    BY <2>1, <2>2, BuildCallGivesShape
<1>2. CASE ReadCorpus
  <2>1. PICK text \in Corpora : BuildCall(Counts(text))
    BY <1>2 DEF ReadCorpus
  <2> QED
    BY <2>1, CountsFit, BuildCallGivesShape
<1>3. CASE LibraryStep \/ BuildStep
  BY <1>a, <1>3, TreeNextKeepsShape DEF LibraryStep, BuildStep
<1>4. CASE Kill
  <2>1. TreeIdle'
    BY <1>4 DEF Kill, TreeIdle
  <2> QED
    BY <2>1, IdleHasShape, PTL
<1>5. CASE UNCHANGED tvars
  BY <1>a, <1>5, ShapeStutters
<1>6. CASE RunWithCorpus \/ RunWithDefault
  BY <1>5, <1>6 DEF RunWithCorpus, RunWithDefault, Begin
<1>7. CASE BookBuilt \/ MakeDir \/ Create \/ Write \/ Report \/ Fail
  <2>1. UNCHANGED tvars
    BY <1>7 DEF BookBuilt, MakeDir, Create, Write, Report, Fail
  <2> QED
    BY <1>5, <2>1
<1>8. CASE Over \/ UNCHANGED vars
  BY <1>5, <1>8 DEF Over, vars
<1> QED
  BY <1>1, <1>2, <1>3, <1>4, <1>6, <1>7, <1>8 DEF Next, OwnStep

LEMMA ShapeHolds == Spec => [](TreeInv /\ TreeShape)
<1>1. Init => TreeShape
  BY IdleHasShape DEF Init
<1>2. DictInv => TreeInv
  BY DEF DictInv
<1> QED
  BY <1>1, <1>2, DictInvHolds, NextKeepsShape, PTL DEF Spec

-----------------------------------------------------------------------------
(* What `urlz dict build` builds. *)

ShortCorpus == Sum(Counts(corpus), Bytes) < LeastTotal(MaxCodeLength + 1)

Usable(b) == ValidLengths(b) /\ UsedBytes(b) = Base85

BookInv ==
  /\ cstep = "build" => corpus \in Corpora /\ freqs = Counts(corpus)
  /\ cstep \in {"mkdir", "create", "write", "report"} \/ exit \in {"ok", "panic"} =>
       (ShortCorpus => Usable(book))

(* Each character of the alphabet counts. *)
LEMMA EveryCharacterCounts ==
  ASSUME NEW text \in Corpora
  PROVE  UsedBytes(Counts(text)) = Base85
<1>1. Counts(text) \in [Bytes -> Freqs] /\ Base85 \subseteq Bytes
  BY CountsFit, CodebookBounds DEF Bytes
<1>2. ASSUME NEW b \in Bytes PROVE Counts(text)[b] > 0 <=> b \in Base85
  <2>1. Counts(text)[b] = IF b \notin Base85 THEN 0
                          ELSE IF Occurrences(text, b) = 0 THEN 1 ELSE Occurrences(text, b)
    BY DEF Counts
  <2>2. Counts(text)[b] \in Nat
    BY <1>1, Sizes DEF Freqs
  <2> QED
    BY <2>1, <2>2
<1> QED
  BY <1>1, <1>2 DEF UsedBytes

LEMMA NextKeepsBook ==
  DictInv /\ TreeShape /\ BookInv /\ [Next]_vars => BookInv'
<1> SUFFICES ASSUME DictInv, TreeShape, BookInv, [Next]_vars PROVE BookInv'
  OBVIOUS
<1>a. TreeInv /\ FileInv /\ CommandTypeOK
  BY DEF DictInv
<1>1. CASE LibraryCall
  BY <1>a, <1>1 DEF LibraryCall, BookInv, FileInv
<1>2. CASE RunWithCorpus
  BY <1>2 DEF RunWithCorpus, Begin, BookInv
<1>3. CASE RunWithDefault
  <2>1. Usable(DefaultBook)
    BY DictInputs DEF Usable
  <2> QED
    BY <1>3, <2>1 DEF RunWithDefault, Begin, BookInv
<1>4. CASE LibraryStep \/ BuildStep
  <2>1. UNCHANGED cvars /\ TreeNext
    BY <1>4 DEF LibraryStep, BuildStep
  <2>2. UNCHANGED freqs
    BY <2>1 DEF TreeNext, Merge, TakeRoot, Visit, WalkDone
  <2>3. UNCHANGED <<cstep, corpus, book, exit>>
    BY <2>1 DEF cvars
  <2>4. ShortCorpus' = ShortCorpus
    BY <2>3 DEF ShortCorpus
  <2> QED
    BY <2>2, <2>3, <2>4 DEF BookInv
<1>5. CASE ReadCorpus
  <2>1. PICK text \in Corpora : corpus' = text /\ BuildCall(Counts(text))
    BY <1>5 DEF ReadCorpus
  <2>2. freqs' = Counts(corpus')
    BY <2>1 DEF BuildCall
  <2> QED
    BY <1>a, <1>5, <2>1, <2>2 DEF ReadCorpus, BookInv, FileInv
<1>6. CASE BookBuilt
  <2>1. /\ cstep = "build" /\ tstep = "built" /\ cstep' = "mkdir" /\ book' = lengths
        /\ UNCHANGED <<corpus, exit>>
    BY <1>6 DEF BookBuilt
  <2>2. corpus \in Corpora /\ freqs = Counts(corpus)
    BY <2>1 DEF BookInv
  <2>3. ShortCorpus => Usable(lengths)
    <3>1. Total = Sum(Counts(corpus), Bytes)
      BY <2>2 DEF Total
    <3>2. UsedBytes(freqs) = Base85
      BY <2>2, EveryCharacterCounts
    <3> QED
      BY <1>a, <2>1, <3>1, <3>2, ShortTextsFit DEF ShortCorpus, Usable
  <2>4. ShortCorpus' = ShortCorpus
    BY <2>1 DEF ShortCorpus
  <2> QED
    BY <2>1, <2>3, <2>4 DEF BookInv
<1>7. CASE MakeDir \/ Create \/ Write \/ Report
  <2>1. /\ cstep \in {"mkdir", "create", "write", "report"}
        /\ cstep' # "build" /\ UNCHANGED <<corpus, book>>
    BY <1>7 DEF MakeDir, Create, Write, Report
  <2>2. ShortCorpus' = ShortCorpus
    BY <2>1 DEF ShortCorpus
  <2> QED
    BY <2>1, <2>2 DEF BookInv
<1>8. CASE Fail \/ Kill
  BY <1>8 DEF Fail, Kill, BookInv
<1>9. CASE Over \/ UNCHANGED vars
  <2>1. UNCHANGED <<cstep, corpus, book, exit, freqs>>
    BY <1>9 DEF Over, vars, cvars, tvars
  <2>2. ShortCorpus' = ShortCorpus
    BY <2>1 DEF ShortCorpus
  <2> QED
    BY <2>1, <2>2 DEF BookInv
<1> QED
  BY <1>1, <1>2, <1>3, <1>4, <1>5, <1>6, <1>7, <1>8, <1>9 DEF Next, OwnStep

LEMMA BookHolds == Spec => [](DictInv /\ BookInv)
<1>1. Init => BookInv
  BY DEF Init, BookInv
<1> QED
  BY <1>1, DictInvHolds, ShapeHolds, NextKeepsBook, PTL DEF Spec

-----------------------------------------------------------------------------
(* The lengths build_codebook returns use up the code space, whatever was  *)
(* counted, overflowing sums included: the canonical code made of them has *)
(* no gap.                                                                 *)
THEOREM CodeSpaceAlwaysFull == Spec => []CodeSpaceIsFull
<1>1. TreeInv /\ TreeShape => CodeSpaceIsFull
  BY CodeSpaceFilled
<1> QED
  BY <1>1, ShapeHolds, PTL

(* A code of d bits takes a text of at least Fibonacci(d + 2) symbols,     *)
(* unless a sum of frequencies has overflowed.                             *)
THEOREM DepthIsPaidFor == Spec => []DeepTreesTakeLongTexts
<1>1. TreeInv /\ TreeShape => DeepTreesTakeLongTexts
  BY DeepTakesLong
<1> QED
  BY <1>1, ShapeHolds, PTL

(* What the command wrote loads and has a code for every character of the  *)
(* alphabet, unless the corpus was long enough for a tree too deep.        *)
THEOREM BuiltBooksLoad == Spec => []BuiltBookIsUsable
<1>1. DictInv /\ BookInv => BuiltBookIsUsable
  <2> SUFFICES ASSUME DictInv, BookInv, exit = "ok", ShortCorpus
               PROVE  Deserialize(file).ok /\ UsedBytes(Deserialize(file).book) = Base85
    BY DEF BuiltBookIsUsable, ShortCorpus
  <2>1. file = Serialize(book) /\ Usable(book) /\ book \in Codebooks
    BY DEF DictInv, FileInv, ExitTellsTheFile, BookInv, CommandTypeOK
  <2>2. Len(file) = NumBytes /\ \A i \in 1..NumBytes : file[i] = book[i - 1]
    BY <2>1, SerializeType
  <2>3. [b \in Bytes |-> file[b + 1]] = book
    <3>1. ASSUME NEW b \in Bytes PROVE file[b + 1] = book[b]
      <4>1. b + 1 \in 1..NumBytes /\ (b + 1) - 1 = b
        BY Sizes DEF Bytes
      <4> QED
        BY <2>2, <4>1
    <3> QED
      BY <2>1, <3>1 DEF Codebooks
  <2> QED
    BY <2>1, <2>2, <2>3 DEF Deserialize, Usable
<1> QED
  BY <1>1, BookHolds, PTL

-----------------------------------------------------------------------------
(* build_codebook is Huffman's algorithm.  The groups of HuffmanMerging are*)
(* the bytes below the roots, and how deep a byte has been put is how far  *)
(* its leaf is below its root.                                             *)

(* Two functions of leaves to depths, hung below one node. *)
Hung(d, e) ==
  [b \in DOMAIN d \cup DOMAIN e |-> 1 + (IF b \in DOMAIN d THEN d[b] ELSE e[b])]

BelowNode(f, node) ==
  IF node.kids = <<>> THEN [b \in {node.id} |-> 0]
  ELSE Hung(f[node.kids[1]], f[node.kids[2]])

AreBelow(f, ns) == f = [i \in 1..Len(ns) |-> BelowNode(f, ns[i])]

(* A node is a leaf or has its children before it. *)
Planted(ns) ==
  /\ Len(ns) \in Nat
  /\ \A i \in 1..Len(ns) :
       ns[i].kids = <<>> \/ (ns[i].kids[1] \in 1..(i - 1) /\ ns[i].kids[2] \in 1..(i - 1))

LEMMA BelowAgrees ==
  ASSUME NEW ns, Planted(ns), NEW i \in 1..Len(ns), NEW f, NEW g,
         \A k \in 1..(i - 1) : f[k] = g[k]
  PROVE  BelowNode(f, ns[i]) = BelowNode(g, ns[i])
<1>1. CASE ns[i].kids = <<>>
  BY <1>1 DEF BelowNode
<1>2. CASE ns[i].kids # <<>>
  <2>1. ns[i].kids[1] \in 1..(i - 1) /\ ns[i].kids[2] \in 1..(i - 1)
    BY <1>2 DEF Planted
  <2>2. f[ns[i].kids[1]] = g[ns[i].kids[1]] /\ f[ns[i].kids[2]] = g[ns[i].kids[2]]
    BY <2>1
  <2> QED
    BY <1>2, <2>2 DEF BelowNode
<1> QED
  BY <1>1, <1>2

LEMMA BelowExist ==
  ASSUME NEW ns, Planted(ns)
  PROVE  \E f : AreBelow(f, ns)
<1> DEFINE n == Len(ns)
           Good(f, m) == f = [i \in 1..m |-> BelowNode(f, ns[i])]
           A == {m \in 0..n : \E f : Good(f, m)}
<1>1. n \in Nat
  BY DEF Planted
<1>2. 0 \in A
  <2> DEFINE f == [i \in 1..0 |-> {}]
  <2>1. 1..0 = {} /\ 0 \in 0..n
    BY <1>1
  <2>2. Good(f, 0)
    BY <2>1
  <2> HIDE DEF Good, f
  <2> QED
    BY <2>1, <2>2
<1>3. ASSUME NEW m \in 0..(n - 1), m \in A PROVE m + 1 \in A
  <2>1. PICK f : Good(f, m)
    BY <1>3
  <2>2. m \in Nat /\ m + 1 \in 0..n /\ m + 1 \in 1..n /\ (m + 1) - 1 = m
    BY <1>1
  <2> DEFINE g == [i \in 1..(m + 1) |-> IF i = m + 1 THEN BelowNode(f, ns[i]) ELSE f[i]]
  <2>3. g[m + 1] = BelowNode(f, ns[m + 1]) /\ \A i \in 1..m : g[i] = f[i]
    <3>1. m + 1 \in 1..(m + 1) /\ \A i \in 1..m : i \in 1..(m + 1) /\ i # m + 1
      BY <2>2
    <3> QED
      BY <3>1
  <2>4. \A i \in 1..(m + 1) : i \in 1..n
    BY <1>1, <2>2
  <2>5. DOMAIN g = 1..(m + 1) /\ g = [i \in 1..(m + 1) |-> g[i]]
    OBVIOUS
  <2> HIDE DEF g
  <2>6. ASSUME NEW i \in 1..(m + 1) PROVE g[i] = BelowNode(g, ns[i])
    <3>1. i \in 1..n /\ i \in Nat
      BY <2>2, <2>4
    <3>2. \A k \in 1..(i - 1) : f[k] = g[k]
      <4>1. \A k \in 1..(i - 1) : k \in 1..m
        BY <2>2
      <4> QED
        BY <2>3, <4>1
    <3>3. BelowNode(f, ns[i]) = BelowNode(g, ns[i])
      BY <3>1, <3>2, BelowAgrees DEF n
    <3>4. g[i] = BelowNode(f, ns[i])
      <4>1. CASE i = m + 1
        BY <2>3, <4>1
      <4>2. CASE i # m + 1
        <5>1. i \in 1..m
          BY <2>2, <4>2
        <5>2. f[i] = BelowNode(f, ns[i])
          BY <2>1, <5>1
        <5> QED
          BY <2>3, <5>1, <5>2
      <4> QED
        BY <4>1, <4>2
    <3> QED
      BY <3>3, <3>4
  <2>7. Good(g, m + 1)
    BY <2>5, <2>6
  <2> HIDE DEF Good
  <2> QED
    BY <2>2, <2>7
<1> HIDE DEF A
<1>4. n \in A
  <2>1. \A m \in 0..n : m \in A
    BY <1>1, <1>2, <1>3, UpTo
  <2> QED
    BY <1>1, <2>1
<1> QED
  BY <1>4 DEF A, AreBelow

(* A longer arena has the same below the nodes of a shorter one. *)
LEMMA BelowStays ==
  ASSUME NEW ns, Planted(ns), NEW ms, Len(ms) \in Nat, Len(ns) <= Len(ms),
         \A i \in 1..Len(ns) : ms[i] = ns[i],
         NEW f, AreBelow(f, ns), NEW g, AreBelow(g, ms)
  PROVE  \A i \in 1..Len(ns) : g[i] = f[i]
<1> DEFINE n == Len(ns)
           A == {m \in 0..n : \A i \in 1..m : g[i] = f[i]}
<1>1. n \in Nat /\ \A i \in 1..n : i \in 1..Len(ms)
  BY DEF Planted
<1>2. \A i \in 1..n : f[i] = BelowNode(f, ns[i]) /\ g[i] = BelowNode(g, ns[i])
  BY <1>1 DEF AreBelow
<1>3. 0 \in A
  <2>1. 1..0 = {} /\ 0 \in 0..n
    BY <1>1
  <2> QED
    BY <2>1
<1>4. ASSUME NEW m \in 0..(n - 1), m \in A PROVE m + 1 \in A
  <2>1. /\ m + 1 \in 0..n /\ m + 1 \in 1..n /\ (m + 1) - 1 = m
        /\ \A i \in 1..(m + 1) : i \in 1..m \/ i = m + 1
    BY <1>1
  <2>2. \A k \in 1..m : g[k] = f[k]
    BY <1>4
  <2>3. BelowNode(g, ns[m + 1]) = BelowNode(f, ns[m + 1])
    <3>1. PICK i \in 1..n : i = m + 1
      BY <2>1
    <3>2. \A k \in 1..(i - 1) : g[k] = f[k]
      BY <2>1, <2>2, <3>1
    <3>3. BelowNode(g, ns[i]) = BelowNode(f, ns[i])
      BY <3>2, BelowAgrees DEF n
    <3> QED
      BY <3>1, <3>3
  <2> QED
    BY <1>2, <2>1, <2>2, <2>3
<1> HIDE DEF A
<1>5. n \in A
  <2>1. \A m \in 0..n : m \in A
    BY <1>1, <1>3, <1>4, UpTo
  <2> QED
    BY <1>1, <2>1
<1> QED
  BY <1>5 DEF A

LEMMA BytesFinite == IsFiniteSet(Bytes)
BY Sizes, FS_Interval DEF Bytes

(* The sum of two sets with nothing in common. *)
LEMMA SumsJoin ==
  ASSUME NEW S, IsFiniteSet(S), NEW f \in [S -> Nat],
         NEW P \in SUBSET S, NEW Q \in SUBSET S, P \cap Q = {}
  PROVE  Sums(f, S)[P \cup Q] = Sums(f, S)[P] + Sums(f, S)[Q]
<1> DEFINE sum == Sums(f, S)
           A == {T \in SUBSET Q : sum[P \cup T] = sum[P] + sum[T]}
<1>1. sum \in [SUBSET S -> Nat] /\ sum[{}] = 0
  BY SumsType
<1>2. \A T \in SUBSET S : \A x \in T : sum[T] = f[x] + sum[T \ {x}]
  BY SumsStep
<1> HIDE DEF sum
<1>3. {} \in A
  <2>1. P \cup {} = P /\ sum[P] \in Nat
    BY <1>1
  <2> QED
    BY <1>1, <2>1
<1>4. ASSUME NEW T \in SUBSET Q, NEW x \in T, T \ {x} \in A PROVE T \in A
  <2>1. /\ P \cup T \in SUBSET S /\ x \in P \cup T /\ (P \cup T) \ {x} = P \cup (T \ {x})
        /\ T \in SUBSET S /\ x \in S /\ T \ {x} \in SUBSET S
    OBVIOUS
  <2>2. sum[P \cup T] = f[x] + sum[P \cup (T \ {x})]
    BY <1>2, <2>1
  <2>3. sum[T] = f[x] + sum[T \ {x}]
    BY <1>2, <2>1
  <2>4. sum[P \cup (T \ {x})] = sum[P] + sum[T \ {x}]
    BY <1>4
  <2>5. f[x] \in Nat /\ sum[P] \in Nat /\ sum[T \ {x}] \in Nat
    BY <1>1, <2>1
  <2> QED
    BY <2>2, <2>3, <2>4, <2>5
<1> HIDE DEF A
<1>5. IsFiniteSet(Q)
  BY FS_Subset
<1>6. \A T \in SUBSET Q : T \in A
  BY <1>3, <1>4, <1>5, SubsetInduction
<1> QED
  BY <1>6 DEF A, sum

LEMMA SumIsSums ==
  ASSUME NEW f, f \in [Bytes -> Nat], NEW D, D \in SUBSET Bytes
  PROVE  Sum(f, D) = Sums(f, Bytes)[D]
<1> DEFINE e(it) == [s \in SUBSET D |->
                       IF s = {} THEN 0
                       ELSE f[CHOOSE x \in s : TRUE] + it[s \ {CHOOSE x \in s : TRUE}]]
           iter == CHOOSE it : it = e(it)
           part == [b \in D |-> f[b]]
           same == [b \in D |-> b]
<1>1. Sum(f, D) = iter[D]
  BY DEF Sum, MapThenSumSet, MapThenFoldSet
<1>2. ASSUME NEW s \in SUBSET D, s # {}
      PROVE  part[Chosen(s)] = f[Chosen(s)]
  <2>1. Chosen(s) \in D
    BY <1>2, ChosenIn
  <2> QED
    BY <2>1
<1>3. part \in [D -> Nat] /\ \A b \in D : same[b] \in Bytes /\ part[b] = f[same[b]]
  OBVIOUS
<1>4. {same[b] : b \in D} = D /\ \A b, c \in D : same[b] = same[c] => b = c
  OBVIOUS
<1> HIDE DEF part, same
<1>5. ASSUME NEW it PROVE (it = e(it)) <=> IsSum(it, part, D)
  <2>1. e(it) = [s \in SUBSET D |->
                   IF s = {} THEN 0 ELSE part[Chosen(s)] + it[s \ {Chosen(s)}]]
    BY <1>2 DEF Chosen
  <2> HIDE DEF e
  <2> QED
    BY <2>1 DEF IsSum
<1> HIDE DEF e
<1>6. iter = Sums(part, D)
  BY <1>5 DEF Sums
<1>7. IsFiniteSet(Bytes) /\ IsFiniteSet(D)
  BY BytesFinite, FS_Subset
<1>8. f \in [Bytes -> Nat]
  OBVIOUS
<1>9. Sums(part, D)[D] = Sums(f, Bytes)[{same[b] : b \in D}]
  BY ONLY <1>3, <1>4, <1>7, <1>8, SumsCarried
<1> QED
  BY <1>1, <1>4, <1>6, <1>9

LEMMA SumTyped ==
  ASSUME NEW f, f \in [Bytes -> Nat], NEW D, D \in SUBSET Bytes
  PROVE  Sum(f, D) \in Nat
<1>1. Sums(f, Bytes) \in [SUBSET Bytes -> Nat]
  BY BytesFinite, SumsType
<1> QED
  BY <1>1, SumIsSums

(* What is reduced before it is added up. *)
LEMMA ModAdd ==
  ASSUME NEW x \in Nat, NEW y \in Nat, NEW d \in Nat, d > 0
  PROVE  ((x % d) + (y % d)) % d = (x + y) % d
<1> DEFINE r == x % d
           s == y % d
           q == x \div d
           p == y \div d
           t == (r + s) % d
           u == (r + s) \div d
<1>1. r \in 0..(d - 1) /\ q \in Nat /\ x = d * q + r
  BY DivMod
<1>2. s \in 0..(d - 1) /\ p \in Nat /\ y = d * p + s
  BY DivMod
<1> HIDE DEF r, s, q, p
<1>3. r + s \in Nat
  BY <1>1, <1>2
<1>4. t \in 0..(d - 1) /\ u \in Nat /\ r + s = d * u + t
  BY <1>3, DivMod
<1> HIDE DEF t, u
<1>5. d * (q + p + u) = d * q + d * p + d * u
  BY <1>1, <1>2, <1>4
<1>6. d * q \in Nat /\ d * p \in Nat /\ d * u \in Nat /\ d * (q + p + u) \in Nat
  BY <1>1, <1>2, <1>4
<1>7. x + y = d * (q + p + u) + t
  BY <1>1, <1>2, <1>4, <1>5, <1>6
<1>8. (d * (q + p + u) + t) % d = t
  <2>1. q + p + u \in Nat
    BY <1>1, <1>2, <1>4
  <2> QED
    BY <1>4, <2>1, DivUnique
<1> QED
  BY <1>7, <1>8 DEF t, r, s

-----------------------------------------------------------------------------
(* Below each node stand some of the bytes that occur, and the node has    *)
(* their weight; every byte that occurs stands below one root.             *)
Grouped(ns, f, roots, fr) ==
  /\ \A i \in 1..Len(ns) :
       /\ DOMAIN f[i] \subseteq UsedBytes(fr) /\ DOMAIN f[i] # {}
       /\ \A b \in DOMAIN f[i] : f[i][b] \in Nat
       /\ ns[i].freq = Sum(fr, DOMAIN f[i]) % FreqSpace
  /\ \A i, k \in roots : i # k => DOMAIN f[i] \cap DOMAIN f[k] = {}
  /\ \A b \in UsedBytes(fr) : \E i \in roots : b \in DOMAIN f[i]

LEMMA GroupsJoin ==
  ASSUME NEW ns, Planted(ns), NEW f, AreBelow(f, ns),
         NEW roots, roots \subseteq 1..Len(ns), NEW fr, fr \in [Bytes -> Freqs],
         Grouped(ns, f, roots, fr),
         NEW p, p \in roots, NEW q, q \in roots, p # q,
         NEW ms, Len(ms) = Len(ns) + 1, \A i \in 1..Len(ns) : ms[i] = ns[i],
         ms[Len(ns) + 1].kids = <<p, q>>,
         ms[Len(ns) + 1].freq = (ns[p].freq + ns[q].freq) % FreqSpace,
         NEW g, AreBelow(g, ms)
  PROVE  /\ \A i \in 1..Len(ns) : g[i] = f[i]
         /\ g[Len(ns) + 1] = Hung(f[p], f[q])
         /\ Grouped(ms, g, (roots \ {p, q}) \cup {Len(ns) + 1}, fr)
<1> DEFINE n == Len(ns)
           top == (roots \ {p, q}) \cup {n + 1}
           D == DOMAIN f[p]
           E == DOMAIN f[q]
<1>1. n \in Nat /\ p \in 1..n /\ q \in 1..n /\ n + 1 \notin 1..n /\ 1..(n + 1) = 1..n \cup {n + 1}
      /\ Len(ms) = n + 1
  <2>1. n \in Nat /\ p \in 1..n /\ q \in 1..n
    BY DEF Planted
  <2>2. n + 1 \notin 1..n /\ 1..(n + 1) = 1..n \cup {n + 1}
    BY <2>1
  <2> QED
    BY <2>1, <2>2
<1>2. \A i \in 1..n : g[i] = f[i]
  <2>1. Len(ms) \in Nat /\ Len(ns) <= Len(ms) /\ Planted(ns) /\ AreBelow(f, ns) /\ AreBelow(g, ms)
        /\ \A i \in 1..Len(ns) : ms[i] = ns[i]
    BY <1>1
  <2> QED
    BY ONLY <2>1, BelowStays DEF n
<1>3. g[n + 1] = Hung(f[p], f[q])
  <2>1. n + 1 \in 1..Len(ms) /\ ms[n + 1].kids = <<p, q>>
    BY <1>1
  <2>2. g[n + 1] = BelowNode(g, ms[n + 1])
    BY <2>1 DEF AreBelow
  <2>3. BelowNode(g, ms[n + 1]) = Hung(g[p], g[q])
    BY <2>1 DEF BelowNode
  <2> QED
    BY <1>1, <1>2, <2>2, <2>3
<1>4. /\ D \subseteq UsedBytes(fr) /\ E \subseteq UsedBytes(fr) /\ D # {}
      /\ \A b \in D : f[p][b] \in Nat
      /\ \A b \in E : f[q][b] \in Nat
      /\ ns[p].freq = Sum(fr, D) % FreqSpace /\ ns[q].freq = Sum(fr, E) % FreqSpace
      /\ D \cap E = {}
  BY <1>1 DEF Grouped
<1>5. DOMAIN g[n + 1] = D \cup E
  BY <1>3 DEF Hung
<1>6. \A b \in D \cup E : g[n + 1][b] \in Nat
  <2>1. ASSUME NEW b \in D \cup E PROVE g[n + 1][b] \in Nat
    <3>1. g[n + 1][b] = 1 + (IF b \in D THEN f[p][b] ELSE f[q][b])
      BY <1>3 DEF Hung
    <3>2. (IF b \in D THEN f[p][b] ELSE f[q][b]) \in Nat
      BY <1>4
    <3> HIDE DEF D, E
    <3> QED
      BY <3>1, <3>2
  <2> QED
    BY <2>1
<1> HIDE DEF D, E
<1>7. ms[n + 1].freq = Sum(fr, D \cup E) % FreqSpace
  <2>1. fr \in [Bytes -> Nat] /\ D \in SUBSET Bytes /\ E \in SUBSET Bytes
    BY <1>4, Sizes DEF Freqs, UsedBytes
  <2>2. Sum(fr, D \cup E) = Sum(fr, D) + Sum(fr, E)
    <3>1. D \cup E \in SUBSET Bytes
      BY <2>1
    <3>2. D \cap E = {}
      BY <1>4
    <3>3. Sums(fr, Bytes)[D \cup E] = Sums(fr, Bytes)[D] + Sums(fr, Bytes)[E]
      BY ONLY <2>1, <3>2, BytesFinite, SumsJoin
    <3> QED
      BY <2>1, <3>1, <3>3, SumIsSums
  <2>3. Sum(fr, D) \in Nat /\ Sum(fr, E) \in Nat /\ FreqSpace \in Nat /\ FreqSpace > 0
    BY <2>1, SumTyped, Sizes
  <2>4. ((Sum(fr, D) % FreqSpace) + (Sum(fr, E) % FreqSpace)) % FreqSpace
        = (Sum(fr, D) + Sum(fr, E)) % FreqSpace
    BY <2>3, ModAdd
  <2> QED
    BY <1>4, <2>2, <2>4
<1>8. \A i \in 1..n : /\ DOMAIN g[i] \subseteq UsedBytes(fr) /\ DOMAIN g[i] # {}
                      /\ \A b \in DOMAIN g[i] : g[i][b] \in Nat
                      /\ ms[i].freq = Sum(fr, DOMAIN g[i]) % FreqSpace
  BY <1>2 DEF Grouped
<1>9. \A i \in 1..Len(ms) : /\ DOMAIN g[i] \subseteq UsedBytes(fr) /\ DOMAIN g[i] # {}
                            /\ \A b \in DOMAIN g[i] : g[i][b] \in Nat
                            /\ ms[i].freq = Sum(fr, DOMAIN g[i]) % FreqSpace
  <2>1. D \cup E \subseteq UsedBytes(fr) /\ D \cup E # {}
    BY <1>4
  <2>2. ASSUME NEW i \in 1..Len(ms)
        PROVE  /\ DOMAIN g[i] \subseteq UsedBytes(fr) /\ DOMAIN g[i] # {}
               /\ \A b \in DOMAIN g[i] : g[i][b] \in Nat
               /\ ms[i].freq = Sum(fr, DOMAIN g[i]) % FreqSpace
    <3>1. CASE i \in 1..n
      BY <1>8, <3>1
    <3>2. CASE i = n + 1
      BY <1>5, <1>6, <1>7, <2>1, <3>2
    <3> QED
      BY <1>1, <3>1, <3>2
  <2> QED
    BY <2>2
<1>10. \A i \in roots : i \in 1..n /\ g[i] = f[i]
  BY <1>2
<1>11. \A i, k \in top : i # k => DOMAIN g[i] \cap DOMAIN g[k] = {}
  <2>1. \A i, k \in roots : i # k => DOMAIN f[i] \cap DOMAIN f[k] = {}
    BY DEF Grouped
  <2>2. \A i \in roots \ {p, q} : DOMAIN g[i] \cap DOMAIN g[n + 1] = {}
    BY <1>5, <1>10, <2>1 DEF D, E
  <2> QED
    BY <1>10, <2>1, <2>2
<1>12. \A b \in UsedBytes(fr) : \E i \in top : b \in DOMAIN g[i]
  <2>1. ASSUME NEW b \in UsedBytes(fr) PROVE \E i \in top : b \in DOMAIN g[i]
    <3>1. PICK i \in roots : b \in DOMAIN f[i]
      BY DEF Grouped
    <3>2. CASE i \in {p, q}
      <4>1. b \in DOMAIN g[n + 1]
        BY <1>5, <3>1, <3>2 DEF D, E
      <4> QED
        BY <4>1
    <3>3. CASE i \notin {p, q}
      BY <1>10, <3>1, <3>3
    <3> QED
      BY <3>2, <3>3
  <2> QED
    BY <2>1
<1> HIDE DEF top
<1>13. Grouped(ms, g, top, fr)
  BY <1>9, <1>11, <1>12 DEF Grouped
<1> QED
  BY <1>2, <1>3, <1>13 DEF top, n

(* The groups, and how deep each byte has been put. *)
GroupsOf(f, roots) == {DOMAIN f[i] : i \in roots}

DepthsOf(f, roots) ==
  LET trees == {f[i] : i \in roots}
  IN  [b \in Bytes |->
         LET holding == {t \in trees : b \in DOMAIN t}
         IN  IF holding = {} THEN 0 ELSE (CHOOSE t \in holding : TRUE)[b]]

LEMMA DepthsValues ==
  ASSUME NEW ns, NEW f, NEW roots, NEW fr, Grouped(ns, f, roots, fr)
  PROVE  /\ \A i \in roots : \A b \in Bytes :
              b \in DOMAIN f[i] => DepthsOf(f, roots)[b] = f[i][b]
         /\ \A b \in Bytes : (\A i \in roots : b \notin DOMAIN f[i]) => DepthsOf(f, roots)[b] = 0
         /\ DepthsOf(f, roots) = [b \in Bytes |-> DepthsOf(f, roots)[b]]
<1> DEFINE trees == {f[i] : i \in roots}
           holding(b) == {t \in trees : b \in DOMAIN t}
<1>1. \A b \in Bytes : DepthsOf(f, roots)[b]
                       = IF holding(b) = {} THEN 0 ELSE (CHOOSE t \in holding(b) : TRUE)[b]
  BY DEF DepthsOf
<1>2. ASSUME NEW i \in roots, NEW b \in Bytes, b \in DOMAIN f[i]
      PROVE  DepthsOf(f, roots)[b] = f[i][b]
  <2>1. \A k \in roots : b \in DOMAIN f[k] => k = i
    BY <1>2 DEF Grouped
  <2>2. holding(b) = {f[i]}
    BY <1>2, <2>1
  <2>3. (CHOOSE t \in {f[i]} : TRUE) = f[i]
    OBVIOUS
  <2> HIDE DEF holding
  <2> QED
    BY <1>1, <2>2, <2>3
<1>3. ASSUME NEW b \in Bytes, \A i \in roots : b \notin DOMAIN f[i]
      PROVE  DepthsOf(f, roots)[b] = 0
  <2>1. holding(b) = {}
    BY <1>3
  <2> HIDE DEF holding
  <2> QED
    BY <1>1, <2>1
<1>4. DepthsOf(f, roots) = [b \in Bytes |-> DepthsOf(f, roots)[b]]
  BY DEF DepthsOf
<1> QED
  BY <1>2, <1>3, <1>4

Deeper(d, bytes) == [b \in Bytes |-> d[b] + (IF b \in bytes THEN 1 ELSE 0)]

(* The roots when a node has been put over p and q. *)
Topped(roots, size, p, q) == (roots \ {p, q}) \cup {size + 1}

(* D and E become one group, and their bytes one deeper. *)
OneDeeper(f, roots, g, top, D, E) ==
  /\ D # E
  /\ GroupsOf(g, top) = (GroupsOf(f, roots) \ {D, E}) \cup {D \cup E}
  /\ DepthsOf(g, top) = Deeper(DepthsOf(f, roots), D \cup E)

(* ns has become ms by a node over p and q. *)
Grown(ns, f, roots, p, q, ms, g, fr) ==
  /\ Grouped(ns, f, roots, fr) /\ roots \subseteq 1..Len(ns) /\ Len(ns) \in Nat
  /\ p \in roots /\ q \in roots /\ p # q
  /\ \A i \in 1..Len(ns) : g[i] = f[i]
  /\ g[Len(ns) + 1] = Hung(f[p], f[q])
  /\ Grouped(ms, g, Topped(roots, Len(ns), p, q), fr)

(* A merge joins two groups, and puts their bytes one deeper. *)
LEMMA GroupsJoined ==
  ASSUME NEW ns, NEW f, NEW roots, NEW p, NEW q, NEW ms, NEW g, NEW fr,
         Grown(ns, f, roots, p, q, ms, g, fr)
  PROVE  OneDeeper(f, roots, g, Topped(roots, Len(ns), p, q), DOMAIN f[p], DOMAIN f[q])
<1> DEFINE n == Len(ns)
           top == (roots \ {p, q}) \cup {n + 1}
           D   == DOMAIN f[p]
           E   == DOMAIN f[q]
<1>0. /\ Grouped(ns, f, roots, fr) /\ roots \subseteq 1..Len(ns) /\ Len(ns) \in Nat
      /\ p \in roots /\ q \in roots /\ p # q
      /\ \A i \in 1..Len(ns) : g[i] = f[i]
      /\ g[Len(ns) + 1] = Hung(f[p], f[q])
      /\ Grouped(ms, g, (roots \ {p, q}) \cup {Len(ns) + 1}, fr)
  BY DEF Grown, Topped
<1> USE <1>0
<1>1. /\ \A i \in roots : i \in 1..n /\ g[i] = f[i] /\ DOMAIN f[i] # {}
      /\ \A i, k \in roots : i # k => DOMAIN f[i] \cap DOMAIN f[k] = {}
      /\ \A i \in roots : \A b \in DOMAIN f[i] : f[i][b] \in Nat
  BY DEF Grouped
<1>2. DOMAIN g[n + 1] = D \cup E
  BY DEF Hung
<1>3. D # E
  BY <1>1
<1>4. GroupsOf(g, top) = (GroupsOf(f, roots) \ {D, E}) \cup {D \cup E}
  <2>1. {DOMAIN f[i] : i \in roots \ {p, q}} = GroupsOf(f, roots) \ {D, E}
    <3>1. \A i \in roots : DOMAIN f[i] = D \/ DOMAIN f[i] = E => i \in {p, q}
      BY <1>1
    <3> QED
      BY <3>1 DEF GroupsOf
  <2>2. {DOMAIN g[i] : i \in roots \ {p, q}} = {DOMAIN f[i] : i \in roots \ {p, q}}
    BY <1>1
  <2>3. GroupsOf(g, top) = {DOMAIN g[i] : i \in roots \ {p, q}} \cup {DOMAIN g[n + 1]}
    BY DEF GroupsOf
  <2> QED
    BY <1>2, <2>1, <2>2, <2>3
<1>5. /\ \A i \in roots : \A b \in Bytes :
           b \in DOMAIN f[i] => DepthsOf(f, roots)[b] = f[i][b]
      /\ \A b \in Bytes : (\A i \in roots : b \notin DOMAIN f[i]) => DepthsOf(f, roots)[b] = 0
  BY DepthsValues
<1>6. /\ \A i \in top : \A b \in Bytes :
           b \in DOMAIN g[i] => DepthsOf(g, top)[b] = g[i][b]
      /\ \A b \in Bytes : (\A i \in top : b \notin DOMAIN g[i]) => DepthsOf(g, top)[b] = 0
      /\ DepthsOf(g, top) = [b \in Bytes |-> DepthsOf(g, top)[b]]
  <2>1. Grouped(ms, g, top, fr)
    OBVIOUS
  <2> HIDE DEF top
  <2> QED
    BY ONLY <2>1, DepthsValues
<1>7. ASSUME NEW b \in Bytes
      PROVE  DepthsOf(g, top)[b] = DepthsOf(f, roots)[b] + (IF b \in D \cup E THEN 1 ELSE 0)
  <2>1. n + 1 \in top
    OBVIOUS
  <2>2. CASE b \in D
    <3>1. g[n + 1][b] = 1 + f[p][b] /\ f[p][b] \in Nat
      BY <1>1, <2>2 DEF Hung
    <3>2. DepthsOf(f, roots)[b] = f[p][b]
      BY <1>5, <2>2
    <3>3. DepthsOf(g, top)[b] = g[n + 1][b]
      BY <1>2, <1>6, <2>1, <2>2
    <3> HIDE DEF D, E, top
    <3> QED
      BY <2>2, <3>1, <3>2, <3>3
  <2>3. CASE b \in E
    <3>0. b \notin D
      BY <1>1, <2>3
    <3>1. g[n + 1][b] = 1 + f[q][b] /\ f[q][b] \in Nat
      BY <1>1, <2>3, <3>0 DEF Hung
    <3>2. DepthsOf(f, roots)[b] = f[q][b]
      BY <1>5, <2>3
    <3>3. DepthsOf(g, top)[b] = g[n + 1][b]
      BY <1>2, <1>6, <2>1, <2>3
    <3> HIDE DEF D, E, top
    <3> QED
      BY <2>3, <3>1, <3>2, <3>3
  <2>4. CASE b \notin D \cup E
    <3>1. CASE \E i \in roots : b \in DOMAIN f[i]
      <4>1. PICK i \in roots : b \in DOMAIN f[i]
        BY <3>1
      <4>2. i \in top /\ g[i] = f[i] /\ f[i][b] \in Nat
        BY <1>1, <2>4, <4>1
      <4>3. DepthsOf(f, roots)[b] = f[i][b]
        BY <1>5, <4>1
      <4>4. DepthsOf(g, top)[b] = g[i][b]
        BY <1>6, <4>1, <4>2
      <4> HIDE DEF D, E, top
      <4> QED
        BY <2>4, <4>2, <4>3, <4>4
    <3>2. CASE \A i \in roots : b \notin DOMAIN f[i]
      <4>1. \A i \in top : b \notin DOMAIN g[i]
        BY <1>1, <1>2, <2>4, <3>2
      <4>2. DepthsOf(f, roots)[b] = 0 /\ DepthsOf(g, top)[b] = 0
        BY <1>5, <1>6, <3>2, <4>1
      <4> HIDE DEF D, E, top
      <4> QED
        BY <2>4, <4>2
    <3> QED
      BY <3>1, <3>2
  <2> QED
    BY <2>2, <2>3, <2>4
<1>8. DepthsOf(g, top) = Deeper(DepthsOf(f, roots), D \cup E)
  <2> HIDE DEF top, D, E
  <2> QED
    BY <1>6, <1>7 DEF Deeper
<1> HIDE DEF top, D, E
<1>9. OneDeeper(f, roots, g, top, D, E)
  BY ONLY <1>3, <1>4, <1>8 DEF OneDeeper
<1> QED
  BY <1>9 DEF Topped, top, D, E

BelowIn(ns) == CHOOSE f : AreBelow(f, ns)

LEMMA BelowFound ==
  ASSUME NEW ns, Planted(ns)
  PROVE  AreBelow(BelowIn(ns), ns)
BY BelowExist DEF BelowIn

LEMMA DepthsAreBelow ==
  /\ DepthsBelow = BelowIn(nodes)
  /\ DepthsBelow' = BelowIn(nodes')
BY DEF DepthsBelow, BelowIn, AreBelow, BelowNode, Hung

GroupInv == Grouped(nodes, BelowIn(nodes), Roots, freqs)

LEMMA ArenaPlanted == TreeInv => Planted(nodes)
<1> SUFFICES ASSUME TreeInv PROVE Planted(nodes)
  OBVIOUS
<1>1. Len(nodes) \in Nat /\ \A i \in 1..Len(nodes) : WellPlaced(i)
  BY ArenaSizes
<1>2. ASSUME NEW i \in 1..Len(nodes)
      PROVE  \/ nodes[i].kids = <<>>
             \/ nodes[i].kids[1] \in 1..(i - 1) /\ nodes[i].kids[2] \in 1..(i - 1)
  BY <1>1 DEF WellPlaced
<1> QED
  BY <1>1, <1>2 DEF Planted

LEMMA IdleIsGrouped == TreeIdle => GroupInv
<1> SUFFICES ASSUME TreeIdle PROVE GroupInv
  OBVIOUS
<1>1. nodes = <<>> /\ Len(nodes) = 0 /\ heap = {} /\ freqs = NoCodes
  BY EmptySeq DEF TreeIdle
<1>2. Roots = {} /\ UsedBytes(freqs) = {}
  <2>1. UsedBytes(freqs) = {}
    BY <1>1 DEF UsedBytes, NoCodes
  <2> QED
    BY <1>1, <2>1 DEF Roots
<1>3. 1..0 = {}
  OBVIOUS
<1> QED
  BY <1>1, <1>2, <1>3 DEF GroupInv, Grouped

(* After the call every byte that occurs is a group. *)
LEMMA LeavesAreGroups ==
  ASSUME NEW ns, Len(ns) \in Nat, NEW fr, fr \in [Bytes -> Freqs],
         \A i \in 1..Len(ns) : /\ ns[i].kids = <<>> /\ ns[i].id \in UsedBytes(fr)
                               /\ ns[i].freq = fr[ns[i].id],
         \A b \in UsedBytes(fr) : \E i \in 1..Len(ns) : ns[i].id = b,
         \A i, j \in 1..Len(ns) : ns[i].id = ns[j].id => i = j
  PROVE  /\ Grouped(ns, BelowIn(ns), 1..Len(ns), fr)
         /\ GroupsOf(BelowIn(ns), 1..Len(ns)) = {{b} : b \in UsedBytes(fr)}
         /\ DepthsOf(BelowIn(ns), 1..Len(ns)) = [b \in Bytes |-> 0]
<1> DEFINE n == Len(ns)
           f == BelowIn(ns)
<1>1. AreBelow(f, ns)
  BY BelowFound DEF Planted
<1> HIDE DEF f
<1>2. ASSUME NEW i \in 1..n
      PROVE  DOMAIN f[i] = {ns[i].id} /\ \A b \in DOMAIN f[i] : f[i][b] = 0
  <2> DEFINE x == ns[i].id
  <2>1. f[i] = [b \in {x} |-> 0]
    BY <1>1 DEF AreBelow, BelowNode
  <2> HIDE DEF x
  <2>2. DOMAIN f[i] = {x} /\ \A b \in {x} : f[i][b] = 0
    BY <2>1
  <2> QED
    BY <2>2 DEF x
<1>3. \A i \in 1..n : DOMAIN f[i] = {ns[i].id}
  BY <1>2
<1>4. ASSUME NEW i \in 1..n PROVE ns[i].freq = Sum(fr, {ns[i].id}) % FreqSpace
  <2> DEFINE b == ns[i].id
  <2>1. b \in Bytes /\ ns[i].freq = fr[b] /\ fr[b] \in Freqs /\ fr \in [Bytes -> Nat]
    BY Sizes DEF UsedBytes, Freqs
  <2> HIDE DEF b
  <2>2. b \in {b} /\ {b} \ {b} = {} /\ {b} \in SUBSET Bytes
    BY <2>1
  <2>3. Sums(fr, Bytes)[{b}] = fr[b] + Sums(fr, Bytes)[{b} \ {b}]
    <3>1. \A T \in SUBSET Bytes : \A x \in T :
            Sums(fr, Bytes)[T] = fr[x] + Sums(fr, Bytes)[T \ {x}]
      BY ONLY <2>1, BytesFinite, SumsStep
    <3> QED
      BY <2>2, <3>1
  <2>4. Sums(fr, Bytes)[{}] = 0
    BY ONLY <2>1, BytesFinite, SumsType
  <2>5. Sum(fr, {b}) = Sums(fr, Bytes)[{b}]
    BY ONLY <2>1, <2>2, SumIsSums
  <2>6. Sum(fr, {b}) = fr[b]
    <3>1. fr[b] + 0 = fr[b]
      BY <2>1, Sizes DEF Freqs
    <3> QED
      BY <2>2, <2>3, <2>4, <2>5, <3>1
  <2>7. fr[b] % FreqSpace = fr[b]
    <3>1. FreqSpace \in Nat /\ FreqSpace > 0 /\ 0 \in Nat /\ fr[b] \in 0..(FreqSpace - 1)
      BY <2>1, Sizes DEF Freqs
    <3>2. (FreqSpace * 0 + fr[b]) % FreqSpace = fr[b]
      BY ONLY <3>1, DivUnique
    <3>3. FreqSpace * 0 + fr[b] = fr[b]
      BY ONLY <3>1, SMT
    <3> QED
      BY ONLY <3>2, <3>3
  <2> QED
    BY <2>1, <2>6, <2>7 DEF b
<1>5. \A i \in 1..n : \A b \in DOMAIN f[i] : f[i][b] = 0
  BY <1>2
<1>6. Grouped(ns, f, 1..n, fr)
  <2>1. ASSUME NEW i \in 1..n PROVE DOMAIN f[i] \subseteq UsedBytes(fr) /\ DOMAIN f[i] # {}
    <3>1. DOMAIN f[i] = {ns[i].id} /\ ns[i].id \in UsedBytes(fr)
      BY <1>3
    <3> QED
      BY <3>1
  <2>2. \A i \in 1..n : ns[i].freq = Sum(fr, DOMAIN f[i]) % FreqSpace
    BY <1>3, <1>4
  <2>3. ASSUME NEW i \in 1..n, NEW k \in 1..n, i # k PROVE DOMAIN f[i] \cap DOMAIN f[k] = {}
    <3>1. DOMAIN f[i] = {ns[i].id} /\ DOMAIN f[k] = {ns[k].id} /\ ns[i].id # ns[k].id
      BY <1>3, <2>3
    <3> QED
      BY <3>1
  <2>4. ASSUME NEW b \in UsedBytes(fr) PROVE \E i \in 1..n : b \in DOMAIN f[i]
    <3>1. PICK i \in 1..n : ns[i].id = b
      OBVIOUS
    <3>2. DOMAIN f[i] = {b}
      BY <1>3, <3>1
    <3> QED
      BY <3>2
  <2> QED
    BY <1>5, <2>1, <2>2, <2>3, <2>4 DEF Grouped
<1>7. GroupsOf(f, 1..n) = {{b} : b \in UsedBytes(fr)}
  <2>1. GroupsOf(f, 1..n) = {{ns[i].id} : i \in 1..n}
    <3> HIDE DEF n
    <3>1. \A i \in 1..n : DOMAIN f[i] = {ns[i].id}
      BY <1>3
    <3> QED
      BY ONLY <3>1, Zenon DEF GroupsOf
  <2>2. \A i \in 1..n : ns[i].id \in UsedBytes(fr)
    OBVIOUS
  <2>3. \A b \in UsedBytes(fr) : \E i \in 1..n : ns[i].id = b
    OBVIOUS
  <2> QED
    BY <2>1, <2>2, <2>3
<1>8. DepthsOf(f, 1..n) = [b \in Bytes |-> 0]
  <2>1. /\ \A i \in 1..n : \A b \in Bytes : b \in DOMAIN f[i] => DepthsOf(f, 1..n)[b] = f[i][b]
        /\ \A b \in Bytes : (\A i \in 1..n : b \notin DOMAIN f[i]) => DepthsOf(f, 1..n)[b] = 0
        /\ DepthsOf(f, 1..n) = [b \in Bytes |-> DepthsOf(f, 1..n)[b]]
    BY ONLY <1>6, DepthsValues
  <2>2. ASSUME NEW b \in Bytes PROVE DepthsOf(f, 1..n)[b] = 0
    BY <1>5, <2>1
  <2> QED
    BY <2>1, <2>2
<1> QED
  BY <1>6, <1>7, <1>8 DEF f

(* The call makes a group of every byte that occurs. *)
LEMMA CallGroups ==
  ASSUME NEW f, f \in [Bytes -> Freqs], BuildCall(f)
  PROVE  /\ Grouped(nodes', BelowIn(nodes'), Roots', freqs')
         /\ GroupsOf(BelowIn(nodes'), Roots') = {{b} : b \in UsedBytes(f)}
         /\ DepthsOf(BelowIn(nodes'), Roots') = [b \in Bytes |-> 0]
<1>1. TreeInv' /\ TreeShape'
  BY BuildCallKeepsTree, BuildCallGivesShape
<1>2. freqs' = f /\ nextId' = NumBytes
  BY DEF BuildCall
<1>3. /\ Len(nodes') \in Nat /\ Leaves' = Len(nodes')
      /\ \A i \in 1..Len(nodes') : WellPlaced(i)'
  BY <1>1, <1>2, Sizes, LenProperties DEF TreeInv, ArenaInv, Leaves, Merged
<1>4. \A i \in 1..Len(nodes') : nodes'[i].kids = <<>>
  BY <1>3 DEF WellPlaced
<1>5. /\ \A i \in 1..Len(nodes') : /\ nodes'[i].id \in UsedBytes(f)
                                   /\ nodes'[i].freq = f[nodes'[i].id]
      /\ \A b \in UsedBytes(f) : \E i \in 1..Len(nodes') : nodes'[i].id = b
      /\ \A i, j \in 1..Len(nodes') : nodes'[i].id = nodes'[j].id => i = j
  BY <1>1, <1>2, <1>3 DEF TreeShape, ShapeInv, LeafIds
<1>6. Roots' = 1..Len(nodes')
  <2>1. Forest(nodes', Leaves', Roots')
    BY <1>1 DEF TreeShape, ShapeInv
  <2>2. Inner(nodes', Leaves') = {}
    BY <1>3 DEF Inner
  <2> QED
    BY <2>1, <2>2 DEF Forest
<1>7. PICK ns : ns = nodes'
  OBVIOUS
<1>8. f \in [Bytes -> Freqs]
  OBVIOUS
<1>9. /\ Grouped(ns, BelowIn(ns), 1..Len(ns), f)
      /\ GroupsOf(BelowIn(ns), 1..Len(ns)) = {{b} : b \in UsedBytes(f)}
      /\ DepthsOf(BelowIn(ns), 1..Len(ns)) = [b \in Bytes |-> 0]
  BY ONLY <1>3, <1>4, <1>5, <1>7, <1>8, LeavesAreGroups
<1> QED
  BY <1>2, <1>6, <1>7, <1>9

(* The heap's entries are the roots, and a merge joins the two lightest. *)
LEMMA MergeRoots ==
  ASSUME TreeInv, TreeShape, Merge
  PROVE  LET left  == Least(heap)
             right == Least(heap \ {left})
             p == left.index
             q == right.index
         IN  /\ p \in Roots /\ q \in Roots /\ p # q
             /\ Roots' = (Roots \ {p, q}) \cup {Len(nodes) + 1}
             /\ \A i \in Roots : i # p => nodes[i].freq >= nodes[p].freq
             /\ \A i \in Roots : i # p => nodes[i].freq >= nodes[q].freq
             /\ Len(nodes') = Len(nodes) + 1
             /\ \A i \in 1..Len(nodes) : nodes'[i] = nodes[i]
             /\ nodes'[Len(nodes) + 1].kids = <<p, q>>
             /\ nodes'[Len(nodes) + 1].freq = (nodes[p].freq + nodes[q].freq) % FreqSpace
<1> DEFINE left  == Least(heap)
           rest  == heap \ {left}
           right == Least(rest)
           sum   == (left.freq + right.freq) % FreqSpace
           n     == Len(nodes)
           p     == left.index
           q     == right.index
<1>1. /\ Cardinality(heap) >= 2 /\ left \in heap /\ right \in rest
      /\ heap' = (heap \ {left, right}) \cup {Entry(sum, nextId, n + 1)}
      /\ Len(nodes') = n + 1 /\ \A i \in 1..n : nodes'[i] = nodes[i]
      /\ nodes'[n + 1] = [freq |-> sum, id |-> nextId, kids |-> <<p, q>>]
  <2>1. Leaves \in Nat /\ Merged \in Nat
    BY ArenaSizes
  <2>2. Cardinality(heap) \in 2..(Leaves - Merged)
    BY MergeJoins
  <2>3. Cardinality(heap) >= 2
    BY <2>1, <2>2
  <2> QED
    BY <2>3, MergeJoins
<1>2. /\ \A e \in heap : left.freq <= e.freq
      /\ \A e \in rest : right.freq <= e.freq
  BY <1>1, MergeTakes
<1>3. left # right /\ right \in heap /\ heap # {}
  BY <1>1
<1> HIDE DEF left, right
<1>4. /\ Roots = {e.index : e \in heap}
      /\ \A e, m \in heap : e.index = m.index => e = m
  BY <1>3, HeapRoots DEF TreeShape
<1>5. p \in Roots /\ q \in Roots /\ p # q
  BY <1>1, <1>3, <1>4
<1>6. Roots' = (Roots \ {p, q}) \cup {n + 1}
  <2>1. Roots' = {e.index : e \in heap'}
    <3>1. heap' # {}
      BY <1>1
    <3> QED
      BY <3>1 DEF Roots
  <2>2. Entry(sum, nextId, n + 1).index = n + 1
    BY DEF Entry
  <2>3. {e.index : e \in heap \ {left, right}} = Roots \ {p, q}
    BY <1>1, <1>3, <1>4
  <2> HIDE DEF sum, n, p, q
  <2> QED
    BY <1>1, <2>1, <2>2, <2>3, SMTT(30)
<1>7. \A e \in heap : e.freq = nodes[e.index].freq
  BY DEF TreeShape, ShapeInv, HeapIds
<1>8. left.freq = nodes[p].freq /\ right.freq = nodes[q].freq
  BY <1>1, <1>3, <1>7
<1>9. ASSUME NEW i \in Roots, i # p
      PROVE  nodes[i].freq >= nodes[p].freq /\ nodes[i].freq >= nodes[q].freq
  <2>1. PICK e \in heap : e.index = i
    BY <1>4
  <2>2. e \in rest
    BY <1>9, <2>1
  <2>3. e.freq = nodes[i].freq /\ left.freq <= e.freq /\ right.freq <= e.freq
    BY <1>2, <1>7, <2>1, <2>2
  <2>4. i \in 1..n /\ p \in 1..n /\ q \in 1..n
    BY <1>5 DEF TreeShape, ShapeInv, Forest
  <2>5. nodes[i].freq \in Nat /\ nodes[p].freq \in Nat /\ nodes[q].freq \in Nat
    BY <2>4, ArenaSizes
  <2> HIDE DEF p, q
  <2> QED
    BY <1>8, <2>3, <2>5
<1>10. /\ nodes'[n + 1].kids = <<p, q>>
       /\ nodes'[n + 1].freq = (nodes[p].freq + nodes[q].freq) % FreqSpace
  BY <1>1, <1>8
<1> QED
  BY <1>1, <1>5, <1>6, <1>9, <1>10 DEF left, right

LEMMA MergeGroups ==
  ASSUME TreeInv, TreeShape, GroupInv, Merge
  PROVE  LET f == BelowIn(nodes)
             g == BelowIn(nodes')
             p == Least(heap).index
             q == Least(heap \ {Least(heap)}).index
             D == DOMAIN f[p]
             E == DOMAIN f[q]
         IN  /\ GroupInv'
             /\ D # E /\ D \in GroupsOf(f, Roots) /\ E \in GroupsOf(f, Roots)
             /\ \A G \in GroupsOf(f, Roots) \ {D, E} :
                  /\ Sum(freqs, G) % FreqSpace >= Sum(freqs, D) % FreqSpace
                  /\ Sum(freqs, G) % FreqSpace >= Sum(freqs, E) % FreqSpace
             /\ GroupsOf(g, Roots') = (GroupsOf(f, Roots) \ {D, E}) \cup {D \cup E}
             /\ DepthsOf(g, Roots') = Deeper(DepthsOf(f, Roots), D \cup E)
<1> DEFINE f == BelowIn(nodes)
           p == Least(heap).index
           q == Least(heap \ {Least(heap)}).index
           D == DOMAIN f[p]
           E == DOMAIN f[q]
<1>1. /\ p \in Roots /\ q \in Roots /\ p # q
      /\ Roots' = (Roots \ {p, q}) \cup {Len(nodes) + 1}
      /\ \A i \in Roots : i # p => nodes[i].freq >= nodes[p].freq
      /\ \A i \in Roots : i # p => nodes[i].freq >= nodes[q].freq
      /\ Len(nodes') = Len(nodes) + 1
      /\ \A i \in 1..Len(nodes) : nodes'[i] = nodes[i]
      /\ nodes'[Len(nodes) + 1].kids = <<p, q>>
      /\ nodes'[Len(nodes) + 1].freq = (nodes[p].freq + nodes[q].freq) % FreqSpace
  BY MergeRoots
<1> HIDE DEF p, q
<1>2. Planted(nodes) /\ AreBelow(f, nodes)
  BY ArenaPlanted, BelowFound
<1>3. TreeInv'
  BY MergeKeepsTree
<1>4. Planted(nodes')
  <2>1. Planted(nodes)'
    BY <1>3, ArenaPlanted, PTL
  <2> QED
    BY <2>1 DEF Planted
<1>5. PICK ms : ms = nodes'
  OBVIOUS
<1>6. PICK g : g = BelowIn(ms)
  OBVIOUS
<1>7. AreBelow(g, ms)
  BY <1>4, <1>5, <1>6, BelowFound
<1>8. /\ Grouped(nodes, f, Roots, freqs) /\ Roots \subseteq 1..Len(nodes)
      /\ freqs \in [Bytes -> Freqs] /\ Len(nodes) \in Nat
  BY ArenaSizes DEF GroupInv, TreeShape, ShapeInv, Forest, TreeInv
<1>9. /\ Len(ms) = Len(nodes) + 1
      /\ \A i \in 1..Len(nodes) : ms[i] = nodes[i]
      /\ ms[Len(nodes) + 1].kids = <<p, q>>
      /\ ms[Len(nodes) + 1].freq = (nodes[p].freq + nodes[q].freq) % FreqSpace
  BY <1>1, <1>5
<1> HIDE DEF f
<1>10. /\ \A i \in 1..Len(nodes) : g[i] = f[i]
       /\ g[Len(nodes) + 1] = Hung(f[p], f[q])
       /\ Grouped(ms, g, (Roots \ {p, q}) \cup {Len(nodes) + 1}, freqs)
  BY ONLY <1>1, <1>2, <1>7, <1>8, <1>9, GroupsJoin
<1>11. OneDeeper(f, Roots, g, Topped(Roots, Len(nodes), p, q), D, E)
  <2>1. Grown(nodes, f, Roots, p, q, ms, g, freqs)
    BY ONLY <1>1, <1>8, <1>10 DEF Grown, Topped
  <2> QED
    BY ONLY <2>1, GroupsJoined
<1>12. freqs' = freqs
  BY DEF Merge
<1>13. GroupInv'
  BY <1>1, <1>5, <1>6, <1>10, <1>12 DEF GroupInv
<1>14. D \in GroupsOf(f, Roots) /\ E \in GroupsOf(f, Roots)
  BY <1>1 DEF GroupsOf
<1>15. ASSUME NEW G \in GroupsOf(f, Roots) \ {D, E}
       PROVE  /\ Sum(freqs, G) % FreqSpace >= Sum(freqs, D) % FreqSpace
              /\ Sum(freqs, G) % FreqSpace >= Sum(freqs, E) % FreqSpace
  <2>1. PICK i \in Roots : G = DOMAIN f[i]
    BY DEF GroupsOf
  <2>2. i # p
    BY <1>15, <2>1
  <2>3. i \in 1..Len(nodes) /\ p \in 1..Len(nodes) /\ q \in 1..Len(nodes)
    BY <1>1, <1>8
  <2>4. \A k \in 1..Len(nodes) : nodes[k].freq = Sum(freqs, DOMAIN f[k]) % FreqSpace
    BY <1>8 DEF Grouped
  <2>5. /\ nodes[i].freq = Sum(freqs, G) % FreqSpace
        /\ nodes[p].freq = Sum(freqs, D) % FreqSpace
        /\ nodes[q].freq = Sum(freqs, E) % FreqSpace
    BY <2>1, <2>3, <2>4
  <2>6. nodes[i].freq >= nodes[p].freq /\ nodes[i].freq >= nodes[q].freq
    BY <1>1, <2>2
  <2> QED
    BY ONLY <2>5, <2>6
<1> HIDE DEF D, E
<1>16. Roots' = Topped(Roots, Len(nodes), p, q) /\ g = BelowIn(nodes')
  BY <1>1, <1>5, <1>6 DEF Topped
<1>17. OneDeeper(f, Roots, g, Roots', D, E)
  BY ONLY <1>11, <1>16
<1>18. /\ D # E
       /\ GroupsOf(g, Roots') = (GroupsOf(f, Roots) \ {D, E}) \cup {D \cup E}
       /\ DepthsOf(g, Roots') = Deeper(DepthsOf(f, Roots), D \cup E)
  BY ONLY <1>17 DEF OneDeeper
<1> QED
  BY <1>13, <1>14, <1>15, <1>16, <1>18 DEF D, E, f, p, q

LEMMA TakeRootRoots ==
  ASSUME TreeInv, TreeShape, TakeRoot
  PROVE  Roots' = Roots /\ Roots = {Len(nodes)}
<1> DEFINE n == Len(nodes)
<1>1. /\ tstep = "merge" /\ heap' = {} /\ UNCHANGED nodes
  BY DEF TakeRoot
<1>2. PICK root \in heap : heap = {root}
  BY DEF TakeRoot
<1>3. Leaves >= 2 /\ n \in Nat /\ n # 0 /\ Leaves \in 0..n /\ Leaves \in Nat
  BY <1>1, ArenaSizes DEF TreeShape, ShapeInv
<1>4. Forest(nodes, Leaves, Roots) /\ Roots = {root.index}
  BY <1>2 DEF TreeShape, ShapeInv, Roots
<1>5. root.index = n
  <2>1. \A j \in Inner(nodes, Leaves) : n \notin Kids(nodes, j)
    <3>1. \A j \in Inner(nodes, Leaves) : j \in Nat /\ j <= n
      BY <1>3 DEF Inner
    <3>2. \A j \in Inner(nodes, Leaves) : n \notin 1..(j - 1)
      BY <1>3, <3>1
    <3> QED
      BY <1>4, <3>2 DEF Forest, Kids
  <2>2. n \in 1..n
    BY <1>3
  <2> QED
    BY <1>4, <2>1, <2>2 DEF Forest
<1>6. Roots' = {n}
  <2>1. nodes # <<>>
    BY <1>3, EmptySeq
  <2> QED
    BY <1>1, <2>1 DEF Roots
<1> QED
  BY <1>4, <1>5, <1>6

(* The groups stay when the arena and the heap's roots do. *)
LEMMA GroupsStay ==
  ASSUME GroupInv, UNCHANGED <<freqs, nodes>>, Roots' = Roots
  PROVE  GroupInv'
BY DEF GroupInv

LEMMA TreeNextKeepsGroups ==
  ASSUME TreeInv, TreeShape, GroupInv, TreeNext
  PROVE  GroupInv'
<1>1. CASE Merge
  BY <1>1, MergeGroups
<1>2. CASE TakeRoot
  <2>1. UNCHANGED <<freqs, nodes>>
    BY <1>2 DEF TakeRoot
  <2> QED
    BY <1>2, <2>1, TakeRootRoots, GroupsStay
<1>3. CASE Visit \/ WalkDone
  <2>1. UNCHANGED <<freqs, nodes, heap>>
    BY <1>3 DEF Visit, WalkDone
  <2>2. Roots' = Roots
    BY <2>1 DEF Roots
  <2> QED
    BY <2>1, <2>2, GroupsStay
<1> QED
  BY <1>1, <1>2, <1>3 DEF TreeNext

LEMMA StuttersKeepGroups ==
  ASSUME GroupInv, UNCHANGED tvars
  PROVE  GroupInv'
<1>1. UNCHANGED <<freqs, nodes, heap>>
  BY DEF tvars
<1>2. Roots' = Roots
  BY <1>1 DEF Roots
<1> QED
  BY <1>1, <1>2, GroupsStay

LEMMA NextKeepsGroups ==
  DictInv /\ TreeShape /\ GroupInv /\ [Next]_vars => GroupInv'
<1> SUFFICES ASSUME DictInv, TreeShape, GroupInv, [Next]_vars PROVE GroupInv'
  OBVIOUS
<1>a. TreeInv
  BY DEF DictInv
<1>1. CASE LibraryCall
  <2>1. PICK f \in Frequencies : BuildCall(f)
    BY <1>1 DEF LibraryCall
  <2>2. f \in [Bytes -> Freqs]
    BY FrequencyTables DEF Freqs
  <2> QED
    BY <2>1, <2>2, CallGroups DEF GroupInv
<1>2. CASE ReadCorpus
  <2>1. PICK text \in Corpora : BuildCall(Counts(text))
    BY <1>2 DEF ReadCorpus
  <2> QED
    BY <2>1, CountsFit, CallGroups DEF GroupInv
<1>3. CASE LibraryStep \/ BuildStep
  BY <1>a, <1>3, TreeNextKeepsGroups DEF LibraryStep, BuildStep
<1>4. CASE Kill
  <2>1. TreeIdle'
    BY <1>4 DEF Kill, TreeIdle
  <2> QED
    BY <2>1, IdleIsGrouped, PTL
<1>5. CASE UNCHANGED tvars
  BY <1>5, StuttersKeepGroups
<1>6. CASE RunWithCorpus \/ RunWithDefault
  BY <1>5, <1>6 DEF RunWithCorpus, RunWithDefault, Begin
<1>7. CASE BookBuilt \/ MakeDir \/ Create \/ Write \/ Report \/ Fail
  <2>1. UNCHANGED tvars
    BY <1>7 DEF BookBuilt, MakeDir, Create, Write, Report, Fail
  <2> QED
    BY <1>5, <2>1
<1>8. CASE Over \/ UNCHANGED vars
  BY <1>5, <1>8 DEF Over, vars
<1> QED
  BY <1>1, <1>2, <1>3, <1>4, <1>6, <1>7, <1>8 DEF Next, OwnStep

LEMMA GroupsHold == Spec => [](DictInv /\ TreeShape /\ GroupInv)
<1>1. Init => TreeShape /\ GroupInv
  BY IdleHasShape, IdleIsGrouped DEF Init
<1> QED
  BY <1>1, DictInvHolds, NextKeepsShape, NextKeepsGroups, PTL DEF Spec

-----------------------------------------------------------------------------
(* Once the walk is done the code lengths are the depths in the one tree   *)
(* that is left.                                                           *)
LEMMA LevelsAreDepths ==
  TreeInv /\ TreeShape /\ GroupInv /\ tstep = "built" /\ Leaves >= 2 =>
    /\ Roots = {Len(nodes)}
    /\ lengths = DepthsOf(BelowIn(nodes), Roots)
<1> SUFFICES ASSUME TreeInv, TreeShape, GroupInv, tstep = "built", Leaves >= 2
             PROVE  /\ Roots = {Len(nodes)}
                    /\ lengths = DepthsOf(BelowIn(nodes), Roots)
  OBVIOUS
<1> DEFINE n == Len(nodes)
           f == BelowIn(nodes)
<1>1. Roots = {n} /\ UsedBytes(lengths) = UsedBytes(freqs)
  BY BuiltLevels
<1>2. PICK d : /\ Levels(d, nodes, Leaves)
               /\ \A i \in 1..Leaves : d[i] = lengths[nodes[i].id]
  BY BuiltLevels
<1>3. /\ n \in Nat /\ n >= 1 /\ n \in 1..n /\ Leaves \in Nat /\ Leaves <= n
      /\ \A i \in 1..n : WellPlaced(i)
  BY ArenaSizes
<1>4. AreBelow(f, nodes)
  BY ArenaPlanted, BelowFound
<1>5. Grouped(nodes, f, {n}, freqs)
  BY <1>1 DEF GroupInv
<1> DEFINE Good(i) == \A b \in DOMAIN f[i] :
                        \E k \in 1..Leaves : nodes[k].id = b /\ d[k] = d[i] + f[i][b]
           A == {m \in 0..n : \A i \in 1..m : Good(i)}
<1>6. /\ \A i \in 1..n : d[i] \in Nat
      /\ d[n] = 0
      /\ \A j \in Inner(nodes, Leaves) : \A i \in Kids(nodes, j) : d[i] = d[j] + 1
      /\ \A i \in 1..n : \A b \in DOMAIN f[i] : f[i][b] \in Nat
  BY <1>2, <1>5 DEF Levels, Grouped
<1> HIDE DEF f
<1>7. ASSUME NEW i \in 1..n, i <= Leaves PROVE Good(i)
  <2> DEFINE x == nodes[i].id
  <2>1. nodes[i].kids = <<>> /\ i \in 1..Leaves
    BY <1>3, <1>7 DEF WellPlaced
  <2>2. f[i] = [b \in {x} |-> 0]
    BY <1>4, <2>1 DEF AreBelow, BelowNode
  <2> HIDE DEF x
  <2>3. DOMAIN f[i] = {x} /\ f[i][x] = 0
    BY <2>2
  <2>4. d[i] + 0 = d[i]
    BY <1>6
  <2> QED
    BY <2>1, <2>3, <2>4 DEF x
<1>8. ASSUME NEW i \in 1..n, ~(i <= Leaves), \A k \in 1..(i - 1) : Good(k) PROVE Good(i)
  <2> DEFINE p == nodes[i].kids[1]
             q == nodes[i].kids[2]
  <2>1. nodes[i].kids \in (1..(i - 1)) \X (1..(i - 1))
    BY <1>3, <1>8 DEF WellPlaced
  <2>2. nodes[i].kids # <<>> /\ p \in 1..(i - 1) /\ q \in 1..(i - 1)
    BY <2>1
  <2>3. i \in Inner(nodes, Leaves) /\ p \in Kids(nodes, i) /\ q \in Kids(nodes, i)
    BY <1>3, <1>8 DEF Inner, Kids
  <2>4. d[p] = d[i] + 1 /\ d[q] = d[i] + 1
    BY <1>6, <2>3
  <2>5. f[i] = Hung(f[p], f[q])
    BY <1>4, <2>2 DEF AreBelow, BelowNode
  <2>6. p \in 1..n /\ q \in 1..n
    BY <1>3, <2>2
  <2> HIDE DEF p, q
  <2>7. ASSUME NEW b \in DOMAIN f[i]
        PROVE  \E k \in 1..Leaves : nodes[k].id = b /\ d[k] = d[i] + f[i][b]
    <3>1. (b \in DOMAIN f[p] \/ b \in DOMAIN f[q])
          /\ f[i][b] = 1 + (IF b \in DOMAIN f[p] THEN f[p][b] ELSE f[q][b])
      BY <2>5 DEF Hung
    <3>2. PICK h \in {p, q} : b \in DOMAIN f[h] /\ f[i][b] = 1 + f[h][b]
      BY <3>1
    <3>3. h \in 1..(i - 1) /\ h \in 1..n /\ d[h] = d[i] + 1
      BY <2>2, <2>4, <2>6
    <3>4. PICK k \in 1..Leaves : nodes[k].id = b /\ d[k] = d[h] + f[h][b]
      BY <1>8, <3>2, <3>3
    <3>5. d[i] \in Nat /\ f[h][b] \in Nat
      BY <1>6, <3>2, <3>3
    <3>6. d[k] = d[i] + f[i][b]
      <4>1. PICK x \in Nat, y \in Nat : x = d[i] /\ y = f[h][b]
        BY <3>5
      <4>2. d[h] = x + 1 /\ f[i][b] = 1 + y /\ d[k] = d[h] + y
        BY ONLY <3>2, <3>3, <3>4, <4>1
      <4>3. (x + 1) + y = x + (1 + y)
        OBVIOUS
      <4> QED
        BY ONLY <4>1, <4>2, <4>3
    <3> QED
      BY <3>4, <3>6
  <2> QED
    BY <2>7
<1> HIDE DEF Good
<1>9. 0 \in A
  <2>1. 1..0 = {} /\ 0 \in 0..n
    BY <1>3
  <2> QED
    BY <2>1
<1>10. ASSUME NEW m \in 0..(n - 1), m \in A PROVE m + 1 \in A
  <2>1. /\ m + 1 \in 0..n /\ m + 1 \in 1..n
        /\ \A i \in 1..(m + 1) : i \in 1..m \/ i = m + 1
    BY <1>3
  <2>2. PICK i \in 1..n : i = m + 1
    BY <2>1
  <2>3. \A k \in 1..(i - 1) : Good(k)
    <3>1. i - 1 = m
      BY <2>2
    <3> QED
      BY <1>10, <3>1
  <2>4. Good(i)
    BY <1>7, <1>8, <2>3
  <2> QED
    BY <1>10, <2>1, <2>2, <2>4
<1> HIDE DEF A
<1>11. Good(n)
  <2>1. \A m \in 0..n : m \in A
    BY <1>3, <1>9, <1>10, UpTo
  <2>2. n \in A
    BY <1>3, <2>1
  <2> QED
    BY <1>3, <2>2 DEF A
<1>12. ASSUME NEW b \in DOMAIN f[n] PROVE lengths[b] = f[n][b]
  <2>1. PICK k \in 1..Leaves : nodes[k].id = b /\ d[k] = d[n] + f[n][b]
    BY <1>11 DEF Good
  <2>2. d[k] = lengths[b]
    BY <1>2, <2>1
  <2>3. 0 + f[n][b] = f[n][b]
    BY <1>3, <1>6
  <2> QED
    BY <1>6, <2>1, <2>2, <2>3
<1>13. /\ \A b \in Bytes : b \in DOMAIN f[n] => DepthsOf(f, {n})[b] = f[n][b]
       /\ \A b \in Bytes : b \notin DOMAIN f[n] => DepthsOf(f, {n})[b] = 0
       /\ DepthsOf(f, {n}) = [b \in Bytes |-> DepthsOf(f, {n})[b]]
  <2>1. PICK R : R = {n}
    OBVIOUS
  <2>2. Grouped(nodes, f, R, freqs)
    BY <1>5, <2>1
  <2>3. /\ \A i \in R : \A b \in Bytes :
                b \in DOMAIN f[i] => DepthsOf(f, R)[b] = f[i][b]
        /\ \A b \in Bytes : (\A i \in R : b \notin DOMAIN f[i]) => DepthsOf(f, R)[b] = 0
        /\ DepthsOf(f, R) = [b \in Bytes |-> DepthsOf(f, R)[b]]
    BY ONLY <2>2, DepthsValues
  <2> HIDE DEF n
  <2> QED
    BY ONLY <2>1, <2>3, Zenon
<1>14. lengths = [b \in Bytes |-> lengths[b]] /\ \A b \in Bytes : lengths[b] \in Nat
  BY Sizes DEF TreeInv, Codebooks, Bytes
<1>15. ASSUME NEW b \in Bytes PROVE lengths[b] = DepthsOf(f, {n})[b]
  <2>1. CASE b \in DOMAIN f[n]
    BY <1>12, <1>13, <2>1
  <2>2. CASE b \notin DOMAIN f[n]
    <3>1. b \notin UsedBytes(freqs)
      BY <1>5, <2>2 DEF Grouped
    <3>2. b \notin UsedBytes(lengths)
      BY <1>1, <3>1
    <3>3. ~(lengths[b] > 0) /\ lengths[b] \in Nat
      BY <1>14, <3>2 DEF UsedBytes
    <3>4. lengths[b] = 0
      BY ONLY <3>3, SMT
    <3>5. DepthsOf(f, {n})[b] = 0
      BY <1>13, <2>2
    <3> QED
      BY <3>4, <3>5
  <2> QED
    BY <2>1, <2>2
<1>16. lengths = DepthsOf(f, {n})
  BY <1>13, <1>14, <1>15
<1> QED
  BY <1>1, <1>16 DEF f

-----------------------------------------------------------------------------
(* What HuffmanMerging sees of the state. *)

Grouping == GroupsOf(BelowIn(nodes), Roots)

Put == DepthsOf(BelowIn(nodes), Roots)

Answered == IF tstep = "built" THEN lengths ELSE NoCodes

LEMMA SeenGroups == {DOMAIN t : t \in Trees} = Grouping
<1>1. Trees = {BelowIn(nodes)[i] : i \in Roots}
  BY DepthsAreBelow DEF Trees
<1> QED
  BY <1>1 DEF Grouping, GroupsOf

LEMMA SeenGroupsNext == {DOMAIN t : t \in Trees'} = Grouping'
<1>1. Trees' = {BelowIn(nodes')[i] : i \in Roots'}
  BY DepthsAreBelow DEF Trees
<1> QED
  BY <1>1 DEF Grouping, GroupsOf

LEMMA SeenDepths == Depths = Put
<1>1. Trees = {BelowIn(nodes)[i] : i \in Roots}
  BY DepthsAreBelow DEF Trees
<1> QED
  BY <1>1 DEF Depths, Put, DepthsOf

LEMMA SeenDepthsNext == Depths' = Put'
<1>1. Trees' = {BelowIn(nodes')[i] : i \in Roots'}
  BY DepthsAreBelow DEF Trees
<1> QED
  BY <1>1 DEF Depths, Put, DepthsOf

LEMMA SeenWeight ==
  ASSUME NEW D
  PROVE  Huffman!Weight(D) = Sum(freqs, D) % FreqSpace
BY DEF Huffman!Weight, Huffman!MapThenSumSet, Huffman!MapThenFoldSet,
       Sum, MapThenSumSet, MapThenFoldSet

LEMMA SeenCardinality ==
  ASSUME NEW S
  PROVE  Huffman!Cardinality(S) = Cardinality(S)
BY DEF Huffman!Cardinality, Cardinality

LEMMA NothingSeen ==
  ASSUME UNCHANGED <<freqs, nodes>>, Roots' = Roots, Phase' = Phase,
         Answered' = Answered
  PROVE  UNCHANGED Huffman!specVars
<1>1. Grouping' = Grouping /\ Put' = Put
  BY DEF Grouping, Put
<1>2. {DOMAIN t : t \in Trees'} = {DOMAIN t : t \in Trees} /\ Depths' = Depths
  BY <1>1, SeenGroups, SeenGroupsNext, SeenDepths, SeenDepthsNext
<1> QED
  BY <1>2 DEF Huffman!specVars, Answered

LEMMA StutterNotSeen ==
  ASSUME UNCHANGED tvars
  PROVE  UNCHANGED Huffman!specVars
<1>1. UNCHANGED <<freqs, nodes, heap, lengths, tstep>>
  BY DEF tvars
<1>2. Roots' = Roots /\ Phase' = Phase /\ Answered' = Answered
  BY <1>1 DEF Roots, Phase, Answered
<1> QED
  BY <1>1, <1>2, NothingSeen

(* A call begins Huffman's algorithm, and ends it at once when there is    *)
(* nothing to merge.                                                       *)
LEMMA CallBegins ==
  ASSUME NEW f, f \in [Bytes -> Freqs], BuildCall(f)
  PROVE  Huffman!SpecNext
<1> DEFINE n    == Len(nodes')
           used == {b \in Bytes : freqs'[b] > 0}
<1>1. TreeInv' /\ TreeShape'
  BY BuildCallKeepsTree, BuildCallGivesShape
<1>2. /\ Grouped(nodes', BelowIn(nodes'), Roots', freqs')
      /\ Grouping' = {{b} : b \in UsedBytes(f)} /\ Put' = [b \in Bytes |-> 0]
  BY CallGroups DEF Grouping, Put
<1>3. /\ freqs' = f /\ tstep \in {"idle", "built"} /\ nextId' = NumBytes
      /\ lengths' = [b \in Bytes |-> IF n = 1 /\ f[b] > 0 THEN 1 ELSE 0]
      /\ tstep' = IF n > 1 THEN "merge" ELSE "built"
  <2>1. Len(Occurring(f)) \in Nat
    BY OccurringLists, LenProperties DEF Lists, Ascending
  <2>2. nodes' = [i \in 1..Len(Occurring(f)) |-> Leaf(f[Occurring(f)[i]], Occurring(f)[i])]
    BY DEF BuildCall
  <2>3. n = Len(Occurring(f))
    BY <2>1, <2>2
  <2> QED
    BY <2>3 DEF BuildCall
<1>4. n \in Nat /\ Leaves' = n
  BY <1>1, <1>3, Sizes, LenProperties DEF TreeInv, ArenaInv, Leaves, Merged
<1>5. /\ \A i \in 1..n : nodes'[i].id \in UsedBytes(f)
      /\ \A b \in UsedBytes(f) : \E i \in 1..n : nodes'[i].id = b
      /\ \A i, j \in 1..n : nodes'[i].id = nodes'[j].id => i = j
  BY <1>1, <1>3, <1>4 DEF TreeShape, ShapeInv, LeafIds
<1>6. used = UsedBytes(f)
  BY <1>3 DEF UsedBytes
<1> HIDE DEF n, used
<1>7. Cardinality(used) = n
  <2> DEFINE ids == [i \in 1..n |-> nodes'[i].id]
  <2>1. ids \in [1..n -> used] /\ \A b \in used : \E i \in 1..n : ids[i] = b
    BY <1>5, <1>6
  <2>2. \A i, j \in 1..n : ids[i] = ids[j] => i = j
    BY <1>5
  <2> HIDE DEF ids
  <2>3. ids \in Bijection(1..n, used)
    BY <2>1, <2>2 DEF Bijection, Injection, Surjection, IsInjective
  <2>4. ExistsBijection(1..n, used)
    BY <2>3 DEF ExistsBijection
  <2> QED
    BY <1>4, <2>4, FS_CountingElements
<1>8. Phase \in {"idle", "built"} /\ Phase' = IF n > 1 THEN "building" ELSE "built"
  BY <1>3 DEF Phase
<1>9. /\ \A b \in Bytes : n = 1 /\ f[b] > 0 => b \in used
      /\ \A b \in Bytes : b \in used => f[b] > 0
  BY <1>6 DEF UsedBytes
<1>10. n > 1 => Answered' = Huffman!Zeros
  BY <1>3 DEF Answered, NoCodes, Huffman!Zeros
<1>11. ~(n > 1) => Answered' = [b \in Bytes |-> IF b \in used THEN 1 ELSE 0]
  <2>1. SUFFICES ASSUME ~(n > 1)
                 PROVE  Answered' = [b \in Bytes |-> IF b \in used THEN 1 ELSE 0]
    OBVIOUS
  <2>2. Answered' = [b \in Bytes |-> IF n = 1 /\ f[b] > 0 THEN 1 ELSE 0]
    BY <1>3, <2>1 DEF Answered
  <2>3. \A b \in used : n = 1
    <3>1. \A b \in used : \E i \in 1..n : TRUE
      BY <1>5, <1>6
    <3> QED
      BY <1>4, <2>1, <3>1
  <2>4. \A b \in Bytes : (n = 1 /\ f[b] > 0) <=> b \in used
    BY <1>9, <2>3
  <2> QED
    BY <2>2, <2>4
<1>12. freqs' \in [Bytes -> 0..(FreqSpace - 1)]
  BY <1>3 DEF Freqs
<1>13. {DOMAIN t : t \in Trees'} = {{b} : b \in used}
  BY <1>2, <1>6, SeenGroupsNext
<1>14. Depths' = Huffman!Zeros
  BY <1>2, SeenDepthsNext DEF Huffman!Zeros
<1>15. IF Huffman!Cardinality(used) > 1
       THEN Phase' = "building" /\ Answered' = Huffman!Zeros
       ELSE Phase' = "built" /\ Answered' = [b \in Bytes |-> IF b \in used THEN 1 ELSE 0]
  BY <1>7, <1>8, <1>10, <1>11, SeenCardinality
<1>16. Huffman!Begin
  BY <1>8, <1>12, <1>13, <1>14, <1>15 DEF Huffman!Begin, Answered, used
<1> QED
  BY <1>16 DEF Huffman!SpecNext

(* A merge joins two lightest groups. *)
LEMMA MergeIsJoin ==
  ASSUME TreeInv, TreeShape, GroupInv, Merge
  PROVE  Huffman!SpecNext
<1> DEFINE f == BelowIn(nodes)
           p == Least(heap).index
           q == Least(heap \ {Least(heap)}).index
           D == DOMAIN f[p]
           E == DOMAIN f[q]
<1>1. /\ D # E /\ D \in Grouping /\ E \in Grouping
      /\ \A G \in Grouping \ {D, E} :
           /\ Sum(freqs, G) % FreqSpace >= Sum(freqs, D) % FreqSpace
           /\ Sum(freqs, G) % FreqSpace >= Sum(freqs, E) % FreqSpace
      /\ Grouping' = (Grouping \ {D, E}) \cup {D \cup E}
      /\ Put' = Deeper(Put, D \cup E)
  BY MergeGroups DEF Grouping, Put
<1>2. tstep = "merge" /\ UNCHANGED <<freqs, lengths, tstep>>
  BY DEF Merge
<1>3. Phase = "building" /\ Phase' = Phase /\ Answered' = Answered
  BY <1>2 DEF Phase, Answered
<1> HIDE DEF D, E
<1>4. \A G \in Grouping \ {D, E} :
        Huffman!Weight(G) >= Huffman!Weight(D) /\ Huffman!Weight(G) >= Huffman!Weight(E)
  BY <1>1, SeenWeight
<1>5. {DOMAIN t : t \in Trees} = Grouping /\ {DOMAIN t : t \in Trees'} = Grouping'
      /\ Depths = Put /\ Depths' = Put'
  BY SeenGroups, SeenGroupsNext, SeenDepths, SeenDepthsNext
<1>6. PICK G, H : G = D /\ H = E
  OBVIOUS
<1>7. Huffman!Join(G, H)
  BY <1>1, <1>2, <1>3, <1>4, <1>5, <1>6 DEF Huffman!Join, Answered, Deeper
<1>8. G \in {DOMAIN t : t \in Trees} /\ H \in {DOMAIN t : t \in Trees}
  BY <1>1, <1>5, <1>6
<1>9. \E g, h \in {DOMAIN t : t \in Trees} : Huffman!Join(g, h)
  BY ONLY <1>7, <1>8, Zenon
<1> QED
  BY <1>9 DEF Huffman!SpecNext

(* The end of the walk gives out the depths of the one group left. *)
LEMMA WalkReturns ==
  ASSUME TreeInv, TreeShape, GroupInv, WalkDone
  PROVE  Huffman!SpecNext
<1>1. /\ tstep = "walk" /\ tstep' = "built"
      /\ UNCHANGED <<freqs, nodes, heap, nextId, stack, lengths>>
  BY DEF WalkDone
<1>2. (TreeInv /\ TreeShape /\ GroupInv)'
  BY WalkDoneKeepsTree, WalkDoneKeepsShape, TreeNextKeepsGroups DEF TreeNext
<1>3. Leaves >= 2 /\ Leaves' = Leaves /\ Roots' = Roots
  BY <1>1 DEF TreeShape, ShapeInv, Leaves, Merged, Roots
<1>4. (tstep = "built" /\ Leaves >= 2)'
  BY <1>1, <1>3
<1>5. (Roots = {Len(nodes)} /\ lengths = DepthsOf(BelowIn(nodes), Roots))'
  BY <1>2, <1>4, LevelsAreDepths, PTL
<1>6. Roots = {Len(nodes)} /\ lengths' = Put
  BY <1>1, <1>3, <1>5 DEF Put
<1>7. Grouping' = Grouping /\ Put' = Put
  BY <1>1, <1>3 DEF Grouping, Put
<1>8. Huffman!Cardinality(Grouping) = 1
  <2>1. Grouping = {DOMAIN BelowIn(nodes)[Len(nodes)]}
    BY <1>6 DEF Grouping, GroupsOf
  <2> QED
    BY <2>1, FS_Singleton, SeenCardinality
<1>9. Phase = "building" /\ Phase' = "built" /\ Answered' = Put
  BY <1>1, <1>6 DEF Phase, Answered
<1>10. {DOMAIN t : t \in Trees} = Grouping /\ {DOMAIN t : t \in Trees'} = Grouping'
       /\ Depths = Put /\ Depths' = Put'
  BY SeenGroups, SeenGroupsNext, SeenDepths, SeenDepthsNext
<1>11. Huffman!Return
  BY <1>1, <1>7, <1>8, <1>9, <1>10 DEF Huffman!Return, Answered
<1> QED
  BY <1>11 DEF Huffman!SpecNext

(* Nothing is left of it in a process that has been killed. *)
LEMMA IdleIsBlank ==
  TreeIdle =>
    /\ freqs = Huffman!Zeros /\ {DOMAIN t : t \in Trees} = {} /\ Depths = Huffman!Zeros
    /\ Phase = "idle" /\ Answered = Huffman!Zeros
<1> SUFFICES ASSUME TreeIdle
             PROVE  /\ freqs = Huffman!Zeros /\ {DOMAIN t : t \in Trees} = {}
                    /\ Depths = Huffman!Zeros
                    /\ Phase = "idle" /\ Answered = Huffman!Zeros
  OBVIOUS
<1>1. nodes = <<>> /\ heap = {} /\ freqs = NoCodes /\ tstep = "idle"
  BY DEF TreeIdle
<1>2. Trees = {}
  BY <1>1 DEF Trees, Roots
<1>3. Depths = [b \in Bytes |-> 0]
  BY <1>2 DEF Depths
<1>4. Phase = "idle" /\ Answered = NoCodes
  BY <1>1 DEF Phase, Answered
<1> QED
  BY <1>1, <1>2, <1>3, <1>4 DEF NoCodes, Huffman!Zeros

LEMMA KillForgets ==
  ASSUME Kill
  PROVE  Huffman!SpecNext
<1>1. TreeIdle'
  BY DEF Kill, TreeIdle
<1>2. (/\ freqs = Huffman!Zeros /\ {DOMAIN t : t \in Trees} = {} /\ Depths = Huffman!Zeros
       /\ Phase = "idle" /\ Answered = Huffman!Zeros)'
  BY <1>1, IdleIsBlank, PTL
<1>3. Huffman!Forget
  BY <1>2 DEF Huffman!Forget, Answered, Huffman!Zeros
<1> QED
  BY <1>3 DEF Huffman!SpecNext

LEMMA TreeStepSeen ==
  ASSUME TreeInv, TreeShape, GroupInv, TreeNext
  PROVE  [Huffman!SpecNext]_(Huffman!specVars)
<1>1. CASE Merge
  BY <1>1, MergeIsJoin
<1>2. CASE TakeRoot
  <2>1. tstep = "merge" /\ tstep' = "walk" /\ UNCHANGED <<freqs, nodes, lengths>>
    BY <1>2 DEF TakeRoot
  <2>2. Phase' = Phase /\ Answered' = Answered
    BY <2>1 DEF Phase, Answered
  <2> QED
    BY <1>2, <2>1, <2>2, TakeRootRoots, NothingSeen
<1>3. CASE Visit
  <2>1. tstep = "walk" /\ UNCHANGED <<freqs, nodes, heap, nextId, tstep>>
    BY <1>3 DEF Visit
  <2>2. Roots' = Roots /\ Phase' = Phase /\ Answered' = Answered
    BY <2>1 DEF Roots, Phase, Answered
  <2> QED
    BY <2>1, <2>2, NothingSeen
<1>4. CASE WalkDone
  BY <1>4, WalkReturns
<1> QED
  BY <1>1, <1>2, <1>3, <1>4 DEF TreeNext

LEMMA NextIsHuffmans ==
  DictInv /\ TreeShape /\ GroupInv /\ [Next]_vars => [Huffman!SpecNext]_(Huffman!specVars)
<1> SUFFICES ASSUME DictInv, TreeShape, GroupInv, [Next]_vars
             PROVE  [Huffman!SpecNext]_(Huffman!specVars)
  OBVIOUS
<1>a. TreeInv
  BY DEF DictInv
<1>1. CASE LibraryCall
  <2>1. PICK f \in Frequencies : BuildCall(f)
    BY <1>1 DEF LibraryCall
  <2>2. f \in [Bytes -> Freqs]
    BY FrequencyTables DEF Freqs
  <2> QED
    BY <2>1, <2>2, CallBegins
<1>2. CASE ReadCorpus
  <2>1. PICK text \in Corpora : BuildCall(Counts(text))
    BY <1>2 DEF ReadCorpus
  <2> QED
    BY <2>1, CountsFit, CallBegins
<1>3. CASE LibraryStep \/ BuildStep
  BY <1>a, <1>3, TreeStepSeen DEF LibraryStep, BuildStep
<1>4. CASE Kill
  BY <1>4, KillForgets
<1>5. CASE UNCHANGED tvars
  BY <1>5, StutterNotSeen
<1>6. CASE RunWithCorpus \/ RunWithDefault
  BY <1>5, <1>6 DEF RunWithCorpus, RunWithDefault, Begin
<1>7. CASE BookBuilt \/ MakeDir \/ Create \/ Write \/ Report \/ Fail
  <2>1. UNCHANGED tvars
    BY <1>7 DEF BookBuilt, MakeDir, Create, Write, Report, Fail
  <2> QED
    BY <1>5, <2>1
<1>8. CASE Over \/ UNCHANGED vars
  BY <1>5, <1>8 DEF Over, vars
<1> QED
  BY <1>1, <1>2, <1>3, <1>4, <1>6, <1>7, <1>8 DEF Next, OwnStep

(* build_codebook, called by whomever and killed whenever, is Huffman's    *)
(* algorithm: every step of it begins, joins two lightest groups, gives out*)
(* the depths of the one group that is left, forgets, or changes nothing   *)
(* the algorithm knows of.                                                 *)
THEOREM MergesAsHuffman == Spec => Huffman!SpecSteps
<1>1. Init => Huffman!SpecInit
  BY IdleIsBlank DEF Init, Huffman!SpecInit, Answered
<1> QED
  BY <1>1, GroupsHold, NextIsHuffmans, PTL DEF Spec, Huffman!SpecSteps

=============================================================================
