---------------------------- MODULE HuffmanTree ----------------------------
(***************************************************************************)
(* How trees.c makes a Huffman code of the frequencies it has counted:     *)
(* build_tree() with its heap, gen_bitlen() with the limit on lengths, and *)
(* gen_codes().  A step is one turn of one of their loops.                 *)
(*                                                                         *)
(* As in the code a node's frequency and its code share one field, fc, and *)
(* its father and its length another one, dl.                              *)
(***************************************************************************)
EXTENDS Integers, FiniteSets

CONSTANTS
    elems,         \* how many symbols there are
    HEAP_SIZE,     \* room in the heap
    Frequencies,   \* the frequencies, functions from 0 .. elems - 1, to try
    max_length,    \* the limit of this tree's desc
    MAX_BITS,      \* the limit of all trees
    extra_base,    \* extra_bits of a symbol i >= extra_base are extra_bits[i]
    extra_bits,
    HasStatic,     \* whether there is a static tree,
    static_len     \* and the lengths in it

SMALLEST == 1
MAX_BL_BITS == 7
Symbols == 0 .. elems - 1
Nodes == 0 .. 2 * elems - 2

\* 2 ^ i, 1 << i in the code.
Power2[i \in 0 .. MAX_BITS] == IF i = 0 THEN 1 ELSE 2 * Power2[i - 1]

\* g[0] + ... + g[to - 1].
Total(g, to) ==
    LET sum[i \in 0 .. to] == IF i = 0 THEN 0 ELSE sum[i - 1] + g[i - 1]
    IN  sum[to]

xbits(i) == IF i >= extra_base THEN extra_bits[i] ELSE 0

ASSUME LengthAssumption ==
    /\ MAX_BITS \in Nat /\ max_length \in 1 .. MAX_BITS
    /\ elems \in Nat /\ elems >= 3 /\ Power2[max_length] >= elems
    /\ HEAP_SIZE \in Nat /\ HEAP_SIZE >= 2 * elems + 1
ASSUME FrequenciesAssumption == Frequencies \subseteq [Symbols -> Nat]
\* The symbols that may be forced have no extra bits.
ASSUME BitsAssumption ==
    /\ \A i \in Symbols : xbits(i) \in Nat /\ (i <= 2 => xbits(i) = 0)
    /\ HasStatic \in BOOLEAN /\ HasStatic => static_len \in [Symbols -> Nat]

VARIABLES
    freq,                      \* history: the frequencies as they were counted
    fc, dl, depth,             \* the tree
    heap, heap_len, heap_max,
    node, max_code,
    opt_len, stat_len,         \* opt_len and static_len of the context
    bl_count, overflow,
    cut,                       \* history: whether the lengths overflowed
    next_code, code,
    n, h, k, bits,             \* where the loops are; n is the node taken, too
    after,                     \* where pqdownheap() returns to
    pc

vars == <<freq, fc, dl, depth, heap, heap_len, heap_max, node, max_code, opt_len, stat_len,
          bl_count, overflow, cut, next_code, code, n, h, k, bits, after, pc>>
tree == <<fc, dl, depth>>
queue == <<heap, heap_len, heap_max>>
costs == <<opt_len, stat_len>>
counts == <<bl_count, overflow, cut>>
codes == <<next_code, code>>

\* The fields have what the last block left in them, but for the frequencies.
Init ==
    /\ freq \in Frequencies
    /\ fc = [i \in Nodes |-> IF i \in Symbols THEN freq[i] ELSE 0]
    /\ dl = [i \in Nodes |-> max_length]
    /\ depth = [i \in Nodes |-> 1]
    /\ heap = [i \in 0 .. HEAP_SIZE - 1 |-> 0] /\ heap_len = 0 /\ heap_max = HEAP_SIZE
    /\ node = elems /\ max_code = -1
    /\ opt_len = 0 /\ stat_len = 0
    /\ bl_count = [b \in 0 .. MAX_BITS |-> 0] /\ overflow = 0 /\ cut = FALSE
    /\ next_code = [b \in 1 .. MAX_BITS |-> 0] /\ code = 0
    /\ n = 0 /\ h = 0 /\ k = 1 /\ bits = 0
    /\ after = "heapify" /\ pc = "count"

-----------------------------------------------------------------------------
(* build_tree: the heap                                                     *)

\* The symbols that occur become the heap.
CountSymbol ==
    /\ pc = "count" /\ n < elems
    /\ \/ /\ fc[n] # 0
          /\ heap' = [heap EXCEPT ![heap_len + 1] = n] /\ heap_len' = heap_len + 1
          /\ max_code' = n
          /\ depth' = [depth EXCEPT ![n] = 0]
          /\ UNCHANGED dl
       \/ /\ fc[n] = 0
          /\ dl' = [dl EXCEPT ![n] = 0]
          /\ UNCHANGED <<heap, heap_len, max_code, depth>>
    /\ n' = n + 1
    /\ UNCHANGED <<freq, fc, heap_max, node, costs, counts, codes, h, k, bits, after, pc>>

\* Mutated: forced symbols are not taken off the cost.
OffCostNone(new) == UNCHANGED costs

\* A forced symbol will be counted, with its length.
OffCost(new) ==
    /\ opt_len' = opt_len - 1
    /\ stat_len' = stat_len - IF HasStatic THEN static_len[new] ELSE 0

\* At least two codes are needed.
ForceSymbol ==
    /\ pc = "count" /\ n = elems /\ heap_len < 2
    /\ LET new == IF max_code < 2 THEN max_code + 1 ELSE 0
       IN  /\ heap' = [heap EXCEPT ![heap_len + 1] = new] /\ heap_len' = heap_len + 1
           /\ max_code' = IF max_code < 2 THEN new ELSE max_code
           /\ fc' = [fc EXCEPT ![new] = 1] /\ depth' = [depth EXCEPT ![new] = 0]
           /\ OffCost(new)
    /\ UNCHANGED <<freq, dl, heap_max, node, counts, codes, n, h, k, bits, after, pc>>

HeapFilled ==
    /\ pc = "count" /\ n = elems /\ heap_len >= 2
    /\ n' = heap_len \div 2
    /\ pc' = "heapify"
    /\ UNCHANGED <<freq, tree, queue, node, max_code, costs, counts, codes, h, k, bits, after>>

smaller(i, j) == fc[i] < fc[j] \/ (fc[i] = fc[j] /\ depth[i] <= depth[j])

\* Mutated: the element goes down to its left son.
SonLeft == 2 * k

\* The smaller son of the element at k.
Son == IF 2 * k < heap_len /\ smaller(heap[2 * k + 1], heap[2 * k]) THEN 2 * k + 1 ELSE 2 * k

\* One turn of pqdownheap: the element at k changes places with its son, until it is
\* smaller than both.
pqdownheap ==
    /\ pc = "sift"
    /\ \/ /\ 2 * k > heap_len \/ smaller(heap[k], heap[Son])
          /\ pc' = after
          /\ UNCHANGED <<heap, k>>
       \/ /\ 2 * k <= heap_len /\ ~smaller(heap[k], heap[Son])
          /\ heap' = [heap EXCEPT ![k] = heap[Son], ![Son] = heap[k]]
          /\ k' = Son
          /\ UNCHANGED pc
    /\ UNCHANGED <<freq, tree, heap_len, heap_max, node, max_code, costs, counts, codes, n, h,
                   bits, after>>

Sift(from, then) == k' = from /\ after' = then /\ pc' = "sift"

\* Sub-heaps of increasing lengths, from the last father up to the top.
Heapify ==
    /\ pc = "heapify"
    /\ \/ n >= 1 /\ Sift(n, "heapify") /\ n' = n - 1
       \/ n = 0 /\ pc' = "remove" /\ UNCHANGED <<n, k, after>>
    /\ UNCHANGED <<freq, tree, queue, node, max_code, costs, counts, codes, h, bits>>

-----------------------------------------------------------------------------
(* build_tree: the loop                                                     *)

\* pqremove takes the least frequent node ...
pqremove ==
    /\ pc = "remove"
    /\ n' = heap[SMALLEST]
    /\ heap' = [heap EXCEPT ![SMALLEST] = heap[heap_len]] /\ heap_len' = heap_len - 1
    /\ Sift(SMALLEST, "join")
    /\ UNCHANGED <<freq, tree, heap_max, node, max_code, costs, counts, codes, h, bits>>

Higher(a, b) == IF a >= b THEN a ELSE b

\* ... and the next one is on top now; a father of both takes its place.
Join ==
    /\ pc = "join"
    /\ LET m == heap[SMALLEST]
       IN  /\ heap' = [heap EXCEPT ![heap_max - 1] = n, ![heap_max - 2] = m, ![SMALLEST] = node]
           /\ fc' = [fc EXCEPT ![node] = fc[n] + fc[m]]
           /\ depth' = [depth EXCEPT ![node] = Higher(depth[n], depth[m]) + 1]
           /\ dl' = [dl EXCEPT ![n] = node, ![m] = node]
    /\ heap_max' = heap_max - 2
    /\ node' = node + 1
    /\ Sift(SMALLEST, "joined")
    /\ UNCHANGED <<freq, heap_len, max_code, costs, counts, codes, n, h, bits>>

\* The loop goes on while two nodes are left; of one, the root, gen_bitlen starts.
Joined ==
    /\ pc = "joined"
    /\ \/ /\ heap_len >= 2 /\ pc' = "remove"
          /\ UNCHANGED <<heap, heap_max, dl, bl_count, overflow, h>>
       \/ /\ heap_len < 2 /\ pc' = "lengths"
          /\ heap' = [heap EXCEPT ![heap_max - 1] = heap[SMALLEST]] /\ heap_max' = heap_max - 1
          /\ dl' = [dl EXCEPT ![heap[SMALLEST]] = 0]
          /\ bl_count' = [b \in 0 .. MAX_BITS |-> 0] /\ overflow' = 0
          /\ h' = heap_max
    /\ UNCHANGED <<freq, fc, depth, heap_len, node, max_code, costs, cut, codes, n, k, bits, after>>

-----------------------------------------------------------------------------
(* gen_bitlen                                                               *)

IsLeaf(i) == i <= max_code

\* Lengths from the root down: the father of a node comes before it in the heap.
\* A father's dl is its length by then, a son's still its father.
AssignLength ==
    /\ pc = "lengths" /\ h < HEAP_SIZE
    /\ LET i == heap[h]
           long == dl[dl[i]] + 1
           b == IF long > max_length THEN max_length ELSE long
       IN  /\ overflow' = IF long > max_length THEN overflow + 1 ELSE overflow
           /\ dl' = [dl EXCEPT ![i] = b]
           /\ \/ /\ ~IsLeaf(i) /\ UNCHANGED <<bl_count, costs>>
              \/ /\ IsLeaf(i)
                 /\ bl_count' = [bl_count EXCEPT ![b] = @ + 1]
                 /\ opt_len' = opt_len + fc[i] * (b + xbits(i))
                 /\ stat_len' = stat_len + IF HasStatic THEN fc[i] * (static_len[i] + xbits(i)) ELSE 0
    /\ h' = h + 1
    /\ UNCHANGED <<freq, fc, depth, queue, node, max_code, cut, codes, n, k, bits, after, pc>>

ToCodes == pc' = "first" /\ bits' = 1 /\ code' = 0

LengthsAssigned ==
    /\ pc = "lengths" /\ h = HEAP_SIZE
    /\ cut' = (overflow # 0)
    /\ \/ overflow = 0 /\ ToCodes
       \/ overflow # 0 /\ pc' = "overflow" /\ UNCHANGED <<bits, code>>
    /\ UNCHANGED <<freq, tree, queue, node, max_code, costs, bl_count, overflow, next_code, n, h,
                   k, after>>

\* Mutated: the overflowing leaf gets no brother.
MoveDownNoBrother(c, b) == [[[c EXCEPT ![b] = @ - 1] EXCEPT ![b + 1] = @ + 1] EXCEPT ![max_length] = @ - 1]

\* A leaf of length b moves down and gets an overflowing one for a brother.
MoveDown(c, b) == [[[c EXCEPT ![b] = @ - 1] EXCEPT ![b + 1] = @ + 2] EXCEPT ![max_length] = @ - 1]

\* The leaf is one of the longest that are not as long as they may be.
FixOverflow ==
    /\ pc = "overflow"
    /\ \E b \in 0 .. max_length - 1 :
         /\ bl_count[b] # 0 /\ \A c \in b + 1 .. max_length - 1 : bl_count[c] = 0
         /\ bl_count' = MoveDown(bl_count, b)
    /\ overflow' = overflow - 2
    /\ \/ overflow' > 0 /\ UNCHANGED <<bits, n, pc>>
       \/ overflow' <= 0 /\ bits' = max_length /\ n' = bl_count'[max_length] /\ pc' = "reassign"
    /\ UNCHANGED <<freq, tree, queue, node, max_code, costs, cut, codes, h, k, after>>

\* The lengths are handed out again, the longest to the least frequent symbols: to n
\* more leaves of those below h in the heap the length bits.
Reassign ==
    /\ pc = "reassign" /\ n # 0
    /\ LET i == heap[h - 1]
       IN  \/ ~IsLeaf(i) /\ UNCHANGED <<dl, opt_len, n>>
           \/ /\ IsLeaf(i)
              /\ dl' = [dl EXCEPT ![i] = bits]
              /\ opt_len' = opt_len + (bits - dl[i]) * fc[i]
              /\ n' = n - 1
    /\ h' = h - 1
    /\ UNCHANGED <<freq, fc, depth, queue, node, max_code, stat_len, counts, codes, k, bits, after, pc>>

NextLength ==
    /\ pc = "reassign" /\ n = 0
    /\ \/ bits > 1 /\ bits' = bits - 1 /\ n' = bl_count[bits - 1] /\ UNCHANGED <<code, pc>>
       \/ bits = 1 /\ ToCodes /\ UNCHANGED n
    /\ UNCHANGED <<freq, tree, queue, node, max_code, costs, counts, next_code, h, k, after>>

-----------------------------------------------------------------------------
(* gen_codes                                                                *)

\* The first code of each length.
FirstCode ==
    /\ pc = "first"
    /\ \/ /\ bits <= MAX_BITS
          /\ code' = 2 * (code + bl_count[bits - 1])
          /\ next_code' = [next_code EXCEPT ![bits] = code']
          /\ bits' = bits + 1
          /\ UNCHANGED <<n, pc>>
       \/ /\ bits > MAX_BITS
          /\ n' = 0 /\ pc' = "codes"
          /\ UNCHANGED <<codes, bits>>
    /\ UNCHANGED <<freq, tree, queue, node, max_code, costs, counts, h, k, after>>

\* Mutated: the code goes out with its first bit last.
bi_reverseNot(c, len) == (c + len) - len

\* The first len bits of a code, last bit first.
Reversed[len \in 0 .. MAX_BITS] ==
    [c \in Nat |-> IF len = 0 THEN 0
                   ELSE (c % 2) * Power2[len - 1] + Reversed[len - 1][c \div 2]]
bi_reverse(c, len) == Reversed[len][c]

\* Each symbol has the next code of its length.
AssignCode ==
    /\ pc = "codes"
    /\ \/ /\ n <= max_code /\ dl[n] # 0
          /\ fc' = [fc EXCEPT ![n] = bi_reverse(next_code[dl[n]], dl[n])]
          /\ next_code' = [next_code EXCEPT ![dl[n]] = @ + 1]
          /\ n' = n + 1 /\ UNCHANGED pc
       \/ n <= max_code /\ dl[n] = 0 /\ n' = n + 1 /\ UNCHANGED <<fc, next_code, pc>>
       \/ n > max_code /\ pc' = "done" /\ UNCHANGED <<fc, next_code, n>>
    /\ UNCHANGED <<freq, dl, depth, queue, node, max_code, costs, counts, code, h, k, bits, after>>

Ended == pc = "done" /\ UNCHANGED vars

build_tree == CountSymbol \/ ForceSymbol \/ HeapFilled \/ Heapify \/ pqdownheap \/ pqremove \/ Join \/ Joined
gen_bitlen == AssignLength \/ LengthsAssigned \/ FixOverflow \/ Reassign \/ NextLength
gen_codes == FirstCode \/ AssignCode
Next == build_tree \/ gen_bitlen \/ gen_codes \/ Ended

Spec == Init /\ [][Next]_vars

-----------------------------------------------------------------------------
(* Properties                                                               *)

Coded == {i \in Symbols : i <= max_code /\ dl[i] # 0}

\* The code is complete: the Assert of gen_codes, "inconsistent bit counts",
\* holds, every symbol that occurs has a code, no longer than the limit, also
\* when lengths had to be cut, and one that does not occur only beside one other.
CodeComplete ==
    pc \in {"codes", "done"} =>
        /\ \A i \in Symbols : freq[i] # 0 => i \in Coded
        /\ (\E i \in Coded : freq[i] = 0) => Cardinality(Coded) = 2
        /\ \A i \in Coded : dl[i] <= max_length
        /\ code + bl_count[MAX_BITS] = Power2[MAX_BITS]

\* A decoder that reads bit by bit is never in doubt: no code is the beginning of
\* another one, in the order the bits are sent.
PrefixFree ==
    pc = "done" =>
        \A i, j \in Coded :
            i # j /\ dl[i] <= dl[j] => fc[j] % Power2[dl[i]] # fc[i]

\* What flush_block compares is true: opt_len and static_len are the bits the
\* symbols take with either code, whether symbols were forced or lengths cut.
Cost(len) == Total([i \in Symbols |-> freq[i] * (len[i] + xbits(i))], elems)
CostCounted ==
    pc = "done" => opt_len = Cost(dl) /\ stat_len = IF HasStatic THEN Cost(static_len) ELSE 0

\* A code that did not have to be cut is an optimal one: lengths that satisfy the
\* inequality of Kraft, as those of every code without doubts do, cost no less.
Kraft(S, len) ==
    Total([i \in Symbols |-> IF i \in S THEN Power2[MAX_BITS - len[i]] ELSE 0], elems) <= Power2[MAX_BITS]
Length(S, len) == Total([i \in Symbols |-> IF i \in S THEN freq[i] * len[i] ELSE 0], elems)
CodeOptimal ==
    pc = "done" /\ ~cut =>
        \A len \in [Coded -> 1 .. MAX_BITS] : Kraft(Coded, len) => Length(Coded, dl) <= Length(Coded, len)

\* The lengths of the bit length codes are sent in three bits each, so that no
\* code of that tree may be longer than MAX_BL_BITS; gen_bitlen cuts them "in the
\* case of the bit length tree".
BlLengthsFit == pc = "done" => \A i \in Coded : dl[i] <= MAX_BL_BITS
=============================================================================
