---- MODULE Unpack ----
(***************************************************************************)
(* unpack() of gzip-src/unpack.c: files of pack, a Huffman code with an    *)
(* end of block code.  The bits come from the high end of each byte, so    *)
(* that s.bb holds the last s.bk bits read as a number.                    *)
(***************************************************************************)
EXTENDS GzipIO
LOCAL INSTANCE SequencesExt
LOCAL INSTANCE FiniteSetsExt

CONSTANT MAX_PEEK      \* bits looked up at once
VARIABLES z, pc, res

MAX_BITLEN == 25
LITERALS == 256

SumOf(f, n) == FoldLeft(LAMBDA a, k : a + f[k], 0, [k \in 1..n |-> k])

\* parents[len]: half of the nodes one level down.
parents(leaves) ==
    LET p[len \in 1..Len(leaves)] ==
          IF len = Len(leaves) THEN 0 ELSE (p[len + 1] + leaves[len + 1]) \div 2
    IN p
\* literal[code + lit_base[len]] is the literal of a code of len bits.
lit_base(leaves) == [len \in DOMAIN leaves |-> SumOf(leaves, len - 1) - parents(leaves)[len]]

\* prefix_len: the shortest code is all ones.
prefix_len(leaves, bits) ==
    LET From(len) == 2 ^ bits - SumOf([k \in 1..len |-> leaves[k] * 2 ^ (bits - k)], len)
    IN [p \in 0..(2 ^ bits - 1) |->
          LET fits == {len \in 1..bits : p >= From(len)}
          IN IF fits = {} THEN 0 ELSE Min(fits)]

\* read_tree() and build_tree(): the length of the text, the leaves of each
\* length, of which the last byte is two less, then the literals.
read_tree ==
    /\ pc = "unpack"
    /\ \E head \in {TakeBytes(s, 5)} :
       \E counts \in {IF head.short THEN head ELSE TakeBytes(head, head.c[5])} :
       \E n \in {IF counts.short THEN 0 ELSE SumOf(counts.c, head.c[5])} :
       \E lits \in {IF counts.short \/ n > LITERALS THEN counts ELSE TakeBytes(counts, n + 1)} :
          \/ lits.short /\ pc' = "abort" /\ s' = lits /\ UNCHANGED z
          \/ ~lits.short /\ n > LITERALS /\ pc' = "abort" /\ s' = lits /\ UNCHANGED z
          \/ /\ ~lits.short /\ n <= LITERALS
             /\ pc' = "packed" /\ s' = [lits EXCEPT !.c = 0, !.bb = 0, !.bk = 0]
             /\ \E leaves \in {[counts.c EXCEPT ![head.c[5]] = @ + 2]} :
                \E peek \in {Lesser(head.c[5], MAX_PEEK)} :
                   z' = [orig_len |-> FoldLeft(LAMBDA v, k : 256 * v + head.c[k], 0, <<1, 2, 3, 4>>),
                         leaves |-> leaves, parents |-> parents(leaves),
                         literal |-> lits.c, lit_base |-> lit_base(leaves),
                         peek_bits |-> peek, prefix_len |-> prefix_len(leaves, peek)]
    /\ UNCHANGED <<file, o, res>>

RECURSIVE look_bits(_, _)
look_bits(i, n) ==
    LET Add(b) == [b EXCEPT !.bb = IF b.short THEN @ ELSE (@ % 2 ^ i.bk) * 256 + b.c,
                            !.bk = @ + 8]
    IN IF i.short THEN i
       ELSE IF i.bk >= n THEN [i EXCEPT !.c = (i.bb \div 2 ^ (i.bk - n)) % 2 ^ n]
       ELSE look_bits(Add(get_byte(i)), n)
skip_bits(i, n) == [i EXCEPT !.bk = @ - n, !.bb = @ % 2 ^ (i.bk - n), !.c = 0]

\* A code of more than peek_bits bits: on as long as it is a parent node.
RECURSIVE Traverse(_, _)
Traverse(i, len) == LET Go(b) == IF b.short \/ b.c >= z.parents[len] THEN [i |-> b, len |-> len]
                                 ELSE Traverse(b, len + 1)
                    IN Go(look_bits(i, len))
CodeAt(i) == LET len == z.prefix_len[i.c]
             IN IF i.short THEN [i |-> i, len |-> 0]
                ELSE IF len > 0
                THEN [i |-> [i EXCEPT !.c = @ \div 2 ^ (z.peek_bits - len)], len |-> len]
                ELSE Traverse(i, z.peek_bits + 1)

\* The code for the end is the largest of those of maximal length.
IsEob(c) == c.i.c = Last(z.leaves) - 1 /\ c.len = Len(z.leaves)
unpack ==
    /\ pc = "packed"
    /\ \E c \in {CodeAt(look_bits(s, z.peek_bits))} : \E end \in {flush_window(o)} :
          \/ c.i.short /\ s' = c.i /\ pc' = "abort" /\ UNCHANGED <<o, z, res>>
          \/ /\ ~c.i.short /\ ~IsEob(c)
             /\ o' = put_ubyte(o, z.literal[c.i.c + z.lit_base[c.len] + 1])
             /\ s' = skip_bits(c.i, c.len)
             /\ UNCHANGED <<z, pc, res>>
          \/ /\ ~c.i.short /\ IsEob(c)
             /\ o' = end /\ s' = [c.i EXCEPT !.c = 0]
             /\ pc' = IF z.orig_len = end.bytes_out THEN "worked" ELSE "abort"
             /\ res' = 0 /\ z' = <<>>
    /\ UNCHANGED file

Next == read_tree \/ unpack
====
