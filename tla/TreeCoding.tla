---- MODULE TreeCoding ----
(***************************************************************************)
(* How trees.c writes a block: the tables of ct_init(), the canonical      *)
(* codes, the code lengths of the trees sent as repetitions, and the       *)
(* block's literals and matches.  trees.c of pgzip is that of gzip-src     *)
(* with its variables in the thread_context.                               *)
(*                                                                         *)
(* A tree is the sequence of the code lengths of its symbols 0, 1, ...;    *)
(* the output is the sequence of bits sent.  The bit length tree is any    *)
(* complete code of lengths up to 7 (build_tree() is in HuffmanTree).      *)
(***************************************************************************)
EXTENDS Integers, Sequences
LOCAL INSTANCE SequencesExt
LOCAL INSTANCE FiniteSetsExt

LENGTH_CODES == 29
LITERALS == 256
END_BLOCK == 256
D_CODES == 30
BL_CODES == 19
REP_3_6 == 16
REPZ_3_10 == 17
REPZ_11_138 == 18

extra_lbits == <<0, 0, 0, 0, 0, 0, 0, 0, 1, 1, 1, 1, 2, 2, 2, 2, 3, 3, 3, 3, 4, 4, 4, 4,
                 5, 5, 5, 5, 0>>
extra_dbits == <<0, 0, 0, 0, 1, 1, 2, 2, 3, 3, 4, 4, 5, 5, 6, 6, 7, 7, 8, 8, 9, 9, 10, 10,
                 11, 11, 12, 12, 13, 13>>
bl_order == <<16, 17, 18, 0, 8, 7, 9, 6, 10, 5, 11, 4, 12, 3, 13, 2, 14, 1, 15>>

(***************************************************************************)
(* The tables ct_init() builds                                             *)
(***************************************************************************)
base_length[c \in 0..(LENGTH_CODES - 1)] ==
    IF c = 0 THEN 0 ELSE base_length[c - 1] + 2 ^ extra_lbits[c]
base_dist[c \in 0..(D_CODES - 1)] ==
    IF c = 0 THEN 0 ELSE base_dist[c - 1] + 2 ^ extra_dbits[c]

length_code(lc) == IF lc = 255 THEN LENGTH_CODES - 1
                   ELSE Max({c \in 0..(LENGTH_CODES - 2) : base_length[c] <= lc})
d_code(dist) == Max({c \in 0..(D_CODES - 1) : base_dist[c] <= dist})

(***************************************************************************)
(* Bits and codes                                                          *)
(***************************************************************************)
send_bits(value, n) == [i \in 1..n |-> (value \div 2 ^ (i - 1)) % 2]

\* gen_codes(): the codes of a length are consecutive, in symbol order.
Below(lens, k) == Cardinality({i \in DOMAIN lens : lens[i] = k})
next_code(lens) ==
    LET first[k \in 0..15] == IF k = 0 THEN 0
                              ELSE 2 * (first[k - 1] + IF k = 1 THEN 0 ELSE Below(lens, k - 1))
    IN first
Code(lens, c) ==
    next_code(lens)[lens[c + 1]]
      + Cardinality({i \in 1..c : lens[i] = lens[c + 1]})
\* The code goes out with its first bit first: bi_reverse() and send_bits().
send_code(c, lens) == Reverse(send_bits(Code(lens, c), lens[c + 1]))

(***************************************************************************)
(* scan_tree() and send_tree()                                             *)
(***************************************************************************)
\* How many lengths from the n-th on are taken together.
Run(lens, n, max) ==
    Min({k \in 1..max : k = max \/ n + k > Len(lens) \/ lens[n + k] # lens[n]})
ScanLimits(cur, next) == IF next = 0 THEN [max |-> 138, min |-> 3]
                         ELSE IF cur = next THEN [max |-> 6, min |-> 3]
                         ELSE [max |-> 7, min |-> 4]
\* Mutant: after a full run of seven the next run is taken as a new one's.
SendLimitsLong(cur, next) == IF next = 0 THEN [max |-> 138, min |-> 3]
                             ELSE [max |-> 7, min |-> 4]
SendLimits(cur, next) == IF next = 0 THEN [max |-> 138, min |-> 3]
                         ELSE IF cur = next THEN [max |-> 6, min |-> 3]
                         ELSE [max |-> 7, min |-> 4]
Following(lens, n) == IF n > Len(lens) THEN -1 ELSE lens[n]       \* -1: the guard

RECURSIVE ScanFrom(_, _, _, _)
ScanFrom(lens, n, prev, freq) ==
    LET cur == lens[n]
        lim == ScanLimits(IF n = 1 THEN -1 ELSE lens[n - 1], cur)
        count == Run(lens, n, lim.max)
        Add(f, c, k) == [f EXCEPT ![c] = @ + k]
        freq1 == IF count < lim.min THEN Add(freq, cur, count)
                 ELSE IF cur # 0
                 THEN Add(IF cur # prev THEN Add(freq, cur, 1) ELSE freq, REP_3_6, 1)
                 ELSE IF count <= 10 THEN Add(freq, REPZ_3_10, 1)
                 ELSE Add(freq, REPZ_11_138, 1)
    IN IF n > Len(lens) THEN freq ELSE ScanFrom(lens, n + count, cur, freq1)
scan_tree(lens, freq) == ScanFrom(lens, 1, -1, freq)

RECURSIVE SendFrom(_, _, _, _)
SendFrom(lens, n, prev, bl) ==
    LET cur == lens[n]
        lim == SendLimits(IF n = 1 THEN -1 ELSE lens[n - 1], cur)
        count == Run(lens, n, lim.max)
        new == cur # prev
        sent == IF count < lim.min
                THEN FlattenSeq([i \in 1..count |-> send_code(cur, bl)])
                ELSE IF cur # 0
                THEN (IF new THEN send_code(cur, bl) ELSE <<>>)
                       \o send_code(REP_3_6, bl)
                       \o send_bits((IF new THEN count - 1 ELSE count) - 3, 2)
                ELSE IF count <= 10
                THEN send_code(REPZ_3_10, bl) \o send_bits(count - 3, 3)
                ELSE send_code(REPZ_11_138, bl) \o send_bits(count - 11, 7)
    IN IF n > Len(lens) THEN <<>> ELSE sent \o SendFrom(lens, n + count, cur, bl)
send_tree(lens, bl) == SendFrom(lens, 1, -1, bl)

(***************************************************************************)
(* build_bl_tree() and send_all_trees()                                    *)
(***************************************************************************)
\* A complete code for the symbols used, which are two at least.
FlatCode(freq) ==
    LET used == {c \in 0..(BL_CODES - 1) : freq[c] # 0}
        syms == IF Cardinality(used) > 1 THEN used
                ELSE used \cup {Min({0, 1} \ used)}
        n == Cardinality(syms)
        k == Min({i \in 1..7 : 2 ^ i >= n})
        Rank(c) == Cardinality({x \in syms : x < c})
    IN [i \in 1..BL_CODES |-> IF i - 1 \notin syms THEN 0
                              ELSE IF Rank(i - 1) < 2 ^ k - n THEN k - 1 ELSE k]
BlFreq(l, d) == scan_tree(d, scan_tree(l, [c \in 0..(BL_CODES - 1) |-> 0]))
\* The number of bit length codes sent: max_blindex + 1.
BlCodes(bl) == Max({4} \cup {i \in 4..BL_CODES : bl[bl_order[i] + 1] # 0})

\* l and d end with their max_code.
send_all_trees(l, d) ==
    LET bl == FlatCode(BlFreq(l, d))
        blcodes == BlCodes(bl)
    IN send_bits(Len(l) - 257, 5) \o send_bits(Len(d) - 1, 5) \o send_bits(blcodes - 4, 4)
         \o FlattenSeq([i \in 1..blcodes |-> send_bits(bl[bl_order[i] + 1], 3)])
         \o send_tree(l, bl) \o send_tree(d, bl)

(***************************************************************************)
(* compress_block(): lc is a literal, or the length less 3 of a match      *)
(* dist bytes back                                                         *)
(***************************************************************************)
SendMatch(lc, dist, l, d) ==
    LET c == length_code(lc)
        e == d_code(dist - 1)
    IN send_code(c + LITERALS + 1, l) \o send_bits(lc - base_length[c], extra_lbits[c + 1])
         \o send_code(e, d) \o send_bits(dist - 1 - base_dist[e], extra_dbits[e + 1])
compress_block(codes, l, d) ==
    FlattenSeq([i \in DOMAIN codes |-> IF codes[i].dist = 0 THEN send_code(codes[i].lc, l)
                                       ELSE SendMatch(codes[i].lc, codes[i].dist, l, d)])
      \o send_code(END_BLOCK, l)

static_ltree == [i \in 1..288 |-> IF i <= 144 THEN 8 ELSE IF i <= 256 THEN 9
                                  ELSE IF i <= 280 THEN 7 ELSE 8]
static_dtree == [i \in 1..D_CODES |-> 5]
====
