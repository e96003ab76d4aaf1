---- MODULE Unlzh ----
(***************************************************************************)
(* unlzh() of gzip-src/unlzh.c: files of lha.  The next 16 bits of the     *)
(* input are in bitbuf, zeros from the end of the file on.  A decoding     *)
(* table is looked up with the first tablebits bits; a node of the tree    *)
(* for longer codes holds its two children.                                *)
(***************************************************************************)
EXTENDS GzipIO
LOCAL INSTANCE SequencesExt
LOCAL INSTANCE FiniteSetsExt

CONSTANTS CTABLE, PTABLE     \* bits of the tables for characters, for lengths and positions
VARIABLES z, pc, res

THRESHOLD == 3
UCHAR_MAX == 255
NC == UCHAR_MAX + 256 + 2 - THRESHOLD
CBIT == 9
NP == 14
NT == 19
PBIT == 4
TBIT == 5

(***************************************************************************)
(* io.c: in the input x, bb is bitbuf, and c is subbitbuf, of which the    *)
(* last bk bits are to come.                                               *)
(***************************************************************************)
RECURSIVE ReadBits(_, _)
ReadBits(x, n) ==
    LET More(i) == ReadBits([i EXCEPT !.c = IF @ = -1 THEN 0 ELSE @], n - x.bk)
    IN IF n <= x.bk THEN [x EXCEPT !.bb = @ + (x.c \div 2 ^ (x.bk - n)), !.bk = @ - n,
                                   !.c = @ % 2 ^ (x.bk - n)]
       ELSE More(try_byte([x EXCEPT !.bb = @ + x.c * 2 ^ (n - x.bk), !.bk = 8]))
fillbuf(x, n) == ReadBits([x EXCEPT !.bb = (@ * 2 ^ n) % 65536], n)
Top(x, n) == x.bb \div 2 ^ (16 - n)
\* getbits(n) is Top(x, n), then fillbuf(x, n).

(***************************************************************************)
(* maketbl.c                                                               *)
(***************************************************************************)
\* Where the codes of a length start, in 16 bits.
start(lens) ==
    LET st[k \in 1..17] == IF k = 1 THEN 0
                           ELSE st[k - 1] + Cardinality({c \in DOMAIN lens : lens[c] = k - 1})
                                              * 2 ^ (17 - k)
    IN st
Bad(lens) == start(lens)[17] % 65536 # 0

\* A code longer than the table: its path from the table's entry, with new
\* nodes where there are none.  t: the table, left and right, avail.
Node(t, p) == IF p.in = "table" THEN t.table[p.k]
              ELSE IF p.in = "left" THEN t.left[p.k] ELSE t.right[p.k]
Put(t, p, v) == CASE p.in = "table" -> [t EXCEPT !.table[p.k] = v]
                  [] p.in = "left" -> [t EXCEPT !.left[p.k] = v]
                  [] OTHER -> [t EXCEPT !.right[p.k] = v]
RECURSIVE AddPath(_, _, _, _)
AddPath(t0, p, bits, ch) ==
    IF bits = <<>> THEN Put(t0, p, ch)
    ELSE LET n == t0.avail
             t == IF Node(t0, p) # 0 THEN t0
                  ELSE [Put(t0, p, n) EXCEPT !.avail = n + 1, !.left = @ @@ (n :> 0),
                                             !.right = @ @@ (n :> 0)]
         IN AddPath(t, [in |-> IF Head(bits) = 1 THEN "right" ELSE "left", k |-> Node(t, p)],
                    Tail(bits), ch)

\* Codes in the order of the characters; first: the next code of each length.
AddChar(t, ch, len, tablebits) ==
    LET k == t.first[len]
        entry == k \div 2 ^ (16 - tablebits)
        more == len - tablebits
        t1 == [t EXCEPT !.first[len] = k + 2 ^ (16 - len)]
    IN IF len <= tablebits
       THEN [t1 EXCEPT !.table = [i \in DOMAIN @ |->
                                    IF i \in entry..(entry + 2 ^ (-more) - 1) THEN ch ELSE @[i]]]
       ELSE AddPath(t1, [in |-> "table", k |-> entry],
                    [i \in 1..more |-> (k \div 2 ^ (16 - tablebits - i)) % 2], ch)
make_table(lens, tablebits) ==
    FoldLeft(LAMBDA t, ch : AddChar(t, ch, lens[ch + 1], tablebits),
             [table |-> [i \in 0..(2 ^ tablebits - 1) |-> 0], left |-> <<>>, right |-> <<>>,
              avail |-> Len(lens), first |-> start(lens)],
             SelectSeq([i \in 1..Len(lens) |-> i - 1], LAMBDA ch : lens[ch + 1] # 0))

\* The character the next bits stand for, the first of n of which are seen to.
RECURSIVE Descend(_, _, _, _)
Descend(t, x, ch, n) ==
    IF ch < Len(t.lens) THEN ch
    ELSE Descend(t, x, IF (x.bb \div 2 ^ (15 - n)) % 2 = 1 THEN t.tree.right[ch]
                       ELSE t.tree.left[ch], n + 1)
Decoded(t, x, tablebits) == Descend(t, x, t.tree.table[Top(x, tablebits)], tablebits)
Skipped(t, x, ch) == fillbuf(x, t.lens[ch + 1])

(***************************************************************************)
(* huf.c: x with the lengths lens read so far, and the table               *)
(***************************************************************************)
Zeros(n) == [k \in 1..n |-> 0]
OnlyCode(c, n, tablebits) ==
    [lens |-> Zeros(n), tree |-> [table |-> [k \in 0..(2 ^ tablebits - 1) |-> c]]]
Code(lens0, n, tablebits) == LET lens == lens0 \o Zeros(n - Len(lens0))
                             IN [lens |-> lens, tree |-> make_table(lens, tablebits)]

\* Three bits, or seven and one more for each one that follows.
Ones(x) == CHOOSE n \in 0..13 : /\ \A k \in 1..n : (x.bb \div 2 ^ (13 - k)) % 2 = 1
                                /\ n = 13 \/ (x.bb \div 2 ^ (12 - n)) % 2 = 0
RECURSIVE ReadPtLens(_, _, _, _)
ReadPtLens(x, lens, n, i_special) ==
    LET Go(y, more) == IF Len(more) = i_special
                       THEN ReadPtLens(fillbuf(y, 2), more \o Zeros(Top(y, 2)), n, i_special)
                       ELSE ReadPtLens(y, more, n, i_special)
        Add(c) == Go(fillbuf(x, IF c < 7 THEN 3 ELSE c - 3), Append(lens, c))
    IN IF Len(lens) >= n THEN [x |-> x, lens |-> lens]
       ELSE Add(IF Top(x, 3) = 7 THEN 7 + Ones(x) ELSE Top(x, 3))
read_pt_len(x, nn, nbit, i_special) ==
    LET Only(y) == [x |-> fillbuf(y, nbit), t |-> OnlyCode(Top(y, nbit), nn, PTABLE)]
        Full(read) == [x |-> read.x, t |-> Code(read.lens, nn, PTABLE)]
    IN IF Top(x, nbit) = 0 THEN Only(fillbuf(x, nbit))
       ELSE Full(ReadPtLens(fillbuf(x, nbit), <<>>, Top(x, nbit), i_special))

\* A length, or a count of zeros.
RECURSIVE ReadCLens(_, _, _, _)
ReadCLens(x, lens, n, pt) ==
    LET After(c, y) == ReadCLens(fillbuf(y, CASE c = 1 -> 4 [] c = 2 -> CBIT [] OTHER -> 0),
                                 CASE c = 0 -> Append(lens, 0)
                                   [] c = 1 -> lens \o Zeros(Top(y, 4) + 3)
                                   [] c = 2 -> lens \o Zeros(Top(y, CBIT) + 20)
                                   [] OTHER -> Append(lens, c - 2), n, pt)
        Go(c) == After(c, Skipped(pt, x, c))
    IN IF Len(lens) >= n THEN [x |-> x, lens |-> lens] ELSE Go(Decoded(pt, x, PTABLE))
read_c_len(x, pt) ==
    LET Only(y) == [x |-> fillbuf(y, CBIT), t |-> OnlyCode(Top(y, CBIT), NC, CTABLE)]
        Full(read) == [x |-> read.x, t |-> Code(read.lens, NC, CTABLE)]
    IN IF Top(x, CBIT) = 0 THEN Only(fillbuf(x, CBIT))
       ELSE Full(ReadCLens(fillbuf(x, CBIT), <<>>, Top(x, CBIT), pt))

(***************************************************************************)
(* decode.c                                                                *)
(***************************************************************************)
unlzh == /\ pc = "unlzh"
         /\ s' = fillbuf([s EXCEPT !.bb = 0, !.bk = 0, !.c = 0], 16)
         /\ z' = [blocksize |-> 0] /\ pc' = "lzh"
         /\ UNCHANGED <<file, o, res>>

\* decode_c() at the start of a block; a block of no characters is the end.
BlockStart ==
    /\ pc = "lzh" /\ z.blocksize = 0
    /\ \/ /\ s.bb = 0
          /\ s' = fillbuf(s, 16) /\ o' = flush_window(o)
          /\ pc' = "worked" /\ res' = 0 /\ z' = <<>>
       \/ /\ s.bb # 0
          /\ \E lens \in {read_pt_len(fillbuf(s, 16), NT, TBIT, 3)} :
             \E chars \in {read_c_len(lens.x, lens.t)} :
             \E places \in {read_pt_len(chars.x, NP, PBIT, -1)} :
             \E bad \in {\E t \in {lens.t, chars.t, places.t} : Bad(t.lens)} :
                \/ /\ ~bad
                   /\ s' = places.x
                   /\ z' = [blocksize |-> s.bb, chars |-> chars.t, places |-> places.t]
                   /\ UNCHANGED <<o, pc, res>>
                \/ bad /\ pc' = "abort" /\ UNCHANGED <<s, o, z, res>>
    /\ UNCHANGED file

\* n bytes from the place i of the window on, which the copy itself may fill.
RECURSIVE CopyFrom(_, _, _)
CopyFrom(w, i, n) == IF n = 0 THEN w
                     ELSE CopyFrom(put_ubyte(w, w.window[i]), (i + 1) % WSIZE, n - 1)

\* One character or match.
decode ==
    /\ pc = "lzh" /\ z.blocksize > 0
    /\ \E c \in {Decoded(z.chars, s, CTABLE)} : \E x \in {Skipped(z.chars, s, c)} :
          \/ c <= UCHAR_MAX /\ s' = x /\ o' = put_ubyte(o, c)
          \/ /\ c > UCHAR_MAX
             /\ \E j \in {Decoded(z.places, x, PTABLE)} : \E y \in {Skipped(z.places, x, j)} :
                \E p \in {IF j = 0 THEN 0 ELSE 2 ^ (j - 1) + Top(y, j - 1)} :
                   /\ s' = IF j = 0 THEN y ELSE fillbuf(y, j - 1)
                   /\ o' = CopyFrom(o, (o.outcnt - p - 1) % WSIZE,
                                    c - (UCHAR_MAX + 1 - THRESHOLD))
    /\ z' = [z EXCEPT !.blocksize = @ - 1]
    /\ UNCHANGED <<file, pc, res>>

Next == unlzh \/ BlockStart \/ decode
====
