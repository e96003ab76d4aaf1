---- MODULE Inflate ----
(***************************************************************************)
(* inflate() of gzip-src/inflate.c, one action per block header, per code  *)
(* of a block and per code length of a dynamic block's trees.  The window  *)
(* is a ring of WSIZE bytes.  malloc() does not fail.                      *)
(***************************************************************************)
EXTENDS GzipIO
LOCAL INSTANCE SequencesExt
LOCAL INSTANCE Huft

CONSTANTS lbits, dbits       \* bits in the first tables
VARIABLES
    z,       \* inflate's own variables
    pc,
    res      \* what inflate() returns

border == <<16, 17, 18, 0, 8, 7, 9, 6, 10, 5, 11, 4, 12, 3, 13, 2, 14, 1, 15>>
cplens == <<3, 4, 5, 6, 7, 8, 9, 10, 11, 13, 15, 17, 19, 23, 27, 31, 35, 43, 51,
            59, 67, 83, 99, 115, 131, 163, 195, 227, 258, 0, 0>>
cplext == <<0, 0, 0, 0, 0, 0, 0, 0, 1, 1, 1, 1, 2, 2, 2, 2, 3, 3, 3, 3, 4, 4, 4, 4,
            5, 5, 5, 5, 0, 99, 99>>
cpdist == <<1, 2, 3, 4, 5, 7, 9, 13, 17, 25, 33, 49, 65, 97, 129, 193, 257, 385,
            513, 769, 1025, 1537, 2049, 3073, 4097, 6145, 8193, 12289, 16385, 24577>>
cpdext == <<0, 0, 0, 0, 1, 1, 2, 2, 3, 3, 4, 4, 5, 5, 6, 6, 7, 7, 8, 8, 9, 9, 10, 10,
            11, 11, 12, 12, 13, 13>>

LiteralTable(b, m) == huft_build(b, 257, 256, cplens, cplext, m)
DistanceTable(b, m) == huft_build(b, 0, 256, cpdist, cpdext, m)

FixedLiterals == LiteralTable([i \in 1..288 |-> IF i <= 144 THEN 8
                                                ELSE IF i <= 256 THEN 9
                                                ELSE IF i <= 280 THEN 7 ELSE 8], 7)
FixedDistances == DistanceTable([i \in 1..30 |-> 5], 5)

NoBlock == [last |-> FALSE, n |-> 0, nl |-> 0, nd |-> 0, ll |-> <<>>, l |-> 0,
            tl |-> <<>>, td |-> <<>>]

\* A step that has read up to i goes on at a label, unless the file was short.
Goto(label, i) == s' = i /\ pc' = IF i.short THEN "abort" ELSE label
Return(r, i) == Goto("worked", i) /\ res' = r /\ z' = NoBlock

(***************************************************************************)
(* inflate() and inflate_block()                                           *)
(***************************************************************************)
inflate == /\ pc = "inflate"
           /\ o' = [o EXCEPT !.outcnt = 0] /\ s' = [s EXCEPT !.bb = 0, !.bk = 0]
           /\ z' = NoBlock /\ pc' = "block"
           /\ UNCHANGED <<file, res>>

inflate_block ==
    /\ pc = "block"
    /\ \E t \in {TakeBits(s, 3)} :
          \/ /\ t.c \div 2 < 3
             /\ Goto(<<"stored", "fixed", "dynamic">>[t.c \div 2 + 1], t)
             /\ z' = [z EXCEPT !.last = t.c % 2 = 1] /\ UNCHANGED res
          \/ t.c \div 2 = 3 /\ Return(2, t)       \* bad block type
    /\ UNCHANGED <<file, o>>

\* After a block: the bytes that were taken from the input too early are put
\* back behind the last.
UndoNothing(i) == i       \* Mutant
UndoLookahead(i) == [i EXCEPT !.inptr = @ - i.bk \div 8, !.bk = i.bk % 8]
BlockEnd ==
    /\ pc = "blockend"
    /\ IF z.last THEN Return(0, UndoLookahead(s)) /\ o' = flush_window(o)
       ELSE pc' = "block" /\ UNCHANGED <<z, s, o, res>>
    /\ UNCHANGED file

(***************************************************************************)
(* inflate_stored()                                                        *)
(***************************************************************************)
StoredHeader ==
    /\ pc = "stored"
    /\ \E n \in {TakeBits(DUMPBITS(s, s.bk % 8), 16)} : \E m \in {TakeBits(n, 16)} :
          \/ /\ n.c + m.c = 65535 \/ m.short
             /\ Goto("storedbyte", m) /\ z' = [z EXCEPT !.n = n.c] /\ UNCHANGED res
          \/ n.c + m.c # 65535 /\ ~m.short /\ Return(1, m)
    /\ UNCHANGED <<file, o>>

StoredByte ==
    /\ pc = "storedbyte"
    /\ IF z.n = 0 THEN pc' = "blockend" /\ UNCHANGED <<s, z, o>>
       ELSE \E c \in {TakeBits(s, 8)} :
               /\ Goto("storedbyte", c) /\ z' = [z EXCEPT !.n = @ - 1]
               /\ o' = IF c.short THEN o ELSE put_ubyte(o, c.c)
    /\ UNCHANGED <<file, res>>

(***************************************************************************)
(* inflate_fixed() and inflate_dynamic()                                   *)
(***************************************************************************)
inflate_fixed ==
    /\ pc = "fixed"
    /\ z' = [z EXCEPT !.tl = FixedLiterals, !.td = FixedDistances] /\ pc' = "codes"
    /\ UNCHANGED <<file, s, o, res>>

\* The lengths of n codes for code lengths.
ReadLengths(i, n) ==
    FoldLeft(LAMBDA i1, j : LET ll == i1.c
                                Add(i2) == [i2 EXCEPT !.c = [ll EXCEPT ![border[j] + 1] = i2.c]]
                            IN Add(TakeBits(i1, 3)),
             [i EXCEPT !.c = [k \in 1..19 |-> 0]], [j \in 1..n |-> j])
DynamicHeader ==
    /\ pc = "dynamic"
    /\ \E l \in {TakeBits(s, 5)} : \E d \in {TakeBits(l, 5)} : \E b \in {TakeBits(d, 4)} :
          \/ (257 + l.c > 286 \/ 1 + d.c > 30) /\ Return(1, b)
          \/ /\ 257 + l.c <= 286 /\ 1 + d.c <= 30
             /\ \E i \in {ReadLengths(b, 4 + b.c)} :
                \E h \in {huft_build(i.c, 19, 256, <<>>, <<>>, 7)} : \E x \in {[i EXCEPT !.c = 0]} :
                   \/ h.res # 0 /\ Return(h.res, x)
                   \/ h.res = 0 /\ h.t = <<>> /\ Return(2, x)
                   \/ /\ h.res = 0 /\ h.t # <<>>
                      /\ Goto("lengths", x)
                      /\ z' = [z EXCEPT !.nl = 257 + l.c, !.nd = 1 + d.c, !.tl = h,
                                        !.ll = <<>>, !.l = 0]
                      /\ UNCHANGED res
    /\ UNCHANGED <<file, o>>

\* One code for code lengths, j: a length, or a repetition of one.
ExtraBits(j) == CASE j = 16 -> 2 [] j = 17 -> 3 [] j = 18 -> 7 [] OTHER -> 0
Repeat(j, i) == CASE j = 16 -> [n |-> 3 + i.c, l |-> z.l]
                  [] j = 17 -> [n |-> 3 + i.c, l |-> 0]
                  [] j = 18 -> [n |-> 11 + i.c, l |-> 0]
                  [] OTHER -> [n |-> 1, l |-> j]
ReadLength ==
    /\ pc = "lengths" /\ Len(z.ll) < z.nl + z.nd
    /\ \E i \in {NEEDBITS(s, z.tl.m)} :
       \E td \in {z.tl.t[1][Peek(i, z.tl.m)]} :
       \E x \in {TakeBits(DUMPBITS(i, td.b), ExtraBits(td.v))} :
       \E p \in {Repeat(td.v, x)} :
          \/ /\ Len(z.ll) + p.n <= z.nl + z.nd
             /\ Goto("lengths", x)
             /\ z' = [z EXCEPT !.ll = @ \o [k \in 1..p.n |-> p.l], !.l = p.l]
             /\ UNCHANGED res
          \/ Len(z.ll) + p.n > z.nl + z.nd /\ Return(1, x)
    /\ UNCHANGED <<file, o>>

BuildTables ==
    /\ pc = "lengths" /\ Len(z.ll) = z.nl + z.nd
    /\ \E l \in {LiteralTable(SubSeq(z.ll, 1, z.nl), lbits)} :
       \E d \in {DistanceTable(SubSeq(z.ll, z.nl + 1, z.nl + z.nd), dbits)} :
          \/ l.res # 0 /\ Return(l.res, s)
          \/ l.res = 0 /\ d.res # 0 /\ Return(d.res, s)
          \/ /\ l.res = 0 /\ d.res = 0
             /\ z' = [z EXCEPT !.tl = l, !.td = d] /\ pc' = "codes"
             /\ UNCHANGED <<s, res>>
    /\ UNCHANGED <<file, o>>

(***************************************************************************)
(* inflate_codes()                                                         *)
(***************************************************************************)
\* The entry the next bits lead to, from table q of n bits on.
RECURSIVE Descend(_, _, _, _)
Descend(t, q, i, n) ==
    LET Go(j, r) == IF r.e > 16 /\ r.e # INVALID
                    THEN Descend(t, r.v, DUMPBITS(j, r.b), r.e - 16)
                    ELSE [i |-> DUMPBITS(j, r.b), r |-> r]
        Look(j) == Go(j, t[q][Peek(j, n)])
    IN Look(NEEDBITS(i, n))
Decode(h, i) == Descend(h.t, 1, i, h.m)

\* The copy, in pieces that neither wrap nor pass the end of the window: at
\* once where the pieces do not overlap, else byte by byte.
Always(w, d, e) == TRUE       \* Mutant
AtOnce(w, d, e) == d > w \/ w - d >= e
Piece(w, d, e) ==
    IF AtOnce(w.outcnt, d, e)
    THEN [k \in DOMAIN w.window |-> IF k \in w.outcnt..(w.outcnt + e - 1)
                                    THEN w.window[k - w.outcnt + d] ELSE w.window[k]]
    ELSE [k \in DOMAIN w.window |->
            IF k \in w.outcnt..(w.outcnt + e - 1) /\ d # w.outcnt
            THEN w.window[d + ((k - w.outcnt) % (w.outcnt - d))] ELSE w.window[k]]
RECURSIVE Copy(_, _, _)
Copy(w, d0, n) ==
    LET d == d0 % WSIZE
        e == Lesser(n, WSIZE - (IF d > w.outcnt THEN d ELSE w.outcnt))
    IN IF n = 0 THEN w
       ELSE Copy(FlushIfFull([w EXCEPT !.window = Piece(w, d, e), !.outcnt = @ + e]),
                 d + e, n - e)

inflate_codes ==
    /\ pc = "codes"
    /\ \E c \in {Decode(z.tl, s)} :
          \/ c.r.e = INVALID /\ Return(1, c.i) /\ UNCHANGED o
          \/ /\ c.r.e = LITERAL
             /\ Goto("codes", c.i) /\ UNCHANGED <<z, res>>
             /\ o' = IF c.i.short THEN o ELSE put_ubyte(o, c.r.v)
          \/ /\ c.r.e = EOB
             /\ Goto("blockend", c.i) /\ UNCHANGED <<o, z, res>>
          \/ /\ c.r.e < EOB
             /\ \E n \in {TakeBits(c.i, c.r.e)} : \E p \in {Decode(z.td, n)} :
                   \/ p.r.e = INVALID /\ Return(1, p.i) /\ UNCHANGED o
                   \/ /\ p.r.e # INVALID
                      /\ \E x \in {TakeBits(p.i, p.r.e)} :
                            /\ Goto("codes", x)
                            /\ o' = IF x.short THEN o
                                    ELSE Copy(o, o.outcnt - p.r.v - x.c, c.r.v + n.c)
                      /\ UNCHANGED <<z, res>>
    /\ UNCHANGED file

Next == \/ inflate \/ inflate_block \/ BlockEnd \/ StoredHeader \/ StoredByte
        \/ inflate_fixed \/ DynamicHeader \/ ReadLength \/ BuildTables \/ inflate_codes
====
