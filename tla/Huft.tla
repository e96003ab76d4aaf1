---- MODULE Huft ----
(***************************************************************************)
(* huft_build() of gzip-src/inflate.c: the multi-level tables with which   *)
(* inflate() decodes a canonical Huffman code, l bits at a time.           *)
(*                                                                         *)
(* A table is a function of the next input bits; the tables are listed in  *)
(* the order they are allocated, and an entry that leads to another table  *)
(* holds its place in that list.  e > 16: go on in a table of e - 16 bits; *)
(* e = 16: the literal v; e = 15: end of block; e = 99: no such code;      *)
(* else v is a base value with e extra bits.  b: bits of input consumed.   *)
(***************************************************************************)
EXTENDS Integers, Sequences
LOCAL INSTANCE SequencesExt
LOCAL INSTANCE FiniteSetsExt

BMAX == 16
INVALID == 99
EOB == 15
LITERAL == 16

\* What malloc() returns before the entry is written.
Unset == [e |-> -1, b |-> 0, v |-> 0]

\* The number of codes of each length.
Count(b) == [k \in 0..BMAX |-> Cardinality({i \in DOMAIN b : b[i] = k})]

\* The codes left over below length g when c[k] of each length are taken.
Unused(c, g) ==
    LET y[k \in 0..g] == IF k = 0 THEN 1
                         ELSE IF y[k - 1] < 0 THEN -1 ELSE 2 * y[k - 1] - c[k]
    IN y[g]

\* The bits of a table whose first codes need j bits: enlarged up to z bits
\* as long as the longer codes do not fill it.  f patterns are left.
RECURSIVE Grow(_, _, _, _, _)
Grow(c, z, j, f, k) == IF j >= z THEN z
                       ELSE IF 2 * f <= c[k] THEN j
                       ELSE Grow(c, z, j + 1, 2 * f - c[k], k + 1)
TableBits(c, g, l, k, w, a) ==
    LET z == Min({g - w, l})
        f == 2 ^ (k - w)
    IN IF f > a + 1 /\ k - w < z THEN Grow(c, z, k - w + 1, f - (a + 1), k + 1)
       ELSE k - w

\* "make tables up to required level": t.x and t.u are the stacks of code
\* patterns and of tables, a the codes of length k still to come.
RECURSIVE MakeTables(_, _, _, _, _, _)
MakeTables(t, c, g, l, k, a) ==
    IF k <= t.w + l THEN t
    ELSE LET w == t.w + l
             j == TableBits(c, g, l, k, w, a)
             new == Len(t.tables) + 1
             table == [i \in 0..(2 ^ j - 1) |-> Unset]
             r == [e |-> 16 + j, b |-> l, v |-> new]
             linked == IF t.u = <<>> THEN t.tables
                       ELSE [t.tables EXCEPT ![Last(t.u)][t.i \div 2 ^ (w - l)] = r]
         IN MakeTables([t EXCEPT !.w = w, !.u = Append(@, new),
                                 !.x = Append(@, t.i),
                                 !.tables = Append(linked, table)],
                       c, g, l, k, a)

\* The k-bit code i + 1, its bits reversed.
RECURSIVE Increment(_, _)
Increment(i, j) == IF j = 0 THEN i
                   ELSE IF (i \div j) % 2 = 1 THEN Increment(i - j, j \div 2) ELSE i + j

\* "backup over finished tables"
RECURSIVE BackUp(_, _)
BackUp(t, l) == IF t.i % 2 ^ t.w = Last(t.x) THEN t
                ELSE BackUp([t EXCEPT !.w = @ - l, !.u = Front(@), !.x = Front(@)], l)

\* One code of length k, with the entry r, into the innermost table.
AddCode(t0, c, g, l, k, a, r) ==
    LET t == MakeTables(t0, c, g, l, k, a)
        q == Last(t.u)
        f == 2 ^ (k - t.w)
        filled == {i \in DOMAIN t.tables[q] : i % f = t.i \div 2 ^ t.w}
    IN BackUp([t EXCEPT !.tables[q] = [i \in DOMAIN @ |-> IF i \in filled
                                                          THEN [r EXCEPT !.b = k - t.w]
                                                          ELSE @[i]],
                        !.i = Increment(@, 2 ^ (k - 1))], l)

\* The codes lo..hi of length k, by halves.
RECURSIVE AddCodes(_, _, _, _, _, _, _, _)
AddCodes(t, c, g, l, k, rs, lo, hi) ==
    IF lo > hi THEN t
    ELSE IF lo = hi THEN AddCode(t, c, g, l, k, c[k] - lo, rs[lo])
    ELSE LET mid == (lo + hi) \div 2
             half == AddCodes(t, c, g, l, k, rs, lo, mid)
         IN IF half.tables = <<>> THEN half ELSE AddCodes(half, c, g, l, k, rs, mid + 1, hi)

\* huft_build(b, n, s, d, e, t, m), n being the length of b: res is what it
\* returns, m the bits of the first table.  lits: symbols that are literals.
huft_build(b, s, lits, d, e, m) ==
    LET c == Count(b)
        used == {k \in 1..BMAX : c[k] # 0}
        k0 == Min(used)
        g == Max(used)
        l == Min({g, IF m < k0 THEN k0 ELSE m})
        y == Unused(c, g)
        full == [c EXCEPT ![g] = @ + y]
        v == [i \in 1..Len(b) |-> i - 1]
        OfLength(k) == SelectSeq(v, LAMBDA i : b[i + 1] = k)
        Entry(i) == IF i < s THEN [e |-> IF i < lits THEN LITERAL ELSE EOB, b |-> 0, v |-> i]
                    ELSE [e |-> e[i - s + 1], b |-> 0, v |-> d[i - s + 1]]
        codes == [k \in k0..g |-> LET values == OfLength(k) IN [i \in 1..full[k] |->
                       IF i <= c[k] THEN Entry(values[i])
                       ELSE [e |-> INVALID, b |-> 0, v |-> 0]]]
        start == [i |-> 0, w |-> -l, u |-> <<>>, x |-> <<>>, tables |-> <<>>]
    IN IF used = {} THEN [res |-> 0, m |-> 0, t |-> <<>>]
       ELSE IF y < 0 THEN [res |-> 2, m |-> l, t |-> <<>>]
       ELSE [res |-> IF y # 0 /\ g # 1 THEN 1 ELSE 0, m |-> l,
             t |-> FoldLeft(LAMBDA t, k : AddCodes(t, full, g, l, k, codes[k], 1, full[k]),
                            start, [i \in 1..(g - k0 + 1) |-> k0 + i - 1]).tables]
====
