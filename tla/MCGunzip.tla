---- MODULE MCGunzip ----
(***************************************************************************)
(* Scenes for Gunzip: files in each of the formats, good ones, cut off and *)
(* damaged ones.  The blocks of deflated files are written by the encoder  *)
(* of trees.c (TreeCoding); pack, compress and lha are not in the          *)
(* repository, and their encoders are here.                                *)
(***************************************************************************)
EXTENDS Gunzip
LOCAL INSTANCE SequencesExt
LOCAL INSTANCE FiniteSetsExt

T == INSTANCE TreeCoding

Zeros(n) == [i \in 1..n |-> 0]
Pad(bits, n) == bits \o Zeros((n - (Len(bits) % n)) % n)
\* Bytes, the first bit lowest (Pack) or highest (PackHigh).
Pack(bits) == LET b == Pad(bits, 8)
              IN [i \in 1..(Len(b) \div 8) |->
                    LET at(k) == b[8 * (i - 1) + k]
                    IN at(1) + 2 * at(2) + 4 * at(3) + 8 * at(4) + 16 * at(5) + 32 * at(6)
                         + 64 * at(7) + 128 * at(8)]
PackHigh(bits) == LET b == Pad(bits, 8)
                  IN Pack([i \in DOMAIN b |-> b[8 * ((i - 1) \div 8) + 8 - ((i - 1) % 8)]])
High(value, n) == Reverse(T!send_bits(value, n))

Scene(f, want, ends) ==
    [file |-> f, want |-> want, ends |-> ends, good |-> TRUE, code |-> OK, checked |-> TRUE,
     cut |-> FALSE, mincap |-> 1, test |-> FALSE, to_stdout |-> FALSE, force |-> 0]
Damaged(sc, f) == [sc EXCEPT !.file = f, !.good = FALSE]
CutOff(sc) == {[Damaged(sc, SubSeq(sc.file, 1, k)) EXCEPT !.cut = TRUE] :
                 k \in (0..(Len(sc.file) - 1)) \ sc.ends}
Flipped(sc) == {Damaged(sc, [sc.file EXCEPT ![k] = (@ + d) % 256]) :
                  k \in DOMAIN sc.file, d \in {1, 64}}

(***************************************************************************)
(* Deflated files                                                          *)
(***************************************************************************)
Lit(c) == [dist |-> 0, lc |-> c]
Match(dist, len) == [dist |-> dist, lc |-> len - 3]
CopyBack(t, dist, n) == t \o [i \in 1..n |-> t[Len(t) - dist + 1 + ((i - 1) % dist)]]
TextOf(codes) == FoldLeft(LAMBDA t, c : IF c.dist = 0 THEN Append(t, c.lc)
                                        ELSE CopyBack(t, c.dist, c.lc + 3), <<>>, codes)

\* A block: its codes, its type and its trees.
Stored(text) == [type |-> 0, codes |-> [i \in DOMAIN text |-> Lit(text[i])], l |-> <<>>, d |-> <<>>]
Fixed(codes) == [type |-> 1, codes |-> codes, l |-> T!static_ltree, d |-> T!static_dtree]
Dynamic(codes, l, d) == [type |-> 2, codes |-> codes, l |-> l, d |-> d]
Raw(bits) == [type |-> 3, codes |-> <<>>, l |-> bits, d |-> <<>>]
AddBlock(bits, b, last) ==
    LET head == bits \o T!send_bits((IF last THEN 1 ELSE 0) + 2 * b.type, 3)
        n == Len(b.codes)
    IN CASE b.type = 0 -> Pad(head, 8) \o T!send_bits(n, 16) \o T!send_bits(65535 - n, 16)
                            \o FlattenSeq([i \in 1..n |-> T!send_bits(b.codes[i].lc, 8)])
         [] b.type = 1 -> head \o T!compress_block(b.codes, b.l, b.d)
         [] b.type = 2 -> head \o T!send_all_trees(b.l, b.d) \o T!compress_block(b.codes, b.l, b.d)
         [] OTHER -> bits \o b.l
Deflated(blocks) ==
    Pack(FoldLeft(LAMBDA bits, i : AddBlock(bits, blocks[i], i = Len(blocks)), <<>>,
                  [i \in DOMAIN blocks |-> i]))
Plain(blocks) == TextOf(FlattenSeq([i \in DOMAIN blocks |-> blocks[i].codes]))

Tail8(text) == Bytes4(updcrc(0, text)) \o Bytes4(Len(text))
Header(flags) == <<31, 139, 8, flags, 0, 0, 0, 0, 0, 3>>
Member(header, blocks) == header \o Deflated(blocks) \o Tail8(Plain(blocks))
One(header, blocks) == LET f == Member(header, blocks) IN Scene(f, Plain(blocks), {Len(f)})

\* Trees, from the lengths of the symbols used.
Tree(lens, min) == [i \in 1..(Max(DOMAIN lens \cup {min}) + 1) |->
                      IF i - 1 \in DOMAIN lens THEN lens[i - 1] ELSE 0]
LTree(lens) == Tree(lens, 256)
DTree(lens) == Tree(lens, 0)
OneDist == <<1>>

\* Every code of up to three bits for these symbols: complete or not.
CodeScene(lens) ==
    LET codes == <<Lit(97), Lit(255), Match(1, 3), Lit(97)>>
        sc == One(Header(0), <<Dynamic(codes, LTree(lens), OneDist)>>)
        weight == FoldLeft(LAMBDA a, c : a + 2 ^ (3 - lens[c]), 0, <<97, 255, 256, 257>>)
    IN [sc EXCEPT !.good = weight = 8]
CodeScenes == {CodeScene(lens @@ (97 :> 3)) : lens \in [{255, 256, 257} -> 1..3]}

\* Runs of equal lengths: r literals in a row from the literal a on.
RunLens(a, r) == [c \in (a..(a + r - 1)) \cup {256} \cup (270..(284 - r)) |-> 4]
RunScene(a, r) ==
    One(Header(0), <<Dynamic([i \in 1..r |-> Lit(a + i - 1)], LTree(RunLens(a, r)),
                             DTree([c \in 0..3 |-> 2]))>>)
RunScenes == {RunScene(a, r) : a \in {2, 3, 138, 139}, r \in {2, 3, 6, 7, 8, 14}}

\* The end of the block in one bit, at every place in a byte.
EobScenes == {One(Header(0), <<Dynamic([i \in 1..k |-> Lit(255)],
                                       LTree((255 :> 3) @@ (256 :> 1) @@ (97 :> 2) @@ (257 :> 3)),
                                       OneDist)>>) : k \in 0..7}

\* Matches that overlap themselves, wrap in the window, are longest.
Short1 == Stored(<<7, 8, 9>>)
Short2Block == Fixed(<<Lit(1), Match(1, 9), Lit(200), Match(3, 4)>>)
Deep == Dynamic(<<Lit(5), Match(1, 4), Match(4, 11), Match(5, 15), Lit(6), Match(8, 9)>>,
                LTree([c \in {5, 6, 256, 258, 263, 265, 267} |->
                         CASE c = 5 -> 1 [] c = 6 -> 2 [] c = 256 -> 3 [] c = 258 -> 4
                           [] c = 263 -> 5 [] OTHER -> 6]),
                DTree([c \in {0, 3, 4, 5} |-> CASE c = 0 -> 1 [] c = 3 -> 2 [] OTHER -> 3]))
Longest == Fixed(<<Lit(3), Lit(4), Match(2, 257), Match(1, 258), Lit(5)>>)
Families == {<<Short1>>, <<Stored(<<>>), Short1>>, <<Short2Block>>, <<Deep>>, <<Longest>>,
             <<Short1, Short2Block, Deep>>, <<Deep, Short1>>, <<Short2Block, Stored(<<>>)>>}
BlockScenes == {One(Header(0), bs) : bs \in Families}
CutScenes == UNION {CutOff(One(Header(0), bs)) : bs \in {<<Short1, Short2Block>>, <<Deep>>}}
FlipScenes == UNION {Flipped(One(Header(0), bs)) : bs \in {<<Short1>>, <<Short2Block>>}}

\* Blocks no encoder writes.
BadBlocks == {<<1, 1, 1>>,                                         \* type 3
              <<1, 0, 1>> \o T!send_bits(30, 5) \o Zeros(9),       \* 287 codes
              <<1, 0, 1>> \o Zeros(14) \o Zeros(12),               \* no length codes
              <<1, 0, 1>> \o Zeros(14) \o <<1, 0, 0>> \o Zeros(9), \* one of them
              <<1, 0, 1>> \o Zeros(10) \o T!send_bits(14, 4)       \* too many lengths
                \o FlattenSeq([i \in 1..18 |-> IF i \in {3, 18} THEN <<1, 0, 0>> ELSE <<0, 0, 0>>])
                \o <<1, 1, 1, 1, 1, 1, 1, 1>> \o <<1, 1, 1, 1, 1, 1, 1, 1>>
                \o <<1, 1, 1, 1, 1, 1, 1, 1>>}
BadScenes == {[Damaged(sc, Header(0) \o Pack(bits) \o Zeros(8)) EXCEPT !.want = <<>>] :
                bits \in BadBlocks, sc \in {One(Header(0), <<Short1>>)}}

(***************************************************************************)
(* Headers, members, what follows them, options                            *)
(***************************************************************************)
Fields(flags) == (IF Flag(flags, 2) THEN <<1, 0>> ELSE <<>>)
                   \o (IF Flag(flags, 4) THEN <<2, 0, 31, 139>> ELSE <<>>)
                   \o (IF Flag(flags, 8) THEN <<97, 0>> ELSE <<>>)
                   \o (IF Flag(flags, 16) THEN <<98, 99, 0>> ELSE <<>>)
Opts(sc, test, to_stdout, force) == [sc EXCEPT !.test = test, !.to_stdout = to_stdout,
                                               !.force = force]
HeaderScene(flags, force) ==
    LET sc == Opts(One(Header(flags) \o Fields(flags), <<Short1>>), FALSE, FALSE, force)
        odd == \E b \in {2, 32, 64, 128} : Flag(flags, b)
    IN [sc EXCEPT !.good = ~odd \/ (force = 2 /\ ~Flag(flags, 32)),
                  !.code = IF odd THEN ERROR ELSE OK]
HeaderScenes == {HeaderScene(flags, force) :
                   flags \in (0..31) \cup {32, 64, 130}, force \in {0, 2}}

First == Member(Header(8) \o <<97, 0>>, <<Deep>>)
Second == Member(Header(0), <<Short2Block>>)
TwoMembers == Scene(First \o Second, Plain(<<Deep>>) \o Plain(<<Short2Block>>),
                    {Len(First), Len(First) + Len(Second)})
After(rest, code) == [One(Header(0), <<Deep>>) EXCEPT !.file = @ \o rest, !.code = code]
MemberScenes ==
    {TwoMembers, [TwoMembers EXCEPT !.file = First \o [Second EXCEPT ![2] = 158]],
     After(<<0, 0>>, OK), After(<<0, 0, 0, 0, 0>>, OK), After(<<1, 2>>, WARNING),
     After(<<0, 0, 0, 5>>, WARNING)} \cup CutOff(TwoMembers)
\* One byte more than a member.
PadScenes == {After(<<b>>, IF b = 0 THEN OK ELSE WARNING) : b \in {0, 1}}

WrongTail == One(Header(0), <<Short1>>)
LastByte(f, k) == [f EXCEPT ![Len(f) - k] = (@ + 1) % 256]
OptionScenes ==
    {Opts(Damaged(WrongTail, LastByte(WrongTail.file, k)), TRUE, TRUE, 0) : k \in {0, 4}}
    \cup {Opts(WrongTail, TRUE, TRUE, 0),
          Damaged(WrongTail, <<65, 66, 67>>), Damaged(WrongTail, <<31, 139, 7, 0>>)}
Cat(f) == Opts([Scene(f, f, {}) EXCEPT !.checked = FALSE], FALSE, TRUE, 1)
CatScenes == {Cat(<<>>), Cat(<<1, 2, 3, 4, 5, 6, 7>>), Cat(<<1, 2>>)}
ShortCats == {Cat(<<1>>)}

\* zip files, with the sizes in the local header or behind the data.
Entry(method, data, text, extended) ==
    LET tail == Bytes4(updcrc(0, text)) \o Bytes4(Len(data)) \o Bytes4(Len(text))
    IN PKZIP_MAGIC \o <<20, 0, IF extended THEN 8 ELSE 0, 0, method, 0, 0, 0, 0, 0>>
         \o (IF extended /\ method = 8 THEN Zeros(12) ELSE tail) \o <<1, 0, 2, 0>> \o <<97, 5, 6>>
         \o data \o (IF extended THEN <<80, 75, 7, 8>> \o tail ELSE <<>>)
ZipScene(f, text, to_stdout) == Opts([Scene(f, text, {}) EXCEPT !.mincap = 34],
                                     FALSE, to_stdout, 0)
ZipText == <<5, 5, 5, 5>>
OneEntry(ext, st) == ZipScene(Entry(IF st THEN 0 ELSE 8,
                               IF st THEN ZipText ELSE Deflated(<<Fixed(<<Lit(5), Match(1, 3)>>)>>),
                               ZipText, ext), ZipText, FALSE)
ZipScenes ==
    {OneEntry(ext, st) : ext \in BOOLEAN, st \in BOOLEAN}
    \cup CutOff(OneEntry(TRUE, FALSE)) \cup CutOff(OneEntry(FALSE, TRUE))
    \cup {Damaged(OneEntry(FALSE, st), [OneEntry(FALSE, st).file EXCEPT ![k] = @ + 1]) :
            st \in BOOLEAN, k \in {7, 9, 15, 19, 23}}
    \cup {[z0 EXCEPT !.file = z0.file \o z0.file, !.to_stdout = out, !.code = WARNING,
                     !.good = out] : z0 \in {OneEntry(FALSE, TRUE), OneEntry(TRUE, FALSE)}, out \in BOOLEAN}

(***************************************************************************)
(* pack: the literals of each length, the end last                         *)
(***************************************************************************)
PackedCode(lits, len, j) ==
    LET n(k) == Len(lits[k]) + IF k = Len(lits) THEN 1 ELSE 0
    IN 2 ^ len - FoldLeft(LAMBDA a, k : a + n(k) * 2 ^ (len - k), 0, [k \in 1..len |-> k]) + j - 1
PackedLit(lits, c) == LET len == CHOOSE k \in DOMAIN lits : \E j \in DOMAIN lits[k] : lits[k][j] = c
                          j == CHOOSE x \in DOMAIN lits[len] : lits[len][x] = c
                      IN High(PackedCode(lits, len, j), len)
Packed(lits, text) ==
    LET max == Len(lits)
    IN <<31, 30>> \o Reverse(Bytes4(Len(text))) \o <<max>>
         \o [k \in 1..max |-> Len(lits[k]) - IF k = max THEN 1 ELSE 0]
         \o FlattenSeq(lits)
         \o PackHigh(FlattenSeq([i \in DOMAIN text |-> PackedLit(lits, text[i])])
                     \o High(PackedCode(lits, max, Len(lits[max]) + 1), max))
PackScene(lits, text) == LET f == Packed(lits, text) IN Scene(f, text, {Len(f)})
Trees == {<<<<>>, <<1, 2, 3>>>>, <<<<1>>, <<2>>, <<3>>>>, <<<<>>, <<1, 2, 3>>, <<4>>, <<5>>, <<6>>>>,
          <<<<1>>, <<>>, <<2, 3>>, <<4, 5, 6>>, <<7>>>>}
Packs == {PackScene(lits, FlattenSeq(lits) \o Reverse(FlattenSeq(lits))) : lits \in Trees}
PackScenes ==
    Packs \cup UNION {CutOff(sc) : sc \in Packs}
    \cup {[sc EXCEPT !.file = @ \o Second, !.want = @ \o Plain(<<Short2Block>>),
                     !.ends = @ \cup {Len(sc.file) + Len(Second)}] : sc \in Packs}
    \cup {Damaged(sc, [sc.file EXCEPT ![k] = @ + 1]) : sc \in Packs, k \in {5, 6}}
    \cup {[Damaged(sc, <<31, 30, 0, 0, 0, 9, 2, 255, 200>>) EXCEPT !.want = <<>>] : sc \in Packs}

(***************************************************************************)
(* compress: the strings are those of the codes from the first free on     *)
(***************************************************************************)
Chars == W!CLEAR
PadGroup(e) == LET used == Len(e.bits) - e.group
                   more == (8 * e.n - (used % (8 * e.n))) % (8 * e.n)
               IN [e EXCEPT !.bits = @ \o Zeros(more), !.group = Len(e.bits) + more]
\* output() of a code; then a wider code when the next entry needs one.
Emit(e, code) ==
    LET sent == [e EXCEPT !.bits = @ \o T!send_bits(code, e.n)]
    IN IF e.free + Len(e.dict) > e.maxcode
       THEN [PadGroup(sent) EXCEPT !.n = e.n + 1,
                                   !.maxcode = IF e.n + 1 = e.maxbits THEN W!MAXCODE(e.maxbits)
                                               ELSE W!MAXCODE(e.n + 1) - 1]
       ELSE sent
CodeOf(e, string) == IF Len(string) = 1 THEN string[1]
                     ELSE e.free - 1 + CHOOSE k \in DOMAIN e.dict : e.dict[k] = string
Clear(e) == [PadGroup([e EXCEPT !.bits = @ \o T!send_bits(Chars, e.n)])
               EXCEPT !.n = W!INIT_BITS, !.maxcode = W!MAXCODE(W!INIT_BITS) - 1, !.dict = <<>>]
NextChar(e, c) ==
    LET longer == Append(e.ent, c)
        e1 == Emit(e, CodeOf(e, e.ent))
        full == e.free + Len(e.dict) >= W!MAXCODE(e.maxbits)
    IN IF e.ent = <<>> THEN [e EXCEPT !.ent = <<c>>]
       ELSE IF \E k \in DOMAIN e.dict : e.dict[k] = longer THEN [e EXCEPT !.ent = longer]
       ELSE IF ~full THEN [e1 EXCEPT !.dict = Append(@, longer), !.ent = <<c>>]
       ELSE IF e.clears THEN [Clear(e1) EXCEPT !.ent = <<c>>] ELSE [e1 EXCEPT !.ent = <<c>>]
Compressed(text, maxbits, block, clears) ==
    LET e0 == [bits |-> <<>>, group |-> 0, n |-> W!INIT_BITS, maxbits |-> maxbits,
               maxcode |-> W!MAXCODE(W!INIT_BITS) - 1, free |-> IF block THEN Chars + 1 ELSE Chars,
               dict |-> <<>>, ent |-> <<>>, clears |-> clears]
        e == FoldLeft(NextChar, e0, text)
    IN <<31, 157, maxbits + IF block THEN 128 ELSE 0>>
         \o Pack(IF e.ent = <<>> THEN e.bits ELSE Emit(e, CodeOf(e, e.ent)).bits)
LzwText(n) == [i \in 1..n |-> IF i % 7 < 3 THEN i % Chars ELSE (i * i) % 3]
LzwScene(text, maxbits, block, clears) ==
    [Scene(Compressed(text, maxbits, block, clears), text, {}) EXCEPT !.checked = FALSE]
LzwScenes ==
    {LzwScene(LzwText(n), maxbits, clears \/ block, clears) :
       n \in {1, 9, 40, 90}, maxbits \in {10, 11}, block \in BOOLEAN, clears \in BOOLEAN}
    \cup {LzwScene([i \in 1..n |-> 2], 11, TRUE, FALSE) : n \in {3, 30}}
    \cup CutOff(LzwScene(LzwText(40), 11, TRUE, TRUE))
    \cup {Damaged(LzwScene(<<1>>, 11, TRUE, FALSE), f) :
            f \in {<<31, 157, 12 + 128>>, <<31, 157, 11, 7, 0>>, <<31, 157, 11 + 128, 1, 14, 0>>}}

(***************************************************************************)
(* lha: blocks of characters and matches                                   *)
(***************************************************************************)
Canonical(c, lens) == T!send_code(c, lens)
LhCodes(codes, lens, pos) ==
    FlattenSeq([i \in DOMAIN codes |->
      LET k == codes[i]
          p == k.dist - 1
          b == IF p = 0 THEN 0 ELSE Max({x \in 0..12 : 2 ^ x <= p}) + 1
      IN IF k.dist = 0 THEN Canonical(k.lc, lens)
         ELSE Canonical(k.lc + 256, lens) \o Canonical(b, pos)
                \o IF b = 0 THEN <<>> ELSE High(p - 2 ^ (b - 1), b - 1)])
\* Lengths of the codes for lengths (special: after the third, a count of zeros).
PtLens(lens, nbit, special) ==
    LET zeros == IF special THEN Cardinality({k \in 4..6 : \A x \in 4..k : lens[x] = 0}) ELSE 0
        One1(c) == IF c < 7 THEN High(c, 3) ELSE [k \in 1..(c - 4) |-> 1] \o <<0>>
    IN High(Len(lens), nbit)
         \o FlattenSeq([i \in DOMAIN lens |->
              IF special /\ i \in 4..(3 + zeros) THEN <<>>
              ELSE One1(lens[i]) \o IF special /\ i = 3 THEN High(zeros, 2) ELSE <<>>])
\* The runs of zeros and the lengths of the codes for characters.
RECURSIVE CLens(_, _)
CLens(lens, pt) ==
    LET run == IF lens = <<>> \/ lens[1] # 0 THEN 0
               ELSE Max({k \in DOMAIN lens : \A x \in 1..k : lens[x] = 0})
        take == IF run = 19 THEN 18 ELSE run
        Rest(k) == CLens(SubSeq(lens, k + 1, Len(lens)), pt)
    IN IF lens = <<>> THEN <<>>
       ELSE IF run = 0 THEN Canonical(lens[1] + 2, pt) \o Rest(1)
       ELSE IF run < 3 THEN Canonical(0, pt) \o Rest(1)
       ELSE IF run <= 19 THEN Canonical(1, pt) \o High(take - 3, 4) \o Rest(take)
       ELSE Canonical(2, pt) \o High(run - 20, 9) \o Rest(run)
LhBlock(codes, pt, lens, pos) ==
    High(Len(codes), 16) \o PtLens(pt, 5, TRUE) \o High(Len(lens), 9) \o CLens(lens, pt)
      \o PtLens(pos, 4, FALSE) \o LhCodes(codes, lens, pos)
\* One code of length 0 for characters and for positions.
LhSingle(n, c) == High(n, 16) \o High(0, 5) \o High(0, 5) \o High(0, 9) \o High(c, 9)
                    \o High(0, 4) \o High(0, 4)
Lh(blocks, codes) == [Scene(<<31, 160>> \o PackHigh(FlattenSeq(blocks) \o High(0, 16)),
                            TextOf(codes), {}) EXCEPT !.checked = FALSE]
Lens(f) == Tree(f, 0)
LhLens == Lens([c \in {0, 3, 23, 24, 43, 65, 255, 256, 258, 262} |->
                  CASE c = 0 -> 1 [] c = 3 -> 2 [] c = 23 -> 4 [] c \in {255, 258} -> 6
                    [] OTHER -> 5])
LhFlat == Lens([c \in (0..11) \cup {255, 256, 258, 262} |-> 4])
LhPt == Lens([c \in {0, 1, 2, 3, 4, 6, 7, 8} |-> IF c \in {0, 1, 2} THEN 2
                                                ELSE IF c \in {7, 8} THEN 5 ELSE 4])
LhPtDeep == Lens([c \in {0, 1, 2, 3, 4, 6, 7, 8} |->
                    CASE c < 5 -> c + 1 [] c = 6 -> 6 [] OTHER -> 7])
LhPtFlat == Lens([c \in {0, 1, 2, 6} |-> 2])
LhPos == Lens([c \in 0..3 |-> 2])
LhCodes1 == <<Lit(0), Lit(3), Match(1, 9), Match(4, 5), Lit(23), Lit(24), Lit(43), Lit(65),
              Lit(255), Match(8, 3), Match(2, 9), Lit(0)>>
LhCodes2 == <<Lit(255), Match(6, 5), Match(3, 3)>>
LhScenes ==
    {Lh(<<LhBlock(LhCodes1, LhPt, LhLens, LhPos), LhSingle(5, 7),
          LhBlock(LhCodes2, LhPtDeep, LhLens, LhPos), LhBlock(LhCodes2, LhPtFlat, LhFlat, LhPos)>>,
        LhCodes1 \o [i \in 1..5 |-> Lit(7)] \o LhCodes2 \o LhCodes2),
     Lh(<<LhSingle(4, 9)>>, <<Lit(9), Lit(9), Lit(9), Lit(9)>>), Lh(<<>>, <<>>),
     [Lh(<<LhBlock(LhCodes1, LhPt, LhLens, <<2, 2, 2, 3>>)>>, LhCodes1) EXCEPT !.good = FALSE]}

MCScenes == CodeScenes \cup RunScenes \cup EobScenes \cup BlockScenes \cup CutScenes \cup FlipScenes
            \cup BadScenes \cup HeaderScenes \cup MemberScenes \cup OptionScenes \cup CatScenes
            \cup ZipScenes \cup PackScenes \cup LzwScenes \cup LhScenes
====
