---------------------------- MODULE GzipDeflate ----------------------------
(***************************************************************************)
(* deflate() and deflate_fast() of gzip-src (deflate.c), the program from  *)
(* which the parallel one was made, with its loops that run in an OpenMP   *)
(* team: a window of 2 * WSIZE bytes that slides, hash chains through it,  *)
(* lazy or immediate matches, and blocks flushed as their buffer fills.    *)
(*                                                                         *)
(* The variables are those of deflate.c, by their names; an action is a    *)
(* part of a turn of a loop, or one turn of a loop inside.  The sizes are  *)
(* parameters, in the proportions the code asks for; MIN_MATCH stays 3,    *)
(* for longest_match() relies on it.                                       *)
(*                                                                         *)
(* Two teams race.  That of lm_init() does on ins_h, which the loop body   *)
(* reads and writes, so the first hash is any of those the threads can     *)
(* leave.  Those that slide the chains share m, which is declared outside  *)
(* the loops: an entry of head or prev may be tested, or replaced, by what *)
(* another thread has just stored there.                                   *)
(***************************************************************************)
EXTENDS Integers, Sequences, FiniteSets

CONSTANTS
    WSIZE, MAX_MATCH, TOO_FAR, LIT_BUFSIZE,
    ProbeInterval,        \* how often ct_tally considers an early flush (0x1000)
    HASH_SIZE,
    UPDATE_HASH(_, _),    \* a hash key, shifted by one more byte
    Levels,               \* pack levels tried
    configuration_table,  \* for each of them [good, lazy, nice, chain]
    Bytes,
    Inputs,               \* the files: sequences of bytes
    Short,                \* length of a short read
    Stale,                \* bytes the last file may have left in the variables
    MaxMixed(_)           \* bound: entries the race on m spoils while a file is compressed

MIN_MATCH == 3
MIN_LOOKAHEAD == MAX_MATCH + MIN_MATCH + 1
MAX_DIST == WSIZE - MIN_LOOKAHEAD
NIL == 0
window_size == 2 * WSIZE
HashKeys == 0 .. HASH_SIZE - 1

ASSUME GeometryAssumption ==
    WSIZE \in Nat /\ MAX_MATCH \in Nat /\ MAX_MATCH > MIN_MATCH /\ MAX_DIST > 0
ASSUME FilesAssumption ==
    Bytes \subseteq Nat /\ Stale \subseteq Bytes /\ Inputs \subseteq Seq(Bytes) /\ Short \in Nat \ {0}
ASSUME RaceAssumption == \A f \in Inputs : MaxMixed(f) \in Nat
ASSUME LevelsAssumption ==
    /\ Levels \subseteq 1 .. 9 /\ TOO_FAR \in Nat
    /\ \A l \in Levels : configuration_table[l] \in [good : Nat, lazy : Nat, nice : Nat,
                                                     chain : Nat \ {0, 1, 2, 3}]
    /\ LIT_BUFSIZE \in Nat \ {0, 1} /\ ProbeInterval \in Nat \ {0}
\* The mask bounds a key, a byte is one, and the last byte of three is decided by the
\* key and the byte before: two shifts keep what came earlier out of its bits.
ASSUME HashAssumption ==
    /\ HASH_SIZE \in Nat /\ Bytes \subseteq HashKeys /\ 0 \in HashKeys
    /\ \A h \in HashKeys, c \in Bytes : UPDATE_HASH(h, c) \in HashKeys
    /\ \A g, h \in HashKeys, b, c, e \in Bytes :
         UPDATE_HASH(UPDATE_HASH(g, b), c) = UPDATE_HASH(UPDATE_HASH(h, b), e) => c = e

VARIABLES
    input, inpos,                     \* the file, and how much of it was read
    level, asm,                       \* pack level, and whether match.S is linked
    window, behind,                   \* the window, and any byte behind it
    prev, head, ins_h,                \* the hash chains
    strstart, lookahead, block_start, match_start, eofile, prev_length,
    match_length, match_available, prev_match, flush,  \* of deflate() or deflate_fast()
    covered,                          \* strings of a match still to insert
    cur_match, best_len, chain_length,                 \* of longest_match()
    tally,                            \* l_buf, d_buf and flag_buf: tokens not flushed yet
    flushed,                          \* the arguments of the last flush_block
    decoded,                          \* history: what a decoder makes of all tokens so far
    told,                             \* history: bytes of the input they stand for
    wild,                             \* history: ct_tally was given a distance below 0
    sent,                             \* history: how many of those were flushed
    mixed,                            \* history: entries of head and prev slid wrongly
    pc

vars == <<input, inpos, level, asm, window, behind, prev, head, ins_h, strstart, lookahead,
          block_start, match_start, eofile, prev_length, match_length, match_available, prev_match,
          flush, covered, cur_match, best_len, chain_length, tally, flushed, decoded, told, wild, sent,
          mixed, pc>>
given == <<input, level, asm, behind>>
reading == <<given, inpos, window, eofile>>
chains == <<prev, head, ins_h, mixed>>
search == <<cur_match, best_len, chain_length>>
output == <<tally, flushed, decoded, told, wild, sent>>

cfg == configuration_table[level]
fast == level <= 3

\* A byte of the window, or what lies behind it.
byte(i) == IF i < window_size THEN window[i] ELSE behind

\* INSERT_STRING(s, hash_head)
NextKey(s) == UPDATE_HASH(ins_h, byte(s + MIN_MATCH - 1))
HashHead(s) == head[NextKey(s)]
INSERT_STRING(s) ==
    /\ ins_h' = NextKey(s) /\ UNCHANGED mixed
    /\ prev' = [prev EXCEPT ![s % WSIZE] = HashHead(s)]
    /\ head' = [head EXCEPT ![NextKey(s)] = s]

-----------------------------------------------------------------------------
(* Reading                                                                  *)

\* read_buf(): up to size bytes; a pipe or a terminal may give fewer.  Nothing
\* read is the end.
Smaller(a, b) == IF a < b THEN a ELSE b
Reads(size) == LET n == Smaller(size, Len(input) - inpos) IN {n, Smaller(Short, n)}
read_buf(w, at) ==
    \E n \in Reads(window_size - at) :
        /\ window' = [i \in DOMAIN w |-> IF i \in at .. at + n - 1 THEN input[inpos + i - at + 1]
                                                                  ELSE w[i]]
        /\ inpos' = inpos + n
        /\ lookahead' = lookahead + n
        /\ eofile' = (n = 0)

SlidBytes == [i \in DOMAIN window |-> IF i < WSIZE THEN window[i + WSIZE] ELSE window[i]]

\* Mutated: the block start, or the match found last, is not moved.
SlideNotBlock ==
    strstart' = strstart - WSIZE /\ match_start' = match_start - WSIZE /\ UNCHANGED block_start
SlideNotMatch ==
    strstart' = strstart - WSIZE /\ block_start' = block_start - WSIZE /\ UNCHANGED match_start

\* match_start and block_start may become negative.
SlidePositions ==
    /\ match_start' = match_start - WSIZE
    /\ strstart' = strstart - WSIZE
    /\ block_start' = block_start - WSIZE

\* What an entry becomes when m is a as it is tested and b as WSIZE is taken from it;
\* a Pos has 16 bits, so what is negative wraps by 2^16, which is window_size.
Wrapped(i) == IF i < 0 THEN i + window_size ELSE i
SlidTo(a, b) == IF a >= WSIZE THEN Wrapped(b - WSIZE) ELSE NIL
Slid(table) == [x \in DOMAIN table |-> SlidTo(table[x], table[x])]

\* The entries W of a table get something else, from what the team stores in m.
Mixed(table, W) ==
    LET ms == {table[x] : x \in DOMAIN table}
        wrong(x) == {SlidTo(a, b) : a, b \in ms} \ {Slid(table)[x]}
    IN  {[x \in DOMAIN table |-> IF x \in W THEN f[x] ELSE Slid(table)[x]] :
            f \in {g \in [W -> UNION {wrong(x) : x \in W}] : \A x \in W : g[x] \in wrong(x)}}

\* Subsets of T of at most n elements.
Few(T, n) == UNION {{{g[i] : i \in 1 .. k} : g \in [1 .. k -> T]} : k \in 0 .. n}

\* The two parallel loops over head and prev.
SlideChains ==
    \E H \in Few(DOMAIN head, MaxMixed(input) - mixed), P \in Few(DOMAIN prev, MaxMixed(input) - mixed) :
        /\ mixed' = mixed + Cardinality(H) + Cardinality(P)
        /\ mixed' <= MaxMixed(input)
        /\ head' \in Mixed(head, H)
        /\ prev' \in Mixed(prev, P)

\* One turn of while (lookahead < MIN_LOOKAHEAD && !eofile) fill_window().
MustFill == lookahead < MIN_LOOKAHEAD /\ ~eofile
fill_window ==
    /\ pc \in {"begin", "loop"} /\ MustFill
    /\ \/ /\ strstart >= WSIZE + MAX_DIST
          /\ SlidePositions /\ SlideChains
          /\ read_buf(SlidBytes, strstart - WSIZE + lookahead)
       \/ /\ strstart < WSIZE + MAX_DIST
          /\ UNCHANGED <<match_start, strstart, block_start, head, prev, mixed>>
          /\ read_buf(window, strstart + lookahead)
    /\ UNCHANGED <<given, ins_h, prev_length, match_length, match_available, prev_match, flush,
                   covered, search, output, pc>>

\* The static variables are as the file before left them.
Init ==
    /\ input \in Inputs /\ level \in Levels /\ asm \in BOOLEAN
    /\ \E g \in Stale :
         /\ window = [i \in 0 .. window_size - 1 |-> g] /\ behind = g
         /\ prev = [i \in 0 .. WSIZE - 1 |-> g] /\ head = [h \in HashKeys |-> g] /\ ins_h = g
         /\ strstart = g /\ block_start = g /\ match_start = g
    /\ inpos = 0 /\ lookahead = 0 /\ eofile = FALSE
    /\ prev_length = MIN_MATCH - 1
    /\ match_length = (IF fast THEN 0 ELSE MIN_MATCH - 1) /\ match_available = FALSE
    /\ prev_match = 0 /\ flush = FALSE /\ covered = 0
    /\ cur_match = 0 /\ best_len = 0 /\ chain_length = 0
    /\ tally = << >> /\ decoded = << >> /\ told = 0 /\ sent = 0
    /\ wild = FALSE /\ mixed = 0
    /\ flushed = [stored_len |-> 0, has_buf |-> FALSE, buf |-> << >>, from |-> 0, upto |-> 0]
    /\ pc = "init"

\* lm_init() before and after its calls of fill_window().
lm_init ==
    /\ pc = "init"
    /\ head' = [h \in DOMAIN head |-> NIL]
    /\ strstart' = 0 /\ block_start' = 0
    /\ read_buf(window, 0)
    /\ pc' = "begin"
    /\ UNCHANGED <<given, prev, ins_h, mixed, match_start, prev_length, match_length, match_available,
                   prev_match, flush, covered, search, output>>

\* The two iterations in order, in the other order, or at the same time, when
\* the thread that writes last leaves the hash of its byte alone.
FirstHash ==
    LET h(j) == UPDATE_HASH(0, window[j])
    IN  {UPDATE_HASH(h(0), window[1]), UPDATE_HASH(h(1), window[0]), h(0), h(1)}

\* An empty file has no first hash.
HashFirst ==
    /\ pc = "begin" /\ ~MustFill
    /\ ins_h' \in IF lookahead # 0 THEN FirstHash ELSE {ins_h}
    /\ pc' = "loop"
    /\ UNCHANGED <<reading, prev, head, mixed, strstart, lookahead, block_start, match_start,
                   prev_length, match_length, match_available, prev_match, flush, covered, search,
                   output>>

-----------------------------------------------------------------------------
(* longest_match                                                            *)

\* How far the strings at a and b agree, the first bytes being known to.  The C
\* version relies on the hash for the third one; that of match.S compares it.
FirstCompared == IF asm THEN 2 ELSE 3
MatchLength(a, b) ==
    CHOOSE n \in FirstCompared .. MAX_MATCH :
        /\ \A k \in FirstCompared .. n - 1 : byte(a + k) = byte(b + k)
        /\ n = MAX_MATCH \/ byte(a + n) # byte(b + n)

\* The quick test that rejects strings that cannot be longer than best_len.
Promising ==
    \A k \in {0, 1, best_len - 1, best_len} : byte(cur_match + k) = byte(strstart + k)

\* Mutated: the search does not stop at the end of the reach of a match.
LimitNone == IF strstart > MAX_DIST THEN NIL ELSE NIL

Limit == IF strstart > MAX_DIST THEN strstart - MAX_DIST ELSE NIL

\* What the caller makes of the length: no more than there is, and, when it is
\* lazy, nothing short from far away.  Distances are unsigned: ahead is far away too.
Accepted(length, start) ==
    LET m == Smaller(length, lookahead)
    IN  IF ~fast /\ m = MIN_MATCH /\ strstart - start \notin 0 .. TOO_FAR THEN MIN_MATCH - 1 ELSE m

\* One turn: the string at cur_match, then to the next of the chain.
longest_match ==
    /\ pc = "search"
    /\ LET longer == Promising /\ MatchLength(cur_match, strstart) > best_len
           length == IF longer THEN MatchLength(cur_match, strstart) ELSE best_len
           start == IF longer THEN cur_match ELSE match_start
           next == prev[cur_match % WSIZE]
       IN  /\ match_start' = start /\ best_len' = length
           /\ \/ /\ (longer /\ length >= cfg.nice) \/ next <= Limit \/ chain_length = 1
                 /\ match_length' = Accepted(length, start)
                 /\ pc' = "decide" /\ UNCHANGED <<cur_match, chain_length>>
              \/ /\ ~(longer /\ length >= cfg.nice) /\ next > Limit /\ chain_length # 1
                 /\ cur_match' = next /\ chain_length' = chain_length - 1
                 /\ UNCHANGED <<match_length, pc>>
    /\ UNCHANGED <<reading, chains, strstart, lookahead, block_start, prev_length,
                   match_available, prev_match, flush, covered, output>>

-----------------------------------------------------------------------------
(* Tokens and blocks                                                        *)

Literal(c) == [dist |-> 0, lc |-> c]
\* ct_tally takes what has no distance for a literal.
Match(dist, length) == IF dist = 0 THEN Literal(length - MIN_MATCH) ELSE [dist |-> dist, lc |-> length]

\* What a decoder makes of a token: a literal is appended, a match copies from
\* what was decoded before, bytes it has just written included.
DecodeToken(out, token) ==
    IF token.dist = 0 THEN Append(out, token.lc)
    ELSE IF token.dist \notin 1 .. Len(out) THEN << >>
    ELSE out \o [i \in 1 .. token.lc |-> out[Len(out) - token.dist + 1 + ((i - 1) % token.dist)]]

\* What ct_tally may answer when its buffer holds n tokens: full is one place less
\* than there is; whether an early flush pays is a matter of frequencies.
ct_tallyAnswers(n) ==
    IF n = LIT_BUFSIZE - 1 THEN {TRUE}
    ELSE IF level > 2 /\ n % ProbeInterval = 0 THEN BOOLEAN ELSE {FALSE}
ct_tally(token, length) ==
    /\ decoded' = DecodeToken(decoded, token)
    /\ told' = told + length
    /\ wild' = (wild \/ token.dist < 0)
    /\ flush' \in ct_tallyAnswers(Len(tally) + 1)

\* FLUSH_BLOCK: the window from block_start to end, or NULL when part of it has
\* left the window, and the length of what the tokens became.
FLUSH_BLOCK(end) ==
    /\ flushed' = [stored_len |-> end - block_start,
                   has_buf |-> block_start >= 0,
                   buf |-> IF block_start >= 0
                           THEN [i \in 1 .. end - block_start |-> window[block_start + i - 1]]
                           ELSE << >>,
                   from |-> sent, upto |-> told']
    /\ tally' = << >> /\ sent' = told'
FlushIfAsked(tokens, end) ==
    IF flush' THEN FLUSH_BLOCK(end) /\ block_start' = end
    ELSE tally' = tokens /\ UNCHANGED <<flushed, sent, block_start>>

-----------------------------------------------------------------------------
(* deflate_fast and deflate                                                 *)

\* A turn begins: the string at strstart is inserted; unless the chain is out of
\* reach, or deflate() has a match that is good enough, a longer match than the
\* previous one is looked for.
Searches ==
    /\ HashHead(strstart) # NIL /\ strstart - HashHead(strstart) \in 0 .. MAX_DIST
    /\ fast \/ match_length < cfg.lazy
StartTurn ==
    /\ pc = "loop" /\ ~MustFill /\ lookahead # 0
    /\ INSERT_STRING(strstart)
    /\ IF fast THEN UNCHANGED <<prev_length, prev_match, match_length>>
       ELSE /\ prev_length' = match_length /\ prev_match' = match_start
            /\ match_length' = MIN_MATCH - 1
    /\ cur_match' = HashHead(strstart)
    /\ best_len' = prev_length'
    /\ chain_length' = IF prev_length' >= cfg.good THEN cfg.chain \div 4 ELSE cfg.chain
    /\ pc' = IF Searches THEN "search" ELSE "decide"
    /\ UNCHANGED <<reading, strstart, lookahead, block_start, match_start, match_available, flush,
                   covered, output>>

\* deflate_fast takes the match it found and inserts its strings ...
TakeFound ==
    /\ pc = "decide" /\ fast /\ match_length >= MIN_MATCH /\ match_length <= cfg.lazy
    /\ ct_tally(Match(strstart - match_start, match_length), match_length)
    /\ tally' = Append(tally, Match(strstart - match_start, match_length))
    /\ lookahead' = lookahead - match_length
    /\ covered' = match_length - 1
    /\ pc' = "insert"
    /\ UNCHANGED <<reading, chains, strstart, block_start, match_start, prev_length, match_length,
                   match_available, prev_match, search, flushed, sent>>

\* Mutated: the strings that are left out do not get a new hash.
NewHashNot(s) == ins_h

NewHash(s) == UPDATE_HASH(byte(s), byte(s + 1))

\* ... or leaves them out if it is long.
SkipFound ==
    /\ pc = "decide" /\ fast /\ match_length >= MIN_MATCH /\ match_length > cfg.lazy
    /\ ct_tally(Match(strstart - match_start, match_length), match_length)
    /\ FlushIfAsked(Append(tally, Match(strstart - match_start, match_length)), strstart + match_length)
    /\ strstart' = strstart + match_length /\ lookahead' = lookahead - match_length
    /\ match_length' = 0
    /\ ins_h' = NewHash(strstart + match_length)
    /\ pc' = "loop"
    /\ UNCHANGED <<reading, prev, head, mixed, match_start, prev_length, match_available,
                   prev_match, covered, search>>

FastLiteral ==
    /\ pc = "decide" /\ fast /\ match_length < MIN_MATCH
    /\ ct_tally(Literal(window[strstart]), 1)
    /\ FlushIfAsked(Append(tally, Literal(window[strstart])), strstart + 1)
    /\ strstart' = strstart + 1 /\ lookahead' = lookahead - 1
    /\ pc' = "loop"
    /\ UNCHANGED <<reading, chains, match_start, prev_length, match_length, match_available,
                   prev_match, covered, search>>

\* deflate takes the previous match if the one found here is not better ...
TakesPrevious == prev_length >= MIN_MATCH /\ match_length <= prev_length
TakePrevious ==
    /\ pc = "decide" /\ ~fast /\ TakesPrevious
    /\ ct_tally(Match(strstart - 1 - prev_match, prev_length), prev_length)
    /\ tally' = Append(tally, Match(strstart - 1 - prev_match, prev_length))
    /\ lookahead' = lookahead - (prev_length - 1)
    /\ covered' = prev_length - 2
    /\ pc' = "insert"
    /\ UNCHANGED <<reading, chains, strstart, block_start, match_start, prev_length, match_length,
                   match_available, prev_match, search, flushed, sent>>

\* ... and the strings a match covers are inserted, one after the other.
InsertCovered ==
    /\ pc = "insert"
    /\ INSERT_STRING(strstart + 1)
    /\ covered' = covered - 1 /\ UNCHANGED flush
    /\ \/ /\ covered # 1
          /\ strstart' = strstart + 1
          /\ UNCHANGED <<match_available, match_length, block_start, output, pc>>
       \/ /\ covered = 1
          /\ strstart' = strstart + 2
          /\ match_available' = FALSE
          /\ match_length' = (IF fast THEN 0 ELSE MIN_MATCH - 1)
          /\ UNCHANGED <<decoded, told, wild>> /\ FlushIfAsked(tally, strstart + 2)
          /\ pc' = "loop"
    /\ UNCHANGED <<reading, lookahead, match_start, prev_length, prev_match, search>>

\* There was no match at the previous position, or a better one begins here.
LazyLiteral ==
    /\ pc = "decide" /\ ~fast /\ ~TakesPrevious /\ match_available
    /\ ct_tally(Literal(window[strstart - 1]), 1)
    /\ FlushIfAsked(Append(tally, Literal(window[strstart - 1])), strstart)
    /\ strstart' = strstart + 1 /\ lookahead' = lookahead - 1
    /\ pc' = "loop"
    /\ UNCHANGED <<reading, chains, match_start, prev_length, match_length, match_available,
                   prev_match, covered, search>>

Defer ==
    /\ pc = "decide" /\ ~fast /\ ~TakesPrevious /\ ~match_available
    /\ match_available' = TRUE
    /\ strstart' = strstart + 1 /\ lookahead' = lookahead - 1
    /\ pc' = "loop"
    /\ UNCHANGED <<reading, chains, block_start, match_start, prev_length, match_length,
                   prev_match, flush, covered, search, output>>

\* The last literal, and the last block.
Finish ==
    /\ pc = "loop" /\ ~MustFill /\ lookahead = 0
    /\ IF match_available
       THEN decoded' = DecodeToken(decoded, Literal(window[strstart - 1])) /\ told' = told + 1
       ELSE UNCHANGED <<decoded, told>>
    /\ UNCHANGED wild /\ FLUSH_BLOCK(strstart)
    /\ pc' = "done"
    /\ UNCHANGED <<reading, chains, strstart, lookahead, block_start, match_start, prev_length,
                   match_length, match_available, prev_match, flush, covered, search>>

Ended == pc = "done" /\ UNCHANGED vars

deflate_fast == TakeFound \/ SkipFound \/ FastLiteral
deflate == TakePrevious \/ LazyLiteral \/ Defer
Next ==
    \/ lm_init \/ fill_window \/ HashFirst
    \/ StartTurn \/ longest_match \/ deflate_fast \/ deflate \/ InsertCovered \/ Finish
    \/ Ended

Spec == Init /\ [][Next]_vars

-----------------------------------------------------------------------------
(* Properties                                                               *)

\* The tokens decode to the input, up to the byte that waits for a decision, and at
\* the end to all of it: whatever first hash the race on ins_h left, whatever the
\* reads give, and although the C version of longest_match() never compares the
\* third byte of a match.  This and the next two say nothing of a file during which the
\* race on m spoiled an entry: FileRestored shows what may become of it.
Undecided == IF match_available /\ pc \notin {"insert", "done"} THEN 1 ELSE 0
DecodesToInput ==
    mixed = 0 =>
    /\ decoded = SubSeq(input, 1, inpos - lookahead - Undecided)
    /\ pc = "done" => decoded = input

\* What ct_tally is given is a match that deflate can express (the Assert of ct_tally,
\* trees.c:1008), although match_start is kept over turns and slides and a match is
\* cut at the end of the file.
MatchesInReach ==
    mixed = 0 =>
    \A i \in DOMAIN tally :
        tally[i].dist # 0 => tally[i].lc \in MIN_MATCH .. MAX_MATCH /\ tally[i].dist \in 1 .. MAX_DIST

\* "no future" (deflate.c:400), and "it is not necessary to compare scan[2] and match[2]
\* since they are always equal when the other bytes match" (deflate.c:447): a chain
\* leads back to strings in reach with the same third byte, although the first hash is
\* the result of a race and deflate_fast leaves out strings.
CandidatesSound ==
    pc = "search" /\ mixed = 0 =>
    /\ cur_match \in 1 .. strstart - 1 /\ strstart - cur_match <= MAX_DIST
    /\ Promising => byte(cur_match + 2) = byte(strstart + 2)

\* A block is flushed with the very input it compresses, or with NULL when the
\* window has slid past its start, and with its length: also when the race on m makes
\* the tokens wrong, but not after a distance below 0, with which ct_tally counts in
\* front of its tables; what that overwrites is not followed.
BlockTextRight ==
    ~wild =>
    /\ flushed.stored_len = flushed.upto - flushed.from
    /\ flushed.has_buf => flushed.buf = SubSeq(input, flushed.from + 1, flushed.upto)
    /\ pc = "done" => flushed.upto = Len(input)

\* "Compressed files can be restored to their original form using gzip -d" (gzip.1:63):
\* the race on m when the chains are slid may make longest_match() take a string that
\* is not equal, or not before, for a match.
FileRestored == pc = "done" => decoded = input

\* Assert(strstart <= window_size-MIN_LOOKAHEAD, "insufficient lookahead")
\* (deflate.c:397): when longest_match() begins, a match of any length ends inside
\* the window.
SufficientLookahead == pc = "search" /\ ~asm => strstart <= window_size - MIN_LOOKAHEAD
=============================================================================
