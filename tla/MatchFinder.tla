---------------------------- MODULE MatchFinder ----------------------------
(***************************************************************************)
(* What a worker does to one block: deflate_work() turns its bytes into    *)
(* literals and matches, with the sliding window, hash chains and lazy     *)
(* evaluation of longest_match(), fill_window() and lm_init(), and cuts    *)
(* the result where ct_tally() says that its buffer should be flushed.     *)
(*                                                                         *)
(* The variables are the fields of the thread context and the locals of    *)
(* deflate_work() and longest_match(), by their names; an action is a part *)
(* of a turn of the loop of deflate_work(), or one turn of a loop inside.  *)
(* The constants of the C code are parameters, so that the window slides   *)
(* on inputs of some tens of bytes; MIN_MATCH stays 3, because             *)
(* longest_match() relies on it.                                           *)
(***************************************************************************)
EXTENDS Integers, Sequences

CONSTANTS
    WSIZE,             \* half of the window
    MAX_MATCH,
    HASH_SIZE,
    UPDATE_HASH(_, _), \* a hash key, shifted by one more byte
    TOO_FAR,           \* matches of length 3 are not taken from further away
    LIT_BUFSIZE,       \* ct_tally's buffer
    ProbeInterval,     \* how often ct_tally considers an early flush (0x1000)
    max_lazy_match, good_match, nice_match, max_chain_length,
    Bytes,
    Inputs,            \* the blocks to compress, sequences of bytes
    Stale              \* bytes the last block may have left in the window

MIN_MATCH == 3
MIN_LOOKAHEAD == MAX_MATCH + MIN_MATCH + 1
MAX_DIST == WSIZE - MIN_LOOKAHEAD
NIL == 0
HashKeys == 0 .. HASH_SIZE - 1

\* The key of three bytes, from any key before.
HashKey(h, a, b, c) == UPDATE_HASH(UPDATE_HASH(UPDATE_HASH(h, a), b), c)

ASSUME WindowAssumption ==
    WSIZE \in Nat /\ MAX_MATCH \in Nat /\ MAX_MATCH > MIN_MATCH /\ MAX_DIST > 0
ASSUME InputsAssumption ==
    Bytes \subseteq Nat /\ Stale \subseteq Bytes /\ Inputs \subseteq Seq(Bytes) /\ << >> \notin Inputs
ASSUME ConfigAssumption ==
    /\ good_match \in Nat /\ nice_match \in Nat /\ max_lazy_match \in Nat /\ TOO_FAR \in Nat
    /\ max_chain_length \in Nat /\ max_chain_length >= 4
    /\ LIT_BUFSIZE \in Nat /\ LIT_BUFSIZE > 1 /\ ProbeInterval \in Nat \ {0}
\* The mask bounds a key, three shifts push the oldest byte out of it, and a key
\* has no fewer bits than a byte.
ASSUME HashAssumption ==
    /\ HASH_SIZE \in Nat \ {0}
    /\ \A h \in HashKeys, c \in Bytes : UPDATE_HASH(h, c) \in HashKeys
    /\ \A h \in HashKeys, a, b, c \in Bytes : HashKey(h, a, b, c) = HashKey(0, a, b, c)
    /\ \A h \in HashKeys, c, d \in Bytes : UPDATE_HASH(h, c) = UPDATE_HASH(h, d) => c = d

VARIABLES
    input,                            \* full_input_buffer
    inpos,                            \* full_input_buffer_bytes_read
    window, behind,                   \* the window, and any byte behind it
    prev, head, ins_h,                \* the hash chains
    strstart, lookahead, block_start, match_start, eofile, prev_length,
    match_length, match_available, prev_match, flush,  \* of deflate_work()
    cur_match, best_len, chain_length,                 \* of longest_match()
    tally,                            \* l_buf, d_buf and flag_buf: tokens not flushed yet
    flushed,                          \* the arguments and tokens of the last flush_block
    decoded,                          \* history: what a decoder makes of all tokens so far
    sent,                             \* history: how much of that was flushed
    pc

vars == <<input, inpos, window, behind, prev, head, ins_h, strstart, lookahead, block_start,
          match_start, eofile, prev_length, match_length, match_available, prev_match, flush,
          cur_match, best_len, chain_length, tally, flushed, decoded, sent, pc>>
reading == <<input, inpos, window, behind, eofile>>
chains == <<prev, head, ins_h>>
search == <<cur_match, best_len, chain_length>>
output == <<tally, flushed, decoded, sent>>

\* A byte of the window, or what lies behind it.
byte(i) == IF i < 2 * WSIZE THEN window[i] ELSE behind

\* INSERT_STRING(s, hash_head)
NextKey(s) == UPDATE_HASH(ins_h, byte(s + MIN_MATCH - 1))
HashHead(s) == head[NextKey(s)]
INSERT_STRING(s) ==
    /\ ins_h' = NextKey(s)
    /\ prev' = [prev EXCEPT ![s % WSIZE] = HashHead(s)]
    /\ head' = [head EXCEPT ![NextKey(s)] = s]

-----------------------------------------------------------------------------
(* The window                                                               *)

\* Mutated: the bytes ahead are taken for free space.
MoreIgnoresLookahead(at) == 2 * WSIZE - at + lookahead

More(at) == 2 * WSIZE - at

\* thread_read_buf puts the next bytes of the block, as many as there is room
\* for, at `at`; nothing read is the end.
ReadSize(size) == IF size > Len(input) - inpos THEN Len(input) - inpos ELSE size
thread_read_buf(w, at) ==
    LET n == ReadSize(More(at))
    IN  /\ window' = [i \in DOMAIN w |-> IF i \in at .. at + n - 1 THEN input[inpos + i - at + 1]
                                                                  ELSE w[i]]
        /\ inpos' = inpos + n
        /\ lookahead' = lookahead + n
        /\ eofile' = (n = 0)

ShiftedBytes == [i \in DOMAIN window |-> IF i < WSIZE THEN window[i + WSIZE] ELSE window[i]]

\* Mutated: the last match, or the start of the block, stays where it was.
ShiftPositionsNotMatch ==
    strstart' = strstart - WSIZE /\ block_start' = block_start - WSIZE /\ UNCHANGED match_start
ShiftPositionsNotBlock ==
    strstart' = strstart - WSIZE /\ match_start' = match_start - WSIZE /\ UNCHANGED block_start

\* match_start and block_start may become negative.
ShiftPositions ==
    /\ match_start' = match_start - WSIZE
    /\ strstart' = strstart - WSIZE
    /\ block_start' = block_start - WSIZE

\* Mutated: the chains keep pointing to where the strings were.
ShiftChainsNot == UNCHANGED <<head, prev>>

ShiftChains ==
    LET Moved(m) == IF m >= WSIZE THEN m - WSIZE ELSE NIL
    IN  /\ head' = [h \in DOMAIN head |-> Moved(head[h])]
        /\ prev' = [p \in DOMAIN prev |-> Moved(prev[p])]

\* Mutated: the window slides too late.
IsAlmostFullLate == strstart >= WSIZE + MAX_DIST + MIN_MATCH

IsAlmostFull == strstart >= WSIZE + MAX_DIST

\* One turn of while (lookahead < MIN_LOOKAHEAD && !eofile) fill_window(tc): the
\* upper half of an almost full window becomes the lower one, and the rest is
\* filled up.
NeedsMore == lookahead < MIN_LOOKAHEAD /\ ~eofile
fill_window ==
    /\ pc \in {"begin", "loop"} /\ NeedsMore
    /\ \/ /\ IsAlmostFull
          /\ ShiftPositions /\ ShiftChains
          /\ thread_read_buf(ShiftedBytes, strstart - WSIZE + lookahead)
       \/ /\ ~IsAlmostFull
          /\ UNCHANGED <<match_start, strstart, block_start, head, prev>>
          /\ thread_read_buf(window, strstart + lookahead)
    /\ UNCHANGED <<input, behind, ins_h, prev_length, match_length, match_available, prev_match,
                   flush, search, output, pc>>

\* A context that is used again keeps what the last block left in it.
Init ==
    /\ input \in Inputs
    /\ \E g \in Stale :
         /\ window = [i \in 0 .. 2 * WSIZE - 1 |-> g] /\ behind = g
         /\ prev = [i \in 0 .. WSIZE - 1 |-> g] /\ head = [h \in HashKeys |-> g]
         /\ strstart = g /\ block_start = g /\ match_start = g
    /\ ins_h = 0 /\ inpos = 0 /\ lookahead = 0 /\ eofile = FALSE /\ prev_length = 0
    /\ match_length = MIN_MATCH - 1 /\ match_available = FALSE
    /\ prev_match = 0 /\ flush = FALSE
    /\ cur_match = 0 /\ best_len = 0 /\ chain_length = 0
    /\ tally = << >> /\ decoded = << >> /\ sent = 0
    /\ flushed = [tokens |-> << >>, stored_len |-> 0, has_buf |-> FALSE, buf |-> << >>,
                  from |-> 0, upto |-> 0]
    /\ pc = "init"

\* lm_init() before and after its calls of fill_window().
lm_init ==
    /\ pc = "init"
    /\ head' = [h \in DOMAIN head |-> NIL]
    /\ strstart' = 0 /\ block_start' = 0
    /\ thread_read_buf(window, 0)
    /\ pc' = "begin"
    /\ UNCHANGED <<input, behind, prev, ins_h, match_start, prev_length, match_length,
                   match_available, prev_match, flush, search, output>>

HashFirst ==
    /\ pc = "begin" /\ ~NeedsMore
    /\ ins_h' = UPDATE_HASH(UPDATE_HASH(0, window[0]), window[1])
    /\ pc' = "loop"
    /\ UNCHANGED <<reading, prev, head, strstart, lookahead, block_start, match_start, prev_length,
                   match_length, match_available, prev_match, flush, search, output>>

-----------------------------------------------------------------------------
(* longest_match                                                            *)

\* How far the strings at a and b agree.  Byte 2 is not compared: the hash
\* keys of the two are equal.
MatchLength(a, b) ==
    CHOOSE n \in MIN_MATCH .. MAX_MATCH :
        /\ \A k \in (0 .. n - 1) \ {2} : byte(a + k) = byte(b + k)
        /\ n = MAX_MATCH \/ byte(a + n) # byte(b + n)

\* The quick test that rejects strings that cannot be longer than best_len.
MayBeLonger ==
    \A k \in {0, 1, best_len - 1, best_len} : byte(cur_match + k) = byte(strstart + k)

\* Mutated: the search does not stop at the end of the reach of a match.
LimitNone == IF strstart > MAX_DIST THEN NIL ELSE NIL

Limit == IF strstart > MAX_DIST THEN strstart - MAX_DIST ELSE NIL

\* Assert(strstart <= window_size - MIN_LOOKAHEAD)
SufficientLookahead == strstart <= 2 * WSIZE - MIN_LOOKAHEAD

\* What deflate_work() makes of the result: no more than there is, and nothing
\* short from far away.
Accepted(length, start) ==
    LET m == IF length > lookahead THEN lookahead ELSE length
    IN  IF m = MIN_MATCH /\ strstart - start > TOO_FAR THEN MIN_MATCH - 1 ELSE m

\* One turn: the string at cur_match, then to the next of the chain.
longest_match ==
    /\ pc = "search"
    /\ LET better == MayBeLonger /\ MatchLength(cur_match, strstart) > best_len
           length == IF better THEN MatchLength(cur_match, strstart) ELSE best_len
           start == IF better THEN cur_match ELSE match_start
           next == prev[cur_match % WSIZE]
       IN  /\ match_start' = start /\ best_len' = length
           /\ \/ /\ (better /\ length >= nice_match) \/ next <= Limit \/ chain_length = 1
                 /\ match_length' = Accepted(length, start)
                 /\ pc' = "decide" /\ UNCHANGED <<cur_match, chain_length>>
              \/ /\ ~(better /\ length >= nice_match) /\ next > Limit /\ chain_length # 1
                 /\ cur_match' = next /\ chain_length' = chain_length - 1
                 /\ UNCHANGED <<match_length, pc>>
    /\ UNCHANGED <<reading, chains, strstart, lookahead, block_start, prev_length,
                   match_available, prev_match, flush, output>>

-----------------------------------------------------------------------------
(* deflate_work                                                             *)

Literal(c) == [dist |-> 0, lc |-> c]
Match(dist, length) == [dist |-> dist, lc |-> length]

\* What a decoder makes of a token: a literal is appended, a match copies from
\* what was decoded before, bytes it has just written included.
DecodeToken(out, token) ==
    IF token.dist = 0 THEN Append(out, token.lc)
    ELSE IF token.dist \notin 1 .. Len(out) THEN << >>
    ELSE out \o [i \in 1 .. token.lc |-> out[Len(out) - token.dist + 1 + ((i - 1) % token.dist)]]

\* What ct_tally may answer when its buffer holds n tokens.  Whether an early
\* flush pays is a matter of frequencies, which are not in this module.
ct_tallyAnswers(n) ==
    IF n = LIT_BUFSIZE - 1 THEN {TRUE}
    ELSE IF n % ProbeInterval = 0 THEN BOOLEAN ELSE {FALSE}

\* FLUSH_BLOCK: the window from block_start to strstart, or NULL when part of it
\* has left the window, and the tokens it became, of which out is decoded.
FLUSH_BLOCK(tokens, out, end) ==
    /\ flushed' = [tokens |-> tokens, stored_len |-> end - block_start,
                   has_buf |-> block_start >= 0,
                   buf |-> IF block_start >= 0
                           THEN [i \in 1 .. end - block_start |-> window[block_start + i - 1]]
                           ELSE << >>,
                   from |-> sent, upto |-> Len(out)]
    /\ tally' = << >> /\ sent' = Len(out)

\* A turn begins: the string at strstart is inserted; a better match than the
\* previous one is looked for unless that one is good enough or the chain is out
\* of reach.  Without enough lookahead error() ends the program.
Searches ==
    /\ HashHead(strstart) # NIL
    /\ match_length < max_lazy_match
    /\ strstart - HashHead(strstart) <= MAX_DIST

StartTurn ==
    /\ pc = "loop" /\ ~NeedsMore /\ lookahead # 0
    /\ INSERT_STRING(strstart)
    /\ prev_length' = match_length /\ prev_match' = match_start
    /\ match_length' = MIN_MATCH - 1
    /\ cur_match' = HashHead(strstart)
    /\ best_len' = match_length
    /\ chain_length' = IF match_length >= good_match THEN max_chain_length \div 4
                                                     ELSE max_chain_length
    /\ \/ ~Searches /\ pc' = "decide"
       \/ Searches /\ SufficientLookahead /\ pc' = "search"
       \/ Searches /\ ~SufficientLookahead /\ pc' = "aborted"
    /\ UNCHANGED <<reading, strstart, lookahead, block_start, match_start, match_available, flush,
                   output>>

TakesPrevious == prev_length >= MIN_MATCH /\ match_length <= prev_length

\* The previous match is taken ...
EmitMatch ==
    /\ pc = "decide" /\ TakesPrevious
    /\ LET token == Match(strstart - 1 - prev_match, prev_length)
       IN  /\ tally' = Append(tally, token)
           /\ decoded' = DecodeToken(decoded, token)
    /\ flush' \in ct_tallyAnswers(Len(tally) + 1)
    /\ lookahead' = lookahead - (prev_length - 1)
    /\ prev_length' = prev_length - 2
    /\ pc' = "insert"
    /\ UNCHANGED <<reading, chains, strstart, block_start, match_start, match_length,
                   match_available, prev_match, search, flushed, sent>>

\* ... and the strings it covers are inserted, one after the other.
InsertNext ==
    /\ pc = "insert"
    /\ INSERT_STRING(strstart + 1)
    /\ prev_length' = prev_length - 1
    /\ \/ /\ prev_length # 1
          /\ strstart' = strstart + 1
          /\ UNCHANGED <<match_available, match_length, block_start, output, pc>>
       \/ /\ prev_length = 1
          /\ strstart' = strstart + 2
          /\ match_available' = FALSE /\ match_length' = MIN_MATCH - 1
          /\ IF flush THEN FLUSH_BLOCK(tally, decoded, strstart + 2) /\ block_start' = strstart + 2
             ELSE UNCHANGED <<tally, flushed, sent, block_start>>
          /\ pc' = "loop" /\ UNCHANGED decoded
    /\ UNCHANGED <<reading, lookahead, match_start, prev_match, flush, search>>

\* There was no match at the previous position, or a better one begins here.
EmitLiteral ==
    /\ pc = "decide" /\ ~TakesPrevious /\ match_available
    /\ LET token == Literal(window[strstart - 1])
       IN  /\ decoded' = DecodeToken(decoded, token)
           /\ flush' \in ct_tallyAnswers(Len(tally) + 1)
           /\ IF flush'
              THEN FLUSH_BLOCK(Append(tally, token), decoded', strstart) /\ block_start' = strstart
              ELSE tally' = Append(tally, token) /\ UNCHANGED <<flushed, sent, block_start>>
    /\ strstart' = strstart + 1 /\ lookahead' = lookahead - 1
    /\ pc' = "loop"
    /\ UNCHANGED <<reading, chains, match_start, prev_length, match_length, match_available,
                   prev_match, search>>

Defer ==
    /\ pc = "decide" /\ ~TakesPrevious /\ ~match_available
    /\ match_available' = TRUE
    /\ strstart' = strstart + 1 /\ lookahead' = lookahead - 1
    /\ pc' = "loop"
    /\ UNCHANGED <<reading, chains, block_start, match_start, prev_length, match_length,
                   prev_match, flush, search, output>>

\* The last literal, and the last block.
Finish ==
    /\ pc = "loop" /\ ~NeedsMore /\ lookahead = 0
    /\ LET last == Literal(window[strstart - 1])
       IN  IF match_available
           THEN decoded' = DecodeToken(decoded, last) /\ FLUSH_BLOCK(Append(tally, last), decoded', strstart)
           ELSE UNCHANGED decoded /\ FLUSH_BLOCK(tally, decoded, strstart)
    /\ pc' = "done"
    /\ UNCHANGED <<reading, chains, strstart, lookahead, block_start, match_start, prev_length,
                   match_length, match_available, prev_match, flush, search>>

Ended == pc \in {"done", "aborted"} /\ UNCHANGED vars

deflate_work == StartTurn \/ longest_match \/ EmitMatch \/ InsertNext \/ EmitLiteral \/ Defer \/ Finish
Next == lm_init \/ fill_window \/ HashFirst \/ deflate_work \/ Ended

Spec == Init /\ [][Next]_vars

-----------------------------------------------------------------------------
(* Properties                                                               *)

\* A match is one that deflate can express, and the Assert of ct_tally holds: its
\* length and its distance are within bounds, although match_start is kept over
\* turns and slides and a match is cut at the end of the block.
MatchesInReach ==
    \A s \in {tally, flushed.tokens} : \A i \in DOMAIN s :
        s[i].dist # 0 => s[i].lc \in MIN_MATCH .. MAX_MATCH /\ s[i].dist \in 1 .. MAX_DIST

\* Decoding what was tallied gives back the block up to the byte that is waiting
\* for a decision: no byte is lost, doubled or changed by lazy matching, by the
\* third byte nobody compares, by garbage behind the input or by the slide.  When
\* the loop ends it is the whole block: a window without room cannot be taken for
\* the end of the input.
Undecided == IF match_available /\ pc \notin {"insert", "done"} THEN 1 ELSE 0
DecodesToInput ==
    /\ decoded = SubSeq(input, 1, inpos - lookahead - Undecided)
    /\ pc = "done" => decoded = input

\* The length flush_block is given is that of what its tokens decode to, over
\* slides and pending literals, and when it is given a buffer, it holds those
\* bytes, so that storing them is an alternative to sending the tokens.
StoredBlockIntact ==
    /\ flushed.stored_len = flushed.upto - flushed.from
    /\ flushed.has_buf => flushed.buf = SubSeq(decoded, flushed.from + 1, flushed.upto)

HashOf(s) == HashKey(0, byte(s), byte(s + 1), byte(s + 2))

\* Following a chain always leads back, to strings with the hash key of the
\* chain, although prev is a ring that is overwritten and shifted: the search
\* ends, has "no future", and need not compare the third byte.
ChainsSound ==
    pc = "loop" =>
    /\ \A h \in DOMAIN head : head[h] > Limit => head[h] < strstart /\ HashOf(head[h]) = h
    /\ \A s \in Limit + 1 .. strstart - 1 :
         LET m == prev[s % WSIZE]
         IN  m > Limit => m < s /\ HashOf(m) = HashOf(s)

\* The Assert of longest_match, "insufficient lookahead", is not always true: a block
\* can end in the last MIN_LOOKAHEAD bytes of the window, which then slides no more.
\* It fails for no other reason, and nothing was compressed wrongly until then.
FailsOnlyAtEnd == pc = "aborted" => eofile /\ lookahead < MIN_LOOKAHEAD
=============================================================================
