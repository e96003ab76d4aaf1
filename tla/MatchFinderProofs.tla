------------------------- MODULE MatchFinderProofs -------------------------
(***************************************************************************)
(* The properties of MatchFinder, proved for blocks of every length and    *)
(* content, every size of the window and every choice of the limits.       *)
(*                                                                         *)
(* The window is a piece of the block that moves: what lies at i is the    *)
(* byte Base + i of the block, and match_start, prev_match and block_start *)
(* only mean something relative to Base.  The inductive invariant          *)
(* therefore says of the block, not of the window, which of its parts are  *)
(* equal, and the slide leaves it alone.  It is built in four layers, each *)
(* proved with the help of those before it: the window (WindowInv), the    *)
(* chains (ChainInv), the matches kept over turns (MatchInv) and the       *)
(* output (TokensInv, DecodedInv, BlockInv).                               *)
(***************************************************************************)
EXTENDS MatchFinder, SequenceTheorems, WellFoundedInduction, TLAPS

-----------------------------------------------------------------------------
(* Numbers and sequences                                                   *)

\* A set of natural numbers has a least element.
LEMMA Least ==
    ASSUME NEW T, T \subseteq Nat, T # {}
    PROVE  \E n \in T : \A m \in T : n <= m
  <1> DEFINE R == {ss \in Nat \X Nat : ss[1] < ss[2]}
  <1>1. IsWellFoundedOn(R, Nat)
    BY NatLessThanWellFounded DEF OpToRel
  <1>2. \A n, m \in Nat : m < n => <<m, n>> \in R
    OBVIOUS
  <1> HIDE DEF R
  <1>3. PICK n \in T : \A m \in T : ~(<<m, n>> \in R)
    BY <1>1, WFMin
  <1>4. \A m \in T : n \in Nat /\ m \in Nat /\ ~(m < n)
    BY <1>2, <1>3
  <1>5. \A p, q \in Nat : ~(q < p) => p <= q
    OBVIOUS
  <1>6. \A m \in T : n <= m
    BY <1>4, <1>5
  <1> QED BY <1>6

\* The remainder is what is left of a number.
LEMMA ModFacts ==
    ASSUME NEW a \in Nat, NEW d \in Nat \ {0}
    PROVE  /\ a % d \in 0 .. d - 1 /\ a \div d \in Nat /\ a = d * (a \div d) + (a % d)
           /\ a < d => a % d = a
  <1>1. a % d \in 0 .. d - 1
    OBVIOUS
  <1>2. a = d * (a \div d) + (a % d) /\ a \div d \in Nat
    OBVIOUS
  <1>3. a < d => a % d = a
    OBVIOUS
  <1> QED BY <1>1, <1>2, <1>3

LEMMA ModUnique ==
    ASSUME NEW a \in Nat, NEW d \in Nat \ {0}, NEW q \in Int, NEW r \in 0 .. d - 1, a = d * q + r
    PROVE  a % d = r
  OBVIOUS

LEMMA Multiple == ASSUME NEW d \in Nat \ {0}, NEW q \in Int, q >= 1 PROVE d * q >= d
  OBVIOUS

\* A whole turn of the ring leads to the same entry.
LEMMA ModTurn ==
    ASSUME NEW a \in Nat, NEW d \in Nat \ {0}
    PROVE  (a + d) % d = a % d
  <1>1. a % d \in 0 .. d - 1 /\ a \div d \in Nat /\ a = d * (a \div d) + (a % d)
    BY ModFacts
  <1> DEFINE q == a \div d
             r == a % d
  <1>2. r \in 0 .. d - 1 /\ q \in Nat /\ a = d * q + r
    BY <1>1
  <1> HIDE DEF q, r
  <1>3. a + d = d * (q + 1) + r /\ q + 1 \in Int /\ a + d \in Nat
    BY <1>2
  <1>4. (a + d) % d = r
    BY <1>2, <1>3, ModUnique
  <1> QED BY <1>4 DEF r

\* Less than a turn leads to another one.
LEMMA ModApart ==
    ASSUME NEW d \in Nat \ {0}, NEW a \in Nat, NEW b \in Nat, a < b, b < a + d
    PROVE  a % d # b % d
  <1> SUFFICES ASSUME a % d = b % d PROVE FALSE
    OBVIOUS
  <1> DEFINE p == a \div d
             q == b \div d
             r == a % d
  <1>1. r \in 0 .. d - 1 /\ p \in Nat /\ a = d * p + r
    BY ModFacts
  <1>2. q \in Nat /\ b = d * q + r
    BY ModFacts
  <1> HIDE DEF p, q, r
  <1>3. b - a = d * (q - p) /\ q - p \in Int
    BY <1>1, <1>2
  <1> DEFINE n == q - p
  <1>4. n \in Int /\ b - a = d * n
    BY <1>3
  <1> HIDE DEF n
  <1>5. CASE n >= 1
    BY <1>4, <1>5, Multiple
  <1>6. CASE n <= 0
    <2>1. -n \in Nat /\ d * n <= 0
      BY <1>6, <1>4
    <2> QED BY <2>1, <1>4
  <1> QED BY <1>4, <1>5, <1>6

-----------------------------------------------------------------------------

\* An array is a sequence.
LEMMA FunctionSeq ==
    ASSUME NEW S, NEW n \in Nat, NEW f \in [1 .. n -> S]
    PROVE  f \in Seq(S) /\ Len(f) = n
  OBVIOUS

\* The n elements of s after p are those that came d before.
Copies(s, p, d, n) == \A k \in 0 .. n - 1 : s[p + k + 1] = s[p - d + k + 1]

\* They repeat the d elements before p.
Cycles(s, p, d, n) == \A k \in 0 .. n - 1 : s[p + k + 1] = s[p - d + 1 + (k % d)]

\* A copy that reaches into itself goes round.
LEMMA Repeats ==
    ASSUME NEW s, NEW p \in Nat, NEW d \in Nat \ {0}, NEW n \in Nat, Copies(s, p, d, n)
    PROVE  Cycles(s, p, d, n)
  <1> DEFINE T == {k \in 0 .. n - 1 : s[p + k + 1] # s[p - d + 1 + (k % d)]}
  <1> SUFFICES ASSUME T # {} PROVE FALSE
    BY DEF Cycles
  <1>1. T \subseteq Nat
    OBVIOUS
  <1>2. PICK k \in T : \A m \in T : k <= m
    BY <1>1, Least
  <1>3. k \in 0 .. n - 1 /\ k \in Nat /\ s[p + k + 1] # s[p - d + 1 + (k % d)]
    BY <1>2
  <1>4. s[p + k + 1] = s[p - d + k + 1]
    BY <1>3 DEF Copies
  <1>5. \A m \in 0 .. n - 1 : m \notin T => s[p + m + 1] = s[p - d + 1 + (m % d)]
    OBVIOUS
  <1> HIDE DEF T
  <1>6. CASE k < d
    <2>1. k % d = k
      BY <1>3, <1>6, ModFacts
    <2>2. p - d + k + 1 = p - d + 1 + k
      BY <1>3
    <2> QED BY <1>3, <1>4, <2>1, <2>2
  <1>7. CASE k >= d
    <2>1. PICK m : m = k - d
      OBVIOUS
    <2>2. m \in 0 .. n - 1 /\ m \in Nat /\ m < k /\ k = m + d
      BY <1>3, <1>7, <2>1
    <2>3. m \notin T
      BY <1>2, <1>3, <2>2
    <2>4. s[p + m + 1] = s[p - d + 1 + (m % d)]
      BY <1>5, <2>2, <2>3
    <2>5. k % d = m % d
      BY <2>2, ModTurn
    <2>6. p - d + k + 1 = p + m + 1
      BY <1>3, <2>2
    <2> QED BY <1>3, <1>4, <2>4, <2>5, <2>6
  <1> QED BY <1>3, <1>6, <1>7

\* A sequence that agrees with another one as far as it goes is a beginning of it.
LEMMA BeginningIsSubSeq ==
    ASSUME NEW S, NEW s \in Seq(S), NEW out \in Seq(S), Len(out) <= Len(s),
           \A i \in 1 .. Len(out) : out[i] = s[i]
    PROVE  out = SubSeq(s, 1, Len(out))
  <1> DEFINE t == SubSeq(s, 1, Len(out))
  <1>1. t \in Seq(S) /\ Len(t) = Len(out) /\ \A i \in 1 .. Len(out) : t[i] = s[i]
    BY SubSeqProperties
  <1> HIDE DEF t
  <1>2. \A i \in 1 .. Len(out) : out[i] = t[i]
    BY <1>1
  <1>3. out = t
    BY <1>1, <1>2, SeqEqual
  <1> QED BY <1>3 DEF t

-----------------------------------------------------------------------------

\* Bytes of the block from strstart on; while the strings of a match are inserted,
\* lookahead is already what will be left behind it.
Ahead == IF pc = "insert" THEN lookahead + prev_length + 1 ELSE lookahead
\* Where strstart and the window are in the block.
Pos == inpos - Ahead
Base == inpos - Ahead - strstart

Working == {"loop", "search", "decide", "insert"}

TypeOK ==
    /\ input \in Inputs /\ inpos \in 0 .. Len(input)
    /\ window \in [0 .. 2 * WSIZE - 1 -> Bytes] /\ behind \in Bytes
    /\ prev \in [0 .. WSIZE - 1 -> Nat] /\ head \in [HashKeys -> Nat] /\ ins_h \in HashKeys
    /\ strstart \in Nat /\ lookahead \in Nat /\ block_start \in Int /\ match_start \in Int
    /\ prev_length \in Nat /\ match_length \in Nat /\ prev_match \in Int
    /\ cur_match \in Nat /\ best_len \in Nat
    /\ eofile \in BOOLEAN /\ match_available \in BOOLEAN
    /\ pc \in {"init", "begin", "done", "aborted"} \cup Working

\* A length that is to be sent does not reach behind the block.
LengthInv ==
    /\ pc \in {"init", "begin"} => match_length = MIN_MATCH - 1
    /\ pc = "loop" => /\ match_length <= MAX_MATCH
                      /\ match_length >= MIN_MATCH => match_length <= lookahead + 1
    /\ pc \in {"search", "decide"} =>
         /\ lookahead >= 1 /\ prev_length <= MAX_MATCH
         /\ prev_length >= MIN_MATCH => prev_length <= lookahead + 1
    /\ pc = "search" => best_len <= MAX_MATCH
    /\ pc = "decide" => match_length <= MAX_MATCH /\ (match_length >= MIN_MATCH => match_length <= lookahead)
    /\ pc = "insert" => prev_length >= 1

HoldsInput == \A i \in 0 .. strstart + Ahead - 1 : window[i] = input[Base + i + 1]

ReadAhead ==
    /\ eofile => inpos = Len(input)
    /\ pc = "begin" => strstart = 0
    /\ pc \in {"search", "decide"} => eofile \/ lookahead >= MIN_LOOKAHEAD
    /\ pc \in {"loop", "insert"} => eofile \/ lookahead >= MIN_LOOKAHEAD - MAX_MATCH + 1

WindowInv ==
    /\ TypeOK /\ LengthInv
    /\ pc = "init" => inpos = 0 /\ lookahead = 0
    /\ pc # "init" => Base >= 0 /\ strstart + Ahead <= 2 * WSIZE /\ HoldsInput /\ ReadAhead

\* The strings before this position are in the chains.
Inserted == IF pc \in {"search", "decide", "insert"} THEN strstart + 1 ELSE strstart

KeyBefore(n) == \E x \in HashKeys :
    ins_h = UPDATE_HASH(UPDATE_HASH(x, byte(n)), byte(n + 1))
HeadsRight(n) == \A h \in HashKeys : head[h] # NIL => head[h] < n /\ HashOf(head[h]) = h
LinksRight(n) ==
    \A s \in 0 .. n - 1 :
        s >= n - WSIZE /\ prev[s % WSIZE] # NIL =>
            prev[s % WSIZE] < s /\ HashOf(prev[s % WSIZE]) = HashOf(s)
Candidate ==
    /\ cur_match # NIL /\ cur_match < strstart /\ cur_match >= strstart - MAX_DIST
    /\ HashOf(cur_match) = HashOf(strstart)

ChainInv ==
    /\ pc = "begin" => \A h \in HashKeys : head[h] = NIL
    /\ pc \in Working => KeyBefore(Inserted) /\ HeadsRight(Inserted) /\ LinksRight(Inserted)
    /\ pc = "search" => Candidate

\* The n bytes at p of the block are those that came d before.
Real(p, d, n) ==
    d \in 1 .. MAX_DIST /\ d <= p /\ \A k \in 0 .. n - 1 : input[p + k + 1] = input[p - d + k + 1]

MatchInv ==
    /\ pc = "loop" /\ match_length >= MIN_MATCH =>
         match_available /\ Real(Pos - 1, strstart - 1 - match_start, match_length)
    /\ pc \in {"search", "decide"} /\ prev_length >= MIN_MATCH =>
         match_available /\ Real(Pos - 1, strstart - 1 - prev_match, prev_length)
    /\ pc = "search" /\ best_len > prev_length =>
         \A n \in 0 .. best_len : n <= lookahead => Real(Pos, strstart - match_start, n)
    /\ pc = "decide" /\ match_length >= MIN_MATCH /\ match_length > prev_length =>
         Real(Pos, strstart - match_start, match_length)

Token == [dist : Nat, lc : Nat]
InReach(tokens) ==
    /\ tokens \in Seq(Token)
    /\ \A i \in DOMAIN tokens :
         tokens[i].dist # 0 => tokens[i].lc \in MIN_MATCH .. MAX_MATCH /\ tokens[i].dist \in 1 .. MAX_DIST

TokensInv == InReach(tally) /\ InReach(flushed.tokens)

\* out is a beginning of the block.
Begins(out) == out \in Seq(Bytes) /\ Len(out) <= Len(input) /\ \A i \in 1 .. Len(out) : out[i] = input[i]
DecodedInv ==
    /\ Begins(decoded) /\ Len(decoded) = inpos - lookahead - Undecided
    /\ pc \in {"init", "begin"} => ~match_available
    /\ match_available /\ pc \in {"loop", "search", "decide"} => strstart >= 1
    /\ pc = "done" => eofile /\ lookahead = 0

FlushedRight(end) ==
    /\ flushed.from \in Nat /\ flushed.upto \in Nat
    /\ flushed.from <= flushed.upto /\ flushed.upto <= end
    /\ flushed.stored_len = flushed.upto - flushed.from
    /\ flushed.has_buf => /\ flushed.buf \in Seq(Bytes) /\ Len(flushed.buf) = flushed.upto - flushed.from
                          /\ \A i \in 1 .. Len(flushed.buf) : flushed.buf[i] = input[flushed.from + i]
BlockInv ==
    /\ sent \in Nat /\ sent <= Len(decoded)
    /\ pc \notin {"init", "done"} => block_start = sent - Base
    /\ FlushedRight(Len(decoded))

-----------------------------------------------------------------------------
(* What the proofs need of numbers                                          *)

\* The limits of the code, put in terms of WSIZE and MAX_MATCH.
LEMMA Sizes ==
    /\ WSIZE \in Nat /\ MAX_MATCH \in Nat /\ MAX_MATCH > 3 /\ MIN_MATCH = 3
    /\ MIN_LOOKAHEAD = MAX_MATCH + 4 /\ MAX_DIST = WSIZE - MAX_MATCH - 4 /\ MAX_DIST >= 1
  BY WindowAssumption DEF MIN_MATCH, MIN_LOOKAHEAD, MAX_DIST

-----------------------------------------------------------------------------
(* The window                                                               *)

LEMMA ByteType == TypeOK => \A i \in Nat : byte(i) \in Bytes
  BY Sizes DEF TypeOK, byte

LEMMA HashTypes ==
    /\ \A h \in HashKeys, c \in Bytes : UPDATE_HASH(h, c) \in HashKeys
    /\ 0 \in HashKeys
  BY HashAssumption DEF HashKeys

LEMMA InputType == TypeOK => input \in Seq(Bytes) /\ Len(input) \in Nat /\ Len(input) >= 1
  BY InputsAssumption DEF TypeOK

\* What thread_read_buf does: n bytes, as many as there are or there is room for.
Read(w, at, n) ==
    /\ n \in Nat /\ at + n <= 2 * WSIZE /\ inpos' = inpos + n /\ inpos' <= Len(input)
    /\ lookahead' = lookahead + n /\ eofile' = (n = 0)
    /\ n = 0 => at = 2 * WSIZE \/ inpos = Len(input)
    /\ window' \in [0 .. 2 * WSIZE - 1 -> Bytes]
    /\ \A i \in 0 .. 2 * WSIZE - 1 : i < at => window'[i] = w[i]
    /\ \A i \in 0 .. n - 1 : window'[at + i] = input[inpos + i + 1]

LEMMA ReadBuf ==
    ASSUME TypeOK, NEW w \in [0 .. 2 * WSIZE - 1 -> Bytes], NEW at \in 0 .. 2 * WSIZE,
           thread_read_buf(w, at)
    PROVE  \E n \in Nat : Read(w, at, n)
  <1> DEFINE n == ReadSize(More(at))
  <1>1. WSIZE \in Nat /\ inpos \in Nat /\ inpos <= Len(input) /\ Len(input) \in Nat /\ lookahead \in Nat
    BY Sizes, InputType DEF TypeOK
  <1>2. /\ n \in Nat /\ at + n <= 2 * WSIZE /\ inpos + n <= Len(input)
        /\ n = 0 => at = 2 * WSIZE \/ inpos = Len(input)
    BY <1>1 DEF ReadSize, More
  <1>3. /\ inpos' = inpos + n /\ lookahead' = lookahead + n /\ eofile' = (n = 0)
        /\ window' = [i \in 0 .. 2 * WSIZE - 1 |-> IF i \in at .. at + n - 1
                                                   THEN input[inpos + i - at + 1] ELSE w[i]]
    BY DEF thread_read_buf
  <1> HIDE DEF n
  <1>4. \A i \in 1 .. Len(input) : input[i] \in Bytes
    BY InputType
  <1>5. \A i \in at .. at + n - 1 : input[inpos + i - at + 1] \in Bytes
    BY <1>1, <1>2, <1>4
  <1>6. window' \in [0 .. 2 * WSIZE - 1 -> Bytes]
    BY <1>3, <1>5
  <1>7. \A i \in 0 .. 2 * WSIZE - 1 : i < at => window'[i] = w[i]
    BY <1>1, <1>2, <1>3
  <1>8. ASSUME NEW i \in 0 .. n - 1 PROVE window'[at + i] = input[inpos + i + 1]
    <2>1. at + i \in 0 .. 2 * WSIZE - 1 /\ at + i \in at .. at + n - 1 /\ inpos + (at + i) - at + 1 = inpos + i + 1
      BY <1>1, <1>2
    <2> QED BY <2>1, <1>3
  <1> QED BY <1>1, <1>2, <1>3, <1>6, <1>7, <1>8 DEF Read

LEMMA InitWindow == Init => WindowInv
  <1> SUFFICES ASSUME Init PROVE WindowInv
    OBVIOUS
  <1>1. PICK g \in Stale :
         /\ window = [i \in 0 .. 2 * WSIZE - 1 |-> g] /\ behind = g
         /\ prev = [i \in 0 .. WSIZE - 1 |-> g] /\ head = [h \in HashKeys |-> g]
         /\ strstart = g /\ block_start = g /\ match_start = g
    BY DEF Init
  <1>2. g \in Bytes /\ g \in Nat
    BY InputsAssumption
  <1>3. input \in Inputs /\ Len(input) \in Nat
    BY InputsAssumption DEF Init
  <1> QED BY <1>1, <1>2, <1>3, HashTypes, Sizes DEF Init, WindowInv, TypeOK, LengthInv, Working

LEMMA WindowLmInit == ASSUME WindowInv, lm_init PROVE WindowInv'
  <1>1. TypeOK /\ pc = "init" /\ inpos = 0 /\ lookahead = 0
    BY DEF WindowInv, lm_init
  <1>2. window \in [0 .. 2 * WSIZE - 1 -> Bytes] /\ 0 \in 0 .. 2 * WSIZE
    BY <1>1, Sizes DEF TypeOK
  <1>3. thread_read_buf(window, 0)
    BY DEF lm_init
  <1>4. PICK n \in Nat : Read(window, 0, n)
    BY <1>1, <1>2, <1>3, ReadBuf
  <1>5. /\ pc' = "begin" /\ strstart' = 0 /\ block_start' = 0 /\ input' = input
        /\ head' = [h \in DOMAIN head |-> NIL]
        /\ UNCHANGED <<behind, prev, ins_h, match_start, prev_length, match_length, match_available,
                       prev_match, cur_match, best_len>>
    BY DEF lm_init, search
  <1>6. inpos' = n /\ lookahead' = n /\ n <= 2 * WSIZE /\ n <= Len(input)
        /\ eofile' = (n = 0) /\ n # 0
        /\ \A i \in 0 .. n - 1 : window'[i] = input[i + 1]
    BY <1>1, <1>4, InputType, Sizes DEF Read
  <1>7. TypeOK'
    BY <1>1, <1>4, <1>5, <1>6, InputType DEF TypeOK, Read, NIL, Working
  <1>8. LengthInv'
    BY <1>1, <1>5 DEF LengthInv, WindowInv
  <1>9. HoldsInput'
    BY <1>5, <1>6 DEF HoldsInput, Ahead, Base
  <1>10. ReadAhead'
    BY <1>5, <1>6 DEF ReadAhead
  <1>11. Base' = 0 /\ strstart' + Ahead' <= 2 * WSIZE
    BY <1>5, <1>6 DEF Base, Ahead
  <1> QED BY <1>5, <1>7, <1>8, <1>9, <1>10, <1>11 DEF WindowInv

\* Filling the window: where the bytes were moved to, and which were added.
Filled(n, moved) ==
    /\ inpos' = inpos + n /\ inpos' <= Len(input) /\ lookahead' = lookahead + n
    /\ eofile' = (n = 0) /\ (n = 0 => inpos = Len(input))
    /\ strstart' = strstart - moved /\ match_start' = match_start - moved
    /\ block_start' = block_start - moved
    /\ moved \in {0, WSIZE} /\ moved <= strstart
    /\ moved = 0 => head' = head /\ prev' = prev
    /\ moved = WSIZE => strstart >= WSIZE + MAX_DIST /\ ShiftChains
    /\ strstart' + lookahead' <= 2 * WSIZE
    /\ window' \in [0 .. 2 * WSIZE - 1 -> Bytes]
    /\ \A i \in 0 .. strstart' + lookahead - 1 : window'[i] = window[i + moved]
    /\ \A i \in 0 .. n - 1 : window'[strstart' + lookahead + i] = input[inpos + i + 1]

LEMMA FillWindow ==
    ASSUME WindowInv, fill_window
    PROVE  \E n \in Nat : \E moved \in {0, WSIZE} : Filled(n, moved)
  <1>1. /\ TypeOK /\ strstart \in Nat /\ lookahead \in Nat /\ match_start \in Int /\ block_start \in Int
        /\ inpos \in Nat /\ window \in [0 .. 2 * WSIZE - 1 -> Bytes]
    BY DEF WindowInv, TypeOK
  <1>2. strstart + lookahead <= 2 * WSIZE /\ lookahead < MIN_LOOKAHEAD
    BY DEF WindowInv, Ahead, fill_window, NeedsMore
  <1>3. CASE /\ IsAlmostFull /\ ShiftPositions /\ ShiftChains
             /\ thread_read_buf(ShiftedBytes, strstart - WSIZE + lookahead)
    <2>1. strstart >= WSIZE + MAX_DIST
      BY <1>3 DEF IsAlmostFull
    <2> DEFINE at == strstart - WSIZE + lookahead
    <2>2. at \in 0 .. 2 * WSIZE /\ at <= WSIZE
      BY <1>1, <1>2, <2>1, Sizes
    <2>3. ShiftedBytes = [i \in 0 .. 2 * WSIZE - 1 |-> IF i < WSIZE THEN window[i + WSIZE] ELSE window[i]]
      BY <1>1 DEF ShiftedBytes
    <2>4. ShiftedBytes \in [0 .. 2 * WSIZE - 1 -> Bytes]
      <3>1. \A i \in 0 .. 2 * WSIZE - 1 : i < WSIZE => i + WSIZE \in 0 .. 2 * WSIZE - 1
        BY Sizes
      <3> QED BY <1>1, <2>3, <3>1
    <2> HIDE DEF at
    <2>5. PICK n \in Nat : Read(ShiftedBytes, at, n)
      BY <1>1, <1>3, <2>2, <2>4, ReadBuf DEF at
    <2>6. \A i \in 0 .. at - 1 : window'[i] = window[i + WSIZE]
      <3>1. \A i \in 0 .. 2 * WSIZE - 1 : i < at => window'[i] = ShiftedBytes[i]
        BY <2>5 DEF Read
      <3>2. \A i \in 0 .. at - 1 : i \in 0 .. 2 * WSIZE - 1 /\ i < at /\ i < WSIZE
        BY <2>2, Sizes
      <3> QED BY <2>3, <3>1, <3>2
    <2>7. strstart' = strstart - WSIZE /\ match_start' = match_start - WSIZE /\ block_start' = block_start - WSIZE
      BY <1>3 DEF ShiftPositions
    <2>8. at = strstart' + lookahead
      BY <2>7 DEF at
    <2>9. WSIZE # 0
      BY Sizes
    <2>10. /\ inpos' = inpos + n /\ inpos' <= Len(input) /\ lookahead' = lookahead + n
           /\ eofile' = (n = 0) /\ window' \in [0 .. 2 * WSIZE - 1 -> Bytes]
           /\ at + n <= 2 * WSIZE /\ \A i \in 0 .. n - 1 : window'[at + i] = input[inpos + i + 1]
      BY <2>5 DEF Read
    <2>11. n = 0 => inpos = Len(input)
      BY <2>2, <2>5, Sizes DEF Read
    <2>12. strstart' + lookahead' <= 2 * WSIZE
      BY <1>1, <2>7, <2>10, Sizes DEF at
    <2>13. \A i \in 0 .. strstart' + lookahead - 1 : window'[i] = window[i + WSIZE]
      <3>1. strstart' + lookahead - 1 = at - 1
        BY <1>1, <2>7, Sizes DEF at
      <3> QED BY ONLY <2>6, <3>1
    <2>14. \A i \in 0 .. n - 1 : window'[strstart' + lookahead + i] = input[inpos + i + 1]
      BY <2>8, <2>10
    <2>15. WSIZE <= strstart
      BY <1>1, <2>1, Sizes
    <2> QED BY <1>3, <2>1, <2>7, <2>9, <2>10, <2>11, <2>12, <2>13, <2>14, <2>15 DEF Filled
  <1>4. CASE /\ ~IsAlmostFull
             /\ UNCHANGED <<match_start, strstart, block_start, head, prev>>
             /\ thread_read_buf(window, strstart + lookahead)
    <2>1. strstart + lookahead < 2 * WSIZE
      BY <1>1, <1>2, <1>4, Sizes DEF IsAlmostFull
    <2> DEFINE at == strstart + lookahead
    <2>2. at \in 0 .. 2 * WSIZE /\ at # 2 * WSIZE
      BY <1>1, <2>1, Sizes
    <2>3. PICK n \in Nat : Read(window, at, n)
      BY <1>1, <1>4, <2>2, ReadBuf
    <2>4. \A i \in 0 .. at - 1 : window'[i] = window[i + 0]
      <3>1. \A i \in 0 .. 2 * WSIZE - 1 : i < at => window'[i] = window[i]
        BY <2>3 DEF Read
      <3>2. \A i \in 0 .. at - 1 : i \in 0 .. 2 * WSIZE - 1 /\ i < at /\ i + 0 = i
        BY <2>2, Sizes
      <3> QED BY <3>1, <3>2
    <2>5. WSIZE # 0 /\ 0 <= strstart
      BY <1>1, Sizes
    <2>6. /\ inpos' = inpos + n /\ inpos' <= Len(input) /\ lookahead' = lookahead + n
          /\ eofile' = (n = 0) /\ window' \in [0 .. 2 * WSIZE - 1 -> Bytes] /\ at + n <= 2 * WSIZE
          /\ \A i \in 0 .. n - 1 : window'[at + i] = input[inpos + i + 1]
          /\ n = 0 => inpos = Len(input)
      BY <2>2, <2>3 DEF Read
    <2>7. /\ strstart' = strstart - 0 /\ match_start' = match_start - 0 /\ block_start' = block_start - 0
          /\ head' = head /\ prev' = prev
      BY <1>1, <1>4
    <2>8. strstart' + lookahead' <= 2 * WSIZE /\ at = strstart' + lookahead
      BY <1>1, <1>4, <2>6
    <2> HIDE DEF at
    <2>9. \A i \in 0 .. strstart' + lookahead - 1 : window'[i] = window[i + 0]
      <3>1. strstart' + lookahead - 1 = at - 1
        BY <1>1, <1>4 DEF at
      <3> QED BY ONLY <2>4, <3>1
    <2>10. \A i \in 0 .. n - 1 : window'[strstart' + lookahead + i] = input[inpos + i + 1]
      BY <2>6, <2>8
    <2> QED BY <2>5, <2>6, <2>7, <2>8, <2>9, <2>10 DEF Filled
  <1> QED BY <1>3, <1>4 DEF fill_window

LEMMA WindowFill == ASSUME WindowInv, fill_window PROVE WindowInv'
  <1>1. /\ TypeOK /\ strstart \in Nat /\ lookahead \in Nat /\ match_start \in Int /\ block_start \in Int
        /\ inpos \in Nat /\ window \in [0 .. 2 * WSIZE - 1 -> Bytes] /\ Len(input) \in Nat
    BY InputType DEF WindowInv, TypeOK
  <1>2. /\ pc \in {"begin", "loop"} /\ pc' = pc /\ lookahead < MIN_LOOKAHEAD /\ ~eofile /\ input' = input
        /\ UNCHANGED <<behind, ins_h, prev_length, match_length, match_available, prev_match, cur_match,
                       best_len>>
    BY DEF fill_window, NeedsMore, search
  <1>3. strstart + lookahead <= 2 * WSIZE /\ HoldsInput /\ ReadAhead /\ inpos - lookahead - strstart >= 0
    BY <1>2 DEF WindowInv, Ahead, Base
  <1>4. PICK n \in Nat, moved \in {0, WSIZE} : Filled(n, moved)
    BY FillWindow
  <1>5. moved \in Nat /\ inpos' = inpos + n /\ lookahead' = lookahead + n /\ strstart' = strstart - moved
        /\ moved <= strstart /\ strstart' + lookahead' <= 2 * WSIZE /\ inpos' <= Len(input)
        /\ eofile' = (n = 0) /\ (n = 0 => inpos = Len(input))
    BY <1>4, Sizes DEF Filled
  <1>6. head' \in [HashKeys -> Nat] /\ prev' \in [0 .. WSIZE - 1 -> Nat]
    <2>1. head \in [HashKeys -> Nat] /\ prev \in [0 .. WSIZE - 1 -> Nat]
      BY <1>1 DEF TypeOK
    <2>2. CASE moved = 0
      BY <1>4, <2>1, <2>2 DEF Filled
    <2>3. CASE moved = WSIZE
      <3>1. ShiftChains
        BY <1>4, <2>3 DEF Filled
      <3>2. /\ head' = [h \in HashKeys |-> IF head[h] >= WSIZE THEN head[h] - WSIZE ELSE 0]
            /\ prev' = [p \in 0 .. WSIZE - 1 |-> IF prev[p] >= WSIZE THEN prev[p] - WSIZE ELSE 0]
        BY <2>1, <3>1 DEF ShiftChains, NIL
      <3>3. \A m \in Nat : (IF m >= WSIZE THEN m - WSIZE ELSE 0) \in Nat
        BY Sizes
      <3> QED BY <2>1, <3>2, <3>3
    <2> QED BY <2>2, <2>3
  <1>7. TypeOK'
    BY <1>1, <1>2, <1>4, <1>5, <1>6, Sizes DEF TypeOK, Filled
  <1>8. LengthInv'
    BY <1>1, <1>2, <1>5 DEF LengthInv, WindowInv, TypeOK, MIN_MATCH
  <1>9. Base' = Base + moved /\ Base = inpos - lookahead - strstart
    BY <1>1, <1>2, <1>5 DEF Base, Ahead
  <1>10. HoldsInput'
    <2> SUFFICES ASSUME NEW i \in 0 .. strstart' + lookahead' - 1
                 PROVE  window'[i] = input[Base' + i + 1]
      BY <1>2 DEF HoldsInput, Ahead
    <2>1. CASE i < strstart' + lookahead
      <3>1. window'[i] = window[i + moved]
        BY <1>1, <1>4, <1>5, <2>1 DEF Filled
      <3>2. i + moved \in 0 .. strstart + lookahead - 1
        BY <1>1, <1>5, <2>1
      <3>3. window[i + moved] = input[Base + (i + moved) + 1]
        BY <1>2, <1>3, <3>2 DEF HoldsInput, Ahead
      <3>4. Base + (i + moved) + 1 = Base' + i + 1
        BY <1>1, <1>5, <1>9
      <3> QED BY <3>1, <3>3, <3>4
    <2>2. CASE ~(i < strstart' + lookahead)
      <3> DEFINE j == i - (strstart' + lookahead)
      <3>1. j \in 0 .. n - 1 /\ strstart' + lookahead + j = i /\ inpos + j + 1 = Base' + i + 1
        BY <1>1, <1>5, <1>9, <2>2
      <3> QED BY <1>4, <3>1 DEF Filled
    <2> QED BY <2>1, <2>2
  <1>11. ReadAhead'
    BY <1>1, <1>2, <1>3, <1>5, Sizes DEF ReadAhead
  <1>12. Base' >= 0 /\ strstart' + Ahead' <= 2 * WSIZE
    BY <1>1, <1>2, <1>3, <1>5, <1>9 DEF Ahead
  <1> QED BY <1>2, <1>7, <1>8, <1>10, <1>11, <1>12 DEF WindowInv

\* A step that reads nothing leaves the window as it is, when what it takes off
\* lookahead it adds to strstart.
LEMMA WindowStays ==
    ASSUME WindowInv, UNCHANGED reading, pc # "init", pc' # "init",
           NEW k \in Int, strstart' = strstart + k, Ahead' = Ahead - k,
           TypeOK', LengthInv', ReadAhead'
    PROVE  WindowInv'
  <1>1. window' = window /\ input' = input /\ inpos' = inpos
    BY DEF reading
  <1>2. inpos \in Int /\ strstart \in Int /\ Ahead \in Int
    BY InputType DEF WindowInv, TypeOK, Ahead
  <1>3. Base' = Base /\ strstart' + Ahead' = strstart + Ahead
    BY <1>1, <1>2 DEF Base
  <1>4. HoldsInput' /\ Base' >= 0 /\ strstart' + Ahead' <= 2 * WSIZE
    BY <1>1, <1>2, <1>3 DEF WindowInv, HoldsInput
  <1> QED BY <1>4 DEF WindowInv

LEMMA WindowHashFirst == ASSUME WindowInv, HashFirst PROVE WindowInv'
  <1>1. pc = "begin" /\ pc' = "loop" /\ ~NeedsMore /\ TypeOK
    BY DEF HashFirst, WindowInv
  <1>2. TypeOK'
    <2>1. byte(0) \in Bytes /\ byte(1) \in Bytes /\ byte(0) = window[0] /\ byte(1) = window[1]
      BY <1>1, ByteType, Sizes DEF byte
    <2>2. ins_h' \in HashKeys
      BY <2>1, HashTypes DEF HashFirst
    <2> QED BY <1>1, <2>2 DEF TypeOK, HashFirst, reading, search, Working
  <1>3. UNCHANGED reading /\ lookahead' = lookahead /\ strstart' = strstart /\ match_length' = match_length
    BY DEF HashFirst
  <1>4. LengthInv'
    BY <1>1, <1>3, Sizes DEF LengthInv, WindowInv
  <1>5. ReadAhead'
    BY <1>1, <1>3, Sizes DEF WindowInv, ReadAhead, NeedsMore, reading, TypeOK
  <1>6. strstart' = strstart + 0 /\ Ahead' = Ahead - 0
    BY <1>1, <1>3 DEF Ahead, TypeOK
  <1> QED BY <1>1, <1>2, <1>3, <1>4, <1>5, <1>6, WindowStays

\* Inserting a string keeps the types of the chains.
LEMMA InsertTypes ==
    ASSUME TypeOK, NEW s \in Nat, INSERT_STRING(s)
    PROVE  /\ prev' \in [0 .. WSIZE - 1 -> Nat] /\ head' \in [HashKeys -> Nat] /\ ins_h' \in HashKeys
           /\ NextKey(s) \in HashKeys /\ HashHead(s) \in Nat /\ s % WSIZE \in 0 .. WSIZE - 1
  <1>1. byte(s + MIN_MATCH - 1) \in Bytes
    BY ByteType DEF MIN_MATCH
  <1>2. NextKey(s) \in HashKeys
    BY <1>1, HashTypes DEF NextKey, TypeOK
  <1>3. HashHead(s) \in Nat
    BY <1>2 DEF HashHead, TypeOK
  <1>4. WSIZE \in Nat \ {0}
    BY Sizes
  <1>5. s % WSIZE \in 0 .. WSIZE - 1
    BY <1>4, ModFacts
  <1> QED BY <1>2, <1>3, <1>5 DEF INSERT_STRING, TypeOK

LEMMA WindowStartTurn == ASSUME WindowInv, StartTurn PROVE WindowInv'
  <1>1. pc = "loop" /\ ~NeedsMore /\ lookahead # 0 /\ TypeOK /\ pc' \in {"search", "decide", "aborted"}
    BY DEF StartTurn, WindowInv
  <1>2. /\ UNCHANGED reading /\ lookahead' = lookahead /\ strstart' = strstart
        /\ prev_length' = match_length /\ prev_match' = match_start /\ match_length' = 2
        /\ cur_match' = HashHead(strstart) /\ best_len' = match_length
        /\ UNCHANGED <<block_start, match_start, match_available>>
        /\ INSERT_STRING(strstart)
    BY DEF StartTurn, MIN_MATCH
  <1>3. strstart \in Nat /\ lookahead \in Nat
    BY <1>1 DEF TypeOK
  <1>4. prev' \in [0 .. WSIZE - 1 -> Nat] /\ head' \in [HashKeys -> Nat] /\ ins_h' \in HashKeys
        /\ HashHead(strstart) \in Nat
    BY <1>1, <1>2, <1>3, InsertTypes
  <1>5. TypeOK'
    BY <1>1, <1>2, <1>4 DEF TypeOK, reading, Working
  <1>6. LengthInv'
    BY <1>1, <1>2, <1>3, Sizes DEF LengthInv, WindowInv
  <1>7. ReadAhead'
    BY <1>1, <1>2, Sizes DEF WindowInv, ReadAhead, NeedsMore, reading, TypeOK
  <1>8. strstart' = strstart + 0 /\ Ahead' = Ahead - 0
    BY <1>1, <1>2, <1>3 DEF Ahead
  <1> QED BY <1>1, <1>2, <1>5, <1>6, <1>7, <1>8, WindowStays

\* Two strings that agree in the first two bytes have a length up to which they
\* agree, but for the byte that is not compared.
LEMMA MatchLengthFacts ==
    ASSUME NEW a \in Nat, NEW b \in Nat, byte(a + 0) = byte(b + 0), byte(a + 1) = byte(b + 1)
    PROVE  /\ MatchLength(a, b) \in MIN_MATCH .. MAX_MATCH
           /\ \A k \in (0 .. MatchLength(a, b) - 1) \ {2} : byte(a + k) = byte(b + k)
  <1> DEFINE P(n) == /\ \A k \in (0 .. n - 1) \ {2} : byte(a + k) = byte(b + k)
                     /\ n = MAX_MATCH \/ byte(a + n) # byte(b + n)
             T == {n \in MIN_MATCH .. MAX_MATCH : n = MAX_MATCH \/ byte(a + n) # byte(b + n)}
  <1>1. MAX_MATCH \in T /\ T \subseteq Nat
    BY Sizes
  <1>2. PICK n \in T : \A m \in T : n <= m
    BY <1>1, Least
  <1>3. n \in 3 .. MAX_MATCH /\ (n = MAX_MATCH \/ byte(a + n) # byte(b + n))
    BY <1>2, Sizes
  <1>4. ASSUME NEW k \in (0 .. n - 1) \ {2} PROVE byte(a + k) = byte(b + k)
    <2>1. CASE k \in {0, 1}
      BY <2>1
    <2>2. CASE k \notin {0, 1}
      <3>1. k \in 3 .. MAX_MATCH /\ k < n
        BY <1>3, <2>2, Sizes
      <3>2. k \notin T
        BY <1>2, <1>3, <3>1
      <3> QED BY <3>1, <3>2, Sizes
    <2> QED BY <2>1, <2>2
  <1>5. P(n) /\ n \in MIN_MATCH .. MAX_MATCH
    BY <1>3, <1>4, Sizes
  <1>6. MatchLength(a, b) = CHOOSE i \in MIN_MATCH .. MAX_MATCH : P(i)
    BY DEF MatchLength
  <1> HIDE DEF P
  <1>7. P(MatchLength(a, b)) /\ MatchLength(a, b) \in MIN_MATCH .. MAX_MATCH
    BY <1>5, <1>6
  <1> QED BY <1>7 DEF P

\* A turn of the search: what becomes of the best match.
Improves == MayBeLonger /\ MatchLength(cur_match, strstart) > best_len

LEMMA Improvement ==
    ASSUME TypeOK, Improves
    PROVE  /\ MatchLength(cur_match, strstart) \in MIN_MATCH .. MAX_MATCH
           /\ \A k \in (0 .. MatchLength(cur_match, strstart) - 1) \ {2} :
                byte(cur_match + k) = byte(strstart + k)
  <1>1. byte(cur_match + 0) = byte(strstart + 0) /\ byte(cur_match + 1) = byte(strstart + 1)
    BY DEF Improves, MayBeLonger
  <1> QED BY <1>1, MatchLengthFacts DEF TypeOK

LEMMA SearchTurn ==
    ASSUME TypeOK, longest_match, LengthInv
    PROVE  /\ pc = "search" /\ pc' \in {"search", "decide"}
           /\ UNCHANGED <<reading, chains, strstart, lookahead, block_start, prev_length,
                          match_available, prev_match, flush, output>>
           /\ \/ /\ Improves /\ best_len' = MatchLength(cur_match, strstart)
                 /\ match_start' = cur_match
              \/ best_len' = best_len /\ match_start' = match_start
           /\ best_len' \in Nat /\ best_len' <= MAX_MATCH /\ match_start' \in Int
           /\ pc' = "decide" => /\ match_length' = Accepted(best_len', match_start')
                                /\ cur_match' = cur_match
           /\ pc' = "search" => /\ cur_match' = prev[cur_match % WSIZE] /\ cur_match' > Limit
                                /\ match_length' = match_length
  <1>1. /\ pc = "search" /\ pc' \in {"search", "decide"}
        /\ UNCHANGED <<reading, chains, strstart, lookahead, block_start, prev_length,
                       match_available, prev_match, flush, output>>
    BY DEF longest_match
  <1>2. /\ \/ /\ Improves /\ best_len' = MatchLength(cur_match, strstart)
              /\ match_start' = cur_match
           \/ best_len' = best_len /\ match_start' = match_start
        /\ pc' = "decide" => /\ match_length' = Accepted(best_len', match_start')
                             /\ cur_match' = cur_match
        /\ pc' = "search" => /\ cur_match' = prev[cur_match % WSIZE] /\ cur_match' > Limit
                             /\ match_length' = match_length
    BY DEF longest_match, Improves
  <1>3. best_len \in Nat /\ best_len <= MAX_MATCH /\ match_start \in Int /\ cur_match \in Int
    BY <1>1 DEF TypeOK, LengthInv
  <1>4. best_len' \in Nat /\ best_len' <= MAX_MATCH /\ match_start' \in Int
    <2>1. CASE Improves /\ best_len' = MatchLength(cur_match, strstart) /\ match_start' = cur_match
      <3>1. MatchLength(cur_match, strstart) \in 3 .. MAX_MATCH
        BY <2>1, Improvement, Sizes
      <3> QED BY <1>3, <2>1, <3>1, Sizes
    <2>2. CASE best_len' = best_len /\ match_start' = match_start
      BY <1>3, <2>2
    <2> QED BY <1>2, <2>1, <2>2
  <1> QED BY <1>1, <1>2, <1>4

LEMMA AcceptedFacts ==
    ASSUME NEW length \in Nat, NEW start \in Int, TypeOK
    PROVE  /\ Accepted(length, start) \in Nat /\ Accepted(length, start) <= length + 2
           /\ Accepted(length, start) >= MIN_MATCH =>
                Accepted(length, start) <= length /\ Accepted(length, start) <= lookahead
  BY DEF Accepted, TypeOK, MIN_MATCH

LEMMA WindowSearch == ASSUME WindowInv, longest_match PROVE WindowInv'
  <1>1. TypeOK /\ LengthInv
    BY DEF WindowInv
  <1>2. /\ pc = "search" /\ pc' \in {"search", "decide"}
        /\ UNCHANGED <<reading, chains, strstart, lookahead, block_start, prev_length,
                       match_available, prev_match>>
        /\ best_len' \in Nat /\ best_len' <= MAX_MATCH /\ match_start' \in Int
    BY <1>1, SearchTurn
  <1>3. match_length' \in Nat /\ cur_match' \in Nat
    <2>1. CASE pc' = "decide"
      BY <1>1, <1>2, <2>1, SearchTurn, AcceptedFacts DEF TypeOK
    <2>2. CASE pc' = "search"
      <3>1. cur_match % WSIZE \in 0 .. WSIZE - 1
        <4>1. cur_match \in Nat /\ WSIZE \in Nat \ {0}
          BY <1>1, Sizes DEF TypeOK
        <4> QED BY <4>1, ModFacts
      <3>2. match_length' = match_length /\ cur_match' = prev[cur_match % WSIZE]
        BY <1>1, <2>2, SearchTurn
      <3> QED BY <1>1, <3>1, <3>2 DEF TypeOK
    <2> QED BY <1>2, <2>1, <2>2
  <1>4. TypeOK'
    BY <1>1, <1>2, <1>3 DEF TypeOK, reading, chains, Working
  <1>5. LengthInv'
    <2>1. CASE pc' = "search"
      BY <1>1, <1>2, <2>1 DEF LengthInv
    <2>2. CASE pc' = "decide"
      <3>1. match_length' = Accepted(best_len', match_start')
        BY <1>1, <2>2, SearchTurn
      <3>2. /\ match_length' <= best_len' + 2
            /\ match_length' >= MIN_MATCH => match_length' <= best_len' /\ match_length' <= lookahead
        BY <1>1, <1>2, <3>1, AcceptedFacts
      <3>3. match_length' <= MAX_MATCH
        <4>1. CASE match_length' >= MIN_MATCH
          <5>1. PICK m, b : m = match_length' /\ b = best_len'
            OBVIOUS
          <5>2. m <= b /\ b <= MAX_MATCH /\ m \in Nat /\ b \in Nat
            BY <1>2, <1>3, <3>2, <4>1, <5>1
          <5>3. m <= MAX_MATCH
            BY <5>2, Sizes
          <5> QED BY <5>1, <5>3
        <4>2. CASE ~(match_length' >= MIN_MATCH)
          <5>1. PICK m : m = match_length'
            OBVIOUS
          <5>2. m \in Nat /\ ~(m >= MIN_MATCH)
            BY <1>3, <4>2, <5>1
          <5>3. m <= MAX_MATCH
            BY <5>2, Sizes
          <5> QED BY <5>1, <5>3
        <4> QED BY <4>1, <4>2
      <3> QED BY <1>1, <1>2, <2>2, <3>2, <3>3 DEF LengthInv
    <2> QED BY <1>2, <2>1, <2>2
  <1>6. ReadAhead'
    BY <1>1, <1>2, Sizes DEF WindowInv, ReadAhead, reading
  <1>7. strstart' = strstart + 0 /\ Ahead' = Ahead - 0
    BY <1>1, <1>2 DEF Ahead, TypeOK
  <1> QED BY <1>2, <1>4, <1>5, <1>6, <1>7, WindowStays

LEMMA WindowEmitMatch == ASSUME WindowInv, EmitMatch PROVE WindowInv'
  <1>1. pc = "decide" /\ TypeOK /\ LengthInv /\ ReadAhead /\ TakesPrevious /\ pc' = "insert"
    BY DEF EmitMatch, WindowInv
  <1>2. /\ UNCHANGED <<reading, chains, strstart, block_start, match_start, match_length,
                       match_available, prev_match, search>>
        /\ lookahead' = lookahead - (prev_length - 1) /\ prev_length' = prev_length - 2
    BY DEF EmitMatch
  <1>3. /\ lookahead \in Nat /\ prev_length \in Nat /\ prev_length >= 3 /\ prev_length <= MAX_MATCH
        /\ prev_length <= lookahead + 1
    BY <1>1, Sizes DEF TypeOK, LengthInv, TakesPrevious
  <1>4. lookahead - (prev_length - 1) \in Nat /\ prev_length - 2 \in Nat /\ prev_length - 2 >= 1
    BY <1>3
  <1>5. TypeOK'
    BY <1>1, <1>2, <1>4 DEF TypeOK, reading, chains, search, Working
  <1>6. LengthInv'
    BY <1>1, <1>2, <1>4 DEF LengthInv
  <1>7. ReadAhead'
    BY <1>1, <1>2, <1>3, Sizes DEF ReadAhead, reading
  <1>8. strstart' = strstart + 0 /\ Ahead' = Ahead - 0
    BY <1>1, <1>2, <1>3 DEF Ahead, TypeOK
  <1>9. UNCHANGED reading
    BY <1>2
  <1> QED BY <1>1, <1>5, <1>6, <1>7, <1>8, <1>9, WindowStays

LEMMA WindowInsertNext == ASSUME WindowInv, InsertNext PROVE WindowInv'
  <1>1. pc = "insert" /\ TypeOK /\ LengthInv /\ ReadAhead /\ INSERT_STRING(strstart + 1)
    BY DEF InsertNext, WindowInv
  <1>2. /\ UNCHANGED <<reading, lookahead, match_start, prev_match, search>>
        /\ prev_length' = prev_length - 1
        /\ \/ /\ prev_length # 1 /\ strstart' = strstart + 1 /\ pc' = "insert"
              /\ UNCHANGED <<match_available, match_length, block_start>>
           \/ /\ prev_length = 1 /\ strstart' = strstart + 2 /\ pc' = "loop"
              /\ match_available' = FALSE /\ match_length' = 2
              /\ block_start' \in {strstart + 2, block_start}
    BY <1>1 DEF InsertNext, FLUSH_BLOCK, MIN_MATCH
  <1>3. lookahead \in Nat /\ prev_length \in Nat /\ prev_length >= 1 /\ strstart \in Nat /\ block_start \in Int
    BY <1>1 DEF TypeOK, LengthInv
  <1>4. prev' \in [0 .. WSIZE - 1 -> Nat] /\ head' \in [HashKeys -> Nat] /\ ins_h' \in HashKeys
    BY <1>1, <1>3, InsertTypes
  <1>5. TypeOK'
    <2>1. strstart' \in Nat /\ prev_length' \in Nat /\ block_start' \in Int /\ match_length' \in Nat
          /\ match_available' \in BOOLEAN /\ pc' \in Working
      <3>1. strstart + 1 \in Nat /\ strstart + 2 \in Nat /\ prev_length - 1 \in Nat
        BY <1>3
      <3>2. strstart' \in Nat /\ prev_length' \in Nat /\ block_start' \in Int
        BY <1>2, <1>3, <3>1
      <3>3. match_length' \in Nat
        BY <1>1, <1>2 DEF TypeOK
      <3>4. match_available' \in BOOLEAN /\ pc' \in Working
        BY <1>1, <1>2, Zenon DEF TypeOK, Working
      <3> QED BY <3>2, <3>3, <3>4
    <2> QED BY <1>1, <1>2, <1>4, <2>1 DEF TypeOK, reading, search
  <1>6. LengthInv'
    BY <1>2, <1>3, Sizes DEF LengthInv
  <1>7. ReadAhead'
    BY <1>1, <1>2 DEF ReadAhead, reading
  <1>8. \E k \in Int : strstart' = strstart + k /\ Ahead' = Ahead - k
    <2>1. CASE pc' = "insert" /\ strstart' = strstart + 1
      BY <1>1, <1>2, <1>3, <2>1 DEF Ahead
    <2>2. CASE prev_length = 1 /\ strstart' = strstart + 2 /\ pc' = "loop"
      BY <1>1, <1>2, <1>3, <2>2 DEF Ahead
    <2> QED BY <1>2, <2>1, <2>2
  <1> QED BY <1>1, <1>2, <1>5, <1>6, <1>7, <1>8, WindowStays

\* A turn that ends with one byte more behind strstart.
LEMMA WindowAdvance ==
    ASSUME WindowInv, EmitLiteral \/ Defer
    PROVE  WindowInv'
  <1>1. pc = "decide" /\ TypeOK /\ LengthInv /\ ReadAhead /\ pc' = "loop"
    BY DEF EmitLiteral, Defer, WindowInv
  <1>2. /\ UNCHANGED <<reading, chains, match_start, prev_length, match_length, prev_match, search>>
        /\ strstart' = strstart + 1 /\ lookahead' = lookahead - 1
        /\ block_start' \in {block_start, strstart} /\ match_available' \in BOOLEAN
    BY <1>1 DEF EmitLiteral, Defer, FLUSH_BLOCK, TypeOK
  <1>3. lookahead \in Nat /\ lookahead >= 1 /\ strstart \in Nat /\ match_length \in Nat /\ block_start \in Int
    BY <1>1 DEF TypeOK, LengthInv
  <1>4. strstart + 1 \in Nat /\ lookahead - 1 \in Nat
    BY <1>3
  <1>5. TypeOK'
    BY <1>1, <1>2, <1>3, <1>4 DEF TypeOK, reading, chains, search, Working
  <1>6. LengthInv'
    BY <1>1, <1>2, <1>3 DEF LengthInv
  <1>7. ReadAhead'
    BY <1>1, <1>2, <1>3, Sizes DEF ReadAhead, reading
  <1>8. strstart' = strstart + 1 /\ Ahead' = Ahead - 1
    BY <1>1, <1>2 DEF Ahead
  <1>9. UNCHANGED reading
    BY <1>2
  <1> QED BY <1>1, <1>5, <1>6, <1>7, <1>8, <1>9, WindowStays

LEMMA WindowFinish == ASSUME WindowInv, Finish PROVE WindowInv'
  <1>1. pc = "loop" /\ TypeOK /\ ReadAhead /\ pc' = "done"
    BY DEF Finish, WindowInv
  <1>2. UNCHANGED <<reading, chains, strstart, lookahead, block_start, match_start, prev_length,
                    match_length, match_available, prev_match, search>>
    BY DEF Finish
  <1>3. TypeOK'
    BY <1>1, <1>2 DEF TypeOK, reading, chains, search, Working
  <1>4. LengthInv' /\ ReadAhead'
    BY <1>1, <1>2 DEF LengthInv, ReadAhead, reading
  <1>5. strstart' = strstart + 0 /\ Ahead' = Ahead - 0
    BY <1>1, <1>2 DEF Ahead, TypeOK
  <1> QED BY <1>1, <1>2, <1>3, <1>4, <1>5, WindowStays

LEMMA WindowStutter == ASSUME WindowInv, UNCHANGED vars PROVE WindowInv'
  BY DEF vars, WindowInv, TypeOK, LengthInv, Ahead, Base, HoldsInput, ReadAhead

LEMMA WindowStep == WindowInv /\ [Next]_vars => WindowInv'
  BY WindowLmInit, WindowFill, WindowHashFirst, WindowStartTurn, WindowSearch, WindowEmitMatch,
     WindowInsertNext, WindowAdvance, WindowFinish, WindowStutter DEF Next, deflate_work, Ended

LEMMA WindowAlways == Spec => []WindowInv
  BY InitWindow, WindowStep, PTL DEF Spec

\* FailsOnlyAtEnd, the condition of the Assert of longest_match: error("insufficient
\* lookahead") is reached in the last bytes of a block only, for every block.
THEOREM OnlyFailsAtEnd == Spec => []FailsOnlyAtEnd
  <1>1. Init => FailsOnlyAtEnd
    BY DEF Init, FailsOnlyAtEnd
  <1>2. WindowInv /\ FailsOnlyAtEnd /\ [Next]_vars => FailsOnlyAtEnd'
    <2> SUFFICES ASSUME WindowInv, FailsOnlyAtEnd, [Next]_vars, pc' = "aborted"
                 PROVE  eofile' /\ lookahead' < MIN_LOOKAHEAD
      BY DEF FailsOnlyAtEnd
    <2>1. CASE StartTurn
      <3>1. pc = "loop" /\ ~NeedsMore /\ ~SufficientLookahead /\ eofile' = eofile /\ lookahead' = lookahead
        BY <2>1 DEF StartTurn, reading
      <3>2. strstart \in Nat /\ lookahead \in Nat /\ strstart + lookahead <= 2 * WSIZE
        BY <3>1 DEF WindowInv, TypeOK, Ahead
      <3>3. lookahead < MIN_LOOKAHEAD
        BY <3>1, <3>2, Sizes DEF SufficientLookahead
      <3>4. eofile
        BY <3>1, <3>3 DEF NeedsMore
      <3> QED BY <3>1, <3>3, <3>4
    <2>2. CASE UNCHANGED vars
      BY <2>2 DEF vars, FailsOnlyAtEnd
    <2>3. CASE Next /\ ~StartTurn /\ ~UNCHANGED vars
      <3>1. pc' \in {pc, "begin", "loop", "search", "decide", "insert", "done"} /\ pc # "aborted"
        BY <2>3 DEF Next, deflate_work, lm_init, fill_window, HashFirst, longest_match, EmitMatch,
           InsertNext, EmitLiteral, Defer, Finish, Ended
      <3> QED BY <3>1
    <2> QED BY <2>1, <2>2, <2>3
  <1> QED BY <1>1, <1>2, WindowAlways, PTL DEF Spec

-----------------------------------------------------------------------------
(* The chains                                                               *)

LEMMA Bytes3 == TypeOK => \A s \in Nat : byte(s) \in Bytes /\ byte(s + 1) \in Bytes /\ byte(s + 2) \in Bytes
  <1> SUFFICES ASSUME TypeOK, NEW s \in Nat PROVE byte(s) \in Bytes /\ byte(s + 1) \in Bytes /\ byte(s + 2) \in Bytes
    OBVIOUS
  <1>1. s + 1 \in Nat /\ s + 2 \in Nat
    OBVIOUS
  <1> QED BY <1>1, ByteType

\* The key a string gets from the key before it is that of its three bytes.
LEMMA NextKeyIsHash ==
    ASSUME TypeOK, NEW s \in Nat, NEW x \in HashKeys,
           ins_h = UPDATE_HASH(UPDATE_HASH(x, byte(s)), byte(s + 1))
    PROVE  NextKey(s) = HashOf(s) /\ HashOf(s) \in HashKeys
  <1>1. byte(s) \in Bytes /\ byte(s + 1) \in Bytes /\ byte(s + 2) \in Bytes
    BY Bytes3
  <1>2. s + MIN_MATCH - 1 = s + 2
    BY DEF MIN_MATCH
  <1>3. NextKey(s) = HashKey(x, byte(s), byte(s + 1), byte(s + 2))
    BY <1>2 DEF NextKey, HashKey
  <1>4. HashKey(x, byte(s), byte(s + 1), byte(s + 2)) = HashKey(0, byte(s), byte(s + 1), byte(s + 2))
    BY <1>1, HashAssumption
  <1>5. HashOf(s) = NextKey(s)
    BY <1>3, <1>4 DEF HashOf
  <1>6. NextKey(s) \in HashKeys
    BY <1>1, <1>2, HashTypes DEF NextKey, TypeOK
  <1> QED BY <1>5, <1>6

\* Strings with one key that agree in two bytes agree in the third.
LEMMA ThirdByte ==
    ASSUME TypeOK, NEW s \in Nat, NEW t \in Nat, HashOf(s) = HashOf(t),
           byte(s) = byte(t), byte(s + 1) = byte(t + 1)
    PROVE  byte(s + 2) = byte(t + 2)
  <1> DEFINE h == UPDATE_HASH(UPDATE_HASH(0, byte(s)), byte(s + 1))
  <1>1. byte(s) \in Bytes /\ byte(s + 1) \in Bytes /\ byte(s + 2) \in Bytes /\ byte(t + 2) \in Bytes
    BY Bytes3
  <1>2. h \in HashKeys
    BY <1>1, HashTypes
  <1>3. UPDATE_HASH(h, byte(s + 2)) = UPDATE_HASH(h, byte(t + 2))
    BY DEF HashOf, HashKey
  <1> HIDE DEF h
  <1> QED BY <1>1, <1>2, <1>3, HashAssumption

LEMMA BytesStay ==
    ASSUME UNCHANGED <<window, behind>>
    PROVE  \A i : byte(i)' = byte(i) /\ HashOf(i)' = HashOf(i)
  BY DEF byte, HashOf

\* Inserting a string: the chains are right for one string more.
LEMMA InsertChains ==
    ASSUME TypeOK, NEW s \in Nat, INSERT_STRING(s), UNCHANGED <<window, behind>>,
           KeyBefore(s), HeadsRight(s), LinksRight(s)
    PROVE  KeyBefore(s + 1)' /\ HeadsRight(s + 1)' /\ LinksRight(s + 1)' /\ NextKey(s) = HashOf(s)
  <1>1. PICK x \in HashKeys : ins_h = UPDATE_HASH(UPDATE_HASH(x, byte(s)), byte(s + 1))
    BY DEF KeyBefore
  <1>2. NextKey(s) = HashOf(s) /\ HashOf(s) \in HashKeys
    BY <1>1, NextKeyIsHash
  <1>3. PICK key \in HashKeys : key = HashOf(s)
    BY <1>2
  <1>4. /\ ins_h' = key /\ head' = [head EXCEPT ![key] = s]
        /\ prev' = [prev EXCEPT ![s % WSIZE] = head[key]]
        /\ head \in [HashKeys -> Nat] /\ prev \in [0 .. WSIZE - 1 -> Nat]
    BY <1>2, <1>3 DEF INSERT_STRING, HashHead, TypeOK
  <1>5. \A i : byte(i)' = byte(i) /\ HashOf(i)' = HashOf(i)
    BY BytesStay
  <1>6. WSIZE \in Nat \ {0}
    BY Sizes
  <1>7. KeyBefore(s + 1)'
    <2>1. byte(s) \in Bytes
      BY Bytes3
    <2>2. UPDATE_HASH(x, byte(s)) \in HashKeys
      BY <2>1, HashTypes
    <2>3. (s + 1) + 1 = s + 2
      OBVIOUS
    <2>4. ins_h' = UPDATE_HASH(UPDATE_HASH(UPDATE_HASH(x, byte(s)), byte(s + 1)), byte(s + 2))
      BY <1>1, <1>2, <1>3, <1>4 DEF NextKey, MIN_MATCH
    <2> QED BY <1>5, <2>2, <2>3, <2>4 DEF KeyBefore
  <1>8. HeadsRight(s + 1)'
    <2> SUFFICES ASSUME NEW h \in HashKeys, head'[h] # NIL
                 PROVE  head'[h] < s + 1 /\ HashOf(head'[h]) = h
      BY <1>5 DEF HeadsRight
    <2>1. CASE h = key
      <3>1. head'[h] = s
        BY <1>4, <2>1
      <3> QED BY <1>3, <2>1, <3>1
    <2>2. CASE h # key
      <3>1. head'[h] = head[h] /\ head[h] \in Nat
        BY <1>4, <2>2
      <3>2. head[h] < s /\ HashOf(head[h]) = h
        BY <3>1 DEF HeadsRight
      <3> QED BY <3>1, <3>2
    <2> QED BY <2>1, <2>2
  <1>9. LinksRight(s + 1)'
    <2> SUFFICES ASSUME NEW i \in 0 .. (s + 1) - 1, i >= (s + 1) - WSIZE, prev'[i % WSIZE] # NIL
                 PROVE  prev'[i % WSIZE] < i /\ HashOf(prev'[i % WSIZE]) = HashOf(i)
      BY <1>5 DEF LinksRight
    <2>1. i % WSIZE \in 0 .. WSIZE - 1 /\ s % WSIZE \in 0 .. WSIZE - 1
      BY <1>6, ModFacts
    <2>2. CASE i = s
      <3>1. prev'[i % WSIZE] = head[key]
        BY <1>4, <2>1, <2>2
      <3>2. head[key] < s /\ HashOf(head[key]) = key
        BY <3>1 DEF HeadsRight
      <3> QED BY <1>3, <2>2, <3>1, <3>2
    <2>3. CASE i # s
      <3>1. i \in 0 .. s - 1 /\ i < s /\ s < i + WSIZE /\ i >= s - WSIZE /\ i \in Nat
        BY <1>6, <2>3
      <3>2. i % WSIZE # s % WSIZE
        BY <1>6, <3>1, ModApart
      <3>3. prev'[i % WSIZE] = prev[i % WSIZE]
        BY <1>4, <2>1, <3>2
      <3> QED BY <3>1, <3>3 DEF LinksRight
    <2> QED BY <2>2, <2>3
  <1> QED BY <1>2, <1>7, <1>8, <1>9

LEMMA ChainsStay ==
    ASSUME ChainInv, UNCHANGED <<window, behind, head, prev, ins_h>>, Inserted' = Inserted,
           pc' \in Working => pc \in Working, pc' # "begin", pc' # "search"
    PROVE  ChainInv'
  <1>1. \A i : byte(i)' = byte(i) /\ HashOf(i)' = HashOf(i)
    BY BytesStay
  <1> QED BY <1>1 DEF ChainInv, KeyBefore, HeadsRight, LinksRight

LEMMA ChainsFill == ASSUME WindowInv, ChainInv, fill_window PROVE ChainInv'
  <1>1. /\ TypeOK /\ pc \in {"begin", "loop"} /\ pc' = pc /\ ~eofile /\ UNCHANGED <<ins_h, behind>>
        /\ strstart \in Nat /\ lookahead \in Nat /\ strstart + lookahead <= 2 * WSIZE
    BY DEF WindowInv, TypeOK, fill_window, NeedsMore, Ahead
  <1>2. PICK n \in Nat, moved \in {0, WSIZE} : Filled(n, moved)
    BY FillWindow
  <1>3. PICK N \in Nat : N = strstart - moved /\ strstart' = N /\ moved \in Nat
    BY <1>1, <1>2, Sizes DEF Filled
  <1>4. N + moved = strstart
    BY <1>1, <1>3
  <1>5. WSIZE \in Nat \ {0} /\ head \in [HashKeys -> Nat] /\ prev \in [0 .. WSIZE - 1 -> Nat]
    BY <1>1, Sizes DEF TypeOK
  <1>6. /\ moved = 0 => head' = head /\ prev' = prev
        /\ moved = WSIZE =>
             /\ \A h \in HashKeys : head'[h] # NIL => head[h] # NIL /\ head'[h] + WSIZE = head[h] /\ head'[h] \in Nat
             /\ \A p \in 0 .. WSIZE - 1 : prev'[p] # NIL => prev[p] # NIL /\ prev'[p] + WSIZE = prev[p] /\ prev'[p] \in Nat
    <2>1. moved = 0 => head' = head /\ prev' = prev
      BY <1>2 DEF Filled
    <2>2. CASE moved = WSIZE
      <3>1. ShiftChains
        BY <1>2, <2>2 DEF Filled
      <3>2. /\ head' = [h \in HashKeys |-> IF head[h] >= WSIZE THEN head[h] - WSIZE ELSE 0]
            /\ prev' = [p \in 0 .. WSIZE - 1 |-> IF prev[p] >= WSIZE THEN prev[p] - WSIZE ELSE 0]
        BY <1>5, <3>1 DEF ShiftChains, NIL
      <3>3. \A m \in Nat : (IF m >= WSIZE THEN m - WSIZE ELSE 0) # 0 =>
               /\ m # 0 /\ (IF m >= WSIZE THEN m - WSIZE ELSE 0) + WSIZE = m
               /\ (IF m >= WSIZE THEN m - WSIZE ELSE 0) \in Nat
        BY <1>5
      <3>4. \A h \in HashKeys : head'[h] # NIL => head[h] # NIL /\ head'[h] + WSIZE = head[h] /\ head'[h] \in Nat
        BY <1>5, <3>2, <3>3 DEF NIL
      <3>5. \A p \in 0 .. WSIZE - 1 : prev'[p] # NIL => prev[p] # NIL /\ prev'[p] + WSIZE = prev[p] /\ prev'[p] \in Nat
        BY <1>5, <3>2, <3>3 DEF NIL
      <3> QED BY <2>1, <3>4, <3>5
    <2> QED BY <1>3, <2>1, <2>2
  <1>7. \A h \in HashKeys : head'[h] # NIL => head[h] # NIL /\ head'[h] + moved = head[h] /\ head'[h] \in Nat
    BY <1>5, <1>6
  <1>8. \A p \in 0 .. WSIZE - 1 : prev'[p] # NIL => prev[p] # NIL /\ prev'[p] + moved = prev[p] /\ prev'[p] \in Nat
    BY <1>5, <1>6
  <1>9. CASE pc = "begin"
    <2>1. \A h \in HashKeys : head[h] = NIL
      BY <1>9 DEF ChainInv
    <2> QED BY <1>1, <1>7, <1>9, <2>1 DEF ChainInv, Working
  <1>10. CASE pc = "loop"
    <2>1. lookahead >= 2
      BY <1>1, <1>10, Sizes DEF WindowInv, ReadAhead
    <2>2. KeyBefore(strstart) /\ HeadsRight(strstart) /\ LinksRight(strstart)
      BY <1>10 DEF ChainInv, Inserted, Working
    <2>3. ASSUME NEW i \in Nat, i < N + 2 PROVE byte(i)' = byte(i + moved)
      <3>1. i \in 0 .. N + lookahead - 1 /\ i < 2 * WSIZE /\ i + moved < 2 * WSIZE /\ i + moved \in Nat
        <4>1. /\ strstart \in Nat /\ lookahead \in Nat /\ lookahead >= 2 /\ strstart + lookahead <= 2 * WSIZE
              /\ N + moved = strstart /\ moved \in Nat /\ WSIZE \in Nat
          BY <1>1, <1>3, <1>4, <1>5, <2>1
        <4> QED BY <2>3, <4>1
      <3>2. window'[i] = window[i + moved]
        BY <1>2, <1>3, <3>1 DEF Filled
      <3> QED BY <3>1, <3>2 DEF byte
    <2>4. ASSUME NEW m \in Nat, m < N PROVE HashOf(m)' = HashOf(m + moved)
      <3>1. byte(m)' = byte(m + moved) /\ byte(m + 1)' = byte((m + 1) + moved) /\ byte(m + 2)' = byte((m + 2) + moved)
        BY <2>3, <2>4
      <3>2. (m + 1) + moved = (m + moved) + 1 /\ (m + 2) + moved = (m + moved) + 2
        BY <1>3
      <3>3. HashOf(m)' = HashKey(0, byte(m)', byte(m + 1)', byte(m + 2)')
        BY DEF HashOf
      <3> QED BY <3>1, <3>2, <3>3 DEF HashOf
    <2>5. KeyBefore(N)'
      <3>1. byte(N)' = byte(strstart) /\ byte(N + 1)' = byte(strstart + 1)
        <4>1. (N + 1) + moved = strstart + 1
          BY <1>1, <1>3
        <4> QED BY <1>4, <2>3, <4>1
      <3>2. ins_h' = ins_h
        BY <1>1
      <3> QED BY <2>2, <3>1, <3>2 DEF KeyBefore
    <2>6. HeadsRight(N)'
      <3> SUFFICES ASSUME NEW h \in HashKeys, head'[h] # NIL
                   PROVE  head'[h] < N /\ HashOf(head[h])' = h
        BY DEF HeadsRight
      <3>1. PICK m \in Nat : m = head'[h]
        BY <1>7
      <3>2. m + moved = head[h] /\ head[h] # NIL
        BY <1>7, <3>1
      <3>3. m + moved < strstart /\ HashOf(m + moved) = h
        BY <2>2, <3>2 DEF HeadsRight
      <3>4. m < N
        BY <1>1, <1>3, <3>3
      <3> QED BY <2>4, <3>1, <3>3, <3>4
    <2>7. LinksRight(N)'
      <3> SUFFICES ASSUME NEW s \in 0 .. N - 1, s >= N - WSIZE, prev'[s % WSIZE] # NIL
                   PROVE  prev'[s % WSIZE] < s /\ HashOf(prev[s % WSIZE])' = HashOf(s)'
        BY DEF LinksRight
      <3>1. s \in Nat /\ s + moved \in 0 .. strstart - 1 /\ s + moved >= strstart - WSIZE /\ s < N
        BY <1>1, <1>3, <1>5
      <3>2. (s + moved) % WSIZE = s % WSIZE /\ s % WSIZE \in 0 .. WSIZE - 1
        <4>1. (s + WSIZE) % WSIZE = s % WSIZE /\ s % WSIZE \in 0 .. WSIZE - 1
          BY <1>5, <3>1, ModTurn, ModFacts
        <4>2. moved = 0 => s + moved = s
          BY <3>1
        <4> QED BY <4>1, <4>2
      <3>3. PICK m \in Nat : m = prev'[s % WSIZE] /\ m + moved = prev[s % WSIZE] /\ prev[s % WSIZE] # NIL
        BY <1>8, <3>2
      <3>4. m + moved < s + moved /\ HashOf(m + moved) = HashOf(s + moved)
        BY <2>2, <3>1, <3>2, <3>3 DEF LinksRight
      <3>5. m < s /\ m < N
        BY <1>3, <3>1, <3>4
      <3> QED BY <2>4, <3>1, <3>3, <3>4, <3>5
    <2>8. Inserted' = N /\ pc' = "loop"
      BY <1>1, <1>3, <1>10 DEF Inserted
    <2> QED BY <2>5, <2>6, <2>7, <2>8 DEF ChainInv
  <1> QED BY <1>1, <1>9, <1>10

LEMMA ChainsHashFirst == ASSUME WindowInv, ChainInv, HashFirst PROVE ChainInv'
  <1>1. /\ pc = "begin" /\ TypeOK /\ strstart = 0 /\ pc' = "loop" /\ strstart' = 0
        /\ UNCHANGED <<window, behind, prev, head>>
        /\ ins_h' = UPDATE_HASH(UPDATE_HASH(0, window[0]), window[1])
    BY DEF HashFirst, WindowInv, ReadAhead, reading
  <1>2. \A i : byte(i)' = byte(i) /\ HashOf(i)' = HashOf(i)
    BY <1>1, BytesStay
  <1>3. byte(0) = window[0] /\ byte(0 + 1) = window[1]
    BY Sizes DEF byte
  <1>4. KeyBefore(0)'
    BY <1>1, <1>2, <1>3, HashTypes DEF KeyBefore
  <1>5. HeadsRight(0)'
    BY <1>1 DEF ChainInv, HeadsRight
  <1>6. LinksRight(0)'
    BY DEF LinksRight
  <1>7. Inserted' = 0
    BY <1>1 DEF Inserted
  <1> QED BY <1>1, <1>4, <1>5, <1>6, <1>7 DEF ChainInv

LEMMA ChainsStartTurn == ASSUME WindowInv, ChainInv, StartTurn PROVE ChainInv'
  <1>1. /\ pc = "loop" /\ TypeOK /\ pc' \in {"search", "decide", "aborted"} /\ INSERT_STRING(strstart)
        /\ strstart' = strstart /\ UNCHANGED <<window, behind>> /\ cur_match' = HashHead(strstart)
        /\ pc' = "search" => Searches
    BY DEF StartTurn, WindowInv, reading
  <1>2. KeyBefore(strstart) /\ HeadsRight(strstart) /\ LinksRight(strstart) /\ strstart \in Nat
    BY <1>1 DEF ChainInv, Inserted, Working, TypeOK
  <1>3. /\ KeyBefore(strstart + 1)' /\ HeadsRight(strstart + 1)' /\ LinksRight(strstart + 1)'
        /\ NextKey(strstart) = HashOf(strstart)
    <2>1. PICK s \in Nat : s = strstart
      BY <1>2
    <2>2. KeyBefore(s + 1)' /\ HeadsRight(s + 1)' /\ LinksRight(s + 1)' /\ NextKey(s) = HashOf(s)
      BY <1>1, <1>2, <2>1, InsertChains
    <2>3. s = strstart'
      BY <1>1, <2>1
    <2> QED BY <2>1, <2>2, <2>3
  <1>4. CASE pc' = "search"
    <2>1. Searches
      BY <1>1, <1>4
    <2>2. PICK m : m = HashHead(strstart)
      OBVIOUS
    <2>3. m # NIL /\ strstart - m <= MAX_DIST /\ m = head[NextKey(strstart)]
      BY <2>1, <2>2 DEF Searches, HashHead
    <2>4. NextKey(strstart) \in HashKeys /\ m \in Nat
      BY <1>1, <1>2, <2>2, InsertTypes
    <2>5. m < strstart /\ HashOf(m) = HashOf(strstart)
      BY <1>2, <1>3, <2>3, <2>4 DEF HeadsRight
    <2>6. m >= strstart - MAX_DIST
      BY <1>2, <2>3, <2>4, Sizes
    <2>7. \A i : HashOf(i)' = HashOf(i)
      BY <1>1, BytesStay
    <2>8. cur_match' = m /\ strstart' = strstart
      BY <1>1, <2>2
    <2>9. Candidate'
      BY <2>3, <2>5, <2>6, <2>7, <2>8 DEF Candidate
    <2>10. Inserted' = (strstart + 1)'
      BY <1>4 DEF Inserted
    <2> QED BY <1>3, <1>4, <2>9, <2>10 DEF ChainInv
  <1>5. CASE pc' = "decide"
    <2>1. Inserted' = (strstart + 1)'
      BY <1>5 DEF Inserted
    <2> QED BY <1>3, <1>5, <2>1 DEF ChainInv
  <1>6. CASE pc' = "aborted"
    BY <1>6 DEF ChainInv, Working
  <1> QED BY <1>1, <1>4, <1>5, <1>6

LEMMA ChainsSearch == ASSUME WindowInv, ChainInv, longest_match PROVE ChainInv'
  <1>1. TypeOK /\ LengthInv
    BY DEF WindowInv
  <1>2. pc = "search" /\ pc' \in {"search", "decide"} /\ UNCHANGED <<window, behind, head, prev, ins_h, strstart>>
    BY <1>1, SearchTurn DEF reading, chains
  <1>3. \A i : byte(i)' = byte(i) /\ HashOf(i)' = HashOf(i)
    BY <1>2, BytesStay
  <1>4. Inserted' = Inserted /\ Inserted = strstart + 1
    BY <1>2 DEF Inserted
  <1>5. KeyBefore(Inserted) /\ HeadsRight(Inserted) /\ LinksRight(Inserted) /\ Candidate
    BY <1>2 DEF ChainInv, Working
  <1>6. KeyBefore(Inserted)' /\ HeadsRight(Inserted)' /\ LinksRight(Inserted)'
    BY <1>2, <1>3, <1>4, <1>5 DEF KeyBefore, HeadsRight, LinksRight
  <1>7. ASSUME pc' = "search" PROVE Candidate'
    <2>1. cur_match \in Nat /\ strstart \in Nat /\ cur_match < strstart /\ cur_match >= strstart - MAX_DIST
          /\ HashOf(cur_match) = HashOf(strstart)
      BY <1>1, <1>5 DEF Candidate, TypeOK
    <2>2. PICK m : m = prev[cur_match % WSIZE]
      OBVIOUS
    <2>3. cur_match' = m /\ m > Limit
      BY <1>1, <1>7, <2>2, SearchTurn
    <2>4. WSIZE \in Nat \ {0} /\ MAX_DIST \in Nat /\ MAX_DIST < WSIZE
      BY Sizes
    <2>5. m \in Nat
      <3>1. cur_match % WSIZE \in 0 .. WSIZE - 1
        BY <2>1, <2>4, ModFacts
      <3> QED BY <1>1, <2>2, <3>1 DEF TypeOK
    <2>6. m # NIL /\ m >= strstart - MAX_DIST
      BY <2>1, <2>3, <2>4, <2>5 DEF Limit, NIL
    <2>7. cur_match \in 0 .. Inserted - 1 /\ cur_match >= Inserted - WSIZE
      BY <1>4, <2>1, <2>4
    <2>8. m < cur_match /\ HashOf(m) = HashOf(cur_match)
      BY <1>5, <2>2, <2>6, <2>7 DEF LinksRight
    <2>9. m < strstart
      BY <2>1, <2>5, <2>8
    <2>10. strstart' = strstart
      BY <1>2
    <2> QED BY <1>3, <2>1, <2>3, <2>6, <2>8, <2>9, <2>10 DEF Candidate
  <1> QED BY <1>2, <1>4, <1>6, <1>7 DEF ChainInv

LEMMA ChainsInsertNext == ASSUME WindowInv, ChainInv, InsertNext PROVE ChainInv'
  <1>1. /\ pc = "insert" /\ TypeOK /\ pc' \in {"insert", "loop"} /\ INSERT_STRING(strstart + 1)
        /\ UNCHANGED <<window, behind>> /\ strstart \in Nat /\ strstart + 1 \in Nat
        /\ Inserted' = strstart + 2
    <2>1. pc = "insert" /\ TypeOK /\ INSERT_STRING(strstart + 1) /\ UNCHANGED <<window, behind>>
      BY DEF InsertNext, WindowInv, reading
    <2>2. strstart \in Nat
      BY <2>1 DEF TypeOK
    <2>3. \/ strstart' = strstart + 1 /\ pc' = "insert"
          \/ strstart' = strstart + 2 /\ pc' = "loop"
      BY <2>1 DEF InsertNext
    <2>4. pc' \in {"insert", "loop"} /\ Inserted' = strstart + 2
      BY <2>2, <2>3 DEF Inserted
    <2> QED BY <2>1, <2>2, <2>4
  <1>2. PICK s \in Nat : s = strstart + 1
    BY <1>1
  <1>3. KeyBefore(s) /\ HeadsRight(s) /\ LinksRight(s)
    BY <1>1, <1>2 DEF ChainInv, Inserted, Working
  <1>4. KeyBefore(s + 1)' /\ HeadsRight(s + 1)' /\ LinksRight(s + 1)'
    BY <1>1, <1>2, <1>3, InsertChains
  <1>5. Inserted' = s + 1
    BY <1>1, <1>2
  <1> QED BY <1>1, <1>4, <1>5 DEF ChainInv

LEMMA ChainsOther ==
    ASSUME WindowInv, ChainInv, EmitMatch \/ EmitLiteral \/ Defer \/ Finish \/ lm_init \/ UNCHANGED vars
    PROVE  ChainInv'
  <1>1. CASE EmitMatch
    <2>1. pc = "decide" /\ pc' = "insert" /\ UNCHANGED <<window, behind, head, prev, ins_h, strstart>>
      BY <1>1 DEF EmitMatch, reading, chains
    <2> QED BY <2>1, ChainsStay DEF Inserted, Working
  <1>2. CASE EmitLiteral \/ Defer
    <2>1. /\ pc = "decide" /\ pc' = "loop" /\ UNCHANGED <<window, behind, head, prev, ins_h>>
          /\ strstart' = strstart + 1
      BY <1>2 DEF EmitLiteral, Defer, reading, chains
    <2> QED BY <2>1, ChainsStay DEF Inserted, Working
  <1>3. CASE Finish
    BY <1>3 DEF Finish, ChainInv, Working
  <1>4. CASE lm_init
    BY <1>4 DEF lm_init, ChainInv, Working, WindowInv, TypeOK
  <1>5. CASE UNCHANGED vars
    BY <1>5 DEF vars, ChainInv, KeyBefore, HeadsRight, LinksRight, Candidate, Inserted, byte, HashOf
  <1> QED BY <1>1, <1>2, <1>3, <1>4, <1>5

LEMMA ChainsStep == WindowInv /\ ChainInv /\ [Next]_vars => ChainInv'
  BY ChainsFill, ChainsHashFirst, ChainsStartTurn, ChainsSearch, ChainsInsertNext, ChainsOther
     DEF Next, deflate_work, Ended

LEMMA ChainsAlways == Spec => [](WindowInv /\ ChainInv)
  <1>1. Init => ChainInv
    BY DEF Init, ChainInv, Working
  <1> QED BY <1>1, ChainsStep, WindowAlways, PTL DEF Spec

\* ChainsSound: whatever the block and however often the window slid, the links
\* longest_match follows lead back and to strings with the key it looks for.
THEOREM ChainsLeadBack == Spec => []ChainsSound
  <1>1. WindowInv /\ ChainInv => ChainsSound
    <2> SUFFICES ASSUME WindowInv, ChainInv, pc = "loop"
                 PROVE  /\ \A h \in DOMAIN head : head[h] > Limit => head[h] < strstart /\ HashOf(head[h]) = h
                        /\ \A s \in Limit + 1 .. strstart - 1 :
                             prev[s % WSIZE] > Limit => prev[s % WSIZE] < s /\ HashOf(prev[s % WSIZE]) = HashOf(s)
      BY DEF ChainsSound
    <2>1. HeadsRight(strstart) /\ LinksRight(strstart)
      BY DEF ChainInv, Inserted, Working
    <2>2. /\ strstart \in Nat /\ head \in [HashKeys -> Nat] /\ prev \in [0 .. WSIZE - 1 -> Nat]
          /\ MAX_DIST \in Nat /\ WSIZE \in Nat \ {0} /\ MAX_DIST < WSIZE
      BY Sizes DEF WindowInv, TypeOK
    <2>3. Limit \in Nat /\ Limit >= strstart - MAX_DIST
      BY <2>2 DEF Limit, NIL
    <2>4. ASSUME NEW h \in DOMAIN head, head[h] > Limit
          PROVE  head[h] < strstart /\ HashOf(head[h]) = h
      <3>1. h \in HashKeys /\ head[h] \in Nat /\ head[h] # NIL
        BY <2>2, <2>3, <2>4 DEF NIL
      <3> QED BY <2>1, <3>1 DEF HeadsRight
    <2>5. ASSUME NEW s \in Limit + 1 .. strstart - 1, prev[s % WSIZE] > Limit
          PROVE  prev[s % WSIZE] < s /\ HashOf(prev[s % WSIZE]) = HashOf(s)
      <3>1. s \in Nat /\ s \in 0 .. strstart - 1 /\ s >= strstart - WSIZE
        BY <2>2, <2>3
      <3>2. s % WSIZE \in 0 .. WSIZE - 1
        BY <2>2, <3>1, ModFacts
      <3>3. prev[s % WSIZE] # NIL
        BY <2>2, <2>3, <2>5, <3>2 DEF NIL
      <3> QED BY <2>1, <3>1, <3>3 DEF LinksRight
    <2> QED BY <2>4, <2>5
  <1> QED BY <1>1, ChainsAlways, PTL

-----------------------------------------------------------------------------
(* The matches                                                              *)

\* What agrees in the window is equal in the block, where both lie in what was read:
\* the byte that was not compared has to be, as the hash keys are equal.
LEMMA AgreeingIsReal ==
    ASSUME WindowInv, pc = "search", Candidate, NEW l \in Nat, l >= 3,
           \A k \in (0 .. l - 1) \ {2} : byte(cur_match + k) = byte(strstart + k),
           NEW n \in Nat, n <= l, n <= lookahead
    PROVE  Real(Pos, strstart - cur_match, n)
  <1>1. /\ TypeOK /\ HoldsInput /\ Ahead = lookahead /\ strstart \in Nat /\ lookahead \in Nat
        /\ strstart + lookahead <= 2 * WSIZE /\ inpos \in Int /\ cur_match \in Nat
        /\ inpos - lookahead - strstart >= 0
    BY InputType DEF WindowInv, TypeOK, Ahead, Base
  <1>2. cur_match < strstart /\ strstart - cur_match <= MAX_DIST /\ HashOf(cur_match) = HashOf(strstart)
        /\ MAX_DIST \in Nat
    BY <1>1, Sizes DEF Candidate
  <1>3. PICK base \in Nat : base = Base /\ inpos - lookahead = base + strstart
    BY <1>1 DEF Base
  <1>4. Pos = base + strstart
    BY <1>1, <1>3 DEF Pos
  <1>5. byte(cur_match + 2) = byte(strstart + 2)
    <2>1. byte(cur_match + 0) = byte(strstart + 0) /\ byte(cur_match + 1) = byte(strstart + 1)
      OBVIOUS
    <2>2. cur_match + 0 = cur_match /\ strstart + 0 = strstart
      BY <1>1
    <2> QED BY <1>1, <1>2, <2>1, <2>2, ThirdByte
  <1>6. ASSUME NEW k \in 0 .. n - 1
        PROVE  input[(base + strstart) + k + 1] = input[(base + strstart) - (strstart - cur_match) + k + 1]
    <2>1. byte(cur_match + k) = byte(strstart + k)
      BY <1>5
    <2>2. /\ cur_match + k \in 0 .. strstart + lookahead - 1 /\ cur_match + k < 2 * WSIZE
          /\ strstart + k \in 0 .. strstart + lookahead - 1 /\ strstart + k < 2 * WSIZE
      BY <1>1, <1>2, Sizes
    <2>3. window[cur_match + k] = window[strstart + k]
      BY <2>1, <2>2 DEF byte
    <2>4. window[cur_match + k] = input[base + (cur_match + k) + 1] /\ window[strstart + k] = input[base + (strstart + k) + 1]
      BY <1>1, <1>3, <2>2 DEF HoldsInput
    <2>5. /\ base + (cur_match + k) + 1 = (base + strstart) - (strstart - cur_match) + k + 1
          /\ base + (strstart + k) + 1 = (base + strstart) + k + 1
      BY <1>1
    <2> QED BY <2>3, <2>4, <2>5
  <1>7. strstart - cur_match \in 1 .. MAX_DIST /\ strstart - cur_match <= base + strstart
    BY <1>1, <1>2
  <1> QED BY <1>4, <1>6, <1>7 DEF Real

LEMMA PosType == WindowInv /\ pc # "init" => Pos \in Nat /\ strstart \in Nat /\ Pos = Base + strstart /\ Base \in Nat
  <1> SUFFICES ASSUME WindowInv, pc # "init"
               PROVE  Pos \in Nat /\ strstart \in Nat /\ Pos = Base + strstart /\ Base \in Nat
    OBVIOUS
  <1>1. inpos \in Int /\ strstart \in Nat /\ Ahead \in Int /\ Base >= 0
    BY InputType DEF WindowInv, TypeOK, Ahead
  <1> QED BY <1>1 DEF Pos, Base

LEMMA MatchesFill == ASSUME WindowInv, MatchInv, fill_window PROVE MatchInv'
  <1>1. /\ TypeOK /\ pc \in {"begin", "loop"} /\ pc' = pc /\ input' = input
        /\ UNCHANGED <<match_length, match_available>>
    BY DEF WindowInv, fill_window
  <1>2. PICK n \in Nat, moved \in {0, WSIZE} : Filled(n, moved)
    BY FillWindow
  <1>3. /\ inpos \in Int /\ lookahead \in Int /\ strstart \in Int /\ match_start \in Int /\ moved \in Int
        /\ inpos' = inpos + n /\ lookahead' = lookahead + n /\ strstart' = strstart - moved
        /\ match_start' = match_start - moved
    BY <1>1, <1>2, InputType, Sizes DEF Filled, TypeOK
  <1>4. PICK p, d : p = Pos - 1 /\ d = strstart - 1 - match_start
    OBVIOUS
  <1>5. (Pos - 1)' = p /\ (strstart - 1 - match_start)' = d
    <2>1. Pos' = Pos
      BY <1>1, <1>3 DEF Pos, Ahead
    <2>2. (strstart - 1 - match_start)' = strstart - 1 - match_start
      BY <1>3
    <2> QED BY <1>4, <2>1, <2>2
  <1>6. ASSUME pc = "loop", match_length >= MIN_MATCH
        PROVE  match_available /\ Real(p, d, match_length)
    BY <1>4, <1>6 DEF MatchInv
  <1>7. match_length' = match_length /\ (match_available => match_available')
    BY <1>1
  <1>8. ASSUME pc' = "loop", match_length' >= MIN_MATCH
        PROVE  match_available' /\ Real(Pos - 1, strstart - 1 - match_start, match_length)'
    <2>1. match_available' /\ Real(p, d, match_length)
      BY <1>1, <1>6, <1>7, <1>8
    <2> QED BY <1>1, <1>5, <1>7, <2>1 DEF Real
  <1> QED BY <1>1, <1>8 DEF MatchInv

LEMMA MatchesStartTurn == ASSUME WindowInv, MatchInv, StartTurn PROVE MatchInv'
  <1>1. /\ TypeOK /\ pc = "loop" /\ pc' \in {"search", "decide", "aborted"}
        /\ UNCHANGED <<input, inpos, lookahead, strstart, match_available>>
        /\ prev_length' = match_length /\ prev_match' = match_start /\ match_length' = 2
        /\ best_len' = match_length
    BY DEF StartTurn, WindowInv, reading, MIN_MATCH
  <1>2. Pos' = Pos
    BY <1>1 DEF Pos, Ahead
  <1>3. match_available => match_available'
    BY <1>1
  <1>4. ASSUME match_length >= MIN_MATCH
        PROVE  match_available' /\ Real(Pos - 1, strstart - 1 - prev_match, prev_length)'
    <2>1. match_available /\ Real(Pos - 1, strstart - 1 - match_start, match_length)
      BY <1>1, <1>4 DEF MatchInv
    <2> QED BY <1>1, <1>2, <1>3, <2>1 DEF Real
  <1>5. match_length \in Nat
    BY <1>1 DEF TypeOK
  <1>6. ~(best_len' > prev_length') /\ ~(match_length' >= MIN_MATCH)
    BY <1>1, <1>5, Sizes
  <1> QED BY <1>1, <1>4, <1>6 DEF MatchInv

LEMMA MatchesSearch == ASSUME WindowInv, ChainInv, MatchInv, longest_match PROVE MatchInv'
  <1>1. TypeOK /\ LengthInv
    BY DEF WindowInv
  <1>2. /\ pc = "search" /\ pc' \in {"search", "decide"}
        /\ UNCHANGED <<input, inpos, lookahead, strstart, prev_length, match_available, prev_match>>
        /\ best_len' \in Nat /\ match_start' \in Int
        /\ \/ /\ Improves /\ best_len' = MatchLength(cur_match, strstart)
              /\ match_start' = cur_match
           \/ best_len' = best_len /\ match_start' = match_start
    BY <1>1, SearchTurn DEF reading
  <1>3. /\ lookahead \in Nat /\ strstart \in Nat /\ prev_length \in Nat
        /\ prev_length >= MIN_MATCH => match_available /\ Real(Pos - 1, strstart - 1 - prev_match, prev_length)
    BY <1>1, <1>2 DEF MatchInv, TypeOK
  <1>4. Pos' = Pos
    BY <1>2 DEF Pos, Ahead
  <1>5. PICK s, b : s = match_start' /\ b = best_len'
    OBVIOUS
  <1>6. s \in Int /\ b \in Nat
    BY <1>2, <1>5
  <1>7. ASSUME b > prev_length, NEW n \in 0 .. b, n <= lookahead
        PROVE  Real(Pos, strstart - s, n)
    <2>1. CASE Improves /\ b = MatchLength(cur_match, strstart) /\ s = cur_match
      <3>1. b \in 3 .. MAX_MATCH /\ \A k \in (0 .. b - 1) \ {2} : byte(cur_match + k) = byte(strstart + k)
        BY <1>1, <2>1, Improvement, Sizes
      <3>2. Candidate
        BY <1>2 DEF ChainInv
      <3>3. n \in Nat /\ n <= b /\ b \in Nat /\ b >= 3
        BY <1>6, <3>1
      <3>4. Real(Pos, strstart - cur_match, n)
        BY <1>2, <1>7, <3>1, <3>2, <3>3, AgreeingIsReal
      <3> QED BY <2>1, <3>4
    <2>2. CASE b = best_len /\ s = match_start
      BY <1>2, <1>7, <2>2 DEF MatchInv
    <2> QED BY <1>2, <1>5, <2>1, <2>2
  <1>8. ASSUME prev_length' >= MIN_MATCH
        PROVE  match_available' /\ Real(Pos - 1, strstart - 1 - prev_match, prev_length)'
    <2>1. match_available /\ Real(Pos - 1, strstart - 1 - prev_match, prev_length)
      BY <1>2, <1>3, <1>8
    <2>2. match_available => match_available'
      BY <1>2
    <2> QED BY <1>2, <1>4, <2>1, <2>2 DEF Real
  <1>9. ASSUME pc' = "search", best_len' > prev_length', NEW n \in 0 .. best_len', n <= lookahead'
        PROVE  Real(Pos, strstart - match_start, n)'
    <2>1. b > prev_length /\ n \in 0 .. b /\ n <= lookahead
      BY <1>2, <1>5, <1>9
    <2>2. Real(Pos, strstart - s, n)
      BY <1>7, <2>1
    <2> QED BY <1>2, <1>4, <1>5, <2>2 DEF Real
  <1>10. ASSUME pc' = "decide", match_length' >= MIN_MATCH, match_length' > prev_length'
         PROVE  Real(Pos, strstart - match_start, match_length)'
    <2>1. PICK m : m = match_length'
      OBVIOUS
    <2>2. m = Accepted(b, s)
      BY <1>1, <1>5, <1>10, <2>1, SearchTurn
    <2>3. m \in Nat /\ m >= MIN_MATCH /\ m > prev_length
      BY <1>1, <1>2, <1>6, <1>10, <2>1, <2>2, AcceptedFacts
    <2>4. m <= b /\ m <= lookahead
      BY <1>1, <1>6, <2>2, <2>3, AcceptedFacts
    <2>5. b > prev_length /\ m \in 0 .. b
      BY <1>3, <1>6, <2>3, <2>4
    <2>6. Real(Pos, strstart - s, m)
      BY <1>7, <2>4, <2>5
    <2> QED BY <1>2, <1>4, <1>5, <2>1, <2>6 DEF Real
  <1> QED BY <1>2, <1>8, <1>9, <1>10 DEF MatchInv

LEMMA MatchesAdvance ==
    ASSUME WindowInv, MatchInv, EmitLiteral \/ Defer
    PROVE  MatchInv'
  <1>1. /\ TypeOK /\ pc = "decide" /\ pc' = "loop" /\ ~TakesPrevious
        /\ UNCHANGED <<input, inpos, match_start, match_length>>
        /\ strstart' = strstart + 1 /\ lookahead' = lookahead - 1
    BY DEF WindowInv, EmitLiteral, Defer, reading
  <1>2. match_available'
    BY DEF EmitLiteral, Defer
  <1>3. /\ match_length \in Nat /\ prev_length \in Nat /\ strstart \in Int /\ lookahead \in Int
        /\ match_start \in Int /\ inpos \in Int
    BY <1>1, InputType DEF TypeOK
  <1>4. (Pos - 1)' = Pos /\ (strstart - 1 - match_start)' = strstart - match_start
    BY <1>1, <1>3 DEF Pos, Ahead
  <1>5. ASSUME match_length' >= MIN_MATCH
        PROVE  Real(Pos - 1, strstart - 1 - match_start, match_length)'
    <2>1. match_length >= MIN_MATCH
      BY <1>1, <1>5
    <2>2. match_length > prev_length
      BY <1>1, <1>3, <2>1 DEF TakesPrevious, MIN_MATCH
    <2>3. Real(Pos, strstart - match_start, match_length)
      BY <1>1, <2>1, <2>2 DEF MatchInv
    <2> QED BY <1>1, <1>4, <2>3 DEF Real
  <1> QED BY <1>1, <1>2, <1>5 DEF MatchInv

LEMMA MatchesOther ==
    ASSUME WindowInv, MatchInv,
           EmitMatch \/ InsertNext \/ Finish \/ HashFirst \/ lm_init \/ UNCHANGED vars
    PROVE  MatchInv'
  <1>1. CASE EmitMatch \/ Finish \/ lm_init
    BY <1>1 DEF EmitMatch, Finish, lm_init, MatchInv
  <1>2. CASE InsertNext \/ HashFirst
    <2>1. pc' = "insert" \/ (pc' = "loop" /\ match_length' = 2)
      BY <1>2 DEF InsertNext, HashFirst, WindowInv, LengthInv, MIN_MATCH
    <2> QED BY <2>1 DEF MatchInv, MIN_MATCH
  <1>3. CASE UNCHANGED vars
    BY <1>3 DEF vars, MatchInv, Real, Pos, Ahead
  <1> QED BY <1>1, <1>2, <1>3

LEMMA MatchesStep == WindowInv /\ ChainInv /\ MatchInv /\ [Next]_vars => MatchInv'
  BY MatchesFill, MatchesStartTurn, MatchesSearch, MatchesAdvance, MatchesOther
     DEF Next, deflate_work, Ended

LEMMA MatchesAlways == Spec => [](WindowInv /\ ChainInv /\ MatchInv)
  <1>1. Init => MatchInv
    BY DEF Init, MatchInv
  <1> QED BY <1>1, MatchesStep, ChainsAlways, PTL DEF Spec

-----------------------------------------------------------------------------
(* Decoding                                                                 *)

LEMMA LiteralBegins ==
    ASSUME TypeOK, NEW out, Begins(out), Len(out) < Len(input)
    PROVE  LET more == DecodeToken(out, Literal(input[Len(out) + 1]))
           IN  Begins(more) /\ Len(more) = Len(out) + 1
  <1>1. input \in Seq(Bytes) /\ out \in Seq(Bytes) /\ Len(out) \in Nat /\ Len(input) \in Nat
    BY InputType DEF Begins
  <1>2. input[Len(out) + 1] \in Bytes
    BY <1>1
  <1>3. DecodeToken(out, Literal(input[Len(out) + 1])) = Append(out, input[Len(out) + 1])
    BY DEF DecodeToken, Literal
  <1>4. PICK c \in Bytes : c = input[Len(out) + 1]
    BY <1>2
  <1>5. /\ Append(out, c) \in Seq(Bytes) /\ Len(Append(out, c)) = Len(out) + 1
        /\ \A i \in 1 .. Len(out) + 1 : Append(out, c)[i] = IF i <= Len(out) THEN out[i] ELSE c
    BY <1>1, <1>4
  <1>6. \A i \in 1 .. Len(out) + 1 : Append(out, c)[i] = input[i]
    BY <1>1, <1>4, <1>5 DEF Begins
  <1> QED BY <1>1, <1>3, <1>4, <1>5, <1>6 DEF Begins

LEMMA MatchBegins ==
    ASSUME TypeOK, NEW out, Begins(out), NEW d, NEW n \in Nat, Real(Len(out), d, n),
           Len(out) + n <= Len(input)
    PROVE  LET more == DecodeToken(out, Match(d, n))
           IN  Begins(more) /\ Len(more) = Len(out) + n
  <1>1. input \in Seq(Bytes) /\ out \in Seq(Bytes) /\ Len(out) \in Nat /\ Len(input) \in Nat
    BY InputType DEF Begins
  <1>2. PICK p \in Nat : p = Len(out)
    BY <1>1
  <1>3. /\ d \in Nat \ {0} /\ d <= p
        /\ Copies(input, p, d, n)
    BY <1>2, Sizes DEF Real, Copies
  <1>4. Cycles(input, p, d, n)
    BY <1>3, Repeats
  <1> DEFINE f == [i \in 1 .. n |-> out[Len(out) - d + 1 + ((i - 1) % d)]]
  <1>5. DecodeToken(out, Match(d, n)) = out \o f
    BY <1>2, <1>3 DEF DecodeToken, Match
  <1>6. \A i \in 1 .. n : f[i] = input[p + i] /\ input[p + i] \in Bytes
    <2> SUFFICES ASSUME NEW i \in 1 .. n PROVE f[i] = input[p + i] /\ input[p + i] \in Bytes
      OBVIOUS
    <2>1. PICK k \in Nat : k = i - 1
      OBVIOUS
    <2>2. PICK r : r = k % d
      OBVIOUS
    <2>3. r \in 0 .. d - 1
      BY <1>3, <2>1, <2>2, ModFacts
    <2>4. f[i] = out[p - d + 1 + r]
      BY <1>2, <2>1, <2>2
    <2>5. p - d + 1 + r \in 1 .. p
      BY <1>3, <2>3
    <2>6. out[p - d + 1 + r] = input[p - d + 1 + r]
      BY <1>2, <2>5 DEF Begins
    <2>7. k \in 0 .. n - 1 /\ p + k + 1 = p + i
      BY <2>1
    <2>8. input[p + k + 1] = input[p - d + 1 + r]
      BY <1>4, <2>2, <2>7 DEF Cycles
    <2>9. p + i \in 1 .. Len(input)
      BY <1>1, <1>2
    <2> QED BY <1>1, <2>4, <2>6, <2>7, <2>8, <2>9
  <1>7. f \in [1 .. n -> Bytes]
    BY <1>6
  <1> HIDE DEF f
  <1>8. f \in Seq(Bytes) /\ Len(f) = n
    BY <1>7, FunctionSeq
  <1>9. /\ out \o f \in Seq(Bytes) /\ Len(out \o f) = p + n
        /\ \A i \in 1 .. p + n : (out \o f)[i] = IF i <= p THEN out[i] ELSE f[i - p]
    BY <1>1, <1>2, <1>8, ConcatProperties
  <1>10. \A i \in 1 .. p + n : (out \o f)[i] = input[i]
    <2> SUFFICES ASSUME NEW i \in 1 .. p + n PROVE (out \o f)[i] = input[i]
      OBVIOUS
    <2>1. CASE i <= p
      BY <1>2, <1>9, <2>1 DEF Begins
    <2>2. CASE ~(i <= p)
      <3>1. i - p \in 1 .. n /\ p + (i - p) = i
        BY <2>2
      <3> QED BY <1>6, <1>9, <2>2, <3>1
    <2> QED BY <2>1, <2>2
  <1> QED BY <1>2, <1>5, <1>9, <1>10 DEF Begins

-----------------------------------------------------------------------------
(* The output                                                               *)

OutputInv == TokensInv /\ DecodedInv /\ BlockInv

LEMMA InReachAppend ==
    ASSUME NEW s, InReach(s), NEW token \in Token,
           token.dist # 0 => token.lc \in MIN_MATCH .. MAX_MATCH /\ token.dist \in 1 .. MAX_DIST
    PROVE  InReach(Append(s, token))
  <1>1. s \in Seq(Token) /\ Len(s) \in Nat
    BY DEF InReach
  <1>2. /\ Append(s, token) \in Seq(Token) /\ Len(Append(s, token)) = Len(s) + 1
        /\ \A i \in 1 .. Len(s) + 1 : Append(s, token)[i] = IF i <= Len(s) THEN s[i] ELSE token
    BY <1>1
  <1>3. DOMAIN s = 1 .. Len(s) /\ DOMAIN Append(s, token) = 1 .. Len(s) + 1
    BY <1>1, <1>2, LenProperties
  <1>4. ASSUME NEW i \in DOMAIN Append(s, token), Append(s, token)[i].dist # 0
        PROVE  Append(s, token)[i].lc \in MIN_MATCH .. MAX_MATCH /\ Append(s, token)[i].dist \in 1 .. MAX_DIST
    <2>1. CASE i <= Len(s)
      <3>1. i \in DOMAIN s /\ Append(s, token)[i] = s[i]
        BY <1>2, <1>3, <2>1
      <3> QED BY <1>4, <3>1 DEF InReach
    <2>2. CASE ~(i <= Len(s))
      <3>1. Append(s, token)[i] = token
        BY <1>2, <1>3, <2>2
      <3> QED BY <1>4, <3>1
    <2> QED BY <2>1, <2>2
  <1> QED BY <1>2, <1>4 DEF InReach

LEMMA LiteralInReach ==
    ASSUME NEW s, InReach(s), NEW c \in Nat
    PROVE  InReach(Append(s, Literal(c))) /\ InReach(<< >>)
  <1>1. Literal(c) \in Token /\ Literal(c).dist = 0
    BY DEF Literal, Token
  <1>2. InReach(Append(s, Literal(c)))
    BY <1>1, InReachAppend
  <1>3. InReach(<< >>)
    BY DEF InReach
  <1> QED BY <1>2, <1>3

\* What flush_block is given when the tokens so far decode to all up to end.
LEMMA FlushFacts ==
    ASSUME WindowInv, pc # "init", input' = input, NEW tokens, NEW out,
           NEW end \in Nat, end <= strstart + Ahead, Len(out) = Base + end,
           FLUSH_BLOCK(tokens, out, end), sent \in Nat, sent <= Len(out), block_start = sent - Base
    PROVE  /\ flushed'.tokens = tokens /\ tally' = << >> /\ sent' = Len(out)
           /\ \A m : m = Len(out) => FlushedRight(m)'
  <1>1. PICK base \in Nat : base = Base
    BY PosType
  <1>2. /\ strstart \in Int /\ Ahead \in Int /\ strstart + Ahead <= 2 * WSIZE /\ HoldsInput
        /\ window \in [0 .. 2 * WSIZE - 1 -> Bytes] /\ block_start \in Int
    BY DEF WindowInv, TypeOK, Ahead
  <1>3. /\ flushed'.tokens = tokens /\ tally' = << >> /\ sent' = Len(out)
        /\ flushed'.from = sent /\ flushed'.upto = Len(out) /\ flushed'.stored_len = end - block_start
        /\ flushed'.has_buf = (block_start >= 0)
        /\ block_start >= 0 => flushed'.buf = [i \in 1 .. end - block_start |-> window[block_start + i - 1]]
    BY DEF FLUSH_BLOCK
  <1>4. PICK L \in Nat : L = Len(out) /\ L = base + end /\ sent <= L /\ block_start = sent - base
    BY <1>1
  <1>5. end - block_start = L - sent /\ L - sent \in Nat
    BY <1>1, <1>4
  <1>6. ASSUME block_start >= 0
        PROVE  /\ flushed'.buf \in Seq(Bytes) /\ Len(flushed'.buf) = L - sent
               /\ \A i \in 1 .. L - sent : flushed'.buf[i] = input[sent + i]
    <2> DEFINE f == [i \in 1 .. L - sent |-> window[block_start + i - 1]]
    <2>1. flushed'.buf = f
      BY <1>3, <1>5, <1>6
    <2>2. \A i \in 1 .. L - sent : f[i] \in Bytes /\ f[i] = input[sent + i]
      <3> SUFFICES ASSUME NEW i \in 1 .. L - sent PROVE f[i] \in Bytes /\ f[i] = input[sent + i]
        OBVIOUS
      <3>1. PICK j : j = block_start + i - 1
        OBVIOUS
      <3>2. j \in 0 .. strstart + Ahead - 1 /\ j \in 0 .. 2 * WSIZE - 1 /\ base + j + 1 = sent + i
        BY <1>1, <1>2, <1>4, <1>6, <3>1, Sizes
      <3>3. f[i] = window[j]
        BY <3>1
      <3>4. window[j] = input[base + j + 1]
        BY <1>1, <1>2, <3>2 DEF HoldsInput
      <3> QED BY <1>2, <3>2, <3>3, <3>4
    <2>3. f \in [1 .. L - sent -> Bytes]
      BY <2>2
    <2> HIDE DEF f
    <2>4. f \in Seq(Bytes) /\ Len(f) = L - sent
      BY <1>5, <2>3, FunctionSeq
    <2> QED BY <2>1, <2>2, <2>4
  <1>7. FlushedRight(L)'
    <2>1. PICK g : g = flushed'
      OBVIOUS
    <2>2. g.upto = L /\ g.from = sent /\ g.stored_len = L - sent
      BY <1>3, <1>4, <1>5, <2>1
    <2>3. g.has_buf =>
            /\ g.buf \in Seq(Bytes) /\ Len(g.buf) = L - sent
            /\ \A i \in 1 .. L - sent : g.buf[i] = input[sent + i]
      BY <1>3, <1>6, <2>1
    <2>4. /\ g.from \in Nat /\ g.upto \in Nat /\ g.from <= g.upto /\ g.upto <= L
          /\ g.stored_len = g.upto - g.from
      BY <1>4, <2>2
    <2>5. g.has_buf => /\ g.buf \in Seq(Bytes) /\ Len(g.buf) = g.upto - g.from
                       /\ \A i \in 1 .. Len(g.buf) : g.buf[i] = input[g.from + i]
      BY <2>2, <2>3
    <2> QED BY <2>1, <2>4, <2>5 DEF FlushedRight
  <1> QED BY <1>3, <1>4, <1>7

\* Steps that send and decide nothing.
LEMMA QuietOutput ==
    ASSUME WindowInv, OutputInv, UNCHANGED <<input, output>>, inpos' - lookahead' = inpos - lookahead,
           match_available => match_available', match_available' => match_available,
           pc \in {"begin", "loop", "search"}, pc' \notin {"init", "insert", "done"},
           match_available /\ pc # "begin" => strstart' >= 1,
           pc' = "begin" => pc = "begin",
           NEW k \in Int, strstart' = strstart - k, block_start' = block_start - k
    PROVE  OutputInv'
  <1>1. /\ tally' = tally /\ flushed' = flushed /\ decoded' = decoded /\ sent' = sent /\ input' = input
    BY DEF output
  <1>2. TokensInv'
    BY <1>1 DEF OutputInv, TokensInv, InReach
  <1>3. Undecided' = Undecided
    BY DEF Undecided
  <1>4. Begins(decoded)' /\ Len(decoded') = inpos' - lookahead' - Undecided'
    <2>1. PICK x : x = inpos - lookahead
      OBVIOUS
    <2>2. Len(decoded) = x - Undecided /\ inpos' - lookahead' = x
      BY <2>1 DEF OutputInv, DecodedInv
    <2>3. Begins(decoded)'
      BY <1>1 DEF OutputInv, DecodedInv, Begins
    <2> QED BY <1>1, <1>3, <2>2, <2>3
  <1>5. DecodedInv'
    <2>1. pc = "begin" => ~match_available
      BY DEF OutputInv, DecodedInv
    <2>2. match_available' => strstart' >= 1
      BY <2>1
    <2>3. pc' \in {"init", "begin"} => ~match_available'
      BY <2>1
    <2> QED BY <1>4, <2>2, <2>3 DEF DecodedInv
  <1>6. FlushedRight(Len(decoded))'
    BY <1>1 DEF OutputInv, BlockInv, FlushedRight
  <1>7. block_start' = sent' - Base'
    <2>1. block_start = sent - Base /\ sent \in Int
      BY DEF OutputInv, BlockInv
    <2>2. /\ Base \in Int /\ strstart \in Int
      BY PosType
    <2>3. Base' = Base + k
      <3>1. Base = (inpos - lookahead) - strstart
        BY DEF Base, Ahead
      <3>2. Base' = (inpos' - lookahead') - strstart'
        BY DEF Base, Ahead
      <3>3. PICK x : x = inpos - lookahead
        OBVIOUS
      <3>4. Base = x - strstart /\ Base' = x - (strstart - k)
        BY <3>1, <3>2, <3>3
      <3>5. x \in Int
        BY <3>3, InputType DEF WindowInv, TypeOK
      <3> QED BY <2>2, <3>4, <3>5
    <2> QED BY <1>1, <2>1, <2>2, <2>3
  <1> QED BY <1>1, <1>2, <1>5, <1>6, <1>7 DEF OutputInv, BlockInv

LEMMA OutputLmInit == ASSUME WindowInv, OutputInv, lm_init PROVE OutputInv'
  <1>1. /\ pc = "init" /\ TypeOK /\ inpos = 0 /\ lookahead = 0 /\ pc' = "begin"
        /\ UNCHANGED <<input, tally, flushed, decoded, sent, match_available>>
        /\ strstart' = 0 /\ block_start' = 0 /\ thread_read_buf(window, 0)
    BY DEF lm_init, WindowInv, output
  <1>2. window \in [0 .. 2 * WSIZE - 1 -> Bytes] /\ 0 \in 0 .. 2 * WSIZE
    BY <1>1, Sizes DEF TypeOK
  <1>3. PICK n \in Nat : Read(window, 0, n)
    BY <1>1, <1>2, ReadBuf
  <1>4. inpos' = n /\ lookahead' = n
    BY <1>1, <1>3 DEF Read
  <1>5. ~match_available /\ Undecided = 0 /\ Undecided' = 0 /\ Len(decoded) = 0 /\ ~match_available'
    <2>1. ~match_available /\ ~match_available'
      BY <1>1 DEF OutputInv, DecodedInv
    <2>2. Undecided = 0 /\ Undecided' = 0
      BY <2>1 DEF Undecided
    <2> QED BY <1>1, <2>1, <2>2 DEF OutputInv, DecodedInv
  <1>6. TokensInv'
    BY <1>1 DEF OutputInv, TokensInv, InReach
  <1>7. DecodedInv'
    BY <1>1, <1>4, <1>5 DEF OutputInv, DecodedInv, Begins
  <1>8. sent = 0
    BY <1>5 DEF OutputInv, BlockInv
  <1>9. Base' = 0
    BY <1>1, <1>4 DEF Base, Ahead
  <1>10. BlockInv'
    BY <1>1, <1>5, <1>8, <1>9 DEF OutputInv, BlockInv, FlushedRight
  <1> QED BY <1>6, <1>7, <1>10 DEF OutputInv

LEMMA OutputQuiet ==
    ASSUME WindowInv, OutputInv, fill_window \/ HashFirst \/ StartTurn \/ longest_match
    PROVE  OutputInv'
  <1>1. CASE fill_window
    <2>1. /\ pc \in {"begin", "loop"} /\ pc' = pc /\ UNCHANGED <<input, output>> /\ match_available' = match_available
      BY <1>1 DEF fill_window
    <2>2. PICK n \in Nat, moved \in {0, WSIZE} : Filled(n, moved)
      BY <1>1, FillWindow
    <2>3. /\ inpos \in Int /\ lookahead \in Int /\ strstart \in Nat /\ moved \in Int
      BY InputType, Sizes DEF WindowInv, TypeOK
    <2>4. inpos' - lookahead' = inpos - lookahead
      BY <2>2, <2>3 DEF Filled
    <2>5. strstart' = strstart - moved /\ block_start' = block_start - moved
      BY <2>2 DEF Filled
    <2>6. strstart >= 1 => strstart - moved >= 1
      BY <2>2, <2>3, Sizes DEF Filled
    <2>7. match_available /\ pc # "begin" => strstart' >= 1
      BY <2>1, <2>5, <2>6 DEF OutputInv, DecodedInv
    <2>8. pc \in {"begin", "loop", "search"} /\ pc' \notin {"init", "insert", "done"}
      BY <2>1
    <2> QED BY <2>1, <2>3, <2>4, <2>5, <2>7, <2>8, QuietOutput
  <1>2. CASE HashFirst \/ StartTurn \/ longest_match
    <2>1. /\ UNCHANGED <<input, inpos, lookahead, strstart, block_start, output, match_available>>
          /\ pc \in {"begin", "loop", "search"} /\ pc' \in {"loop", "search", "decide", "aborted"}
      BY <1>2 DEF HashFirst, StartTurn, longest_match, reading
    <2>2. strstart \in Nat /\ block_start \in Int
      BY DEF WindowInv, TypeOK
    <2>3. strstart' = strstart - 0 /\ block_start' = block_start - 0
      BY <2>1, <2>2
    <2>4. match_available /\ pc # "begin" => strstart' >= 1
      BY <2>1 DEF OutputInv, DecodedInv
    <2>5. inpos' - lookahead' = inpos - lookahead
      BY <2>1
    <2>6. pc \in {"begin", "loop", "search"} /\ pc' \notin {"init", "insert", "done"} /\ pc' # "begin"
      BY <2>1
    <2> QED BY <2>1, <2>3, <2>4, <2>5, <2>6, QuietOutput
  <1> QED BY <1>1, <1>2

\* Where the output stands between two decisions.
LEMMA OutputPlace ==
    ASSUME WindowInv, OutputInv, pc \in Working
    PROVE  /\ Len(decoded) = inpos - lookahead - Undecided /\ Len(decoded) \in Nat
           /\ inpos \in Nat /\ lookahead \in Nat /\ strstart \in Nat /\ Base \in Nat /\ Ahead \in Nat
           /\ inpos <= Len(input) /\ Len(input) \in Nat
           /\ sent \in Nat /\ sent <= Len(decoded) /\ block_start = sent - Base
           /\ Base + strstart + Ahead = inpos
  <1>1. TypeOK /\ pc # "init" /\ pc \notin {"init", "done"}
    BY DEF WindowInv, Working
  <1>2. /\ inpos \in Nat /\ lookahead \in Nat /\ strstart \in Nat /\ inpos <= Len(input) /\ Len(input) \in Nat
        /\ prev_length \in Nat
    BY <1>1, InputType DEF TypeOK
  <1>3. Base \in Nat
    BY <1>1, PosType
  <1>4. Ahead \in Nat
    BY <1>2 DEF Ahead
  <1>5. Base + strstart + Ahead = inpos
    BY <1>2, <1>4 DEF Base
  <1>6. /\ Len(decoded) = inpos - lookahead - Undecided /\ Begins(decoded)
        /\ sent \in Nat /\ sent <= Len(decoded) /\ block_start = sent - Base
    BY <1>1 DEF OutputInv, DecodedInv, BlockInv
  <1>7. Len(decoded) \in Nat
    BY <1>6 DEF Begins
  <1> QED BY <1>2, <1>3, <1>4, <1>5, <1>6, <1>7

LEMMA OutputDefer == ASSUME WindowInv, OutputInv, Defer PROVE OutputInv'
  <1>1. /\ pc = "decide" /\ ~match_available /\ match_available' = TRUE /\ pc' = "loop"
        /\ strstart' = strstart + 1 /\ lookahead' = lookahead - 1
        /\ UNCHANGED <<input, inpos, block_start, tally, flushed, decoded, sent>>
    BY DEF Defer, reading, output
  <1>2. /\ Len(decoded) = inpos - lookahead - Undecided
        /\ inpos \in Nat /\ lookahead \in Nat /\ strstart \in Nat /\ Base \in Nat
        /\ sent \in Nat /\ block_start = sent - Base
    BY <1>1, OutputPlace DEF Working
  <1>3. Undecided = 0 /\ Undecided' = 1
    BY <1>1 DEF Undecided
  <1>4. Base' = Base
    BY <1>1, <1>2 DEF Base, Ahead
  <1>5. TokensInv'
    BY <1>1 DEF OutputInv, TokensInv, InReach
  <1>6. DecodedInv'
    <2>1. Len(decoded') = inpos' - lookahead' - Undecided'
      BY <1>1, <1>2, <1>3
    <2>2. Begins(decoded)'
      BY <1>1 DEF OutputInv, DecodedInv, Begins
    <2>3. strstart + 1 >= 1
      BY <1>2
    <2> QED BY <1>1, <2>1, <2>2, <2>3 DEF DecodedInv
  <1>7. FlushedRight(Len(decoded))'
    BY <1>1 DEF OutputInv, BlockInv, FlushedRight
  <1>8. BlockInv'
    BY <1>1, <1>2, <1>4, <1>7 DEF OutputInv, BlockInv
  <1> QED BY <1>5, <1>6, <1>8 DEF OutputInv

\* The byte that waits for a decision is the next one of the block.
LEMMA WaitingByte ==
    ASSUME WindowInv, OutputInv, pc \in {"loop", "decide"}, match_available
    PROVE  LET token == Literal(window[strstart - 1])
               out == DecodeToken(decoded, token)
           IN  /\ window[strstart - 1] \in Nat /\ Begins(out)
               /\ Len(out) = Len(decoded) + 1 /\ Len(out) = Base + strstart
               /\ Len(out) = inpos - lookahead
  <1>1. /\ Len(decoded) = inpos - lookahead - Undecided /\ Len(decoded) \in Nat
        /\ inpos \in Nat /\ lookahead \in Nat /\ strstart \in Nat /\ Base \in Nat /\ Ahead \in Nat
        /\ inpos <= Len(input) /\ Len(input) \in Nat
        /\ Base + strstart + Ahead = inpos
    BY OutputPlace DEF Working
  <1>2. Undecided = 1 /\ Ahead = lookahead /\ strstart >= 1
    BY DEF Undecided, Ahead, OutputInv, DecodedInv
  <1>3. Len(decoded) + 1 = Base + strstart /\ Len(decoded) < Len(input) /\ Len(decoded) + 1 = inpos - lookahead
    BY <1>1, <1>2
  <1>4. strstart - 1 \in 0 .. strstart + Ahead - 1 /\ Base + (strstart - 1) + 1 = Len(decoded) + 1
    BY <1>1, <1>2, <1>3
  <1>5. window[strstart - 1] = input[Len(decoded) + 1]
    <2>1. HoldsInput
      BY DEF WindowInv
    <2> QED BY <2>1, <1>4 DEF HoldsInput
  <1>6. TypeOK /\ Begins(decoded)
    BY DEF WindowInv, OutputInv, DecodedInv
  <1>7. input[Len(decoded) + 1] \in Bytes
    BY <1>1, <1>3, <1>6, InputType
  <1> QED BY <1>3, <1>5, <1>6, <1>7, LiteralBegins, InputsAssumption

LEMMA OutputEmitLiteral == ASSUME WindowInv, OutputInv, EmitLiteral PROVE OutputInv'
  <1> DEFINE token == Literal(window[strstart - 1])
             out == DecodeToken(decoded, token)
  <1>1. /\ pc = "decide" /\ match_available /\ match_available' = match_available /\ pc' = "loop"
        /\ strstart' = strstart + 1 /\ lookahead' = lookahead - 1
        /\ UNCHANGED <<input, inpos>> /\ decoded' = out
        /\ \/ FLUSH_BLOCK(Append(tally, token), out, strstart) /\ block_start' = strstart
           \/ tally' = Append(tally, token) /\ UNCHANGED <<flushed, sent, block_start>>
    BY DEF EmitLiteral, reading
  <1>2. /\ window[strstart - 1] \in Nat /\ Begins(out)
        /\ Len(out) = Len(decoded) + 1 /\ Len(out) = Base + strstart
        /\ Len(out) = inpos - lookahead
    BY <1>1, WaitingByte
  <1>3. /\ Len(decoded) \in Nat /\ inpos \in Nat /\ lookahead \in Nat /\ strstart \in Nat /\ Base \in Nat
        /\ sent \in Nat /\ sent <= Len(decoded) /\ block_start = sent - Base
    BY <1>1, OutputPlace DEF Working
  <1>4. InReach(tally) /\ InReach(flushed.tokens)
    BY DEF OutputInv, TokensInv
  <1>5. InReach(Append(tally, token)) /\ InReach(<< >>)
    BY <1>2, <1>4, LiteralInReach
  <1> HIDE DEF token, out
  <1>6. Undecided' = 1 /\ Base' = Base
    BY <1>1, <1>3 DEF Undecided, Base, Ahead
  <1>7. DecodedInv'
    <2>1. Begins(decoded)'
      BY <1>1, <1>2 DEF Begins
    <2>2. Len(decoded') = inpos' - lookahead' - Undecided'
      BY <1>1, <1>2, <1>3, <1>6
    <2>3. strstart + 1 >= 1
      BY <1>3
    <2> QED BY <1>1, <2>1, <2>2, <2>3 DEF DecodedInv
  <1>8. CASE FLUSH_BLOCK(Append(tally, token), out, strstart) /\ block_start' = strstart
    <2>1. strstart <= strstart + Ahead /\ sent <= Len(out) /\ pc # "init"
      BY <1>1, <1>2, <1>3 DEF Ahead
    <2>2. /\ flushed'.tokens = Append(tally, token) /\ tally' = << >> /\ sent' = Len(out)
          /\ \A m : m = Len(out) => FlushedRight(m)'
      BY <1>1, <1>2, <1>3, <1>8, <2>1, FlushFacts
    <2>3. FlushedRight(Len(decoded))'
      BY <1>1, <2>2 DEF FlushedRight
    <2>4. TokensInv'
      BY <1>5, <2>2 DEF TokensInv, InReach
    <2>5. PICK n \in Nat : n = Base + strstart
      BY <1>3
    <2>6. sent' = n /\ Len(decoded') = n
      BY <1>1, <1>2, <2>2, <2>5
    <2>7. block_start' = sent' - Base'
      BY <1>3, <1>6, <1>8, <2>5, <2>6
    <2>8. BlockInv'
      BY <2>3, <2>6, <2>7 DEF BlockInv
    <2> QED BY <1>7, <2>4, <2>8 DEF OutputInv
  <1>9. CASE tally' = Append(tally, token) /\ UNCHANGED <<flushed, sent, block_start>>
    <2>1. TokensInv'
      BY <1>4, <1>5, <1>9 DEF TokensInv, InReach
    <2>2. FlushedRight(Len(decoded))'
      <3>1. Len(decoded') = Len(decoded) + 1 /\ Len(decoded) \in Nat
        BY <1>1, <1>2, <1>3
      <3>2. FlushedRight(Len(decoded))
        BY DEF OutputInv, BlockInv
      <3> QED BY <1>1, <1>9, <3>1, <3>2 DEF FlushedRight
    <2>3. BlockInv'
      BY <1>1, <1>2, <1>3, <1>6, <1>9, <2>2 DEF BlockInv
    <2> QED BY <1>7, <2>1, <2>3 DEF OutputInv
  <1> QED BY <1>1, <1>8, <1>9

LEMMA OutputEmitMatch == ASSUME WindowInv, MatchInv, OutputInv, EmitMatch PROVE OutputInv'
  <1> DEFINE d == strstart - 1 - prev_match
             out == DecodeToken(decoded, Match(d, prev_length))
  <1>1. /\ pc = "decide" /\ TakesPrevious /\ pc' = "insert" /\ decoded' = out
        /\ tally' = Append(tally, Match(d, prev_length))
        /\ lookahead' = lookahead - (prev_length - 1) /\ prev_length' = prev_length - 2
        /\ UNCHANGED <<input, inpos, strstart, block_start, match_available, flushed, sent>>
    BY DEF EmitMatch, reading
  <1>2. /\ Len(decoded) = inpos - lookahead - Undecided /\ Len(decoded) \in Nat
        /\ inpos \in Nat /\ lookahead \in Nat /\ strstart \in Nat /\ Base \in Nat /\ Ahead \in Nat
        /\ inpos <= Len(input) /\ Len(input) \in Nat
        /\ sent \in Nat /\ sent <= Len(decoded) /\ block_start = sent - Base
    BY <1>1, OutputPlace DEF Working
  <1>3. /\ prev_length \in Nat /\ prev_length >= 3 /\ prev_length \in MIN_MATCH .. MAX_MATCH
        /\ prev_length <= lookahead + 1 /\ TypeOK
    BY <1>1, Sizes DEF WindowInv, TypeOK, LengthInv, TakesPrevious
  <1>4. match_available /\ Real(Pos - 1, d, prev_length)
    BY <1>1 DEF MatchInv, TakesPrevious
  <1>5. Undecided = 1 /\ Undecided' = 0 /\ Ahead = lookahead
    BY <1>1, <1>4 DEF Undecided, Ahead
  <1>6. Pos - 1 = Len(decoded) /\ Len(decoded) + prev_length <= Len(input)
    BY <1>2, <1>3, <1>5 DEF Pos
  <1>7. Begins(decoded) /\ Real(Len(decoded), d, prev_length)
    BY <1>4, <1>6 DEF OutputInv, DecodedInv
  <1>8. Begins(out) /\ Len(out) = Len(decoded) + prev_length
    BY <1>3, <1>6, <1>7, MatchBegins
  <1>9. Match(d, prev_length) \in Token /\ d \in 1 .. MAX_DIST
    <2>1. d \in 1 .. MAX_DIST
      BY <1>7 DEF Real
    <2>2. d \in Nat
      BY <2>1, Sizes
    <2> HIDE DEF d
    <2> QED BY <1>3, <2>1, <2>2 DEF Match, Token
  <1>10. InReach(Append(tally, Match(d, prev_length)))
    <2>1. InReach(tally)
      BY DEF OutputInv, TokensInv
    <2> HIDE DEF d
    <2>2. Match(d, prev_length).lc = prev_length /\ Match(d, prev_length).dist = d
      BY DEF Match
    <2> QED BY <1>3, <1>9, <2>1, <2>2, InReachAppend
  <1> HIDE DEF d, out
  <1>11. TokensInv'
    BY <1>1, <1>10 DEF OutputInv, TokensInv, InReach
  <1>12. DecodedInv'
    <2>1. Begins(decoded)'
      BY <1>1, <1>8 DEF Begins
    <2>2. Len(decoded') = inpos' - lookahead' - Undecided'
      BY <1>1, <1>2, <1>3, <1>5, <1>8
    <2> QED BY <1>1, <2>1, <2>2 DEF DecodedInv
  <1>13. Base' = Base
    BY <1>1, <1>2, <1>3 DEF Base, Ahead
  <1>14. PICK n \in Nat : n = Len(decoded')
    BY <1>1, <1>2, <1>3, <1>8
  <1>15. Len(decoded) <= n
    BY <1>1, <1>2, <1>3, <1>8, <1>14
  <1>16. FlushedRight(Len(decoded))'
    <2>1. FlushedRight(Len(decoded))
      BY DEF OutputInv, BlockInv
    <2> QED BY <1>1, <1>2, <1>14, <1>15, <2>1 DEF FlushedRight
  <1>17. BlockInv'
    BY <1>1, <1>2, <1>13, <1>14, <1>15, <1>16 DEF BlockInv
  <1> QED BY <1>11, <1>12, <1>17 DEF OutputInv

LEMMA OutputInsertNext == ASSUME WindowInv, OutputInv, InsertNext PROVE OutputInv'
  <1>1. /\ pc = "insert" /\ UNCHANGED <<input, inpos, lookahead, decoded>> /\ prev_length' = prev_length - 1
        /\ pc' \in {"insert", "loop"}
    BY DEF InsertNext, reading, output
  <1>2. /\ Len(decoded) = inpos - lookahead - Undecided /\ Len(decoded) \in Nat
        /\ inpos \in Nat /\ lookahead \in Nat /\ strstart \in Nat /\ Base \in Nat
        /\ sent \in Nat /\ sent <= Len(decoded) /\ block_start = sent - Base
    BY <1>1, OutputPlace DEF Working
  <1>3. prev_length \in Nat /\ prev_length >= 1 /\ Ahead = lookahead + prev_length + 1
    BY <1>1 DEF WindowInv, TypeOK, LengthInv, Ahead
  <1>4. Undecided = 0
    BY <1>1 DEF Undecided
  <1>5. CASE prev_length # 1 /\ strstart' = strstart + 1 /\ pc' = "insert"
             /\ UNCHANGED <<match_available, block_start, output>>
    <2>1. /\ tally' = tally /\ flushed' = flushed /\ sent' = sent
      BY <1>5 DEF output
    <2>2. Undecided' = 0
      BY <1>5 DEF Undecided
    <2>3. Base' = Base
      BY <1>1, <1>2, <1>3, <1>5 DEF Base, Ahead
    <2>4. TokensInv'
      BY <2>1 DEF OutputInv, TokensInv, InReach
    <2>5. Begins(decoded)'
      BY <1>1 DEF OutputInv, DecodedInv, Begins
    <2>6. DecodedInv'
      BY <1>1, <1>2, <1>4, <1>5, <2>2, <2>5 DEF DecodedInv
    <2>7. FlushedRight(Len(decoded))'
      BY <1>1, <2>1 DEF OutputInv, BlockInv, FlushedRight
    <2>8. BlockInv'
      BY <1>1, <1>2, <1>5, <2>1, <2>3, <2>7 DEF BlockInv
    <2> QED BY <2>4, <2>6, <2>8 DEF OutputInv
  <1>6. CASE prev_length = 1 /\ strstart' = strstart + 2 /\ pc' = "loop" /\ match_available' = FALSE
             /\ (IF flush THEN FLUSH_BLOCK(tally, decoded, strstart + 2) /\ block_start' = strstart + 2
                 ELSE UNCHANGED <<tally, flushed, sent, block_start>>)
    <2>1. Undecided' = 0
      BY <1>6 DEF Undecided
    <2>2. Base' = Base
      BY <1>1, <1>2, <1>3, <1>6 DEF Base, Ahead
    <2>3. Begins(decoded)'
      BY <1>1 DEF OutputInv, DecodedInv, Begins
    <2>4. DecodedInv'
      BY <1>1, <1>2, <1>4, <1>6, <2>1, <2>3 DEF DecodedInv
    <2>5. Len(decoded) = Base + (strstart + 2)
      <3>1. inpos \in Int /\ Base = inpos - (lookahead + prev_length + 1) - strstart
        BY <1>2, <1>3 DEF Base
      <3> QED BY <1>2, <1>3, <1>4, <1>6, <3>1
    <2>6. InReach(tally) /\ InReach(flushed.tokens) /\ InReach(<< >>)
      <3>1. InReach(<< >>)
        BY DEF InReach
      <3> QED BY <3>1 DEF OutputInv, TokensInv
    <2>7. CASE flush
      <3>1. FLUSH_BLOCK(tally, decoded, strstart + 2) /\ block_start' = strstart + 2
        BY <1>6, <2>7
      <3>2. strstart + 2 \in Nat /\ strstart + 2 <= strstart + Ahead /\ pc # "init"
        BY <1>1, <1>2, <1>3, <1>6
      <3>3. /\ flushed'.tokens = tally /\ tally' = << >> /\ sent' = Len(decoded)
            /\ \A m : m = Len(decoded) => FlushedRight(m)'
        BY <1>1, <1>2, <2>5, <3>1, <3>2, FlushFacts
      <3>4. FlushedRight(Len(decoded))'
        BY <1>1, <3>3 DEF FlushedRight
      <3>5. TokensInv'
        BY <2>6, <3>3 DEF TokensInv, InReach
      <3>6. PICK n \in Nat : n = Len(decoded)
        BY <1>2
      <3>7. sent' = n /\ Len(decoded') = n
        BY <1>1, <3>3, <3>6
      <3>8. block_start' = sent' - Base'
        BY <1>2, <2>2, <2>5, <3>1, <3>6, <3>7
      <3>9. BlockInv'
        BY <3>4, <3>7, <3>8 DEF BlockInv
      <3> QED BY <2>4, <3>5, <3>9 DEF OutputInv
    <2>8. CASE ~flush
      <3>1. UNCHANGED <<tally, flushed, sent, block_start>>
        BY <1>6, <2>8
      <3>2. TokensInv'
        BY <3>1 DEF OutputInv, TokensInv, InReach
      <3>3. FlushedRight(Len(decoded))'
        BY <1>1, <3>1 DEF OutputInv, BlockInv, FlushedRight
      <3>4. BlockInv'
        BY <1>1, <1>2, <2>2, <3>1, <3>3 DEF BlockInv
      <3> QED BY <2>4, <3>2, <3>4 DEF OutputInv
    <2> QED BY <2>7, <2>8
  <1> QED BY <1>5, <1>6 DEF InsertNext, output

LEMMA OutputFinish == ASSUME WindowInv, OutputInv, Finish PROVE OutputInv'
  <1> DEFINE token == Literal(window[strstart - 1])
             out == DecodeToken(decoded, token)
  <1>1. /\ pc = "loop" /\ pc' = "done" /\ ~NeedsMore /\ lookahead = 0
        /\ UNCHANGED <<input, inpos, lookahead, eofile>>
    BY DEF Finish, reading
  <1>2. /\ Len(decoded) = inpos - lookahead - Undecided /\ Len(decoded) \in Nat
        /\ inpos \in Nat /\ strstart \in Nat /\ Base \in Nat /\ Base + strstart + Ahead = inpos
        /\ sent \in Nat /\ sent <= Len(decoded) /\ block_start = sent - Base
    BY <1>1, OutputPlace DEF Working
  <1>3. eofile /\ Ahead = 0 /\ Undecided' = 0
    BY <1>1, Sizes DEF NeedsMore, Ahead, Undecided
  <1>4. InReach(tally) /\ Begins(decoded)
    BY DEF OutputInv, TokensInv, DecodedInv
  <1>5. \E tokens, o : /\ FLUSH_BLOCK(tokens, o, strstart) /\ decoded' = o
                       /\ InReach(tokens) /\ Begins(o) /\ Len(o) = inpos /\ Len(decoded) <= Len(o)
    <2>1. CASE match_available
      <3>1. FLUSH_BLOCK(Append(tally, token), out, strstart) /\ decoded' = out
        BY <2>1 DEF Finish
      <3>2. /\ window[strstart - 1] \in Nat /\ Begins(out)
            /\ Len(out) = Len(decoded) + 1 /\ Len(out) = inpos - lookahead
        BY <1>1, <2>1, WaitingByte
      <3>3. InReach(Append(tally, token))
        BY <1>4, <3>2, LiteralInReach
      <3> HIDE DEF token, out
      <3>4. Len(out) = inpos /\ Len(decoded) <= Len(out)
        BY <1>1, <1>2, <3>2
      <3> QED BY <3>1, <3>2, <3>3, <3>4
    <2>2. CASE ~match_available
      <3>1. FLUSH_BLOCK(tally, decoded, strstart) /\ decoded' = decoded
        BY <2>2 DEF Finish
      <3>2. Undecided = 0
        BY <2>2 DEF Undecided
      <3>3. Len(decoded) = inpos /\ Len(decoded) <= Len(decoded)
        BY <1>1, <1>2, <3>2
      <3> QED BY <1>4, <3>1, <3>3
    <2> QED BY <2>1, <2>2
  <1> HIDE DEF token, out
  <1>6. PICK tokens, o : /\ FLUSH_BLOCK(tokens, o, strstart) /\ decoded' = o
                         /\ InReach(tokens) /\ Begins(o) /\ Len(o) = inpos /\ Len(decoded) <= Len(o)
    BY <1>5
  <1>7. strstart <= strstart + Ahead /\ Len(o) = Base + strstart /\ sent <= Len(o) /\ pc # "init"
    BY <1>1, <1>2, <1>3, <1>6
  <1>8. /\ flushed'.tokens = tokens /\ tally' = << >> /\ sent' = Len(o)
        /\ \A m : m = Len(o) => FlushedRight(m)'
    BY <1>1, <1>2, <1>6, <1>7, FlushFacts
  <1>9. TokensInv'
    <2>1. InReach(<< >>)
      BY DEF InReach
    <2> QED BY <1>6, <1>8, <2>1 DEF TokensInv, InReach
  <1>10. DecodedInv'
    <2>1. Begins(decoded)'
      BY <1>1, <1>6 DEF Begins
    <2>2. Len(decoded') = inpos' - lookahead' - Undecided'
      BY <1>1, <1>2, <1>3, <1>6
    <2> QED BY <1>1, <1>3, <2>1, <2>2 DEF DecodedInv
  <1>11. BlockInv'
    <2>1. FlushedRight(Len(decoded))'
      BY <1>6, <1>8 DEF FlushedRight
    <2>2. PICK n \in Nat : n = Len(o)
      BY <1>2, <1>6
    <2>3. sent' = n /\ Len(decoded') = n
      BY <1>6, <1>8, <2>2
    <2> QED BY <1>1, <2>1, <2>3 DEF BlockInv
  <1> QED BY <1>9, <1>10, <1>11 DEF OutputInv

LEMMA OutputStutter == ASSUME OutputInv, UNCHANGED vars PROVE OutputInv'
  BY DEF vars, OutputInv, TokensInv, InReach, DecodedInv, Begins, Undecided, BlockInv, FlushedRight,
         Base, Ahead

LEMMA OutputStep == WindowInv /\ MatchInv /\ OutputInv /\ [Next]_vars => OutputInv'
  BY OutputLmInit, OutputQuiet, OutputDefer, OutputEmitLiteral, OutputEmitMatch, OutputInsertNext,
     OutputFinish, OutputStutter DEF Next, deflate_work, Ended

LEMMA OutputInit == Init => OutputInv
  <1> SUFFICES ASSUME Init PROVE OutputInv
    OBVIOUS
  <1>1. /\ tally = << >> /\ decoded = << >> /\ sent = 0 /\ inpos = 0 /\ lookahead = 0 /\ pc = "init"
        /\ match_available = FALSE /\ input \in Seq(Bytes)
        /\ flushed = [tokens |-> << >>, stored_len |-> 0, has_buf |-> FALSE, buf |-> << >>,
                      from |-> 0, upto |-> 0]
    BY InputsAssumption DEF Init
  <1>2. Undecided = 0 /\ Len(decoded) = 0 /\ Len(input) \in Nat
    BY <1>1 DEF Undecided
  <1>3. TokensInv
    BY <1>1 DEF TokensInv, InReach
  <1>4. DecodedInv
    BY <1>1, <1>2 DEF DecodedInv, Begins
  <1>5. BlockInv
    BY <1>1, <1>2 DEF BlockInv, FlushedRight
  <1> QED BY <1>3, <1>4, <1>5 DEF OutputInv

LEMMA OutputAlways == Spec => [](WindowInv /\ OutputInv)
  BY MatchesAlways, OutputInit, OutputStep, PTL DEF Spec

\* MatchesInReach: whatever ct_tally is given can be sent, its Assert holds.
THEOREM SendsWhatDeflateCan == Spec => []MatchesInReach
  <1>1. OutputInv => MatchesInReach
    BY DEF OutputInv, TokensInv, InReach, MatchesInReach
  <1> QED BY <1>1, OutputAlways, PTL

\* DecodesToInput: at every point of deflate_work(), through lazy matching, the
\* third byte that longest_match() skips, garbage behind the input and slides of
\* the window, the tokens decode to the block up to the byte that is not decided,
\* and when it returns to all of it.
THEOREM LosesNothing == Spec => []DecodesToInput
  <1>1. WindowInv /\ OutputInv => DecodesToInput
    <2> SUFFICES ASSUME WindowInv, OutputInv PROVE DecodesToInput
      OBVIOUS
    <2>1. /\ input \in Seq(Bytes) /\ Len(input) \in Nat /\ Begins(decoded)
          /\ decoded \in Seq(Bytes) /\ Len(decoded) <= Len(input)
          /\ \A i \in 1 .. Len(decoded) : decoded[i] = input[i]
          /\ Len(decoded) = inpos - lookahead - Undecided
      BY InputType DEF WindowInv, OutputInv, DecodedInv, Begins
    <2>2. decoded = SubSeq(input, 1, inpos - lookahead - Undecided)
      BY <2>1, BeginningIsSubSeq
    <2>3. ASSUME pc = "done" PROVE decoded = input
      <3>1. eofile /\ lookahead = 0 /\ inpos = Len(input) /\ Undecided = 0
        BY <2>3 DEF WindowInv, OutputInv, DecodedInv, ReadAhead, Undecided
      <3>2. Len(decoded) = Len(input)
        BY <2>1, <3>1
      <3> QED BY <2>1, <3>2, SeqEqual
    <2> QED BY <2>2, <2>3 DEF DecodesToInput
  <1> QED BY <1>1, OutputAlways, PTL

\* StoredBlockIntact: what flush_block() may store instead is what its tokens stand
\* for, although block_start was moved with the window, below zero even.
THEOREM StoresTheSame == Spec => []StoredBlockIntact
  <1>1. WindowInv /\ OutputInv => StoredBlockIntact
    <2> SUFFICES ASSUME WindowInv, OutputInv PROVE StoredBlockIntact
      OBVIOUS
    <2>1. TypeOK /\ Begins(decoded) /\ FlushedRight(Len(decoded))
      BY DEF WindowInv, OutputInv, DecodedInv, BlockInv
    <2>2. PICK a \in Nat, b \in Nat : a = flushed.from /\ b = flushed.upto /\ a <= b /\ b <= Len(decoded)
      BY <2>1 DEF FlushedRight
    <2>3. ASSUME flushed.has_buf PROVE flushed.buf = SubSeq(decoded, a + 1, b)
      <3>1. /\ flushed.buf \in Seq(Bytes) /\ Len(flushed.buf) = b - a
            /\ \A i \in 1 .. b - a : flushed.buf[i] = input[a + i]
        BY <2>1, <2>2, <2>3 DEF FlushedRight
      <3>2. decoded \in Seq(Bytes) /\ Len(decoded) \in Nat
        BY <2>1 DEF Begins
      <3> DEFINE s == SubSeq(decoded, a + 1, b)
      <3>3. s \in Seq(Bytes) /\ Len(s) = b - a
        BY <2>2, <3>2
      <3>4. \A i \in 1 .. b - a : s[i] = decoded[a + i]
        BY <2>2, <3>2
      <3> HIDE DEF s
      <3>5. ASSUME NEW i \in 1 .. b - a PROVE flushed.buf[i] = s[i]
        <4>1. a + i \in 1 .. Len(decoded)
          BY <2>2, <3>2
        <4> QED BY <2>1, <3>1, <3>4, <4>1 DEF Begins
      <3>6. flushed.buf = s
        BY <3>1, <3>3, <3>5, SeqEqual
      <3> QED BY <3>6 DEF s
    <2>4. flushed.stored_len = flushed.upto - flushed.from
      BY <2>1 DEF FlushedRight
    <2> QED BY <2>2, <2>3, <2>4 DEF StoredBlockIntact
  <1> QED BY <1>1, OutputAlways, PTL

=============================================================================
