------------------------- MODULE GzipDeflateProofs -------------------------
(***************************************************************************)
(* The properties of GzipDeflate, proved for files of every length and     *)
(* content, every way the reads cut them, every outcome of the race in     *)
(* lm_init(), every size of the window and every row of                    *)
(* configuration_table.                                                    *)
(*                                                                         *)
(* As in MatchFinderProofs the inductive invariant speaks of the file, not *)
(* of the window, which is a piece of it that moves, and is built in       *)
(* layers: the window (WindowInv), the chains (ChainInv), the matches kept *)
(* over turns (MatchInv), the count of bytes sent (OutputInv) and what a   *)
(* decoder makes of them (DecodedInv).  The chains are                     *)
(* different here: the key of a string is not determined by its bytes, for *)
(* the first hash is that of a race, and deflate_fast() leaves out strings *)
(* and starts the hash again behind them.  ChainInv says that there is an  *)
(* assignment of keys to the strings inserted, each of which two shifts    *)
(* made from the last two bytes of its string, and that the chains are     *)
(* right for it.                                                           *)
(*                                                                         *)
(* The race on m when the chains are slid may break ChainInv, and with it  *)
(* MatchInv and DecodedInv: they hold as long as mixed = 0.  WindowInv and *)
(* OutputInv hold whatever it stores.                                      *)
(***************************************************************************)
EXTENDS GzipDeflate, SequenceTheorems, FiniteSetTheorems, WellFoundedInduction, TLAPS

-----------------------------------------------------------------------------
(* Numbers and sequences                                                   *)

\* A set of natural numbers has a least element.
LEMMA Least ==
    ASSUME NEW T, T \subseteq Nat, T # {}
    PROVE  \E n \in T : \A m \in T : n <= m
  <1> DEFINE R == {ss \in Nat \X Nat : ss[1] < ss[2]}
  <1>1. IsWellFoundedOn(R, Nat)
    BY NatLessThanWellFounded DEF OpToRel
  <1>2. \A n, m \in Nat : m < n => <<m, n>> \in R
    OBVIOUS
  <1> HIDE DEF R
  <1>3. PICK n \in T : \A m \in T : ~(<<m, n>> \in R)
    BY <1>1, WFMin
  <1>4. \A m \in T : n \in Nat /\ m \in Nat /\ ~(m < n)
    BY <1>2, <1>3
  <1>5. \A p, q \in Nat : ~(q < p) => p <= q
    OBVIOUS
  <1>6. \A m \in T : n <= m
    BY <1>4, <1>5
  <1> QED BY <1>6

\* The remainder is what is left of a number.
LEMMA ModFacts ==
    ASSUME NEW a \in Nat, NEW d \in Nat \ {0}
    PROVE  /\ a % d \in 0 .. d - 1 /\ a \div d \in Nat /\ a = d * (a \div d) + (a % d)
           /\ a < d => a % d = a
  <1>1. a % d \in 0 .. d - 1
    OBVIOUS
  <1>2. a = d * (a \div d) + (a % d) /\ a \div d \in Nat
    OBVIOUS
  <1>3. a < d => a % d = a
    OBVIOUS
  <1> QED BY <1>1, <1>2, <1>3

LEMMA ModUnique ==
    ASSUME NEW a \in Nat, NEW d \in Nat \ {0}, NEW q \in Int, NEW r \in 0 .. d - 1, a = d * q + r
    PROVE  a % d = r
  OBVIOUS

LEMMA Multiple == ASSUME NEW d \in Nat \ {0}, NEW q \in Int, q >= 1 PROVE d * q >= d
  OBVIOUS

\* A whole turn of the ring leads to the same entry.
LEMMA ModTurn ==
    ASSUME NEW a \in Nat, NEW d \in Nat \ {0}
    PROVE  (a + d) % d = a % d
  <1>1. a % d \in 0 .. d - 1 /\ a \div d \in Nat /\ a = d * (a \div d) + (a % d)
    BY ModFacts
  <1> DEFINE q == a \div d
             r == a % d
  <1>2. r \in 0 .. d - 1 /\ q \in Nat /\ a = d * q + r
    BY <1>1
  <1> HIDE DEF q, r
  <1>3. a + d = d * (q + 1) + r /\ q + 1 \in Int /\ a + d \in Nat
    BY <1>2
  <1>4. (a + d) % d = r
    BY <1>2, <1>3, ModUnique
  <1> QED BY <1>4 DEF r

\* Less than a turn leads to another one.
LEMMA ModApart ==
    ASSUME NEW d \in Nat \ {0}, NEW a \in Nat, NEW b \in Nat, a < b, b < a + d
    PROVE  a % d # b % d
  <1> SUFFICES ASSUME a % d = b % d PROVE FALSE
    OBVIOUS
  <1> DEFINE p == a \div d
             q == b \div d
             r == a % d
  <1>1. r \in 0 .. d - 1 /\ p \in Nat /\ a = d * p + r
    BY ModFacts
  <1>2. q \in Nat /\ b = d * q + r
    BY ModFacts
  <1> HIDE DEF p, q, r
  <1>3. b - a = d * (q - p) /\ q - p \in Int
    BY <1>1, <1>2
  <1> DEFINE n == q - p
  <1>4. n \in Int /\ b - a = d * n
    BY <1>3
  <1> HIDE DEF n
  <1>5. CASE n >= 1
    BY <1>4, <1>5, Multiple
  <1>6. CASE n <= 0
    <2>1. -n \in Nat /\ d * n <= 0
      BY <1>6, <1>4
    <2> QED BY <2>1, <1>4
  <1> QED BY <1>4, <1>5, <1>6

-----------------------------------------------------------------------------

\* An array is a sequence.
LEMMA FunctionSeq ==
    ASSUME NEW S, NEW n \in Nat, NEW f \in [1 .. n -> S]
    PROVE  f \in Seq(S) /\ Len(f) = n
  OBVIOUS

\* The n elements of s after p are those that came d before.
Copies(s, p, d, n) == \A k \in 0 .. n - 1 : s[p + k + 1] = s[p - d + k + 1]

\* They repeat the d elements before p.
Cycles(s, p, d, n) == \A k \in 0 .. n - 1 : s[p + k + 1] = s[p - d + 1 + (k % d)]

\* A copy that reaches into itself goes round.
LEMMA Repeats ==
    ASSUME NEW s, NEW p \in Nat, NEW d \in Nat \ {0}, NEW n \in Nat, Copies(s, p, d, n)
    PROVE  Cycles(s, p, d, n)
  <1> DEFINE T == {k \in 0 .. n - 1 : s[p + k + 1] # s[p - d + 1 + (k % d)]}
  <1> SUFFICES ASSUME T # {} PROVE FALSE
    BY DEF Cycles
  <1>1. T \subseteq Nat
    OBVIOUS
  <1>2. PICK k \in T : \A m \in T : k <= m
    BY <1>1, Least
  <1>3. k \in 0 .. n - 1 /\ k \in Nat /\ s[p + k + 1] # s[p - d + 1 + (k % d)]
    BY <1>2
  <1>4. s[p + k + 1] = s[p - d + k + 1]
    BY <1>3 DEF Copies
  <1>5. \A m \in 0 .. n - 1 : m \notin T => s[p + m + 1] = s[p - d + 1 + (m % d)]
    OBVIOUS
  <1> HIDE DEF T
  <1>6. CASE k < d
    <2>1. k % d = k
      BY <1>3, <1>6, ModFacts
    <2>2. p - d + k + 1 = p - d + 1 + k
      BY <1>3
    <2> QED BY <1>3, <1>4, <2>1, <2>2
  <1>7. CASE k >= d
    <2>1. PICK m : m = k - d
      OBVIOUS
    <2>2. m \in 0 .. n - 1 /\ m \in Nat /\ m < k /\ k = m + d
      BY <1>3, <1>7, <2>1
    <2>3. m \notin T
      BY <1>2, <1>3, <2>2
    <2>4. s[p + m + 1] = s[p - d + 1 + (m % d)]
      BY <1>5, <2>2, <2>3
    <2>5. k % d = m % d
      BY <2>2, ModTurn
    <2>6. p - d + k + 1 = p + m + 1
      BY <1>3, <2>2
    <2> QED BY <1>3, <1>4, <2>4, <2>5, <2>6
  <1> QED BY <1>3, <1>6, <1>7

\* A sequence that agrees with another one as far as it goes is a beginning of it.
LEMMA BeginningIsSubSeq ==
    ASSUME NEW S, NEW s \in Seq(S), NEW out \in Seq(S), Len(out) <= Len(s),
           \A i \in 1 .. Len(out) : out[i] = s[i]
    PROVE  out = SubSeq(s, 1, Len(out))
  <1> DEFINE t == SubSeq(s, 1, Len(out))
  <1>1. t \in Seq(S) /\ Len(t) = Len(out) /\ \A i \in 1 .. Len(out) : t[i] = s[i]
    BY SubSeqProperties
  <1> HIDE DEF t
  <1>2. \A i \in 1 .. Len(out) : out[i] = t[i]
    BY <1>1
  <1>3. out = t
    BY <1>1, <1>2, SeqEqual
  <1> QED BY <1>3 DEF t

-----------------------------------------------------------------------------

USE DEF window_size

\* Bytes of the file from strstart on; while the strings of a match are inserted,
\* lookahead is already what will be left behind it.
Ahead == IF pc = "insert" THEN lookahead + covered + 1 ELSE lookahead
\* Where strstart and the window are in the file.
Pos == inpos - Ahead
Base == inpos - Ahead - strstart

Working == {"loop", "search", "decide", "insert"}

TypeOK ==
    /\ input \in Inputs /\ inpos \in 0 .. Len(input) /\ level \in Levels /\ asm \in BOOLEAN
    /\ window \in [0 .. 2 * WSIZE - 1 -> Bytes] /\ behind \in Bytes
    /\ prev \in [0 .. WSIZE - 1 -> Nat] /\ head \in [HashKeys -> Nat] /\ ins_h \in HashKeys
    /\ strstart \in Nat /\ lookahead \in Nat /\ block_start \in Int /\ match_start \in Int
    /\ prev_length \in Nat /\ match_length \in Nat /\ prev_match \in Int
    /\ covered \in Nat /\ cur_match \in Nat /\ best_len \in Nat
    /\ eofile \in BOOLEAN /\ match_available \in BOOLEAN /\ mixed \in Nat
    /\ pc \in {"init", "begin", "done"} \cup Working

\* deflate_fast() keeps no match over a turn.
FastInv ==
    fast => /\ ~match_available /\ prev_length = MIN_MATCH - 1
            /\ pc \in {"init", "begin", "loop"} => match_length < MIN_MATCH

\* A length that is to be sent does not reach behind the file.
LengthInv ==
    /\ pc \in {"init", "begin"} => match_length < MIN_MATCH
    /\ pc = "loop" => /\ match_length <= MAX_MATCH
                      /\ match_length >= MIN_MATCH => match_length <= lookahead + 1
    /\ pc \in {"search", "decide"} =>
         /\ lookahead >= 1 /\ prev_length <= MAX_MATCH
         /\ prev_length >= MIN_MATCH => prev_length <= lookahead + 1
    /\ pc = "search" => best_len <= MAX_MATCH
    /\ pc = "decide" => match_length <= MAX_MATCH /\ (match_length >= MIN_MATCH => match_length <= lookahead)
    /\ pc = "insert" => covered >= 1
    /\ FastInv

HoldsInput == \A i \in 0 .. strstart + Ahead - 1 : window[i] = input[Base + i + 1]

ReadAhead ==
    /\ eofile => inpos = Len(input)
    /\ pc = "begin" => strstart = 0
    /\ pc \in {"search", "decide"} => eofile \/ lookahead >= MIN_LOOKAHEAD
    /\ pc \in {"loop", "insert"} => eofile \/ lookahead >= MIN_LOOKAHEAD - MAX_MATCH

WindowInv ==
    /\ TypeOK /\ LengthInv
    /\ pc = "init" => inpos = 0 /\ lookahead = 0
    /\ pc # "init" => Base >= 0 /\ strstart + Ahead <= 2 * WSIZE /\ HoldsInput /\ ReadAhead

\* The strings before this position were inserted, or left out.
Passed == IF pc \in {"search", "decide", "insert"} THEN strstart + 1 ELSE strstart

\* The keys the strings were inserted with.
LeftOut == -1
Keys == [Nat -> HashKeys \cup {LeftOut}]
\* A key made of the bytes b and c, and of others that no longer matter much.
KeyOf(key, b, c) == \E x \in HashKeys : key = UPDATE_HASH(UPDATE_HASH(x, b), c)

KeyBefore(n) == n >= 1 => \E x \in HashKeys : ins_h = UPDATE_HASH(x, byte(n + 1))
KeysRight(K, n) ==
    \A p \in Nat : /\ p >= n => K[p] = LeftOut
                   /\ p >= 1 /\ K[p] # LeftOut => KeyOf(K[p], byte(p + 1), byte(p + 2))
HeadsRight(K, n) == \A h \in HashKeys : head[h] # NIL => head[h] < n /\ K[head[h]] = h
LinksRight(K, n) ==
    \A s \in 0 .. n - 1 :
        s >= n - WSIZE /\ K[s] # LeftOut /\ prev[s % WSIZE] # NIL =>
            prev[s % WSIZE] < s /\ K[prev[s % WSIZE]] = K[s]
Candidate(K) ==
    /\ cur_match # NIL /\ cur_match < strstart /\ cur_match >= strstart - MAX_DIST
    /\ K[strstart] # LeftOut /\ K[cur_match] = K[strstart]

ChainsRight(K, n) == KeysRight(K, n) /\ HeadsRight(K, n) /\ LinksRight(K, n)
ChainInv ==
    /\ pc = "begin" => \A h \in HashKeys : head[h] = NIL
    /\ pc \in Working => KeyBefore(Passed)
                         /\ \E K \in Keys : ChainsRight(K, Passed) /\ (pc = "search" => Candidate(K))

\* The n bytes at p of the file are those that came d before.
Real(p, d, n) ==
    d \in 1 .. MAX_DIST /\ d <= p /\ \A k \in 0 .. n - 1 : input[p + k + 1] = input[p - d + k + 1]

MatchInv ==
    /\ pc = "loop" /\ match_length >= MIN_MATCH =>
         match_available /\ Real(Pos - 1, strstart - 1 - match_start, match_length)
    /\ pc \in {"search", "decide"} /\ prev_length >= MIN_MATCH =>
         match_available /\ Real(Pos - 1, strstart - 1 - prev_match, prev_length)
    /\ pc = "search" /\ best_len > prev_length =>
         \A n \in 0 .. best_len : n <= lookahead => Real(Pos, strstart - match_start, n)
    /\ pc = "decide" /\ match_length >= MIN_MATCH /\ match_length > prev_length =>
         Real(Pos, strstart - match_start, match_length)

Token == [dist : Nat, lc : Nat]
InReach(tokens) ==
    /\ tokens \in Seq(Token)
    /\ \A i \in DOMAIN tokens :
         tokens[i].dist # 0 => tokens[i].lc \in MIN_MATCH .. MAX_MATCH /\ tokens[i].dist \in 1 .. MAX_DIST

\* A length kept from the turn before has its first byte undecided.
WaitingInv ==
    /\ pc = "loop" /\ match_length >= MIN_MATCH => match_available
    /\ pc \in {"search", "decide"} /\ prev_length >= MIN_MATCH => match_available

\* How much of the file the tokens stand for.
ToldInv ==
    /\ told \in Nat /\ told = inpos - lookahead - Undecided
    /\ pc \in {"init", "begin"} => ~match_available
    /\ match_available /\ pc \in {"loop", "search", "decide"} => strstart >= 1
    /\ pc = "done" => eofile /\ lookahead = 0

FlushedRight(end) ==
    /\ flushed.from \in Nat /\ flushed.upto \in Nat
    /\ flushed.from <= flushed.upto /\ flushed.upto <= end
    /\ flushed.stored_len = flushed.upto - flushed.from
    /\ flushed.has_buf => /\ flushed.buf \in Seq(Bytes) /\ Len(flushed.buf) = flushed.upto - flushed.from
                          /\ \A i \in 1 .. Len(flushed.buf) : flushed.buf[i] = input[flushed.from + i]
BlockInv ==
    /\ sent \in Nat /\ sent <= told
    /\ pc \notin {"init", "done"} => block_start = sent - Base
    /\ pc = "done" => flushed.upto = told
    /\ FlushedRight(told)

OutputInv == ToldInv /\ BlockInv

\* out is a beginning of the file.
Begins(out) == out \in Seq(Bytes) /\ Len(out) <= Len(input) /\ \A i \in 1 .. Len(out) : out[i] = input[i]
DecodedInv == InReach(tally) /\ Begins(decoded) /\ Len(decoded) = told

-----------------------------------------------------------------------------
(* The window                                                               *)

\* The limits of the code, put in terms of WSIZE and MAX_MATCH.
LEMMA Sizes ==
    /\ WSIZE \in Nat /\ MAX_MATCH \in Nat /\ MAX_MATCH > 3 /\ MIN_MATCH = 3
    /\ MIN_LOOKAHEAD = MAX_MATCH + 4 /\ MAX_DIST = WSIZE - MAX_MATCH - 4 /\ MAX_DIST >= 1
  BY GeometryAssumption DEF MIN_MATCH, MIN_LOOKAHEAD, MAX_DIST

LEMMA ByteType == TypeOK => \A i \in Nat : byte(i) \in Bytes
  BY Sizes DEF TypeOK, byte

LEMMA HashTypes ==
    /\ \A h \in HashKeys, c \in Bytes : UPDATE_HASH(h, c) \in HashKeys
    /\ 0 \in HashKeys /\ Bytes \subseteq HashKeys /\ Bytes \subseteq Nat
    /\ LeftOut \notin HashKeys
  BY HashAssumption, FilesAssumption DEF HashKeys, LeftOut

LEMMA InputType == TypeOK => input \in Seq(Bytes) /\ Len(input) \in Nat
  BY FilesAssumption DEF TypeOK

\* What read_buf does: n bytes, no more than there are or there is room for.
Read(w, at, n) ==
    /\ n \in Nat /\ at + n <= 2 * WSIZE /\ inpos' = inpos + n /\ inpos' <= Len(input)
    /\ lookahead' = lookahead + n /\ eofile' = (n = 0)
    /\ n = 0 => at = 2 * WSIZE \/ inpos = Len(input)
    /\ window' \in [0 .. 2 * WSIZE - 1 -> Bytes]
    /\ \A i \in 0 .. 2 * WSIZE - 1 : i < at => window'[i] = w[i]
    /\ \A i \in 0 .. n - 1 : window'[at + i] = input[inpos + i + 1]

LEMMA ReadBuf ==
    ASSUME TypeOK, NEW w \in [0 .. 2 * WSIZE - 1 -> Bytes], NEW at \in 0 .. 2 * WSIZE,
           read_buf(w, at)
    PROVE  \E n \in Nat : Read(w, at, n)
  <1>1. WSIZE \in Nat /\ inpos \in Nat /\ inpos <= Len(input) /\ Len(input) \in Nat /\ lookahead \in Nat
    BY Sizes, InputType DEF TypeOK
  <1>2. PICK n \in Reads(2 * WSIZE - at) :
          /\ window' = [i \in DOMAIN w |-> IF i \in at .. at + n - 1 THEN input[inpos + i - at + 1]
                                                                    ELSE w[i]]
          /\ inpos' = inpos + n /\ lookahead' = lookahead + n /\ eofile' = (n = 0)
    BY DEF read_buf
  <1>3. /\ n \in Nat /\ at + n <= 2 * WSIZE /\ inpos + n <= Len(input)
        /\ n = 0 => at = 2 * WSIZE \/ inpos = Len(input)
    <2>1. Short \in Nat /\ Short # 0
      BY FilesAssumption
    <2>2. PICK m : m = Smaller(2 * WSIZE - at, Len(input) - inpos)
      OBVIOUS
    <2>3. /\ m \in Nat /\ at + m <= 2 * WSIZE /\ inpos + m <= Len(input)
          /\ m = 0 => at = 2 * WSIZE \/ inpos = Len(input)
      BY <1>1, <2>2 DEF Smaller
    <2>4. n \in {m, Smaller(Short, m)}
      BY <2>2 DEF Reads
    <2>5. n \in Nat /\ n <= m /\ (n = 0 => m = 0)
      BY <2>1, <2>3, <2>4 DEF Smaller
    <2> QED BY <1>1, <2>3, <2>5
  <1>4. window' = [i \in 0 .. 2 * WSIZE - 1 |-> IF i \in at .. at + n - 1
                                                THEN input[inpos + i - at + 1] ELSE w[i]]
    BY <1>2
  <1>5. \A i \in 1 .. Len(input) : input[i] \in Bytes
    BY InputType
  <1>6. \A i \in at .. at + n - 1 : input[inpos + i - at + 1] \in Bytes
    BY <1>1, <1>3, <1>5
  <1>7. window' \in [0 .. 2 * WSIZE - 1 -> Bytes]
    BY <1>4, <1>6
  <1>8. \A i \in 0 .. 2 * WSIZE - 1 : i < at => window'[i] = w[i]
    BY <1>1, <1>3, <1>4
  <1>9. ASSUME NEW i \in 0 .. n - 1 PROVE window'[at + i] = input[inpos + i + 1]
    <2>1. at + i \in 0 .. 2 * WSIZE - 1 /\ at + i \in at .. at + n - 1 /\ inpos + (at + i) - at + 1 = inpos + i + 1
      BY <1>1, <1>3
    <2> QED BY <2>1, <1>4
  <1> QED BY <1>2, <1>3, <1>7, <1>8, <1>9 DEF Read

LEMMA InitWindow == Init => WindowInv
  <1> SUFFICES ASSUME Init PROVE WindowInv
    OBVIOUS
  <1>1. PICK g \in Stale :
         /\ window = [i \in 0 .. 2 * WSIZE - 1 |-> g] /\ behind = g
         /\ prev = [i \in 0 .. WSIZE - 1 |-> g] /\ head = [h \in HashKeys |-> g] /\ ins_h = g
         /\ strstart = g /\ block_start = g /\ match_start = g
    BY DEF Init
  <1>2. g \in Bytes /\ g \in Nat /\ g \in HashKeys
    BY FilesAssumption, HashTypes
  <1>3. input \in Inputs /\ Len(input) \in Nat
    BY FilesAssumption DEF Init
  <1>4. /\ prev_length = 2 /\ match_length \in {0, 2} /\ match_available = FALSE /\ pc = "init"
        /\ inpos = 0 /\ lookahead = 0
    BY DEF Init, MIN_MATCH
  <1>5. TypeOK
    <2>1. /\ prev \in [0 .. WSIZE - 1 -> Nat] /\ head \in [HashKeys -> Nat] /\ ins_h \in HashKeys
          /\ window \in [0 .. 2 * WSIZE - 1 -> Bytes] /\ behind \in Bytes
          /\ strstart \in Nat /\ block_start \in Int /\ match_start \in Int
      BY <1>1, <1>2
    <2>2. asm \in BOOLEAN /\ eofile \in BOOLEAN /\ match_available \in BOOLEAN
      BY Zenon DEF Init
    <2>3. inpos = 0 /\ prev_match = 0 /\ covered = 0 /\ cur_match = 0 /\ best_len = 0 /\ level \in Levels
          /\ mixed = 0
      BY Zenon DEF Init
    <2>4. /\ inpos \in 0 .. Len(input) /\ prev_match \in Int /\ covered \in Nat
          /\ cur_match \in Nat /\ best_len \in Nat /\ mixed \in Nat
      BY <1>3, <2>3
    <2>5. /\ lookahead \in Nat /\ prev_length \in Nat /\ match_length \in Nat
          /\ pc \in {"init", "begin", "done"} \cup Working
      BY <1>4
    <2> QED BY <1>3, <2>1, <2>2, <2>3, <2>4, <2>5 DEF TypeOK
  <1>6. LengthInv
    BY <1>4 DEF LengthInv, FastInv, MIN_MATCH
  <1> QED BY <1>4, <1>5, <1>6 DEF WindowInv

LEMMA WindowLmInit == ASSUME WindowInv, lm_init PROVE WindowInv'
  <1>1. TypeOK /\ LengthInv /\ pc = "init" /\ inpos = 0 /\ lookahead = 0
    BY DEF WindowInv, lm_init
  <1>2. window \in [0 .. 2 * WSIZE - 1 -> Bytes] /\ 0 \in 0 .. 2 * WSIZE
    BY <1>1, Sizes DEF TypeOK
  <1>3. read_buf(window, 0)
    BY DEF lm_init
  <1>4. PICK n \in Nat : Read(window, 0, n)
    BY <1>1, <1>2, <1>3, ReadBuf
  <1>5. /\ pc' = "begin" /\ strstart' = 0 /\ block_start' = 0 /\ UNCHANGED given
        /\ head' = [h \in DOMAIN head |-> NIL]
        /\ UNCHANGED <<prev, ins_h, mixed, match_start, prev_length, match_length, match_available,
                       prev_match, covered, cur_match, best_len>>
    BY DEF lm_init, search
  <1>6. inpos' = n /\ lookahead' = n /\ n <= 2 * WSIZE /\ n <= Len(input)
        /\ eofile' = (n = 0) /\ (n = 0 => inpos' = Len(input))
        /\ \A i \in 0 .. n - 1 : window'[i] = input[i + 1]
    BY <1>1, <1>4, InputType, Sizes DEF Read
  <1>7. TypeOK'
    BY <1>1, <1>4, <1>5, <1>6, InputType DEF TypeOK, Read, NIL, Working, given
  <1>8. LengthInv'
    BY <1>1, <1>5 DEF LengthInv, FastInv, fast, given
  <1>9. HoldsInput'
    <2>1. Ahead' = n /\ strstart' = 0 /\ Base' = 0
      BY <1>5, <1>6 DEF Ahead, Base
    <2> QED BY <1>5, <1>6, <2>1 DEF HoldsInput, given
  <1>10. ReadAhead'
    BY <1>5, <1>6 DEF ReadAhead, given
  <1>11. Base' = 0 /\ strstart' + Ahead' <= 2 * WSIZE
    BY <1>5, <1>6 DEF Base, Ahead
  <1> QED BY <1>5, <1>7, <1>8, <1>9, <1>10, <1>11 DEF WindowInv

\* Whatever an entry is mixed up with, it is a number; without any the table is right.
LEMMA MixedFacts ==
    ASSUME NEW D, NEW table \in [D -> Nat], NEW W \in SUBSET D, NEW new \in Mixed(table, W)
    PROVE  new \in [D -> Nat] /\ (W = {} => new = Slid(table))
  <1> DEFINE ms == {table[x] : x \in DOMAIN table}
             wrong(x) == {SlidTo(a, b) : a, b \in ms} \ {Slid(table)[x]}
  <1>1. PICK f : /\ \A x \in W : f[x] \in wrong(x)
                 /\ new = [x \in DOMAIN table |-> IF x \in W THEN f[x] ELSE Slid(table)[x]]
    BY DEF Mixed
  <1>2. DOMAIN table = D /\ ms \subseteq Nat
    OBVIOUS
  <1>3. \A a, b \in Nat : SlidTo(a, b) \in Nat
    BY Sizes DEF SlidTo, Wrapped, NIL
  <1>4. Slid(table) = [x \in D |-> SlidTo(table[x], table[x])]
    BY <1>2 DEF Slid
  <1>5. \A x \in D : Slid(table)[x] \in Nat
    BY <1>3, <1>4
  <1>6. \A x \in W : f[x] \in Nat
    BY <1>1, <1>2, <1>3
  <1>7. new = [x \in D |-> IF x \in W THEN f[x] ELSE Slid(table)[x]]
    BY <1>1, <1>2
  <1>8. new \in [D -> Nat]
    BY <1>5, <1>6, <1>7
  <1>9. W = {} => new = Slid(table)
    BY <1>4, <1>7
  <1> QED BY <1>8, <1>9

\* The loops leave tables of the same type, and right ones unless an entry is counted.
LEMMA SlideFacts ==
    ASSUME TypeOK, SlideChains
    PROVE  /\ head' \in [HashKeys -> Nat] /\ prev' \in [0 .. WSIZE - 1 -> Nat]
           /\ mixed' \in Nat
           /\ mixed' = 0 => mixed = 0 /\ head' = Slid(head) /\ prev' = Slid(prev)
  <1>1. /\ head \in [HashKeys -> Nat] /\ prev \in [0 .. WSIZE - 1 -> Nat]
        /\ DOMAIN head = HashKeys /\ DOMAIN prev = 0 .. WSIZE - 1 /\ mixed \in Nat
    BY DEF TypeOK
  <1>2. PICK H \in SUBSET HashKeys, P \in SUBSET (0 .. WSIZE - 1) :
          /\ mixed' = mixed + Cardinality(H) + Cardinality(P)
          /\ head' \in Mixed(head, H) /\ prev' \in Mixed(prev, P)
    <2>1. \A D, n : \A S \in Few(D, n) : S \subseteq D
      BY DEF Few
    <2> QED BY <1>1, <2>1 DEF SlideChains
  <1>3. IsFiniteSet(H) /\ IsFiniteSet(P)
    <2>1. HASH_SIZE \in Int /\ WSIZE \in Int
      BY HashAssumption, Sizes
    <2>2. IsFiniteSet(HashKeys) /\ IsFiniteSet(0 .. WSIZE - 1)
      BY <2>1, FS_Interval DEF HashKeys
    <2> QED BY <2>2, FS_Subset
  <1>4. Cardinality(H) \in Nat /\ Cardinality(P) \in Nat
    BY <1>3, FS_CardinalityType
  <1>5. mixed' = 0 => mixed = 0 /\ H = {} /\ P = {}
    <2>1. mixed' = 0 => mixed = 0 /\ Cardinality(H) = 0 /\ Cardinality(P) = 0
      BY <1>1, <1>2, <1>4
    <2> QED BY <1>3, <2>1, FS_EmptySet
  <1>6. head' \in [HashKeys -> Nat] /\ (H = {} => head' = Slid(head))
    BY <1>1, <1>2, MixedFacts
  <1>7. prev' \in [0 .. WSIZE - 1 -> Nat] /\ (P = {} => prev' = Slid(prev))
    BY <1>1, <1>2, MixedFacts
  <1>8. mixed' \in Nat
    BY <1>1, <1>2, <1>4
  <1> QED BY <1>5, <1>6, <1>7, <1>8

\* Filling the window: where the bytes were moved to, and which were added.
Filled(n, moved) ==
    /\ inpos' = inpos + n /\ inpos' <= Len(input) /\ lookahead' = lookahead + n
    /\ eofile' = (n = 0) /\ (n = 0 => inpos = Len(input))
    /\ strstart' = strstart - moved /\ match_start' = match_start - moved
    /\ block_start' = block_start - moved
    /\ moved \in {0, WSIZE} /\ moved <= strstart
    /\ moved = 0 => head' = head /\ prev' = prev /\ mixed' = mixed
    /\ moved = WSIZE => strstart >= WSIZE + MAX_DIST /\ SlideChains
    /\ strstart' + lookahead' <= 2 * WSIZE
    /\ window' \in [0 .. 2 * WSIZE - 1 -> Bytes]
    /\ \A i \in 0 .. strstart' + lookahead - 1 : window'[i] = window[i + moved]
    /\ \A i \in 0 .. n - 1 : window'[strstart' + lookahead + i] = input[inpos + i + 1]

LEMMA FillWindow ==
    ASSUME WindowInv, fill_window
    PROVE  \E n \in Nat : \E moved \in {0, WSIZE} : Filled(n, moved)
  <1>1. /\ TypeOK /\ strstart \in Nat /\ lookahead \in Nat /\ match_start \in Int /\ block_start \in Int
        /\ inpos \in Nat /\ window \in [0 .. 2 * WSIZE - 1 -> Bytes]
    BY DEF WindowInv, TypeOK
  <1>2. strstart + lookahead <= 2 * WSIZE /\ lookahead < MIN_LOOKAHEAD
    BY DEF WindowInv, Ahead, fill_window, MustFill
  <1>3. CASE /\ strstart >= WSIZE + MAX_DIST /\ SlidePositions /\ SlideChains
             /\ read_buf(SlidBytes, strstart - WSIZE + lookahead)
    <2>1. strstart >= WSIZE + MAX_DIST
      BY <1>3
    <2> DEFINE at == strstart - WSIZE + lookahead
    <2>2. at \in 0 .. 2 * WSIZE /\ at <= WSIZE
      BY <1>1, <1>2, <2>1, Sizes
    <2>3. SlidBytes = [i \in 0 .. 2 * WSIZE - 1 |-> IF i < WSIZE THEN window[i + WSIZE] ELSE window[i]]
      BY <1>1 DEF SlidBytes
    <2>4. SlidBytes \in [0 .. 2 * WSIZE - 1 -> Bytes]
      <3>1. \A i \in 0 .. 2 * WSIZE - 1 : i < WSIZE => i + WSIZE \in 0 .. 2 * WSIZE - 1
        BY Sizes
      <3> QED BY <1>1, <2>3, <3>1
    <2> HIDE DEF at
    <2>5. PICK n \in Nat : Read(SlidBytes, at, n)
      BY <1>1, <1>3, <2>2, <2>4, ReadBuf DEF at
    <2>6. \A i \in 0 .. at - 1 : window'[i] = window[i + WSIZE]
      <3>1. \A i \in 0 .. 2 * WSIZE - 1 : i < at => window'[i] = SlidBytes[i]
        BY <2>5 DEF Read
      <3>2. \A i \in 0 .. at - 1 : i \in 0 .. 2 * WSIZE - 1 /\ i < at /\ i < WSIZE
        BY <2>2, Sizes
      <3> QED BY <2>3, <3>1, <3>2
    <2>7. strstart' = strstart - WSIZE /\ match_start' = match_start - WSIZE /\ block_start' = block_start - WSIZE
      BY <1>3 DEF SlidePositions
    <2>8. at = strstart' + lookahead
      BY <2>7 DEF at
    <2>9. WSIZE # 0
      BY Sizes
    <2>10. /\ inpos' = inpos + n /\ inpos' <= Len(input) /\ lookahead' = lookahead + n
           /\ eofile' = (n = 0) /\ window' \in [0 .. 2 * WSIZE - 1 -> Bytes]
           /\ at + n <= 2 * WSIZE /\ \A i \in 0 .. n - 1 : window'[at + i] = input[inpos + i + 1]
      BY <2>5 DEF Read
    <2>11. n = 0 => inpos = Len(input)
      BY <2>2, <2>5, Sizes DEF Read
    <2>12. strstart' + lookahead' <= 2 * WSIZE
      BY <1>1, <2>7, <2>10, Sizes DEF at
    <2>13. \A i \in 0 .. strstart' + lookahead - 1 : window'[i] = window[i + WSIZE]
      <3>1. strstart' + lookahead - 1 = at - 1
        BY <1>1, <2>7, Sizes DEF at
      <3> QED BY ONLY <2>6, <3>1
    <2>14. \A i \in 0 .. n - 1 : window'[strstart' + lookahead + i] = input[inpos + i + 1]
      BY <2>8, <2>10
    <2>15. WSIZE <= strstart
      BY <1>1, <2>1, Sizes
    <2> QED BY <1>3, <2>1, <2>7, <2>9, <2>10, <2>11, <2>12, <2>13, <2>14, <2>15 DEF Filled
  <1>4. CASE /\ strstart < WSIZE + MAX_DIST
             /\ UNCHANGED <<match_start, strstart, block_start, head, prev, mixed>>
             /\ read_buf(window, strstart + lookahead)
    <2>1. strstart + lookahead < 2 * WSIZE
      BY <1>1, <1>2, <1>4, Sizes
    <2> DEFINE at == strstart + lookahead
    <2>2. at \in 0 .. 2 * WSIZE /\ at # 2 * WSIZE
      BY <1>1, <2>1, Sizes
    <2>3. PICK n \in Nat : Read(window, at, n)
      BY <1>1, <1>4, <2>2, ReadBuf
    <2>4. \A i \in 0 .. at - 1 : window'[i] = window[i + 0]
      <3>1. \A i \in 0 .. 2 * WSIZE - 1 : i < at => window'[i] = window[i]
        BY <2>3 DEF Read
      <3>2. \A i \in 0 .. at - 1 : i \in 0 .. 2 * WSIZE - 1 /\ i < at /\ i + 0 = i
        BY <2>2, Sizes
      <3> QED BY <3>1, <3>2
    <2>5. WSIZE # 0 /\ 0 <= strstart
      BY <1>1, Sizes
    <2>6. /\ inpos' = inpos + n /\ inpos' <= Len(input) /\ lookahead' = lookahead + n
          /\ eofile' = (n = 0) /\ window' \in [0 .. 2 * WSIZE - 1 -> Bytes] /\ at + n <= 2 * WSIZE
          /\ \A i \in 0 .. n - 1 : window'[at + i] = input[inpos + i + 1]
          /\ n = 0 => inpos = Len(input)
      BY <2>2, <2>3 DEF Read
    <2>7. /\ strstart' = strstart - 0 /\ match_start' = match_start - 0 /\ block_start' = block_start - 0
          /\ head' = head /\ prev' = prev /\ mixed' = mixed
      BY <1>1, <1>4
    <2>8. strstart' + lookahead' <= 2 * WSIZE /\ at = strstart' + lookahead
      BY <1>1, <1>4, <2>6
    <2> HIDE DEF at
    <2>9. \A i \in 0 .. strstart' + lookahead - 1 : window'[i] = window[i + 0]
      <3>1. strstart' + lookahead - 1 = at - 1
        BY <1>1, <1>4 DEF at
      <3> QED BY ONLY <2>4, <3>1
    <2>10. \A i \in 0 .. n - 1 : window'[strstart' + lookahead + i] = input[inpos + i + 1]
      BY <2>6, <2>8
    <2> QED BY <2>5, <2>6, <2>7, <2>8, <2>9, <2>10 DEF Filled
  <1> QED BY <1>3, <1>4 DEF fill_window

LEMMA WindowFill == ASSUME WindowInv, fill_window PROVE WindowInv'
  <1>1. /\ TypeOK /\ strstart \in Nat /\ lookahead \in Nat /\ match_start \in Int /\ block_start \in Int
        /\ inpos \in Nat /\ window \in [0 .. 2 * WSIZE - 1 -> Bytes] /\ Len(input) \in Nat
    BY InputType DEF WindowInv, TypeOK
  <1>2. /\ pc \in {"begin", "loop"} /\ pc' = pc /\ lookahead < MIN_LOOKAHEAD /\ ~eofile
        /\ UNCHANGED <<input, level, asm, behind, ins_h, prev_length, match_length, match_available,
                       prev_match, covered, cur_match, best_len>>
    BY DEF fill_window, MustFill, search, given
  <1>3. strstart + lookahead <= 2 * WSIZE /\ HoldsInput /\ ReadAhead /\ inpos - lookahead - strstart >= 0
    BY <1>2 DEF WindowInv, Ahead, Base
  <1>4. PICK n \in Nat, moved \in {0, WSIZE} : Filled(n, moved)
    BY FillWindow
  <1>5. moved \in Nat /\ inpos' = inpos + n /\ lookahead' = lookahead + n /\ strstart' = strstart - moved
        /\ moved <= strstart /\ strstart' + lookahead' <= 2 * WSIZE /\ inpos' <= Len(input)
        /\ eofile' = (n = 0) /\ (n = 0 => inpos = Len(input))
    BY <1>4, Sizes DEF Filled
  <1>6. head' \in [HashKeys -> Nat] /\ prev' \in [0 .. WSIZE - 1 -> Nat] /\ mixed' \in Nat
    <2>1. head \in [HashKeys -> Nat] /\ prev \in [0 .. WSIZE - 1 -> Nat] /\ mixed \in Nat
      BY <1>1 DEF TypeOK
    <2>2. CASE moved = 0
      BY <1>4, <2>1, <2>2 DEF Filled
    <2>3. CASE moved = WSIZE
      <3>1. SlideChains
        BY <1>4, <2>3 DEF Filled
      <3> QED BY <1>1, <3>1, SlideFacts
    <2> QED BY <2>2, <2>3
  <1>7. TypeOK'
    BY <1>1, <1>2, <1>4, <1>5, <1>6, Sizes DEF TypeOK, Filled
  <1>8. LengthInv'
    BY <1>1, <1>2, <1>5 DEF LengthInv, FastInv, fast, WindowInv, TypeOK, MIN_MATCH
  <1>9. Base' = Base + moved /\ Base = inpos - lookahead - strstart
    BY <1>1, <1>2, <1>5 DEF Base, Ahead
  <1>10. HoldsInput'
    <2> SUFFICES ASSUME NEW i \in 0 .. strstart' + lookahead' - 1
                 PROVE  window'[i] = input[Base' + i + 1]
      BY <1>2 DEF HoldsInput, Ahead
    <2>1. CASE i < strstart' + lookahead
      <3>1. window'[i] = window[i + moved]
        BY <1>1, <1>4, <1>5, <2>1 DEF Filled
      <3>2. i + moved \in 0 .. strstart + lookahead - 1
        BY <1>1, <1>5, <2>1
      <3>3. window[i + moved] = input[Base + (i + moved) + 1]
        BY <1>2, <1>3, <3>2 DEF HoldsInput, Ahead
      <3>4. Base + (i + moved) + 1 = Base' + i + 1
        BY <1>1, <1>5, <1>9
      <3> QED BY <3>1, <3>3, <3>4
    <2>2. CASE ~(i < strstart' + lookahead)
      <3> DEFINE j == i - (strstart' + lookahead)
      <3>1. j \in 0 .. n - 1 /\ strstart' + lookahead + j = i /\ inpos + j + 1 = Base' + i + 1
        BY <1>1, <1>5, <1>9, <2>2
      <3> QED BY <1>4, <3>1 DEF Filled
    <2> QED BY <2>1, <2>2
  <1>11. ReadAhead'
    BY <1>1, <1>2, <1>3, <1>5, Sizes DEF ReadAhead
  <1>12. Base' >= 0 /\ strstart' + Ahead' <= 2 * WSIZE
    BY <1>1, <1>2, <1>3, <1>5, <1>9 DEF Ahead
  <1> QED BY <1>2, <1>7, <1>8, <1>10, <1>11, <1>12 DEF WindowInv

\* A step that reads nothing leaves the window as it is, when what it takes off
\* lookahead it adds to strstart.
LEMMA WindowStays ==
    ASSUME WindowInv, UNCHANGED reading, pc # "init", pc' # "init",
           NEW k \in Int, strstart' = strstart + k, Ahead' = Ahead - k,
           TypeOK', LengthInv', ReadAhead'
    PROVE  WindowInv'
  <1>1. window' = window /\ input' = input /\ inpos' = inpos
    BY DEF reading, given
  <1>2. inpos \in Int /\ strstart \in Int /\ Ahead \in Int
    BY InputType DEF WindowInv, TypeOK, Ahead
  <1>3. Base' = Base /\ strstart' + Ahead' = strstart + Ahead
    BY <1>1, <1>2 DEF Base
  <1>4. HoldsInput' /\ Base' >= 0 /\ strstart' + Ahead' <= 2 * WSIZE
    BY <1>1, <1>2, <1>3 DEF WindowInv, HoldsInput
  <1> QED BY <1>4 DEF WindowInv

LEMMA WindowHashFirst == ASSUME WindowInv, HashFirst PROVE WindowInv'
  <1>1. pc = "begin" /\ pc' = "loop" /\ ~MustFill /\ TypeOK
    BY DEF HashFirst, WindowInv
  <1>2. /\ UNCHANGED reading /\ lookahead' = lookahead /\ strstart' = strstart /\ match_length' = match_length
        /\ UNCHANGED <<prev, head, mixed, block_start, match_start, prev_length, match_available, prev_match,
                       covered, cur_match, best_len>>
    BY DEF HashFirst, search
  <1>3. ins_h' \in HashKeys
    <2>1. window[0] \in Bytes /\ window[1] \in Bytes
      BY <1>1, Sizes DEF TypeOK
    <2>2. FirstHash \subseteq HashKeys
      BY <2>1, HashTypes DEF FirstHash
    <2>3. ins_h' \in FirstHash \cup {ins_h}
      BY DEF HashFirst
    <2> QED BY <1>1, <2>2, <2>3 DEF TypeOK
  <1>4. TypeOK'
    BY <1>1, <1>2, <1>3 DEF TypeOK, reading, given, Working
  <1>5. LengthInv'
    BY <1>1, <1>2, Sizes DEF LengthInv, FastInv, fast, WindowInv, TypeOK, reading, given
  <1>6. ReadAhead'
    BY <1>1, <1>2, Sizes DEF WindowInv, ReadAhead, MustFill, reading, given, TypeOK
  <1>7. strstart' = strstart + 0 /\ Ahead' = Ahead - 0
    BY <1>1, <1>2 DEF Ahead, TypeOK
  <1> QED BY <1>1, <1>2, <1>4, <1>5, <1>6, <1>7, WindowStays

\* Inserting a string keeps the types of the chains.
LEMMA InsertTypes ==
    ASSUME TypeOK, NEW s \in Nat, INSERT_STRING(s)
    PROVE  /\ prev' \in [0 .. WSIZE - 1 -> Nat] /\ head' \in [HashKeys -> Nat] /\ ins_h' \in HashKeys
           /\ mixed' \in Nat /\ NextKey(s) \in HashKeys /\ HashHead(s) \in Nat /\ s % WSIZE \in 0 .. WSIZE - 1
  <1>1. byte(s + MIN_MATCH - 1) \in Bytes
    BY ByteType DEF MIN_MATCH
  <1>2. NextKey(s) \in HashKeys
    BY <1>1, HashTypes DEF NextKey, TypeOK
  <1>3. HashHead(s) \in Nat
    BY <1>2 DEF HashHead, TypeOK
  <1>4. WSIZE \in Nat \ {0}
    BY Sizes
  <1>5. s % WSIZE \in 0 .. WSIZE - 1
    BY <1>4, ModFacts
  <1> QED BY <1>2, <1>3, <1>5 DEF INSERT_STRING, TypeOK

LEMMA WindowStartTurn == ASSUME WindowInv, StartTurn PROVE WindowInv'
  <1>1. pc = "loop" /\ ~MustFill /\ lookahead # 0 /\ TypeOK /\ LengthInv /\ pc' \in {"search", "decide"}
    BY DEF StartTurn, WindowInv
  <1>2. /\ UNCHANGED reading /\ lookahead' = lookahead /\ strstart' = strstart
        /\ cur_match' = HashHead(strstart) /\ best_len' = prev_length'
        /\ UNCHANGED <<block_start, match_start, match_available, covered>>
        /\ INSERT_STRING(strstart)
    BY DEF StartTurn
  <1>3. IF fast THEN UNCHANGED <<prev_length, prev_match, match_length>>
        ELSE prev_length' = match_length /\ prev_match' = match_start /\ match_length' = 2
    BY DEF StartTurn, MIN_MATCH
  <1>4. strstart \in Nat /\ lookahead \in Nat /\ prev_length \in Nat /\ match_length \in Nat /\ fast' = fast
    BY <1>1, <1>2 DEF TypeOK, reading, given, fast
  <1>5. prev' \in [0 .. WSIZE - 1 -> Nat] /\ head' \in [HashKeys -> Nat] /\ ins_h' \in HashKeys
        /\ HashHead(strstart) \in Nat /\ mixed' \in Nat
    BY <1>1, <1>2, <1>4, InsertTypes
  <1>6. ReadAhead'
    BY <1>1, <1>2, Sizes DEF WindowInv, ReadAhead, MustFill, reading, given, TypeOK
  <1>7. strstart' = strstart + 0 /\ Ahead' = Ahead - 0
    BY <1>1, <1>2, <1>4 DEF Ahead
  <1>8. CASE fast
    <2>1. UNCHANGED <<prev_length, prev_match, match_length>> /\ prev_length = 2 /\ ~match_available
          /\ match_length < 3
      BY <1>1, <1>3, <1>8 DEF LengthInv, FastInv, MIN_MATCH
    <2>2. TypeOK'
      BY <1>1, <1>2, <1>5, <2>1 DEF TypeOK, reading, given, Working
    <2>3. LengthInv'
      BY <1>1, <1>2, <1>4, <2>1, Sizes DEF LengthInv, FastInv
    <2> QED BY <1>1, <1>2, <1>6, <1>7, <2>2, <2>3, WindowStays
  <1>9. CASE ~fast
    <2>1. prev_length' = match_length /\ prev_match' = match_start /\ match_length' = 2
      BY <1>3, <1>9
    <2>2. TypeOK'
      BY <1>1, <1>2, <1>4, <1>5, <2>1 DEF TypeOK, reading, given, Working
    <2>3. LengthInv'
      BY <1>1, <1>2, <1>4, <1>9, <2>1, Sizes DEF LengthInv, FastInv
    <2> QED BY <1>1, <1>2, <1>6, <1>7, <2>2, <2>3, WindowStays
  <1> QED BY <1>8, <1>9

\* Two strings that agree in the first two bytes have a length up to which they
\* agree, but for the third byte, which the C version does not compare.
LEMMA MatchLengthFacts ==
    ASSUME NEW a \in Nat, NEW b \in Nat, byte(a + 0) = byte(b + 0), byte(a + 1) = byte(b + 1)
    PROVE  /\ MatchLength(a, b) \in 2 .. MAX_MATCH
           /\ \A k \in (0 .. MatchLength(a, b) - 1) \ {2} : byte(a + k) = byte(b + k)
  <1> DEFINE F == FirstCompared
             P(n) == /\ \A k \in F .. n - 1 : byte(a + k) = byte(b + k)
                     /\ n = MAX_MATCH \/ byte(a + n) # byte(b + n)
             T == {n \in F .. MAX_MATCH : n = MAX_MATCH \/ byte(a + n) # byte(b + n)}
  <1>1. F \in {2, 3}
    BY DEF FirstCompared
  <1>2. MatchLength(a, b) = CHOOSE n \in F .. MAX_MATCH : P(n)
    BY DEF MatchLength
  <1> HIDE DEF F
  <1>3. MAX_MATCH \in T /\ T \subseteq Nat
    BY <1>1, Sizes
  <1>4. PICK n \in T : \A m \in T : n <= m
    BY <1>3, Least
  <1>5. n \in F .. MAX_MATCH /\ (n = MAX_MATCH \/ byte(a + n) # byte(b + n)) /\ n \in Nat
    BY <1>3, <1>4
  <1>6. ASSUME NEW k \in F .. n - 1 PROVE byte(a + k) = byte(b + k)
    <2>1. k \in F .. MAX_MATCH /\ k < n /\ k \in Nat
      BY <1>1, <1>5, Sizes
    <2>2. k \notin T
      BY <1>4, <1>5, <2>1
    <2> QED BY <2>1, <2>2
  <1>7. P(n)
    BY <1>5, <1>6
  <1> HIDE DEF P
  <1>8. P(MatchLength(a, b)) /\ MatchLength(a, b) \in F .. MAX_MATCH
    BY <1>2, <1>5, <1>7
  <1>9. ASSUME NEW k \in (0 .. MatchLength(a, b) - 1) \ {2} PROVE byte(a + k) = byte(b + k)
    <2>1. CASE k \in {0, 1}
      BY <2>1
    <2>2. CASE k \notin {0, 1}
      <3>1. k \in F .. MatchLength(a, b) - 1
        BY <1>1, <1>8, <2>2, Sizes
      <3> QED BY <1>8, <3>1 DEF P
    <2> QED BY <2>1, <2>2
  <1>10. MatchLength(a, b) \in 2 .. MAX_MATCH
    BY <1>1, <1>8, Sizes
  <1> QED BY <1>9, <1>10

\* A turn of the search: what becomes of the best match.
Improves == Promising /\ MatchLength(cur_match, strstart) > best_len

LEMMA Improvement ==
    ASSUME TypeOK, Improves
    PROVE  /\ MatchLength(cur_match, strstart) \in 2 .. MAX_MATCH
           /\ \A k \in (0 .. MatchLength(cur_match, strstart) - 1) \ {2} :
                byte(cur_match + k) = byte(strstart + k)
  <1>1. byte(cur_match + 0) = byte(strstart + 0) /\ byte(cur_match + 1) = byte(strstart + 1)
    BY DEF Improves, Promising
  <1> QED BY <1>1, MatchLengthFacts DEF TypeOK

LEMMA SearchTurn ==
    ASSUME TypeOK, longest_match, LengthInv
    PROVE  /\ pc = "search" /\ pc' \in {"search", "decide"}
           /\ UNCHANGED <<reading, chains, strstart, lookahead, block_start, prev_length,
                          match_available, prev_match, flush, covered, output>>
           /\ \/ /\ Improves /\ best_len' = MatchLength(cur_match, strstart)
                 /\ match_start' = cur_match
              \/ best_len' = best_len /\ match_start' = match_start
           /\ best_len' \in Nat /\ best_len' <= MAX_MATCH /\ match_start' \in Int
           /\ pc' = "decide" => /\ match_length' = Accepted(best_len', match_start')
                                /\ cur_match' = cur_match
           /\ pc' = "search" => /\ cur_match' = prev[cur_match % WSIZE] /\ cur_match' > Limit
                                /\ match_length' = match_length
  <1>1. /\ pc = "search" /\ pc' \in {"search", "decide"}
        /\ UNCHANGED <<reading, chains, strstart, lookahead, block_start, prev_length,
                       match_available, prev_match, flush, covered, output>>
    BY DEF longest_match
  <1>2. /\ \/ /\ Improves /\ best_len' = MatchLength(cur_match, strstart)
              /\ match_start' = cur_match
           \/ best_len' = best_len /\ match_start' = match_start
        /\ pc' = "decide" => /\ match_length' = Accepted(best_len', match_start')
                             /\ cur_match' = cur_match
        /\ pc' = "search" => /\ cur_match' = prev[cur_match % WSIZE] /\ cur_match' > Limit
                             /\ match_length' = match_length
    BY DEF longest_match, Improves
  <1>3. best_len \in Nat /\ best_len <= MAX_MATCH /\ match_start \in Int /\ cur_match \in Int
    BY <1>1 DEF TypeOK, LengthInv
  <1>4. best_len' \in Nat /\ best_len' <= MAX_MATCH /\ match_start' \in Int
    <2>1. CASE Improves /\ best_len' = MatchLength(cur_match, strstart) /\ match_start' = cur_match
      <3>1. MatchLength(cur_match, strstart) \in 2 .. MAX_MATCH
        BY <2>1, Improvement, Sizes
      <3> QED BY <1>3, <2>1, <3>1, Sizes
    <2>2. CASE best_len' = best_len /\ match_start' = match_start
      BY <1>3, <2>2
    <2> QED BY <1>2, <2>1, <2>2
  <1> QED BY <1>1, <1>2, <1>4

LEMMA AcceptedFacts ==
    ASSUME NEW length \in Nat, NEW start \in Int, TypeOK
    PROVE  /\ Accepted(length, start) \in Nat /\ Accepted(length, start) <= length + 2
           /\ Accepted(length, start) >= MIN_MATCH =>
                Accepted(length, start) <= length /\ Accepted(length, start) <= lookahead
  BY DEF Accepted, Smaller, TypeOK, MIN_MATCH

LEMMA WindowSearch == ASSUME WindowInv, longest_match PROVE WindowInv'
  <1>1. TypeOK /\ LengthInv
    BY DEF WindowInv
  <1>2. /\ pc = "search" /\ pc' \in {"search", "decide"}
        /\ UNCHANGED <<reading, chains, strstart, lookahead, block_start, prev_length,
                       match_available, prev_match, covered>>
        /\ best_len' \in Nat /\ best_len' <= MAX_MATCH /\ match_start' \in Int
    BY <1>1, SearchTurn
  <1>3. match_length' \in Nat /\ cur_match' \in Nat
    <2>1. CASE pc' = "decide"
      BY <1>1, <1>2, <2>1, SearchTurn, AcceptedFacts DEF TypeOK
    <2>2. CASE pc' = "search"
      <3>1. cur_match % WSIZE \in 0 .. WSIZE - 1
        <4>1. cur_match \in Nat /\ WSIZE \in Nat \ {0}
          BY <1>1, Sizes DEF TypeOK
        <4> QED BY <4>1, ModFacts
      <3>2. match_length' = match_length /\ cur_match' = prev[cur_match % WSIZE]
        BY <1>1, <2>2, SearchTurn
      <3> QED BY <1>1, <3>1, <3>2 DEF TypeOK
    <2> QED BY <1>2, <2>1, <2>2
  <1>4. TypeOK'
    BY <1>1, <1>2, <1>3 DEF TypeOK, reading, given, chains, Working
  <1>5. LengthInv'
    <2>1. FastInv'
      BY <1>1, <1>2 DEF LengthInv, FastInv, fast, reading, given
    <2>2. CASE pc' = "search"
      BY <1>1, <1>2, <2>2, <2>1 DEF LengthInv
    <2>3. CASE pc' = "decide"
      <3>1. match_length' = Accepted(best_len', match_start')
        BY <1>1, <2>3, SearchTurn
      <3>2. /\ match_length' <= best_len' + 2
            /\ match_length' >= MIN_MATCH => match_length' <= best_len' /\ match_length' <= lookahead
        BY <1>1, <1>2, <3>1, AcceptedFacts
      <3>3. match_length' <= MAX_MATCH
        <4>1. CASE match_length' >= MIN_MATCH
          <5>1. PICK m, b : m = match_length' /\ b = best_len'
            OBVIOUS
          <5>2. m <= b /\ b <= MAX_MATCH /\ m \in Nat /\ b \in Nat
            BY <1>2, <1>3, <3>2, <4>1, <5>1
          <5>3. m <= MAX_MATCH
            BY <5>2, Sizes
          <5> QED BY <5>1, <5>3
        <4>2. CASE ~(match_length' >= MIN_MATCH)
          <5>1. PICK m : m = match_length'
            OBVIOUS
          <5>2. m \in Nat /\ ~(m >= MIN_MATCH)
            BY <1>3, <4>2, <5>1
          <5>3. m <= MAX_MATCH
            BY <5>2, Sizes
          <5> QED BY <5>1, <5>3
        <4> QED BY <4>1, <4>2
      <3> QED BY <1>1, <1>2, <2>3, <2>1, <3>2, <3>3 DEF LengthInv
    <2> QED BY <1>2, <2>2, <2>3
  <1>6. ReadAhead'
    BY <1>1, <1>2, Sizes DEF WindowInv, ReadAhead, reading, given
  <1>7. strstart' = strstart + 0 /\ Ahead' = Ahead - 0
    BY <1>1, <1>2 DEF Ahead, TypeOK
  <1> QED BY <1>2, <1>4, <1>5, <1>6, <1>7, WindowStays

\* A match is taken, and the strings it covers are still to be inserted.
LEMMA WindowCover ==
    ASSUME WindowInv, pc = "decide", pc' = "insert", UNCHANGED <<reading, chains, search>>,
           UNCHANGED <<strstart, block_start, match_start, prev_length, match_length,
                       match_available, prev_match>>,
           NEW n \in Nat, n >= 2, n <= lookahead, n <= MAX_MATCH,
           lookahead' = lookahead - n, covered' = n - 1
    PROVE  WindowInv'
  <1>1. TypeOK /\ LengthInv /\ ReadAhead
    BY DEF WindowInv
  <1>2. lookahead \in Nat /\ lookahead - n \in Nat /\ n - 1 \in Nat /\ n - 1 >= 1
    BY <1>1 DEF TypeOK
  <1>3. TypeOK'
    BY <1>1, <1>2 DEF TypeOK, reading, given, chains, search, Working
  <1>4. LengthInv'
    BY <1>1, <1>2 DEF LengthInv, FastInv, fast, reading, given
  <1>5. ReadAhead'
    BY <1>1, <1>2, Sizes DEF ReadAhead, reading, given
  <1>6. strstart' = strstart + 0 /\ Ahead' = Ahead - 0
    BY <1>1, <1>2 DEF Ahead, TypeOK
  <1>7. UNCHANGED reading
    OBVIOUS
  <1> QED BY <1>3, <1>4, <1>5, <1>6, <1>7, WindowStays

LEMMA WindowTakes == ASSUME WindowInv, TakeFound \/ TakePrevious PROVE WindowInv'
  <1>1. TypeOK /\ LengthInv /\ pc = "decide"
    BY DEF WindowInv, TakeFound, TakePrevious
  <1>2. /\ pc' = "insert" /\ UNCHANGED <<reading, chains, search>>
        /\ UNCHANGED <<strstart, block_start, match_start, prev_length, match_length,
                       match_available, prev_match>>
    BY DEF TakeFound, TakePrevious
  <1>3. CASE TakeFound
    <2>1. match_length \in Nat /\ match_length >= 3 /\ match_length <= lookahead /\ match_length <= MAX_MATCH
      BY <1>1, <1>3, Sizes DEF TakeFound, TypeOK, LengthInv
    <2>2. lookahead' = lookahead - match_length /\ covered' = match_length - 1
      BY <1>3 DEF TakeFound
    <2>3. match_length >= 2
      BY <2>1
    <2> QED BY <1>1, <1>2, <2>1, <2>2, <2>3, WindowCover
  <1>4. CASE TakePrevious
    <2>1. /\ lookahead \in Nat /\ prev_length \in Nat /\ prev_length >= 3 /\ prev_length <= lookahead + 1
          /\ prev_length <= MAX_MATCH
      BY <1>1, <1>4, Sizes DEF TakePrevious, TakesPrevious, TypeOK, LengthInv
    <2>2. PICK n \in Nat : n = prev_length - 1
      BY <2>1
    <2>3. n >= 2 /\ n <= lookahead /\ n <= MAX_MATCH
      BY <2>1, <2>2, Sizes
    <2>4. lookahead' = lookahead - n /\ covered' = n - 1
      BY <1>4, <2>1, <2>2 DEF TakePrevious
    <2> QED BY <1>1, <1>2, <2>3, <2>4, WindowCover
  <1> QED BY <1>3, <1>4

LEMMA WindowSkip == ASSUME WindowInv, SkipFound PROVE WindowInv'
  <1>1. TypeOK /\ LengthInv /\ ReadAhead /\ pc = "decide" /\ fast /\ pc' = "loop"
    BY DEF WindowInv, SkipFound
  <1>2. /\ UNCHANGED <<reading, prev, head, mixed, match_start, prev_length, match_available, prev_match,
                       covered, search>>
        /\ strstart' = strstart + match_length /\ lookahead' = lookahead - match_length
        /\ match_length' = 0 /\ ins_h' = NewHash(strstart + match_length)
        /\ block_start' \in {block_start, strstart + match_length}
    BY DEF SkipFound, FlushIfAsked, FLUSH_BLOCK
  <1>3. match_length \in Nat /\ match_length >= 3 /\ match_length <= lookahead /\ match_length <= MAX_MATCH
        /\ lookahead \in Nat /\ strstart \in Nat /\ block_start \in Int
    BY <1>1, Sizes DEF SkipFound, TypeOK, LengthInv
  <1>4. PICK s \in Nat : s = strstart + match_length
    BY <1>3
  <1>5. ins_h' \in HashKeys
    <2>1. s + 1 \in Nat
      OBVIOUS
    <2>2. byte(s) \in Bytes /\ byte(s + 1) \in Bytes
      BY <1>1, <2>1, ByteType
    <2> QED BY <1>2, <1>4, <2>2, HashTypes DEF NewHash
  <1>6. lookahead - match_length \in Nat /\ block_start' \in Int /\ strstart' \in Nat
    BY <1>2, <1>3, <1>4
  <1>7. TypeOK'
    BY <1>1, <1>2, <1>5, <1>6 DEF TypeOK, reading, given, search, Working
  <1>8. LengthInv'
    BY <1>1, <1>2, Sizes DEF LengthInv, FastInv, fast, reading, given
  <1>9. ReadAhead'
    BY <1>1, <1>2, <1>3, Sizes DEF ReadAhead, reading, given
  <1>10. Ahead' = Ahead - match_length /\ match_length \in Int
    BY <1>1, <1>2, <1>3 DEF Ahead
  <1>11. UNCHANGED reading
    BY <1>2
  <1> QED BY <1>1, <1>2, <1>7, <1>8, <1>9, <1>10, <1>11, WindowStays

LEMMA WindowInsertCovered == ASSUME WindowInv, InsertCovered PROVE WindowInv'
  <1>1. pc = "insert" /\ TypeOK /\ LengthInv /\ ReadAhead /\ INSERT_STRING(strstart + 1)
    BY DEF InsertCovered, WindowInv
  <1>2. /\ UNCHANGED <<reading, lookahead, match_start, prev_length, prev_match, search>>
        /\ covered' = covered - 1
        /\ \/ /\ covered # 1 /\ strstart' = strstart + 1 /\ pc' = "insert"
              /\ UNCHANGED <<match_available, match_length, block_start>>
           \/ /\ covered = 1 /\ strstart' = strstart + 2 /\ pc' = "loop"
              /\ match_available' = FALSE /\ match_length' = IF fast THEN 0 ELSE 2
              /\ block_start' \in {strstart + 2, block_start}
    BY <1>1 DEF InsertCovered, FlushIfAsked, FLUSH_BLOCK, MIN_MATCH
  <1>3. lookahead \in Nat /\ covered \in Nat /\ covered >= 1 /\ strstart \in Nat /\ block_start \in Int
    BY <1>1 DEF TypeOK, LengthInv
  <1>4. prev' \in [0 .. WSIZE - 1 -> Nat] /\ head' \in [HashKeys -> Nat] /\ ins_h' \in HashKeys
        /\ mixed' \in Nat
    BY <1>1, <1>3, InsertTypes
  <1>5. TypeOK'
    <2>1. strstart + 1 \in Nat /\ strstart + 2 \in Nat /\ covered - 1 \in Nat
      BY <1>3
    <2>2. strstart' \in Nat /\ covered' \in Nat /\ block_start' \in Int
      BY <1>2, <1>3, <2>1
    <2>3. match_length' \in Nat
      BY <1>1, <1>2 DEF TypeOK
    <2>4. match_available' \in BOOLEAN /\ pc' \in Working
      BY <1>1, <1>2, Zenon DEF TypeOK, Working
    <2> QED BY <1>1, <1>2, <1>4, <2>2, <2>3, <2>4 DEF TypeOK, reading, given, search
  <1>6. LengthInv'
    BY <1>1, <1>2, <1>3, Sizes DEF LengthInv, FastInv, fast, reading, given
  <1>7. ReadAhead'
    BY <1>1, <1>2 DEF ReadAhead, reading, given
  <1>8. \E k \in Int : strstart' = strstart + k /\ Ahead' = Ahead - k
    <2>1. CASE pc' = "insert" /\ strstart' = strstart + 1
      BY <1>1, <1>2, <1>3, <2>1 DEF Ahead
    <2>2. CASE covered = 1 /\ strstart' = strstart + 2 /\ pc' = "loop"
      BY <1>1, <1>2, <1>3, <2>2 DEF Ahead
    <2> QED BY <1>2, <2>1, <2>2
  <1> QED BY <1>1, <1>2, <1>5, <1>6, <1>7, <1>8, WindowStays

\* A turn that ends with one byte more behind strstart.
LEMMA WindowAdvance ==
    ASSUME WindowInv, FastLiteral \/ LazyLiteral \/ Defer
    PROVE  WindowInv'
  <1>1. pc = "decide" /\ TypeOK /\ LengthInv /\ ReadAhead /\ pc' = "loop"
    BY DEF FastLiteral, LazyLiteral, Defer, WindowInv
  <1>2. /\ UNCHANGED <<reading, chains, match_start, prev_length, match_length, prev_match, covered, search>>
        /\ strstart' = strstart + 1 /\ lookahead' = lookahead - 1
        /\ block_start' \in {block_start, strstart, strstart + 1}
    BY <1>1 DEF FastLiteral, LazyLiteral, Defer, FlushIfAsked, FLUSH_BLOCK
  <1>3. /\ fast => match_length < 3 /\ match_available' = match_available
        /\ match_available' \in BOOLEAN
    BY <1>1, Sizes DEF FastLiteral, LazyLiteral, Defer, TypeOK
  <1>4. lookahead \in Nat /\ lookahead >= 1 /\ strstart \in Nat /\ match_length \in Nat /\ block_start \in Int
    BY <1>1 DEF TypeOK, LengthInv
  <1>5. strstart + 1 \in Nat /\ lookahead - 1 \in Nat
    BY <1>4
  <1>6. TypeOK'
    BY <1>1, <1>2, <1>3, <1>4, <1>5 DEF TypeOK, reading, given, chains, search, Working
  <1>7. LengthInv'
    BY <1>1, <1>2, <1>3, <1>4, Sizes DEF LengthInv, FastInv, fast, reading, given
  <1>8. ReadAhead'
    BY <1>1, <1>2, <1>4, Sizes DEF ReadAhead, reading, given
  <1>9. strstart' = strstart + 1 /\ Ahead' = Ahead - 1
    BY <1>1, <1>2 DEF Ahead
  <1>10. UNCHANGED reading
    BY <1>2
  <1> QED BY <1>1, <1>6, <1>7, <1>8, <1>9, <1>10, WindowStays

LEMMA WindowFinish == ASSUME WindowInv, Finish PROVE WindowInv'
  <1>1. pc = "loop" /\ TypeOK /\ LengthInv /\ ReadAhead /\ pc' = "done"
    BY DEF Finish, WindowInv
  <1>2. UNCHANGED <<reading, chains, strstart, lookahead, block_start, match_start, prev_length,
                    match_length, match_available, prev_match, covered, search>>
    BY DEF Finish
  <1>3. TypeOK'
    BY <1>1, <1>2 DEF TypeOK, reading, given, chains, search, Working
  <1>4. LengthInv' /\ ReadAhead'
    BY <1>1, <1>2 DEF LengthInv, FastInv, fast, ReadAhead, reading, given
  <1>5. strstart' = strstart + 0 /\ Ahead' = Ahead - 0
    BY <1>1, <1>2 DEF Ahead, TypeOK
  <1> QED BY <1>1, <1>2, <1>3, <1>4, <1>5, WindowStays

LEMMA WindowStutter == ASSUME WindowInv, UNCHANGED vars PROVE WindowInv'
  BY DEF vars, WindowInv, TypeOK, LengthInv, FastInv, fast, Ahead, Base, HoldsInput, ReadAhead

LEMMA WindowStep == WindowInv /\ [Next]_vars => WindowInv'
  BY WindowLmInit, WindowFill, WindowHashFirst, WindowStartTurn, WindowSearch, WindowTakes, WindowSkip,
     WindowInsertCovered, WindowAdvance, WindowFinish, WindowStutter
     DEF Next, deflate_fast, deflate, Ended

LEMMA WindowAlways == Spec => []WindowInv
  BY InitWindow, WindowStep, PTL DEF Spec

-----------------------------------------------------------------------------
(* The chains                                                               *)

LEMMA Bytes3 == TypeOK => \A s \in Nat : byte(s) \in Bytes /\ byte(s + 1) \in Bytes /\ byte(s + 2) \in Bytes
  <1> SUFFICES ASSUME TypeOK, NEW s \in Nat PROVE byte(s) \in Bytes /\ byte(s + 1) \in Bytes /\ byte(s + 2) \in Bytes
    OBVIOUS
  <1>1. s + 1 \in Nat /\ s + 2 \in Nat
    OBVIOUS
  <1> QED BY <1>1, ByteType

\* Strings with one key that agree in the second byte agree in the third.
LEMMA ThirdByte ==
    ASSUME TypeOK, NEW s \in Nat, NEW t \in Nat, NEW key,
           KeyOf(key, byte(s + 1), byte(s + 2)), KeyOf(key, byte(t + 1), byte(t + 2)),
           byte(s + 1) = byte(t + 1)
    PROVE  byte(s + 2) = byte(t + 2)
  <1>1. byte(s + 1) \in Bytes /\ byte(s + 2) \in Bytes /\ byte(t + 2) \in Bytes
    BY Bytes3
  <1>2. PICK g \in HashKeys : key = UPDATE_HASH(UPDATE_HASH(g, byte(s + 1)), byte(s + 2))
    BY DEF KeyOf
  <1>3. PICK h \in HashKeys : key = UPDATE_HASH(UPDATE_HASH(h, byte(t + 1)), byte(t + 2))
    BY DEF KeyOf
  <1>4. PICK b \in Bytes, c \in Bytes, e \in Bytes : b = byte(s + 1) /\ c = byte(s + 2) /\ e = byte(t + 2)
    BY <1>1
  <1>5. UPDATE_HASH(UPDATE_HASH(g, b), c) = UPDATE_HASH(UPDATE_HASH(h, b), e)
    BY <1>2, <1>3, <1>4
  <1>6. c = e
    BY <1>5, HashAssumption
  <1> QED BY <1>4, <1>6

LEMMA BytesStay ==
    ASSUME UNCHANGED <<window, behind>>
    PROVE  \A i : byte(i)' = byte(i)
  BY DEF byte

\* Inserting a string: the chains are right for one string more.
LEMMA InsertChains ==
    ASSUME TypeOK, NEW s \in Nat, INSERT_STRING(s), UNCHANGED <<window, behind>>,
           KeyBefore(s), NEW K \in Keys, ChainsRight(K, s)
    PROVE  /\ KeyBefore(s + 1)' /\ NextKey(s) \in HashKeys
           /\ \E L \in Keys : L = [K EXCEPT ![s] = NextKey(s)] /\ ChainsRight(L, s + 1)'
  <1>1. byte(s + 1) \in Bytes /\ byte(s + 2) \in Bytes
    BY Bytes3
  <1>2. PICK key \in HashKeys : key = NextKey(s)
    BY InsertTypes
  <1>3. PICK L : L = [K EXCEPT ![s] = key]
    OBVIOUS
  <1>4. L \in Keys /\ L[s] = key /\ \A p \in Nat : p # s => L[p] = K[p]
    BY <1>3 DEF Keys
  <1>5. /\ ins_h' = key /\ head' = [head EXCEPT ![key] = s]
        /\ prev' = [prev EXCEPT ![s % WSIZE] = head[key]]
        /\ head \in [HashKeys -> Nat] /\ prev \in [0 .. WSIZE - 1 -> Nat]
    BY <1>2 DEF INSERT_STRING, HashHead, TypeOK
  <1>6. \A i : byte(i)' = byte(i)
    BY BytesStay
  <1>7. WSIZE \in Nat \ {0} /\ key # LeftOut
    BY Sizes, HashTypes
  <1>8. key = UPDATE_HASH(ins_h, byte(s + 2)) /\ ins_h \in HashKeys
    <2>1. s + MIN_MATCH - 1 = s + 2
      BY DEF MIN_MATCH
    <2> QED BY <1>2, <2>1 DEF NextKey, TypeOK
  <1>9. KeyBefore(s + 1)'
    <2>1. (s + 1) + 1 = s + 2
      OBVIOUS
    <2> QED BY <1>5, <1>6, <1>8, <2>1 DEF KeyBefore
  <1>10. KeysRight(L, s + 1)'
    <2> SUFFICES ASSUME NEW p \in Nat
                 PROVE  /\ p >= s + 1 => L[p] = LeftOut
                        /\ p >= 1 /\ L[p] # LeftOut => KeyOf(L[p], byte(p + 1), byte(p + 2))
      BY <1>6 DEF KeysRight, KeyOf
    <2>1. CASE p = s
      <3>1. ASSUME p >= 1 PROVE KeyOf(key, byte(s + 1), byte(s + 2))
        BY <1>8, <2>1, <3>1 DEF KeyBefore, KeyOf
      <3> QED BY <1>4, <2>1, <3>1
    <2>2. CASE p # s
      <3>1. L[p] = K[p] /\ (p >= s + 1 => p >= s)
        BY <1>4, <2>2
      <3> QED BY <3>1 DEF ChainsRight, KeysRight
    <2> QED BY <2>1, <2>2
  <1>11. HeadsRight(L, s + 1)'
    <2> SUFFICES ASSUME NEW h \in HashKeys, head'[h] # NIL
                 PROVE  head'[h] < s + 1 /\ L[head'[h]] = h
      BY DEF HeadsRight
    <2>1. CASE h = key
      <3>1. head'[h] = s
        BY <1>5, <2>1
      <3> QED BY <1>4, <2>1, <3>1
    <2>2. CASE h # key
      <3>1. head'[h] = head[h] /\ head[h] \in Nat
        BY <1>5, <2>2
      <3>2. head[h] < s /\ K[head[h]] = h
        BY <3>1 DEF ChainsRight, HeadsRight
      <3> QED BY <1>4, <3>1, <3>2
    <2> QED BY <2>1, <2>2
  <1>12. LinksRight(L, s + 1)'
    <2> SUFFICES ASSUME NEW i \in 0 .. (s + 1) - 1, i >= (s + 1) - WSIZE, L[i] # LeftOut,
                        prev'[i % WSIZE] # NIL
                 PROVE  prev'[i % WSIZE] < i /\ L[prev'[i % WSIZE]] = L[i]
      BY DEF LinksRight
    <2>1. i \in Nat /\ i % WSIZE \in 0 .. WSIZE - 1 /\ s % WSIZE \in 0 .. WSIZE - 1
      BY <1>7, ModFacts
    <2>2. CASE i = s
      <3>1. prev'[i % WSIZE] = head[key] /\ head[key] \in Nat
        BY <1>5, <2>1, <2>2
      <3>2. head[key] < s /\ K[head[key]] = key
        BY <3>1 DEF ChainsRight, HeadsRight
      <3> QED BY <1>4, <2>2, <3>1, <3>2
    <2>3. CASE i # s
      <3>1. i \in 0 .. s - 1 /\ i < s /\ s < i + WSIZE /\ i >= s - WSIZE
        BY <1>7, <2>3
      <3>2. i % WSIZE # s % WSIZE
        BY <1>7, <2>1, <3>1, ModApart
      <3>3. prev'[i % WSIZE] = prev[i % WSIZE] /\ prev[i % WSIZE] \in Nat
        BY <1>5, <2>1, <3>2
      <3>4. L[i] = K[i]
        BY <1>4, <2>1, <2>3
      <3>5. prev[i % WSIZE] < i /\ K[prev[i % WSIZE]] = K[i]
        BY <3>1, <3>3, <3>4 DEF ChainsRight, LinksRight
      <3>6. prev[i % WSIZE] # s
        BY <2>1, <3>1, <3>3, <3>5
      <3> QED BY <1>4, <3>3, <3>4, <3>5, <3>6
    <2> QED BY <2>2, <2>3
  <1> QED BY <1>2, <1>3, <1>4, <1>9, <1>10, <1>11, <1>12 DEF ChainsRight

\* Nothing happens to the chains, and nothing is looked for.
LEMMA ChainsStay ==
    ASSUME ChainInv, UNCHANGED <<window, behind, head, prev, ins_h>>, Passed' = Passed,
           pc' \in Working => pc \in Working, pc' # "begin", pc' # "search"
    PROVE  ChainInv'
  <1>1. \A i : byte(i)' = byte(i)
    BY BytesStay
  <1>2. CASE pc' \in Working
    <2>1. KeyBefore(Passed) /\ \E K \in Keys : ChainsRight(K, Passed)
      BY <1>2 DEF ChainInv
    <2>2. PICK K \in Keys : ChainsRight(K, Passed)
      BY <2>1
    <2>3. KeyBefore(Passed)'
      BY <1>1, <2>1 DEF KeyBefore
    <2>4. ChainsRight(K, Passed)'
      BY <1>1, <2>2 DEF ChainsRight, KeysRight, KeyOf, HeadsRight, LinksRight
    <2> QED BY <2>3, <2>4 DEF ChainInv
  <1>3. CASE pc' \notin Working
    BY <1>3 DEF ChainInv
  <1> QED BY <1>2, <1>3

\* The slide takes what it takes off the positions off the chains as well, and the
\* keys move with the strings.
\* The race on m never undoes what it did.
LEMMA MixedGrows == ASSUME WindowInv, [Next]_vars PROVE mixed' = 0 => mixed = 0
  <1>1. CASE fill_window
    <2>1. PICK n \in Nat, moved \in {0, WSIZE} : Filled(n, moved)
      BY <1>1, FillWindow
    <2>2. CASE moved = 0
      BY <2>1, <2>2 DEF Filled
    <2>3. CASE moved = WSIZE
      BY <2>1, <2>3, SlideFacts DEF Filled, WindowInv
    <2> QED BY <2>2, <2>3
  <1>2. CASE ~fill_window
    <2>1. mixed' = mixed
      BY <1>2 DEF Next, lm_init, HashFirst, StartTurn, longest_match, deflate_fast, TakeFound, SkipFound,
                  FastLiteral, deflate, TakePrevious, LazyLiteral, Defer, InsertCovered, Finish,
                  Ended, INSERT_STRING, chains, vars
    <2> QED BY <2>1
  <1> QED BY <1>1, <1>2

LEMMA ChainsFill == ASSUME WindowInv, ChainInv, fill_window, mixed' = 0 PROVE ChainInv'
  <1>1. /\ TypeOK /\ pc \in {"begin", "loop"} /\ pc' = pc /\ ~eofile /\ UNCHANGED <<ins_h, behind>>
        /\ strstart \in Nat /\ lookahead \in Nat /\ strstart + lookahead <= 2 * WSIZE
    BY DEF WindowInv, TypeOK, fill_window, MustFill, Ahead, given
  <1>2. PICK n \in Nat, moved \in {0, WSIZE} : Filled(n, moved)
    BY FillWindow
  <1>3. PICK N \in Nat : N = strstart - moved /\ strstart' = N /\ moved \in Nat
    BY <1>1, <1>2, Sizes DEF Filled
  <1>4. N + moved = strstart
    BY <1>1, <1>3
  <1>5. WSIZE \in Nat \ {0} /\ head \in [HashKeys -> Nat] /\ prev \in [0 .. WSIZE - 1 -> Nat]
    BY <1>1, Sizes DEF TypeOK
  <1>6. /\ moved = 0 => head' = head /\ prev' = prev
        /\ moved = WSIZE =>
             /\ \A h \in HashKeys : head'[h] # NIL => head[h] # NIL /\ head'[h] + WSIZE = head[h] /\ head'[h] \in Nat
             /\ \A p \in 0 .. WSIZE - 1 : prev'[p] # NIL => prev[p] # NIL /\ prev'[p] + WSIZE = prev[p] /\ prev'[p] \in Nat
    <2>1. moved = 0 => head' = head /\ prev' = prev
      BY <1>2 DEF Filled
    <2>2. CASE moved = WSIZE
      <3>1. SlideChains
        BY <1>2, <2>2 DEF Filled
      <3>2. /\ head' = [h \in HashKeys |-> IF head[h] >= WSIZE THEN head[h] - WSIZE ELSE 0]
            /\ prev' = [p \in 0 .. WSIZE - 1 |-> IF prev[p] >= WSIZE THEN prev[p] - WSIZE ELSE 0]
        <4>1. head' = Slid(head) /\ prev' = Slid(prev)
          BY <1>1, <3>1, SlideFacts
        <4>2. \A m \in Nat : SlidTo(m, m) = IF m >= WSIZE THEN m - WSIZE ELSE 0
          BY <1>5 DEF SlidTo, Wrapped, NIL
        <4> QED BY <1>5, <4>1, <4>2 DEF Slid
      <3>3. \A m \in Nat : (IF m >= WSIZE THEN m - WSIZE ELSE 0) # 0 =>
               /\ m # 0 /\ (IF m >= WSIZE THEN m - WSIZE ELSE 0) + WSIZE = m
               /\ (IF m >= WSIZE THEN m - WSIZE ELSE 0) \in Nat
        BY <1>5
      <3>4. \A h \in HashKeys : head'[h] # NIL => head[h] # NIL /\ head'[h] + WSIZE = head[h] /\ head'[h] \in Nat
        BY <1>5, <3>2, <3>3 DEF NIL
      <3>5. \A p \in 0 .. WSIZE - 1 : prev'[p] # NIL => prev[p] # NIL /\ prev'[p] + WSIZE = prev[p] /\ prev'[p] \in Nat
        BY <1>5, <3>2, <3>3 DEF NIL
      <3> QED BY <2>1, <3>4, <3>5
    <2> QED BY <1>3, <2>1, <2>2
  <1>7. \A h \in HashKeys : head'[h] # NIL => head[h] # NIL /\ head'[h] + moved = head[h] /\ head'[h] \in Nat
    BY <1>5, <1>6
  <1>8. \A p \in 0 .. WSIZE - 1 : prev'[p] # NIL => prev[p] # NIL /\ prev'[p] + moved = prev[p] /\ prev'[p] \in Nat
    BY <1>5, <1>6
  <1>9. CASE pc = "begin"
    <2>1. \A h \in HashKeys : head[h] = NIL
      BY <1>9 DEF ChainInv
    <2> QED BY <1>1, <1>7, <1>9, <2>1 DEF ChainInv, Working
  <1>10. CASE pc = "loop"
    <2>1. lookahead >= 2
      BY <1>1, <1>10, Sizes DEF WindowInv, ReadAhead
    <2>2. KeyBefore(strstart) /\ \E K \in Keys : ChainsRight(K, strstart)
      BY <1>10 DEF ChainInv, Passed, Working
    <2>3. PICK K \in Keys : ChainsRight(K, strstart)
      BY <2>2
    <2>4. ASSUME NEW i \in Nat, i < N + 2 PROVE byte(i)' = byte(i + moved)
      <3>1. i \in 0 .. N + lookahead - 1 /\ i < 2 * WSIZE /\ i + moved < 2 * WSIZE /\ i + moved \in Nat
        <4>1. /\ strstart \in Nat /\ lookahead \in Nat /\ lookahead >= 2 /\ strstart + lookahead <= 2 * WSIZE
              /\ N + moved = strstart /\ moved \in Nat /\ WSIZE \in Nat
          BY <1>1, <1>3, <1>4, <1>5, <2>1
        <4> QED BY <2>4, <4>1
      <3>2. window'[i] = window[i + moved]
        BY <1>2, <1>3, <3>1 DEF Filled
      <3> QED BY <3>1, <3>2 DEF byte
    <2> DEFINE L == [p \in Nat |-> K[p + moved]]
    <2>5. L \in Keys /\ \A p \in Nat : L[p] = K[p + moved]
      <3>1. \A p \in Nat : p + moved \in Nat
        BY <1>3
      <3> QED BY <3>1 DEF Keys
    <2> HIDE DEF L
    <2>6. KeyBefore(N)'
      <3>1. byte(N + 1)' = byte(strstart + 1)
        <4>1. (N + 1) + moved = strstart + 1 /\ N + 1 \in Nat /\ N + 1 < N + 2
          BY <1>1, <1>3
        <4> QED BY <2>4, <4>1
      <3>2. ins_h' = ins_h /\ (N >= 1 => strstart >= 1)
        BY <1>1, <1>3
      <3> QED BY <2>2, <3>1, <3>2 DEF KeyBefore
    <2>7. KeysRight(L, N)'
      <3> SUFFICES ASSUME NEW p \in Nat
                   PROVE  /\ p >= N => L[p] = LeftOut
                          /\ p >= 1 /\ L[p] # LeftOut => KeyOf(L[p], byte(p + 1)', byte(p + 2)')
        BY DEF KeysRight, KeyOf
      <3>1. /\ p + moved \in Nat /\ (p >= N => p + moved >= strstart) /\ (p >= 1 => p + moved >= 1)
        BY <1>1, <1>3
      <3>2. p >= N => L[p] = LeftOut
        BY <2>3, <2>5, <3>1 DEF ChainsRight, KeysRight
      <3>3. ASSUME p >= 1, L[p] # LeftOut PROVE KeyOf(L[p], byte(p + 1)', byte(p + 2)')
        <4>1. KeyOf(L[p], byte((p + moved) + 1), byte((p + moved) + 2))
          BY <2>3, <2>5, <3>1, <3>3 DEF ChainsRight, KeysRight
        <4>2. p < N
          BY <3>2, <3>3
        <4>3. p + 1 \in Nat /\ p + 1 < N + 2 /\ p + 2 \in Nat /\ p + 2 < N + 2
          BY <4>2
        <4>4. byte(p + 1)' = byte((p + 1) + moved) /\ byte(p + 2)' = byte((p + 2) + moved)
          BY <2>4, <4>3
        <4>5. (p + 1) + moved = (p + moved) + 1 /\ (p + 2) + moved = (p + moved) + 2
          BY <1>3
        <4> QED BY <4>1, <4>4, <4>5
      <3> QED BY <3>2, <3>3
    <2>8. HeadsRight(L, N)'
      <3> SUFFICES ASSUME NEW h \in HashKeys, head'[h] # NIL
                   PROVE  head'[h] < N /\ L[head'[h]] = h
        BY DEF HeadsRight
      <3>1. PICK m \in Nat : m = head'[h]
        BY <1>7
      <3>2. m + moved = head[h] /\ head[h] # NIL
        BY <1>7, <3>1
      <3>3. m + moved < strstart /\ K[m + moved] = h
        BY <2>3, <3>2 DEF ChainsRight, HeadsRight
      <3>4. m < N
        BY <1>1, <1>3, <3>3
      <3> QED BY <2>5, <3>1, <3>3, <3>4
    <2>9. LinksRight(L, N)'
      <3> SUFFICES ASSUME NEW s \in 0 .. N - 1, s >= N - WSIZE, L[s] # LeftOut, prev'[s % WSIZE] # NIL
                   PROVE  prev'[s % WSIZE] < s /\ L[prev'[s % WSIZE]] = L[s]
        BY DEF LinksRight
      <3>1. s \in Nat /\ s + moved \in 0 .. strstart - 1 /\ s + moved >= strstart - WSIZE /\ s < N
        BY <1>1, <1>3, <1>5
      <3>2. (s + moved) % WSIZE = s % WSIZE /\ s % WSIZE \in 0 .. WSIZE - 1
        <4>1. (s + WSIZE) % WSIZE = s % WSIZE /\ s % WSIZE \in 0 .. WSIZE - 1
          BY <1>5, <3>1, ModTurn, ModFacts
        <4>2. moved = 0 => s + moved = s
          BY <3>1
        <4> QED BY <4>1, <4>2
      <3>3. PICK m \in Nat : m = prev'[s % WSIZE] /\ m + moved = prev[s % WSIZE] /\ prev[s % WSIZE] # NIL
        BY <1>8, <3>2
      <3>4. K[s + moved] = L[s]
        BY <2>5, <3>1
      <3>5. m + moved < s + moved /\ K[m + moved] = K[s + moved]
        BY <2>3, <3>1, <3>2, <3>3, <3>4 DEF ChainsRight, LinksRight
      <3>6. m < s
        BY <1>3, <3>1, <3>5
      <3> QED BY <2>5, <3>3, <3>4, <3>5, <3>6
    <2>10. Passed' = N /\ pc' = "loop"
      BY <1>1, <1>3, <1>10 DEF Passed
    <2> QED BY <2>5, <2>6, <2>7, <2>8, <2>9, <2>10 DEF ChainInv, ChainsRight
  <1> QED BY <1>1, <1>9, <1>10

\* Whatever the race left as the first hash: no key is asked for yet.
LEMMA ChainsHashFirst == ASSUME WindowInv, ChainInv, HashFirst PROVE ChainInv'
  <1>1. /\ pc = "begin" /\ TypeOK /\ strstart = 0 /\ pc' = "loop" /\ strstart' = 0
        /\ UNCHANGED <<window, behind, prev, head>>
    BY DEF HashFirst, WindowInv, ReadAhead, reading, given
  <1>2. PICK K \in Keys : K = [p \in Nat |-> LeftOut]
    BY DEF Keys
  <1>3. KeysRight(K, 0)'
    BY <1>2 DEF KeysRight
  <1>4. HeadsRight(K, 0)'
    BY <1>1 DEF ChainInv, HeadsRight
  <1>5. LinksRight(K, 0)'
    BY DEF LinksRight
  <1>6. KeyBefore(0)'
    BY DEF KeyBefore
  <1>7. Passed' = 0
    BY <1>1 DEF Passed
  <1> QED BY <1>1, <1>3, <1>4, <1>5, <1>6, <1>7 DEF ChainInv, ChainsRight

LEMMA ChainsStartTurn == ASSUME WindowInv, ChainInv, StartTurn PROVE ChainInv'
  <1>1. /\ pc = "loop" /\ TypeOK /\ pc' \in {"search", "decide"} /\ INSERT_STRING(strstart)
        /\ strstart' = strstart /\ UNCHANGED <<window, behind>> /\ cur_match' = HashHead(strstart)
        /\ pc' = "search" => Searches
    BY DEF StartTurn, WindowInv, reading, given
  <1>2. KeyBefore(strstart) /\ strstart \in Nat /\ \E K \in Keys : ChainsRight(K, strstart)
    BY <1>1 DEF ChainInv, Passed, Working, TypeOK
  <1>3. PICK s \in Nat : s = strstart
    BY <1>2
  <1>4. PICK K \in Keys : ChainsRight(K, s)
    BY <1>2, <1>3
  <1>5. KeyBefore(s + 1)' /\ NextKey(s) \in HashKeys
    BY <1>1, <1>2, <1>3, <1>4, InsertChains
  <1>6. PICK L \in Keys : L = [K EXCEPT ![s] = NextKey(s)] /\ ChainsRight(L, s + 1)'
    BY <1>1, <1>2, <1>3, <1>4, InsertChains
  <1>7. Passed' = s + 1
    BY <1>1, <1>3 DEF Passed
  <1>8. ASSUME pc' = "search" PROVE Candidate(L)'
    <2>1. PICK m : m = HashHead(strstart)
      OBVIOUS
    <2>2. m # NIL /\ s - m \in 0 .. MAX_DIST /\ m = head[NextKey(s)] /\ m \in Nat
      BY <1>1, <1>2, <1>3, <1>8, <2>1, InsertTypes DEF Searches, HashHead
    <2>3. m < s /\ K[m] = NextKey(s)
      BY <1>4, <1>5, <2>2 DEF ChainsRight, HeadsRight
    <2>4. L[s] = NextKey(s) /\ L[m] = K[m]
      BY <1>6, <2>2, <2>3 DEF Keys
    <2>5. m >= s - MAX_DIST
      BY <2>2, Sizes
    <2>6. L[s] # LeftOut
      BY <1>5, <2>4, HashTypes
    <2>7. cur_match' = m /\ strstart' = s
      BY <1>1, <1>3, <2>1
    <2> QED BY <2>2, <2>3, <2>4, <2>5, <2>6, <2>7 DEF Candidate
  <1> QED BY <1>1, <1>5, <1>6, <1>7, <1>8 DEF ChainInv

LEMMA ChainsSearch == ASSUME WindowInv, ChainInv, longest_match PROVE ChainInv'
  <1>1. TypeOK /\ LengthInv
    BY DEF WindowInv
  <1>2. pc = "search" /\ pc' \in {"search", "decide"} /\ UNCHANGED <<window, behind, head, prev, ins_h, strstart>>
    BY <1>1, SearchTurn DEF reading, given, chains
  <1>3. \A i : byte(i)' = byte(i)
    BY <1>2, BytesStay
  <1>4. Passed' = Passed /\ Passed = strstart + 1
    BY <1>2 DEF Passed
  <1>5. KeyBefore(Passed) /\ \E K \in Keys : ChainsRight(K, Passed) /\ Candidate(K)
    BY <1>2 DEF ChainInv, Working
  <1>6. PICK K \in Keys : ChainsRight(K, Passed) /\ Candidate(K)
    BY <1>5
  <1>7. KeyBefore(Passed)' /\ ChainsRight(K, Passed)'
    <2>1. KeyBefore(Passed)'
      BY <1>2, <1>3, <1>4, <1>5 DEF KeyBefore
    <2>2. ChainsRight(K, Passed)'
      BY <1>2, <1>3, <1>4, <1>6 DEF ChainsRight, KeysRight, KeyOf, HeadsRight, LinksRight
    <2> QED BY <2>1, <2>2
  <1>8. ASSUME pc' = "search" PROVE Candidate(K)'
    <2>1. cur_match \in Nat /\ strstart \in Nat /\ cur_match < strstart /\ cur_match >= strstart - MAX_DIST
          /\ K[strstart] # LeftOut /\ K[cur_match] = K[strstart]
      BY <1>1, <1>6 DEF Candidate, TypeOK
    <2>2. PICK m : m = prev[cur_match % WSIZE]
      OBVIOUS
    <2>3. cur_match' = m /\ m > Limit
      BY <1>1, <1>8, <2>2, SearchTurn
    <2>4. WSIZE \in Nat \ {0} /\ MAX_DIST \in Nat /\ MAX_DIST < WSIZE
      BY Sizes
    <2>5. m \in Nat
      <3>1. cur_match % WSIZE \in 0 .. WSIZE - 1
        BY <2>1, <2>4, ModFacts
      <3> QED BY <1>1, <2>2, <3>1 DEF TypeOK
    <2>6. m # NIL /\ m >= strstart - MAX_DIST
      BY <2>1, <2>3, <2>4, <2>5 DEF Limit, NIL
    <2>7. cur_match \in 0 .. Passed - 1 /\ cur_match >= Passed - WSIZE
      BY <1>4, <2>1, <2>4
    <2>8. m < cur_match /\ K[m] = K[cur_match]
      BY <1>6, <2>1, <2>2, <2>6, <2>7 DEF ChainsRight, LinksRight
    <2>9. m < strstart
      BY <2>1, <2>5, <2>8
    <2>10. strstart' = strstart
      BY <1>2
    <2> QED BY <2>1, <2>3, <2>6, <2>8, <2>9, <2>10 DEF Candidate
  <1> QED BY <1>2, <1>4, <1>7, <1>8 DEF ChainInv

LEMMA ChainsInsertCovered == ASSUME WindowInv, ChainInv, InsertCovered PROVE ChainInv'
  <1>1. pc = "insert" /\ TypeOK /\ INSERT_STRING(strstart + 1) /\ UNCHANGED <<window, behind>>
    BY DEF InsertCovered, WindowInv, reading, given
  <1>2. PICK s \in Nat : s = strstart + 1
    BY <1>1 DEF TypeOK
  <1>3. \/ strstart' = strstart + 1 /\ pc' = "insert"
        \/ strstart' = strstart + 2 /\ pc' = "loop"
    BY <1>1 DEF InsertCovered
  <1>4. pc' \in {"insert", "loop"} /\ Passed' = s + 1
    BY <1>1, <1>2, <1>3 DEF Passed, TypeOK
  <1>5. KeyBefore(s) /\ \E K \in Keys : ChainsRight(K, s)
    BY <1>1, <1>2 DEF ChainInv, Passed, Working
  <1>6. PICK K \in Keys : ChainsRight(K, s)
    BY <1>5
  <1>7. KeyBefore(s + 1)' /\ \E L \in Keys : ChainsRight(L, s + 1)'
    BY <1>1, <1>2, <1>5, <1>6, InsertChains
  <1> QED BY <1>4, <1>7 DEF ChainInv

\* The strings of a long match have no key, and the hash begins anew behind them.
LEMMA ChainsSkip == ASSUME WindowInv, ChainInv, SkipFound PROVE ChainInv'
  <1>1. /\ pc = "decide" /\ TypeOK /\ pc' = "loop" /\ UNCHANGED <<window, behind, head, prev>>
        /\ strstart' = strstart + match_length /\ ins_h' = NewHash(strstart + match_length)
        /\ match_length >= 3
    BY Sizes DEF SkipFound, WindowInv, reading, given
  <1>2. \A i : byte(i)' = byte(i)
    BY <1>1, BytesStay
  <1>3. PICK s \in Nat : s = strstart + 1
    BY <1>1 DEF TypeOK
  <1>4. PICK n \in Nat : n = strstart + match_length
    BY <1>1 DEF TypeOK
  <1>5. Passed' = n /\ s <= n
    BY <1>1, <1>3, <1>4 DEF Passed, TypeOK
  <1>6. \E K \in Keys : ChainsRight(K, s)
    BY <1>1, <1>3 DEF ChainInv, Passed, Working
  <1>7. PICK K \in Keys : ChainsRight(K, s)
    BY <1>6
  <1>8. KeyBefore(n)'
    <2>1. byte(n) \in HashKeys
      BY <1>1, ByteType, HashTypes
    <2>2. ins_h' = UPDATE_HASH(byte(n), byte(n + 1))
      BY <1>1, <1>4 DEF NewHash
    <2> QED BY <1>2, <2>1, <2>2 DEF KeyBefore
  <1>9. KeysRight(K, n)'
    BY <1>2, <1>5, <1>7 DEF ChainsRight, KeysRight, KeyOf
  <1>10. HeadsRight(K, n)'
    <2> SUFFICES ASSUME NEW h \in HashKeys, head[h] # NIL PROVE head[h] < n /\ K[head[h]] = h
      BY <1>1 DEF HeadsRight
    <2>1. head[h] < s /\ K[head[h]] = h /\ head[h] \in Nat
      BY <1>1, <1>7 DEF ChainsRight, HeadsRight, TypeOK
    <2> QED BY <1>5, <2>1
  <1>11. LinksRight(K, n)'
    <2> SUFFICES ASSUME NEW i \in 0 .. n - 1, i >= n - WSIZE, K[i] # LeftOut, prev[i % WSIZE] # NIL
                 PROVE  prev[i % WSIZE] < i /\ K[prev[i % WSIZE]] = K[i]
      BY <1>1 DEF LinksRight
    <2>1. ~(i >= s)
      BY <1>7 DEF ChainsRight, KeysRight
    <2>2. i \in 0 .. s - 1 /\ i >= s - WSIZE
      BY <1>5, <2>1, Sizes
    <2> QED BY <1>7, <2>2 DEF ChainsRight, LinksRight
  <1> QED BY <1>1, <1>5, <1>8, <1>9, <1>10, <1>11 DEF ChainInv, ChainsRight

LEMMA ChainsOther ==
    ASSUME WindowInv, ChainInv,
           TakeFound \/ TakePrevious \/ FastLiteral \/ LazyLiteral \/ Defer \/ Finish \/ lm_init
             \/ UNCHANGED vars
    PROVE  ChainInv'
  <1>1. CASE TakeFound \/ TakePrevious
    <2>1. pc = "decide" /\ pc' = "insert" /\ UNCHANGED <<window, behind, head, prev, ins_h, strstart>>
      BY <1>1 DEF TakeFound, TakePrevious, reading, given, chains
    <2> QED BY <2>1, ChainsStay DEF Passed, Working
  <1>2. CASE FastLiteral \/ LazyLiteral \/ Defer
    <2>1. /\ pc = "decide" /\ pc' = "loop" /\ UNCHANGED <<window, behind, head, prev, ins_h>>
          /\ strstart' = strstart + 1
      BY <1>2 DEF FastLiteral, LazyLiteral, Defer, reading, given, chains
    <2> QED BY <2>1, ChainsStay DEF Passed, Working
  <1>3. CASE Finish
    BY <1>3 DEF Finish, ChainInv, Working
  <1>4. CASE lm_init
    BY <1>4 DEF lm_init, ChainInv, Working, WindowInv, TypeOK
  <1>5. CASE UNCHANGED vars
    <2>1. CASE pc = "search"
      <3>1. KeyBefore(Passed) /\ \E K \in Keys : ChainsRight(K, Passed) /\ Candidate(K)
        BY <2>1 DEF ChainInv, Working
      <3>2. PICK K \in Keys : ChainsRight(K, Passed) /\ Candidate(K)
        BY <3>1
      <3>3. KeyBefore(Passed)' /\ ChainsRight(K, Passed)' /\ Candidate(K)'
        BY <1>5, <3>1, <3>2 DEF vars, KeyBefore, ChainsRight, KeysRight, KeyOf, HeadsRight, LinksRight,
                                Candidate, Passed, byte
      <3>4. pc' = "search"
        BY <1>5, <2>1 DEF vars
      <3> QED BY <3>3, <3>4 DEF ChainInv
    <2>2. CASE pc = "begin"
      BY <1>5, <2>2 DEF vars, ChainInv, Working
    <2>3. CASE pc \notin {"search", "begin"}
      BY <1>5, <2>3, ChainsStay DEF vars, Passed
    <2> QED BY <2>1, <2>2, <2>3
  <1> QED BY <1>1, <1>2, <1>3, <1>4, <1>5

LEMMA ChainsStep == WindowInv /\ (mixed = 0 => ChainInv) /\ [Next]_vars => (mixed = 0 => ChainInv)'
  BY MixedGrows, ChainsFill, ChainsHashFirst, ChainsStartTurn, ChainsSearch, ChainsInsertCovered, ChainsSkip,
     ChainsOther DEF Next, deflate_fast, deflate, Ended

LEMMA ChainsAlways == Spec => [](WindowInv /\ (mixed = 0 => ChainInv))
  <1>1. Init => ChainInv
    BY DEF Init, ChainInv, Working
  <1> QED BY <1>1, ChainsStep, WindowAlways, PTL DEF Spec

\* A candidate that agrees in the second byte agrees in the third.
LEMMA CandidateByte ==
    ASSUME TypeOK, NEW K \in Keys, NEW n, KeysRight(K, n), Candidate(K),
           byte(cur_match + 1) = byte(strstart + 1)
    PROVE  byte(cur_match + 2) = byte(strstart + 2)
  <1>1. cur_match \in Nat /\ strstart \in Nat /\ cur_match # 0 /\ cur_match < strstart
    BY DEF Candidate, TypeOK, NIL
  <1>2. cur_match >= 1 /\ strstart >= 1
    BY <1>1
  <1>3. PICK key : key = K[strstart] /\ key = K[cur_match] /\ key # LeftOut
    BY DEF Candidate
  <1>4. KeyOf(key, byte(cur_match + 1), byte(cur_match + 2)) /\ KeyOf(key, byte(strstart + 1), byte(strstart + 2))
    BY <1>1, <1>2, <1>3 DEF KeysRight
  <1> QED BY <1>1, <1>4, ThirdByte

\* CandidatesSound: whatever the file, however the hash began and whatever strings
\* deflate_fast() left out, as long as the race on m spoils no chain the links
\* longest_match() follows lead to strings in reach, and the third byte it does not
\* compare is equal.
THEOREM ChainsLeadBack == Spec => []CandidatesSound
  <1>1. WindowInv /\ (mixed = 0 => ChainInv) => CandidatesSound
    <2> SUFFICES ASSUME WindowInv, ChainInv, pc = "search"
                 PROVE  /\ cur_match \in 1 .. strstart - 1 /\ strstart - cur_match <= MAX_DIST
                        /\ Promising => byte(cur_match + 2) = byte(strstart + 2)
      BY DEF CandidatesSound
    <2>1. TypeOK /\ \E K \in Keys : ChainsRight(K, Passed) /\ Candidate(K)
      BY DEF WindowInv, ChainInv, Working
    <2>2. PICK K \in Keys : KeysRight(K, Passed) /\ Candidate(K)
      BY <2>1 DEF ChainsRight
    <2>3. cur_match \in Nat /\ strstart \in Nat /\ MAX_DIST \in Nat
      BY <2>1, Sizes DEF TypeOK
    <2>4. cur_match \in 1 .. strstart - 1 /\ strstart - cur_match <= MAX_DIST
      BY <2>2, <2>3 DEF Candidate, NIL
    <2>5. Promising => byte(cur_match + 1) = byte(strstart + 1)
      BY DEF Promising
    <2> QED BY <2>1, <2>2, <2>4, <2>5, CandidateByte
  <1> QED BY <1>1, ChainsAlways, PTL

-----------------------------------------------------------------------------
(* The matches                                                              *)

\* What agrees in the window is equal in the file, where both lie in what was read:
\* the byte that may not have been compared has to be.
LEMMA AgreeingIsReal ==
    ASSUME WindowInv, pc = "search", NEW K \in Keys, KeysRight(K, Passed), Candidate(K),
           NEW l \in Nat, l >= 2,
           \A k \in (0 .. l - 1) \ {2} : byte(cur_match + k) = byte(strstart + k),
           NEW n \in Nat, n <= l, n <= lookahead
    PROVE  Real(Pos, strstart - cur_match, n)
  <1>1. /\ TypeOK /\ HoldsInput /\ Ahead = lookahead /\ strstart \in Nat /\ lookahead \in Nat
        /\ strstart + lookahead <= 2 * WSIZE /\ inpos \in Int /\ cur_match \in Nat
        /\ inpos - lookahead - strstart >= 0
    BY InputType DEF WindowInv, TypeOK, Ahead, Base
  <1>2. cur_match < strstart /\ strstart - cur_match <= MAX_DIST /\ MAX_DIST \in Nat
    BY <1>1, Sizes DEF Candidate
  <1>3. PICK base \in Nat : base = Base /\ inpos - lookahead = base + strstart
    BY <1>1 DEF Base
  <1>4. Pos = base + strstart
    BY <1>1, <1>3 DEF Pos
  <1>5. byte(cur_match + 2) = byte(strstart + 2)
    <2>1. 1 \in (0 .. l - 1) \ {2}
      OBVIOUS
    <2>2. byte(cur_match + 1) = byte(strstart + 1)
      BY <2>1
    <2> QED BY <1>1, <2>2, CandidateByte
  <1>6. ASSUME NEW k \in 0 .. n - 1
        PROVE  input[(base + strstart) + k + 1] = input[(base + strstart) - (strstart - cur_match) + k + 1]
    <2>1. byte(cur_match + k) = byte(strstart + k)
      BY <1>5
    <2>2. /\ cur_match + k \in 0 .. strstart + lookahead - 1 /\ cur_match + k < 2 * WSIZE
          /\ strstart + k \in 0 .. strstart + lookahead - 1 /\ strstart + k < 2 * WSIZE
      BY <1>1, <1>2, Sizes
    <2>3. window[cur_match + k] = window[strstart + k]
      BY <2>1, <2>2 DEF byte
    <2>4. window[cur_match + k] = input[base + (cur_match + k) + 1] /\ window[strstart + k] = input[base + (strstart + k) + 1]
      BY <1>1, <1>3, <2>2 DEF HoldsInput
    <2>5. /\ base + (cur_match + k) + 1 = (base + strstart) - (strstart - cur_match) + k + 1
          /\ base + (strstart + k) + 1 = (base + strstart) + k + 1
      BY <1>1
    <2> QED BY <2>3, <2>4, <2>5
  <1>7. strstart - cur_match \in 1 .. MAX_DIST /\ strstart - cur_match <= base + strstart
    BY <1>1, <1>2
  <1> QED BY <1>4, <1>6, <1>7 DEF Real

LEMMA PosType == WindowInv /\ pc # "init" => Pos \in Nat /\ strstart \in Nat /\ Pos = Base + strstart /\ Base \in Nat
  <1> SUFFICES ASSUME WindowInv, pc # "init"
               PROVE  Pos \in Nat /\ strstart \in Nat /\ Pos = Base + strstart /\ Base \in Nat
    OBVIOUS
  <1>1. inpos \in Int /\ strstart \in Nat /\ Ahead \in Int /\ Base >= 0
    BY InputType DEF WindowInv, TypeOK, Ahead
  <1> QED BY <1>1 DEF Pos, Base

LEMMA MatchesFill == ASSUME WindowInv, MatchInv, fill_window PROVE MatchInv'
  <1>1. /\ TypeOK /\ pc \in {"begin", "loop"} /\ pc' = pc /\ input' = input
        /\ UNCHANGED <<match_length, match_available>>
    BY DEF WindowInv, fill_window, given
  <1>2. PICK n \in Nat, moved \in {0, WSIZE} : Filled(n, moved)
    BY FillWindow
  <1>3. /\ inpos \in Int /\ lookahead \in Int /\ strstart \in Int /\ match_start \in Int /\ moved \in Int
        /\ inpos' = inpos + n /\ lookahead' = lookahead + n /\ strstart' = strstart - moved
        /\ match_start' = match_start - moved
    BY <1>1, <1>2, InputType, Sizes DEF Filled, TypeOK
  <1>4. PICK p, d : p = Pos - 1 /\ d = strstart - 1 - match_start
    OBVIOUS
  <1>5. (Pos - 1)' = p /\ (strstart - 1 - match_start)' = d
    <2>1. Pos' = Pos
      BY <1>1, <1>3 DEF Pos, Ahead
    <2>2. (strstart - 1 - match_start)' = strstart - 1 - match_start
      BY <1>3
    <2> QED BY <1>4, <2>1, <2>2
  <1>6. ASSUME pc = "loop", match_length >= MIN_MATCH
        PROVE  match_available /\ Real(p, d, match_length)
    BY <1>4, <1>6 DEF MatchInv
  <1>7. match_length' = match_length /\ (match_available => match_available')
    BY <1>1
  <1>8. ASSUME pc' = "loop", match_length' >= MIN_MATCH
        PROVE  match_available' /\ Real(Pos - 1, strstart - 1 - match_start, match_length)'
    <2>1. match_available' /\ Real(p, d, match_length)
      BY <1>1, <1>6, <1>7, <1>8
    <2> QED BY <1>1, <1>5, <1>7, <2>1 DEF Real
  <1> QED BY <1>1, <1>8 DEF MatchInv

LEMMA MatchesStartTurn == ASSUME WindowInv, MatchInv, StartTurn PROVE MatchInv'
  <1>1. /\ TypeOK /\ LengthInv /\ pc = "loop" /\ pc' \in {"search", "decide"}
        /\ UNCHANGED <<input, inpos, lookahead, strstart, match_available>>
        /\ best_len' = prev_length'
    BY DEF StartTurn, WindowInv, reading, given
  <1>2. Pos' = Pos
    BY <1>1 DEF Pos, Ahead
  <1>3. match_available => match_available'
    BY <1>1
  <1>4. CASE fast
    <2>1. prev_length' = 2 /\ match_length' < 3
      BY <1>1, <1>4 DEF StartTurn, LengthInv, FastInv, MIN_MATCH
    <2>2. ~(best_len' > prev_length') /\ ~(prev_length' >= MIN_MATCH) /\ ~(match_length' >= MIN_MATCH)
      <3>1. match_length' \in Nat
        BY <1>1, <1>4 DEF StartTurn, TypeOK
      <3> QED BY <1>1, <2>1, <3>1, Sizes
    <2> QED BY <1>1, <2>2 DEF MatchInv
  <1>5. CASE ~fast
    <2>1. prev_length' = match_length /\ prev_match' = match_start /\ match_length' = 2
      BY <1>5 DEF StartTurn, MIN_MATCH
    <2>2. ASSUME match_length >= MIN_MATCH
          PROVE  match_available' /\ Real(Pos - 1, strstart - 1 - prev_match, prev_length)'
      <3>1. match_available /\ Real(Pos - 1, strstart - 1 - match_start, match_length)
        BY <1>1, <2>2 DEF MatchInv
      <3> QED BY <1>1, <1>2, <1>3, <2>1, <3>1 DEF Real
    <2>3. match_length \in Nat
      BY <1>1 DEF TypeOK
    <2>4. ~(best_len' > prev_length') /\ ~(match_length' >= MIN_MATCH)
      BY <1>1, <2>1, <2>3, Sizes
    <2> QED BY <1>1, <2>1, <2>2, <2>4 DEF MatchInv
  <1> QED BY <1>4, <1>5

LEMMA MatchesSearch == ASSUME WindowInv, ChainInv, MatchInv, longest_match PROVE MatchInv'
  <1>1. TypeOK /\ LengthInv
    BY DEF WindowInv
  <1>2. /\ pc = "search" /\ pc' \in {"search", "decide"}
        /\ UNCHANGED <<input, inpos, lookahead, strstart, prev_length, match_available, prev_match>>
        /\ best_len' \in Nat /\ match_start' \in Int
        /\ \/ /\ Improves /\ best_len' = MatchLength(cur_match, strstart)
              /\ match_start' = cur_match
           \/ best_len' = best_len /\ match_start' = match_start
    BY <1>1, SearchTurn DEF reading, given
  <1>3. /\ lookahead \in Nat /\ strstart \in Nat /\ prev_length \in Nat
        /\ prev_length >= MIN_MATCH => match_available /\ Real(Pos - 1, strstart - 1 - prev_match, prev_length)
    BY <1>1, <1>2 DEF MatchInv, TypeOK
  <1>4. Pos' = Pos
    BY <1>2 DEF Pos, Ahead
  <1>5. PICK s, b : s = match_start' /\ b = best_len'
    OBVIOUS
  <1>6. s \in Int /\ b \in Nat
    BY <1>2, <1>5
  <1>7. ASSUME b > prev_length, NEW n \in 0 .. b, n <= lookahead
        PROVE  Real(Pos, strstart - s, n)
    <2>1. CASE Improves /\ b = MatchLength(cur_match, strstart) /\ s = cur_match
      <3>1. b \in 2 .. MAX_MATCH /\ \A k \in (0 .. b - 1) \ {2} : byte(cur_match + k) = byte(strstart + k)
        BY <1>1, <2>1, Improvement, Sizes
      <3>2. \E K \in Keys : ChainsRight(K, Passed) /\ Candidate(K)
        BY <1>2 DEF ChainInv, Working
      <3>3. PICK K \in Keys : KeysRight(K, Passed) /\ Candidate(K)
        BY <3>2 DEF ChainsRight
      <3>4. n \in Nat /\ n <= b /\ b \in Nat /\ b >= 2
        BY <1>6, <3>1
      <3>5. Real(Pos, strstart - cur_match, n)
        BY <1>2, <1>7, <3>1, <3>3, <3>4, AgreeingIsReal
      <3> QED BY <2>1, <3>5
    <2>2. CASE b = best_len /\ s = match_start
      BY <1>2, <1>7, <2>2 DEF MatchInv
    <2> QED BY <1>2, <1>5, <2>1, <2>2
  <1>8. ASSUME prev_length' >= MIN_MATCH
        PROVE  match_available' /\ Real(Pos - 1, strstart - 1 - prev_match, prev_length)'
    <2>1. match_available /\ Real(Pos - 1, strstart - 1 - prev_match, prev_length)
      BY <1>2, <1>3, <1>8
    <2>2. match_available => match_available'
      BY <1>2
    <2> QED BY <1>2, <1>4, <2>1, <2>2 DEF Real
  <1>9. ASSUME pc' = "search", best_len' > prev_length', NEW n \in 0 .. best_len', n <= lookahead'
        PROVE  Real(Pos, strstart - match_start, n)'
    <2>1. b > prev_length /\ n \in 0 .. b /\ n <= lookahead
      BY <1>2, <1>5, <1>9
    <2>2. Real(Pos, strstart - s, n)
      BY <1>7, <2>1
    <2> QED BY <1>2, <1>4, <1>5, <2>2 DEF Real
  <1>10. ASSUME pc' = "decide", match_length' >= MIN_MATCH, match_length' > prev_length'
         PROVE  Real(Pos, strstart - match_start, match_length)'
    <2>1. PICK m : m = match_length'
      OBVIOUS
    <2>2. m = Accepted(b, s)
      BY <1>1, <1>5, <1>10, <2>1, SearchTurn
    <2>3. m \in Nat /\ m >= MIN_MATCH /\ m > prev_length
      BY <1>1, <1>2, <1>6, <1>10, <2>1, <2>2, AcceptedFacts
    <2>4. m <= b /\ m <= lookahead
      BY <1>1, <1>6, <2>2, <2>3, AcceptedFacts
    <2>5. b > prev_length /\ m \in 0 .. b
      BY <1>3, <1>6, <2>3, <2>4
    <2>6. Real(Pos, strstart - s, m)
      BY <1>7, <2>4, <2>5
    <2> QED BY <1>2, <1>4, <1>5, <2>1, <2>6 DEF Real
  <1> QED BY <1>2, <1>8, <1>9, <1>10 DEF MatchInv

LEMMA MatchesAdvance == ASSUME WindowInv, MatchInv, LazyLiteral \/ Defer PROVE MatchInv'
  <1>1. /\ TypeOK /\ pc = "decide" /\ pc' = "loop" /\ ~TakesPrevious
        /\ UNCHANGED <<input, inpos, match_start, match_length>>
        /\ strstart' = strstart + 1 /\ lookahead' = lookahead - 1
    BY DEF WindowInv, LazyLiteral, Defer, reading, given
  <1>2. match_available'
    BY DEF LazyLiteral, Defer
  <1>3. /\ match_length \in Nat /\ prev_length \in Nat /\ strstart \in Int /\ lookahead \in Int
        /\ match_start \in Int /\ inpos \in Int
    BY <1>1, InputType DEF TypeOK
  <1>4. (Pos - 1)' = Pos /\ (strstart - 1 - match_start)' = strstart - match_start
    BY <1>1, <1>3 DEF Pos, Ahead
  <1>5. ASSUME match_length' >= MIN_MATCH
        PROVE  Real(Pos - 1, strstart - 1 - match_start, match_length)'
    <2>1. match_length >= MIN_MATCH
      BY <1>1, <1>5
    <2>2. match_length > prev_length
      BY <1>1, <1>3, <2>1 DEF TakesPrevious, MIN_MATCH
    <2>3. Real(Pos, strstart - match_start, match_length)
      BY <1>1, <2>1, <2>2 DEF MatchInv
    <2> QED BY <1>1, <1>4, <2>3 DEF Real
  <1> QED BY <1>1, <1>2, <1>5 DEF MatchInv

\* No match is kept over these steps.
LEMMA MatchesOther ==
    ASSUME WindowInv, MatchInv,
           deflate_fast \/ TakePrevious \/ InsertCovered \/ Finish \/ HashFirst \/ lm_init
             \/ UNCHANGED vars
    PROVE  MatchInv'
  <1>1. CASE TakeFound \/ TakePrevious \/ Finish \/ lm_init
    BY <1>1 DEF TakeFound, TakePrevious, Finish, lm_init, MatchInv
  <1>2. CASE SkipFound \/ FastLiteral \/ InsertCovered \/ HashFirst
    <2>1. \/ pc' = "insert"
          \/ pc' = "loop" /\ (match_length' \in {0, 2} \/ (match_length' = match_length /\ match_length < MIN_MATCH))
      BY <1>2 DEF SkipFound, FastLiteral, InsertCovered, HashFirst, WindowInv, LengthInv, MIN_MATCH
    <2>2. match_length \in Nat
      BY DEF WindowInv, TypeOK
    <2>3. pc' = "insert" \/ (pc' = "loop" /\ ~(match_length' >= MIN_MATCH))
      BY <2>1, <2>2, Sizes
    <2> QED BY <2>3 DEF MatchInv
  <1>3. CASE UNCHANGED vars
    BY <1>3 DEF vars, MatchInv, Real, Pos, Ahead
  <1> QED BY <1>1, <1>2, <1>3 DEF deflate_fast

LEMMA MatchesStep ==
    WindowInv /\ (mixed = 0 => ChainInv /\ MatchInv) /\ [Next]_vars => (mixed = 0 => MatchInv)'
  BY MixedGrows, MatchesFill, MatchesStartTurn, MatchesSearch, MatchesAdvance, MatchesOther DEF Next, deflate, Ended

LEMMA MatchesAlways == Spec => [](WindowInv /\ (mixed = 0 => ChainInv) /\ (mixed = 0 => MatchInv))
  <1>1. Init => MatchInv
    BY DEF Init, MatchInv
  <1> QED BY <1>1, MatchesStep, ChainsAlways, PTL DEF Spec

-----------------------------------------------------------------------------
(* Decoding                                                                 *)

LEMMA LiteralBegins ==
    ASSUME TypeOK, NEW out, Begins(out), Len(out) < Len(input)
    PROVE  LET more == DecodeToken(out, Literal(input[Len(out) + 1]))
           IN  Begins(more) /\ Len(more) = Len(out) + 1
  <1>1. input \in Seq(Bytes) /\ out \in Seq(Bytes) /\ Len(out) \in Nat /\ Len(input) \in Nat
    BY InputType DEF Begins
  <1>2. input[Len(out) + 1] \in Bytes
    BY <1>1
  <1>3. DecodeToken(out, Literal(input[Len(out) + 1])) = Append(out, input[Len(out) + 1])
    BY DEF DecodeToken, Literal
  <1>4. PICK c \in Bytes : c = input[Len(out) + 1]
    BY <1>2
  <1>5. /\ Append(out, c) \in Seq(Bytes) /\ Len(Append(out, c)) = Len(out) + 1
        /\ \A i \in 1 .. Len(out) + 1 : Append(out, c)[i] = IF i <= Len(out) THEN out[i] ELSE c
    BY <1>1, <1>4
  <1>6. \A i \in 1 .. Len(out) + 1 : Append(out, c)[i] = input[i]
    BY <1>1, <1>4, <1>5 DEF Begins
  <1> QED BY <1>1, <1>3, <1>4, <1>5, <1>6 DEF Begins

LEMMA MatchBegins ==
    ASSUME TypeOK, NEW out, Begins(out), NEW d, NEW n \in Nat, Real(Len(out), d, n),
           Len(out) + n <= Len(input)
    PROVE  LET more == DecodeToken(out, Match(d, n))
           IN  Begins(more) /\ Len(more) = Len(out) + n
  <1>1. input \in Seq(Bytes) /\ out \in Seq(Bytes) /\ Len(out) \in Nat /\ Len(input) \in Nat
    BY InputType DEF Begins
  <1>2. PICK p \in Nat : p = Len(out)
    BY <1>1
  <1>3. /\ d \in Nat \ {0} /\ d <= p
        /\ Copies(input, p, d, n)
    BY <1>2, Sizes DEF Real, Copies
  <1>4. Cycles(input, p, d, n)
    BY <1>3, Repeats
  <1> DEFINE f == [i \in 1 .. n |-> out[Len(out) - d + 1 + ((i - 1) % d)]]
  <1>5. DecodeToken(out, Match(d, n)) = out \o f
    BY <1>2, <1>3 DEF DecodeToken, Match
  <1>6. \A i \in 1 .. n : f[i] = input[p + i] /\ input[p + i] \in Bytes
    <2> SUFFICES ASSUME NEW i \in 1 .. n PROVE f[i] = input[p + i] /\ input[p + i] \in Bytes
      OBVIOUS
    <2>1. PICK k \in Nat : k = i - 1
      OBVIOUS
    <2>2. PICK r : r = k % d
      OBVIOUS
    <2>3. r \in 0 .. d - 1
      BY <1>3, <2>1, <2>2, ModFacts
    <2>4. f[i] = out[p - d + 1 + r]
      BY <1>2, <2>1, <2>2
    <2>5. p - d + 1 + r \in 1 .. p
      BY <1>3, <2>3
    <2>6. out[p - d + 1 + r] = input[p - d + 1 + r]
      BY <1>2, <2>5 DEF Begins
    <2>7. k \in 0 .. n - 1 /\ p + k + 1 = p + i
      BY <2>1
    <2>8. input[p + k + 1] = input[p - d + 1 + r]
      BY <1>4, <2>2, <2>7 DEF Cycles
    <2>9. p + i \in 1 .. Len(input)
      BY <1>1, <1>2
    <2> QED BY <1>1, <2>4, <2>6, <2>7, <2>8, <2>9
  <1>7. f \in [1 .. n -> Bytes]
    BY <1>6
  <1> HIDE DEF f
  <1>8. f \in Seq(Bytes) /\ Len(f) = n
    BY <1>7, FunctionSeq
  <1>9. /\ out \o f \in Seq(Bytes) /\ Len(out \o f) = p + n
        /\ \A i \in 1 .. p + n : (out \o f)[i] = IF i <= p THEN out[i] ELSE f[i - p]
    BY <1>1, <1>2, <1>8, ConcatProperties
  <1>10. \A i \in 1 .. p + n : (out \o f)[i] = input[i]
    <2> SUFFICES ASSUME NEW i \in 1 .. p + n PROVE (out \o f)[i] = input[i]
      OBVIOUS
    <2>1. CASE i <= p
      BY <1>2, <1>9, <2>1 DEF Begins
    <2>2. CASE ~(i <= p)
      <3>1. i - p \in 1 .. n /\ p + (i - p) = i
        BY <2>2
      <3> QED BY <1>6, <1>9, <2>2, <3>1
    <2> QED BY <2>1, <2>2
  <1> QED BY <1>2, <1>5, <1>9, <1>10 DEF Begins

-----------------------------------------------------------------------------
(* The output                                                               *)

LEMMA InReachAppend ==
    ASSUME NEW s, InReach(s), NEW token \in Token,
           token.dist # 0 => token.lc \in MIN_MATCH .. MAX_MATCH /\ token.dist \in 1 .. MAX_DIST
    PROVE  InReach(Append(s, token))
  <1>1. s \in Seq(Token) /\ Len(s) \in Nat
    BY DEF InReach
  <1>2. /\ Append(s, token) \in Seq(Token) /\ Len(Append(s, token)) = Len(s) + 1
        /\ \A i \in 1 .. Len(s) + 1 : Append(s, token)[i] = IF i <= Len(s) THEN s[i] ELSE token
    BY <1>1
  <1>3. DOMAIN s = 1 .. Len(s) /\ DOMAIN Append(s, token) = 1 .. Len(s) + 1
    BY <1>1, <1>2, LenProperties
  <1>4. ASSUME NEW i \in DOMAIN Append(s, token), Append(s, token)[i].dist # 0
        PROVE  Append(s, token)[i].lc \in MIN_MATCH .. MAX_MATCH /\ Append(s, token)[i].dist \in 1 .. MAX_DIST
    <2>1. CASE i <= Len(s)
      <3>1. i \in DOMAIN s /\ Append(s, token)[i] = s[i]
        BY <1>2, <1>3, <2>1
      <3> QED BY <1>4, <3>1 DEF InReach
    <2>2. CASE ~(i <= Len(s))
      <3>1. Append(s, token)[i] = token
        BY <1>2, <1>3, <2>2
      <3> QED BY <1>4, <3>1
    <2> QED BY <2>1, <2>2
  <1> QED BY <1>2, <1>4 DEF InReach

LEMMA LiteralInReach ==
    ASSUME NEW s, InReach(s), NEW c \in Nat
    PROVE  InReach(Append(s, Literal(c))) /\ InReach(<< >>)
  <1>1. Literal(c) \in Token /\ Literal(c).dist = 0
    BY DEF Literal, Token
  <1>2. InReach(Append(s, Literal(c)))
    BY <1>1, InReachAppend
  <1>3. InReach(<< >>)
    BY DEF InReach
  <1> QED BY <1>2, <1>3

\* What flush_block is given when the tokens so far stand for all up to end.
LEMMA FlushFacts ==
    ASSUME WindowInv, pc # "init", input' = input,
           NEW end \in Nat, end <= strstart + Ahead, told' = Base + end,
           FLUSH_BLOCK(end), sent \in Nat, sent <= told', block_start = sent - Base
    PROVE  /\ tally' = << >> /\ sent' = told' /\ flushed'.upto = told'
           /\ FlushedRight(told)'
  <1>1. PICK base \in Nat : base = Base
    BY PosType
  <1>2. /\ strstart \in Int /\ Ahead \in Int /\ strstart + Ahead <= 2 * WSIZE /\ HoldsInput
        /\ window \in [0 .. 2 * WSIZE - 1 -> Bytes] /\ block_start \in Int
    BY DEF WindowInv, TypeOK, Ahead
  <1>3. /\ tally' = << >> /\ sent' = told'
        /\ flushed'.from = sent /\ flushed'.upto = told' /\ flushed'.stored_len = end - block_start
        /\ flushed'.has_buf = (block_start >= 0)
        /\ block_start >= 0 => flushed'.buf = [i \in 1 .. end - block_start |-> window[block_start + i - 1]]
    BY DEF FLUSH_BLOCK
  <1>4. PICK L \in Nat : L = told' /\ L = base + end /\ sent <= L /\ block_start = sent - base
    BY <1>1
  <1>5. end - block_start = L - sent /\ L - sent \in Nat
    BY <1>1, <1>4
  <1>6. ASSUME block_start >= 0
        PROVE  /\ flushed'.buf \in Seq(Bytes) /\ Len(flushed'.buf) = L - sent
               /\ \A i \in 1 .. L - sent : flushed'.buf[i] = input[sent + i]
    <2> DEFINE f == [i \in 1 .. L - sent |-> window[block_start + i - 1]]
    <2>1. flushed'.buf = f
      BY <1>3, <1>5, <1>6
    <2>2. \A i \in 1 .. L - sent : f[i] \in Bytes /\ f[i] = input[sent + i]
      <3> SUFFICES ASSUME NEW i \in 1 .. L - sent PROVE f[i] \in Bytes /\ f[i] = input[sent + i]
        OBVIOUS
      <3>1. PICK j : j = block_start + i - 1
        OBVIOUS
      <3>2. j \in 0 .. strstart + Ahead - 1 /\ j \in 0 .. 2 * WSIZE - 1 /\ base + j + 1 = sent + i
        BY <1>1, <1>2, <1>4, <1>6, <3>1, Sizes
      <3>3. f[i] = window[j]
        BY <3>1
      <3>4. window[j] = input[base + j + 1]
        BY <1>1, <1>2, <3>2 DEF HoldsInput
      <3> QED BY <1>2, <3>2, <3>3, <3>4
    <2>3. f \in [1 .. L - sent -> Bytes]
      BY <2>2
    <2> HIDE DEF f
    <2>4. f \in Seq(Bytes) /\ Len(f) = L - sent
      BY <1>5, <2>3, FunctionSeq
    <2> QED BY <2>1, <2>2, <2>4
  <1>7. FlushedRight(L)'
    <2>1. PICK g : g = flushed'
      OBVIOUS
    <2>2. g.upto = L /\ g.from = sent /\ g.stored_len = L - sent
      BY <1>3, <1>4, <1>5, <2>1
    <2>3. g.has_buf =>
            /\ g.buf \in Seq(Bytes) /\ Len(g.buf) = L - sent
            /\ \A i \in 1 .. L - sent : g.buf[i] = input[sent + i]
      BY <1>3, <1>6, <2>1
    <2>4. /\ g.from \in Nat /\ g.upto \in Nat /\ g.from <= g.upto /\ g.upto <= L
          /\ g.stored_len = g.upto - g.from
      BY <1>4, <2>2
    <2>5. g.has_buf => /\ g.buf \in Seq(Bytes) /\ Len(g.buf) = g.upto - g.from
                       /\ \A i \in 1 .. Len(g.buf) : g.buf[i] = input[g.from + i]
      BY <2>2, <2>3
    <2> QED BY <2>1, <2>4, <2>5 DEF FlushedRight
  <1> QED BY <1>3, <1>4, <1>7 DEF FlushedRight

\* Steps that send and decide nothing.
LEMMA QuietOutput ==
    ASSUME WindowInv, OutputInv, UNCHANGED <<input, output>>, inpos' - lookahead' = inpos - lookahead,
           match_available' = match_available, match_available \in BOOLEAN,
           pc \in {"begin", "loop", "search"}, pc' \notin {"init", "insert", "done"},
           match_available /\ pc # "begin" => strstart' >= 1,
           pc' = "begin" => pc = "begin",
           NEW k \in Int, strstart' = strstart - k, block_start' = block_start - k
    PROVE  OutputInv'
  <1>1. /\ flushed' = flushed /\ told' = told /\ sent' = sent /\ input' = input
    BY DEF output
  <1>2. Undecided' = Undecided
    BY DEF Undecided
  <1>3. told' \in Nat /\ told' = inpos' - lookahead' - Undecided'
    <2>1. PICK x : x = inpos - lookahead
      OBVIOUS
    <2>2. told \in Nat /\ told = x - Undecided /\ inpos' - lookahead' = x
      BY <2>1 DEF OutputInv, ToldInv
    <2> QED BY <1>1, <1>2, <2>2
  <1>4. ToldInv'
    <2>1. pc = "begin" => ~match_available
      BY DEF OutputInv, ToldInv
    <2>2. match_available' => strstart' >= 1
      BY <2>1
    <2>3. pc' \in {"init", "begin"} => ~match_available'
      BY <2>1
    <2> QED BY <1>3, <2>2, <2>3 DEF ToldInv
  <1>5. FlushedRight(told)'
    BY <1>1 DEF OutputInv, BlockInv, FlushedRight
  <1>6. block_start' = sent' - Base'
    <2>1. block_start = sent - Base /\ sent \in Int
      BY DEF OutputInv, BlockInv
    <2>2. /\ Base \in Int /\ strstart \in Int
      BY PosType
    <2>3. Base' = Base + k
      <3>1. Base = (inpos - lookahead) - strstart
        BY DEF Base, Ahead
      <3>2. Base' = (inpos' - lookahead') - strstart'
        BY DEF Base, Ahead
      <3>3. PICK x : x = inpos - lookahead
        OBVIOUS
      <3>4. Base = x - strstart /\ Base' = x - (strstart - k)
        BY <3>1, <3>2, <3>3
      <3>5. x \in Int
        BY <3>3, InputType DEF WindowInv, TypeOK
      <3> QED BY <2>2, <3>4, <3>5
    <2> QED BY <1>1, <2>1, <2>2, <2>3
  <1> QED BY <1>1, <1>4, <1>5, <1>6 DEF OutputInv, BlockInv

LEMMA OutputLmInit == ASSUME WindowInv, OutputInv, lm_init PROVE OutputInv'
  <1>1. /\ pc = "init" /\ TypeOK /\ inpos = 0 /\ lookahead = 0 /\ pc' = "begin"
        /\ UNCHANGED <<input, flushed, told, sent, match_available>>
        /\ strstart' = 0 /\ block_start' = 0 /\ read_buf(window, 0)
    BY DEF lm_init, WindowInv, output, given
  <1>2. window \in [0 .. 2 * WSIZE - 1 -> Bytes] /\ 0 \in 0 .. 2 * WSIZE
    BY <1>1, Sizes DEF TypeOK
  <1>3. PICK n \in Nat : Read(window, 0, n)
    BY <1>1, <1>2, ReadBuf
  <1>4. inpos' = n /\ lookahead' = n
    BY <1>1, <1>3 DEF Read
  <1>5. ~match_available /\ Undecided = 0 /\ Undecided' = 0 /\ told = 0 /\ ~match_available'
    <2>1. ~match_available /\ ~match_available'
      BY <1>1 DEF OutputInv, ToldInv
    <2>2. Undecided = 0 /\ Undecided' = 0
      BY <2>1 DEF Undecided
    <2> QED BY <1>1, <2>1, <2>2 DEF OutputInv, ToldInv
  <1>6. ToldInv'
    BY <1>1, <1>4, <1>5 DEF ToldInv
  <1>7. sent = 0
    BY <1>5 DEF OutputInv, BlockInv
  <1>8. Base' = 0
    BY <1>1, <1>4 DEF Base, Ahead
  <1>9. BlockInv'
    BY <1>1, <1>5, <1>7, <1>8 DEF OutputInv, BlockInv, FlushedRight
  <1> QED BY <1>6, <1>9 DEF OutputInv

LEMMA OutputQuiet ==
    ASSUME WindowInv, OutputInv, fill_window \/ HashFirst \/ StartTurn \/ longest_match
    PROVE  OutputInv'
  <1>1. CASE fill_window
    <2>1. /\ pc \in {"begin", "loop"} /\ pc' = pc /\ UNCHANGED <<input, output>> /\ match_available' = match_available
      BY <1>1 DEF fill_window, given
    <2>2. PICK n \in Nat, moved \in {0, WSIZE} : Filled(n, moved)
      BY <1>1, FillWindow
    <2>3. /\ inpos \in Int /\ lookahead \in Int /\ strstart \in Nat /\ moved \in Int /\ match_available \in BOOLEAN
      BY InputType, Sizes DEF WindowInv, TypeOK
    <2>4. inpos' - lookahead' = inpos - lookahead
      BY <2>2, <2>3 DEF Filled
    <2>5. strstart' = strstart - moved /\ block_start' = block_start - moved
      BY <2>2 DEF Filled
    <2>6. strstart >= 1 => strstart - moved >= 1
      BY <2>2, <2>3, Sizes DEF Filled
    <2>7. match_available /\ pc # "begin" => strstart' >= 1
      BY <2>1, <2>5, <2>6 DEF OutputInv, ToldInv
    <2>8. pc \in {"begin", "loop", "search"} /\ pc' \notin {"init", "insert", "done"}
      BY <2>1
    <2> QED BY <2>1, <2>3, <2>4, <2>5, <2>7, <2>8, QuietOutput
  <1>2. CASE HashFirst \/ StartTurn \/ longest_match
    <2>1. /\ UNCHANGED <<input, inpos, lookahead, strstart, block_start, output, match_available>>
          /\ pc \in {"begin", "loop", "search"} /\ pc' \in {"loop", "search", "decide"}
      BY <1>2 DEF HashFirst, StartTurn, longest_match, reading, given
    <2>2. strstart \in Nat /\ block_start \in Int /\ match_available \in BOOLEAN
      BY DEF WindowInv, TypeOK
    <2>3. strstart' = strstart - 0 /\ block_start' = block_start - 0
      BY <2>1, <2>2
    <2>4. match_available /\ pc # "begin" => strstart' >= 1
      BY <2>1 DEF OutputInv, ToldInv
    <2>5. inpos' - lookahead' = inpos - lookahead
      BY <2>1
    <2>6. pc \in {"begin", "loop", "search"} /\ pc' \notin {"init", "insert", "done"} /\ pc' # "begin"
      BY <2>1
    <2> QED BY <2>1, <2>2, <2>3, <2>4, <2>5, <2>6, QuietOutput
  <1> QED BY <1>1, <1>2

\* Where the output stands between two decisions.
LEMMA OutputPlace ==
    ASSUME WindowInv, OutputInv, pc \in Working
    PROVE  /\ told = inpos - lookahead - Undecided /\ told \in Nat
           /\ inpos \in Nat /\ lookahead \in Nat /\ strstart \in Nat /\ Base \in Nat /\ Ahead \in Nat
           /\ inpos <= Len(input) /\ Len(input) \in Nat
           /\ sent \in Nat /\ sent <= told /\ block_start = sent - Base
           /\ Base + strstart + Ahead = inpos
  <1>1. TypeOK /\ pc # "init" /\ pc \notin {"init", "done"}
    BY DEF WindowInv, Working
  <1>2. /\ inpos \in Nat /\ lookahead \in Nat /\ strstart \in Nat /\ inpos <= Len(input) /\ Len(input) \in Nat
        /\ covered \in Nat
    BY <1>1, InputType DEF TypeOK
  <1>3. Base \in Nat
    BY <1>1, PosType
  <1>4. Ahead \in Nat
    BY <1>2 DEF Ahead
  <1>5. Base + strstart + Ahead = inpos
    BY <1>2, <1>4 DEF Base
  <1>6. /\ told = inpos - lookahead - Undecided /\ told \in Nat
        /\ sent \in Nat /\ sent <= told /\ block_start = sent - Base
    BY <1>1 DEF OutputInv, ToldInv, BlockInv
  <1> QED BY <1>2, <1>3, <1>4, <1>5, <1>6

LEMMA OutputDefer == ASSUME WindowInv, OutputInv, Defer PROVE OutputInv'
  <1>1. /\ pc = "decide" /\ ~match_available /\ match_available' = TRUE /\ pc' = "loop"
        /\ strstart' = strstart + 1 /\ lookahead' = lookahead - 1
        /\ UNCHANGED <<input, inpos, block_start, flushed, told, sent>>
    BY DEF Defer, reading, given, output
  <1>2. /\ told = inpos - lookahead - Undecided /\ told \in Nat
        /\ inpos \in Nat /\ lookahead \in Nat /\ strstart \in Nat /\ Base \in Nat
        /\ sent \in Nat /\ block_start = sent - Base
    BY <1>1, OutputPlace DEF Working
  <1>3. Undecided = 0 /\ Undecided' = 1
    BY <1>1 DEF Undecided
  <1>4. Base' = Base
    BY <1>1, <1>2 DEF Base, Ahead
  <1>5. ToldInv'
    <2>1. told' = inpos' - lookahead' - Undecided'
      BY <1>1, <1>2, <1>3
    <2>2. strstart + 1 >= 1
      BY <1>2
    <2> QED BY <1>1, <1>2, <2>1, <2>2 DEF ToldInv
  <1>6. FlushedRight(told)'
    BY <1>1 DEF OutputInv, BlockInv, FlushedRight
  <1>7. BlockInv'
    BY <1>1, <1>2, <1>4, <1>6 DEF OutputInv, BlockInv
  <1> QED BY <1>5, <1>7 DEF OutputInv

\* After a token its place in the block is kept, be it flushed or not.
LEMMA MayFlush ==
    ASSUME WindowInv, OutputInv, pc \in Working, pc' # "done", input' = input, Base' = Base,
           told <= told', NEW tokens,
           NEW end \in Nat, end <= strstart + Ahead, told' = Base + end,
           FlushIfAsked(tokens, end)
    PROVE  BlockInv' /\ tally' \in {tokens, << >>}
  <1>1. /\ told \in Nat /\ Base \in Nat /\ sent \in Nat /\ sent <= told
        /\ block_start = sent - Base
    BY OutputPlace
  <1>2. PICK n \in Nat : n = told' /\ n = Base + end /\ told <= n
    BY <1>1
  <1>3. CASE FLUSH_BLOCK(end) /\ block_start' = end
    <2>1. pc # "init" /\ sent <= told'
      BY <1>1, <1>2 DEF Working
    <2>2. /\ tally' = << >> /\ sent' = told' /\ FlushedRight(told)'
      BY <1>1, <1>3, <2>1, FlushFacts
    <2>3. sent' \in Nat /\ sent' <= told' /\ block_start' = sent' - Base'
      BY <1>1, <1>2, <1>3, <2>2
    <2> QED BY <2>2, <2>3 DEF BlockInv
  <1>4. CASE tally' = tokens /\ UNCHANGED <<flushed, sent, block_start>>
    <2>1. FlushedRight(told)'
      <3>1. FlushedRight(told)
        BY DEF OutputInv, BlockInv
      <3> QED BY <1>1, <1>2, <1>4, <3>1 DEF FlushedRight
    <2> QED BY <1>1, <1>2, <1>4, <2>1 DEF BlockInv
  <1> QED BY <1>3, <1>4 DEF FlushIfAsked

LEMMA OutputLazyLiteral == ASSUME WindowInv, OutputInv, LazyLiteral PROVE OutputInv'
  <1> DEFINE token == Literal(window[strstart - 1])
  <1>1. /\ pc = "decide" /\ match_available /\ match_available' = match_available /\ pc' = "loop"
        /\ strstart' = strstart + 1 /\ lookahead' = lookahead - 1
        /\ UNCHANGED <<input, inpos>> /\ told' = told + 1
        /\ FlushIfAsked(Append(tally, token), strstart)
    BY DEF LazyLiteral, reading, given, ct_tally
  <1> HIDE DEF token
  <1>2. /\ inpos \in Nat /\ lookahead \in Nat /\ strstart \in Nat /\ Base \in Nat /\ Ahead \in Nat
        /\ told \in Nat /\ told = inpos - lookahead - Undecided /\ Base + strstart + Ahead = inpos
    BY <1>1, OutputPlace DEF Working
  <1>3. Undecided = 1 /\ Undecided' = 1 /\ Base' = Base /\ Ahead = lookahead
    BY <1>1, <1>2 DEF Undecided, Base, Ahead
  <1>4. told' = Base + strstart
    BY <1>1, <1>2, <1>3
  <1>5. ToldInv'
    <2>1. told' = inpos' - lookahead' - Undecided' /\ strstart + 1 >= 1 /\ told' \in Nat
      BY <1>1, <1>2, <1>3
    <2> QED BY <1>1, <2>1 DEF ToldInv
  <1>6. told <= told' /\ strstart <= strstart + Ahead
    BY <1>1, <1>2
  <1>7. BlockInv'
    BY <1>1, <1>2, <1>3, <1>4, <1>6, MayFlush DEF Working
  <1> QED BY <1>5, <1>7 DEF OutputInv

LEMMA OutputFastLiteral == ASSUME WindowInv, OutputInv, FastLiteral PROVE OutputInv'
  <1> DEFINE token == Literal(window[strstart])
  <1>1. /\ pc = "decide" /\ fast /\ match_available' = match_available /\ pc' = "loop"
        /\ strstart' = strstart + 1 /\ lookahead' = lookahead - 1
        /\ UNCHANGED <<input, inpos>> /\ told' = told + 1
        /\ FlushIfAsked(Append(tally, token), strstart + 1)
    BY DEF FastLiteral, reading, given, ct_tally
  <1> HIDE DEF token
  <1>2. ~match_available /\ lookahead >= 1
    BY <1>1 DEF WindowInv, LengthInv, FastInv
  <1>3. /\ told = inpos - lookahead - Undecided /\ told \in Nat
        /\ inpos \in Nat /\ lookahead \in Nat /\ strstart \in Nat /\ Base \in Nat /\ Ahead \in Nat
        /\ Base + strstart + Ahead = inpos
    BY <1>1, OutputPlace DEF Working
  <1>4. Undecided = 0 /\ Undecided' = 0 /\ Ahead = lookahead /\ Base' = Base
    BY <1>1, <1>2, <1>3 DEF Undecided, Base, Ahead
  <1>5. ToldInv'
    <2>1. told' = inpos' - lookahead' - Undecided' /\ told' \in Nat
      BY <1>1, <1>3, <1>4
    <2> QED BY <1>1, <1>2, <2>1 DEF ToldInv
  <1>6. told <= told' /\ strstart + 1 \in Nat /\ strstart + 1 <= strstart + Ahead
        /\ told' = Base + (strstart + 1)
    BY <1>1, <1>2, <1>3, <1>4
  <1>7. BlockInv'
    BY <1>1, <1>4, <1>6, MayFlush DEF Working
  <1> QED BY <1>5, <1>7 DEF OutputInv

\* A match that deflate_fast() found stands for bytes that are there.
LEMMA FoundFits ==
    ASSUME WindowInv, OutputInv, pc = "decide", fast, match_length >= MIN_MATCH
    PROVE  /\ match_length \in MIN_MATCH .. MAX_MATCH /\ match_length <= lookahead
           /\ told + match_length <= Len(input) /\ ~match_available
           /\ told = Base + strstart /\ told = inpos - lookahead
  <1>1. /\ told = inpos - lookahead - Undecided /\ told \in Nat
        /\ inpos \in Nat /\ lookahead \in Nat /\ strstart \in Nat /\ Base \in Nat /\ Ahead \in Nat
        /\ inpos <= Len(input) /\ Len(input) \in Nat
        /\ Base + strstart + Ahead = inpos
    BY OutputPlace DEF Working
  <1>2. /\ match_length \in Nat /\ match_length <= MAX_MATCH /\ match_length <= lookahead
        /\ ~match_available
    BY DEF WindowInv, TypeOK, LengthInv, FastInv, MIN_MATCH
  <1>3. Undecided = 0 /\ Ahead = lookahead
    BY <1>2 DEF Undecided, Ahead
  <1> QED BY <1>1, <1>2, <1>3, Sizes

\* The match kept from the turn before does.
LEMMA PreviousFits ==
    ASSUME WindowInv, WaitingInv, OutputInv, pc = "decide", TakesPrevious
    PROVE  /\ prev_length \in MIN_MATCH .. MAX_MATCH /\ prev_length <= lookahead + 1
           /\ told + prev_length <= Len(input)
           /\ told = inpos - lookahead - 1
  <1>1. /\ told = inpos - lookahead - Undecided /\ told \in Nat
        /\ inpos \in Nat /\ lookahead \in Nat
        /\ inpos <= Len(input) /\ Len(input) \in Nat
    BY OutputPlace DEF Working
  <1>2. prev_length \in Nat /\ prev_length >= 3 /\ prev_length <= MAX_MATCH /\ prev_length <= lookahead + 1
    BY DEF WindowInv, TypeOK, LengthInv, TakesPrevious, MIN_MATCH
  <1>3. match_available
    BY DEF WaitingInv, TakesPrevious
  <1>4. Undecided = 1
    BY <1>3 DEF Undecided
  <1> QED BY <1>1, <1>2, <1>4, Sizes

\* A match was taken; its strings are still to insert.
LEMMA OutputTaken ==
    ASSUME WindowInv, OutputInv, pc = "decide", pc' = "insert", Base' = Base,
           UNCHANGED <<input, block_start, flushed, sent>>,
           NEW n \in Nat, told + n = inpos' - lookahead', told' = told + n
    PROVE  OutputInv'
  <1>1. told \in Nat /\ sent \in Nat /\ sent <= told /\ block_start = sent - Base
    BY OutputPlace DEF Working
  <1>2. Undecided' = 0
    BY DEF Undecided
  <1>3. PICK m \in Nat : m = told' /\ told <= m
    BY <1>1
  <1>4. ToldInv'
    <2>1. inpos' - lookahead' = m
      BY <1>3
    <2>2. told' = inpos' - lookahead' - Undecided' /\ told' \in Nat
      BY <1>2, <1>3, <2>1
    <2> QED BY <2>2 DEF ToldInv
  <1>5. FlushedRight(told)'
    <2>1. FlushedRight(told)
      BY DEF OutputInv, BlockInv
    <2> QED BY <1>1, <1>3, <2>1 DEF FlushedRight
  <1>6. BlockInv'
    BY <1>1, <1>3, <1>5 DEF BlockInv
  <1> QED BY <1>4, <1>6 DEF OutputInv

LEMMA OutputTakes == ASSUME WindowInv, WaitingInv, OutputInv, TakeFound \/ TakePrevious PROVE OutputInv'
  <1>1. pc = "decide" /\ inpos \in Nat /\ lookahead \in Nat /\ strstart \in Nat /\ Base \in Nat
    <2>1. pc = "decide"
      BY DEF TakeFound, TakePrevious
    <2> QED BY <2>1, OutputPlace DEF Working
  <1>2. CASE TakeFound
    <2>1. /\ fast /\ match_length >= MIN_MATCH /\ pc' = "insert"
          /\ UNCHANGED <<input, inpos, strstart, block_start, flushed, sent>>
          /\ lookahead' = lookahead - match_length /\ covered' = match_length - 1
          /\ told' = told + match_length
      BY <1>2 DEF TakeFound, reading, given, ct_tally
    <2>2. told = inpos - lookahead
      BY <1>1, <2>1, FoundFits
    <2>3. match_length \in Nat
      BY DEF WindowInv, TypeOK
    <2>4. Base' = Base
      BY <1>1, <2>1, <2>3 DEF Base, Ahead
    <2>5. told + match_length = inpos' - lookahead'
      BY <1>1, <2>1, <2>2, <2>3
    <2> QED BY <1>1, <2>1, <2>3, <2>4, <2>5, OutputTaken
  <1>3. CASE TakePrevious
    <2>1. /\ TakesPrevious /\ pc' = "insert"
          /\ UNCHANGED <<input, inpos, strstart, block_start, flushed, sent>>
          /\ lookahead' = lookahead - (prev_length - 1) /\ covered' = prev_length - 2
          /\ told' = told + prev_length
      BY <1>3 DEF TakePrevious, reading, given, ct_tally
    <2>2. told = inpos - lookahead - 1
      BY <1>1, <2>1, PreviousFits
    <2>3. prev_length \in Nat
      BY DEF WindowInv, TypeOK
    <2>4. Base' = Base
      BY <1>1, <2>1, <2>3 DEF Base, Ahead
    <2>5. told + prev_length = inpos' - lookahead'
      BY <1>1, <2>1, <2>2, <2>3
    <2> QED BY <1>1, <2>1, <2>3, <2>4, <2>5, OutputTaken
  <1> QED BY <1>2, <1>3

LEMMA OutputSkipFound == ASSUME WindowInv, OutputInv, SkipFound PROVE OutputInv'
  <1> DEFINE token == Match(strstart - match_start, match_length)
  <1>1. /\ pc = "decide" /\ fast /\ match_length >= MIN_MATCH /\ pc' = "loop"
        /\ UNCHANGED <<input, inpos, match_available>>
        /\ strstart' = strstart + match_length /\ lookahead' = lookahead - match_length
        /\ told' = told + match_length
        /\ FlushIfAsked(Append(tally, token), strstart + match_length)
    BY DEF SkipFound, reading, given, ct_tally
  <1> HIDE DEF token
  <1>2. /\ match_length \in MIN_MATCH .. MAX_MATCH /\ match_length <= lookahead /\ ~match_available
        /\ told = Base + strstart /\ told = inpos - lookahead
    BY <1>1, FoundFits
  <1>3. /\ inpos \in Nat /\ lookahead \in Nat /\ strstart \in Nat /\ Base \in Nat /\ match_length \in Nat
        /\ told \in Nat
    BY <1>1, OutputPlace DEF Working, WindowInv, TypeOK
  <1>4. Base' = Base /\ Ahead = lookahead /\ Undecided' = 0
    BY <1>1, <1>2, <1>3 DEF Base, Ahead, Undecided
  <1>5. ToldInv'
    <2>1. told' = inpos' - lookahead' - Undecided' /\ told' \in Nat
      BY <1>1, <1>2, <1>3, <1>4
    <2> QED BY <1>1, <1>2, <2>1 DEF ToldInv
  <1>6. PICK end \in Nat : end = strstart + match_length
    BY <1>3
  <1>7. /\ end <= strstart + Ahead /\ told' = Base + end /\ told <= told'
        /\ FlushIfAsked(Append(tally, token), end)
    BY <1>1, <1>2, <1>3, <1>4, <1>6
  <1>8. BlockInv'
    BY <1>1, <1>4, <1>7, MayFlush DEF Working
  <1> QED BY <1>5, <1>8 DEF OutputInv

LEMMA OutputInsertCovered == ASSUME WindowInv, OutputInv, InsertCovered PROVE OutputInv'
  <1>1. /\ pc = "insert" /\ UNCHANGED <<input, inpos, lookahead>> /\ covered' = covered - 1
        /\ pc' \in {"insert", "loop"} /\ told' = told
    BY DEF InsertCovered, reading, given, output
  <1>2. /\ told = inpos - lookahead - Undecided /\ told \in Nat
        /\ inpos \in Nat /\ lookahead \in Nat /\ strstart \in Nat /\ Base \in Nat
        /\ sent \in Nat /\ sent <= told /\ block_start = sent - Base
    BY <1>1, OutputPlace DEF Working
  <1>3. covered \in Nat /\ covered >= 1 /\ Ahead = lookahead + covered + 1 /\ Undecided = 0
    BY <1>1 DEF WindowInv, TypeOK, LengthInv, Ahead, Undecided
  <1>4. CASE covered # 1 /\ strstart' = strstart + 1 /\ pc' = "insert"
             /\ UNCHANGED <<match_available, block_start, output>>
    <2>1. flushed' = flushed /\ sent' = sent
      BY <1>4 DEF output
    <2>2. Undecided' = 0 /\ Base' = Base
      BY <1>1, <1>2, <1>3, <1>4 DEF Undecided, Base, Ahead
    <2>3. ToldInv'
      BY <1>1, <1>2, <1>3, <1>4, <2>2 DEF ToldInv
    <2>4. FlushedRight(told)'
      BY <1>1, <2>1 DEF OutputInv, BlockInv, FlushedRight
    <2>5. BlockInv'
      BY <1>1, <1>2, <1>4, <2>1, <2>2, <2>4 DEF BlockInv
    <2> QED BY <2>3, <2>5 DEF OutputInv
  <1>5. CASE covered = 1 /\ strstart' = strstart + 2 /\ pc' = "loop" /\ match_available' = FALSE
             /\ FlushIfAsked(tally, strstart + 2)
    <2>1. Undecided' = 0 /\ Base' = Base
      BY <1>1, <1>2, <1>3, <1>5 DEF Undecided, Base, Ahead
    <2>2. ToldInv'
      BY <1>1, <1>2, <1>3, <1>5, <2>1 DEF ToldInv
    <2>3. PICK end \in Nat : end = strstart + 2
      BY <1>2
    <2>4. told = Base + end
      <3>1. Base = inpos - (lookahead + covered + 1) - strstart
        BY <1>3 DEF Base
      <3> QED BY <1>2, <1>3, <1>5, <2>3, <3>1
    <2>5. end <= strstart + Ahead /\ told <= told'
      BY <1>1, <1>2, <1>3, <2>3
    <2>6. BlockInv'
      BY <1>1, <1>5, <2>1, <2>3, <2>4, <2>5, MayFlush DEF Working
    <2> QED BY <2>2, <2>6 DEF OutputInv
  <1> QED BY <1>4, <1>5 DEF InsertCovered

LEMMA OutputFinish == ASSUME WindowInv, OutputInv, Finish PROVE OutputInv'
  <1>1. /\ pc = "loop" /\ pc' = "done" /\ ~MustFill /\ lookahead = 0 /\ FLUSH_BLOCK(strstart)
        /\ UNCHANGED <<input, inpos, lookahead, eofile>>
    BY DEF Finish, reading, given
  <1>2. /\ told = inpos - lookahead - Undecided /\ told \in Nat
        /\ inpos \in Nat /\ strstart \in Nat /\ Base \in Nat /\ Base + strstart + Ahead = inpos
        /\ sent \in Nat /\ sent <= told /\ block_start = sent - Base
    BY <1>1, OutputPlace DEF Working
  <1>3. eofile /\ Ahead = 0 /\ Undecided' = 0
    BY <1>1, Sizes DEF MustFill, Ahead, Undecided
  <1>4. told' = inpos /\ told <= told'
    <2>1. told' = IF match_available THEN told + 1 ELSE told
      BY DEF Finish
    <2>2. Undecided = IF match_available THEN 1 ELSE 0
      BY <1>1 DEF Undecided
    <2>3. CASE match_available
      BY <1>1, <1>2, <2>1, <2>2, <2>3
    <2>4. CASE ~match_available
      BY <1>1, <1>2, <2>1, <2>2, <2>4
    <2> QED BY <2>3, <2>4
  <1>5. strstart <= strstart + Ahead /\ told' = Base + strstart /\ sent <= told' /\ pc # "init"
    BY <1>1, <1>2, <1>3, <1>4
  <1>6. /\ sent' = told' /\ flushed'.upto = told' /\ FlushedRight(told)'
    BY <1>1, <1>2, <1>5, FlushFacts
  <1>7. ToldInv'
    <2>1. told' = inpos' - lookahead' - Undecided' /\ told' \in Nat
      BY <1>1, <1>2, <1>3, <1>4
    <2> QED BY <1>1, <1>3, <2>1 DEF ToldInv
  <1>8. BlockInv'
    BY <1>1, <1>2, <1>4, <1>6 DEF BlockInv
  <1> QED BY <1>7, <1>8 DEF OutputInv

LEMMA OutputStutter == ASSUME OutputInv, UNCHANGED vars PROVE OutputInv'
  BY DEF vars, OutputInv, ToldInv, Undecided, BlockInv, FlushedRight, Base, Ahead

LEMMA OutputStep == WindowInv /\ WaitingInv /\ OutputInv /\ [Next]_vars => OutputInv'
  BY OutputLmInit, OutputQuiet, OutputDefer, OutputLazyLiteral, OutputFastLiteral, OutputTakes,
     OutputSkipFound, OutputInsertCovered, OutputFinish, OutputStutter
     DEF Next, deflate, deflate_fast, Ended

LEMMA OutputInit == Init => OutputInv
  <1> SUFFICES ASSUME Init PROVE OutputInv
    OBVIOUS
  <1>1. /\ told = 0 /\ sent = 0 /\ inpos = 0 /\ lookahead = 0 /\ pc = "init"
        /\ match_available = FALSE
        /\ flushed = [stored_len |-> 0, has_buf |-> FALSE, buf |-> << >>, from |-> 0, upto |-> 0]
    BY DEF Init
  <1>2. Undecided = 0
    BY <1>1 DEF Undecided
  <1>3. ToldInv
    BY <1>1, <1>2 DEF ToldInv
  <1>4. BlockInv
    BY <1>1, <1>2 DEF BlockInv, FlushedRight
  <1> QED BY <1>3, <1>4 DEF OutputInv

\* A match of the turn before waits for a decision.
LEMMA WaitingStep == WindowInv /\ WaitingInv /\ [Next]_vars => WaitingInv'
  <1> SUFFICES ASSUME WindowInv, WaitingInv, [Next]_vars PROVE WaitingInv'
    OBVIOUS
  <1> MIN_MATCH = 3
    BY DEF MIN_MATCH
  <1>1. CASE lm_init \/ HashFirst \/ Finish \/ TakeFound \/ TakePrevious
    <2>1. \/ pc' \in {"begin", "done", "insert"}
          \/ pc' = "loop" /\ pc = "begin" /\ match_length' = match_length
      BY <1>1 DEF lm_init, HashFirst, Finish, TakeFound, TakePrevious
    <2>2. pc = "begin" => match_length \in Nat /\ match_length < 3
      BY DEF WindowInv, LengthInv, TypeOK
    <2> QED BY <2>1, <2>2 DEF WaitingInv
  <1>2. CASE fill_window
    BY <1>2 DEF WaitingInv, fill_window
  <1>3. CASE StartTurn
    <2>1. /\ pc = "loop" /\ pc' \in {"search", "decide"} /\ match_available' = match_available
          /\ fast => prev_length' = prev_length
          /\ ~fast => prev_length' = match_length
      BY <1>3 DEF StartTurn
    <2>2. fast => prev_length = 2
      BY DEF WindowInv, LengthInv, FastInv, MIN_MATCH
    <2> QED BY <2>1, <2>2 DEF WaitingInv
  <1>4. CASE longest_match
    BY <1>4 DEF WaitingInv, longest_match
  <1>5. CASE SkipFound \/ FastLiteral \/ InsertCovered
    <2>1. \/ pc' = "insert"
          \/ pc' = "loop" /\ (match_length' \in {0, 2} \/ (match_length' = match_length /\ match_length < 3))
      BY <1>5 DEF SkipFound, FastLiteral, InsertCovered, WindowInv, LengthInv
    <2>2. match_length \in Nat
      BY DEF WindowInv, TypeOK
    <2> QED BY <2>1, <2>2 DEF WaitingInv
  <1>6. CASE LazyLiteral \/ Defer
    BY <1>6 DEF WaitingInv, LazyLiteral, Defer
  <1>7. CASE UNCHANGED vars
    BY <1>7 DEF WaitingInv, vars
  <1> QED BY <1>1, <1>2, <1>3, <1>4, <1>5, <1>6, <1>7 DEF Next, deflate, deflate_fast, Ended

LEMMA OutputAlways == Spec => [](WindowInv /\ WaitingInv /\ OutputInv)
  <1>1. Init => WaitingInv
    BY DEF Init, WaitingInv
  <1> QED BY <1>1, WindowAlways, WaitingStep, OutputInit, OutputStep, PTL DEF Spec

-----------------------------------------------------------------------------
(* What a decoder makes of it                                               *)

\* A token was added, and flushed or not.
LEMMA TokenAdded ==
    ASSUME NEW tokens, InReach(tokens), tally' \in {tokens, << >>}, input' = input,
           Begins(decoded'), Len(decoded') = told'
    PROVE  DecodedInv'
  <1>1. InReach(<< >>)
    BY DEF InReach
  <1>2. InReach(tally)'
    BY <1>1 DEF InReach
  <1> QED BY <1>2 DEF DecodedInv, Begins

\* Nothing was added; a block may have been flushed.
LEMMA NothingAdded ==
    ASSUME DecodedInv, tally' \in {tally, << >>}, UNCHANGED <<input, decoded, told>>
    PROVE  DecodedInv'
  <1>1. InReach(tally) /\ Begins(decoded) /\ Len(decoded) = told
    BY DEF DecodedInv
  <1>2. Begins(decoded') /\ Len(decoded') = told'
    BY <1>1
  <1> QED BY <1>1, <1>2, TokenAdded

\* A literal is the next byte that was not decided.
LEMMA NextByte ==
    ASSUME WindowInv, OutputInv, DecodedInv, pc \in {"loop", "decide"}, NEW i \in Nat,
           told = Base + i, i < strstart + Ahead
    PROVE  LET out == DecodeToken(decoded, Literal(window[i]))
           IN  window[i] \in Nat /\ Begins(out) /\ Len(out) = told + 1
  <1>1. /\ told \in Nat /\ inpos \in Nat /\ strstart \in Nat /\ Base \in Nat /\ Ahead \in Nat
        /\ inpos <= Len(input) /\ Len(input) \in Nat /\ Base + strstart + Ahead = inpos
    BY OutputPlace DEF Working
  <1>2. /\ Len(decoded) = told /\ told < Len(input) /\ Base + i + 1 = told + 1
        /\ i \in 0 .. strstart + Ahead - 1
    BY <1>1 DEF DecodedInv
  <1>3. window[i] = input[Len(decoded) + 1]
    <2>1. HoldsInput
      BY DEF WindowInv
    <2>2. window[i] = input[Base + i + 1]
      BY <1>2, <2>1 DEF HoldsInput
    <2> QED BY <1>2, <2>2
  <1>4. TypeOK /\ Begins(decoded)
    BY DEF WindowInv, DecodedInv
  <1>5. input[Len(decoded) + 1] \in Bytes
    BY <1>1, <1>2, <1>4, InputType
  <1>6. window[i] \in Nat
    BY <1>3, <1>5, FilesAssumption
  <1>7. /\ Begins(DecodeToken(decoded, Literal(window[i])))
        /\ Len(DecodeToken(decoded, Literal(window[i]))) = Len(decoded) + 1
    BY <1>2, <1>3, <1>4, LiteralBegins
  <1> QED BY <1>2, <1>6, <1>7

\* The byte before strstart, when it waits for a decision.
LEMMA WaitingByte ==
    ASSUME WindowInv, OutputInv, DecodedInv, pc \in {"loop", "decide"}, match_available
    PROVE  LET out == DecodeToken(decoded, Literal(window[strstart - 1]))
           IN  window[strstart - 1] \in Nat /\ Begins(out) /\ Len(out) = told + 1
  <1>1. /\ told = inpos - lookahead - Undecided /\ told \in Nat
        /\ inpos \in Nat /\ lookahead \in Nat /\ strstart \in Nat /\ Base \in Nat /\ Ahead \in Nat
        /\ Base + strstart + Ahead = inpos
    BY OutputPlace DEF Working
  <1>2. Undecided = 1 /\ Ahead = lookahead /\ strstart >= 1
    BY DEF Undecided, Ahead, OutputInv, ToldInv
  <1>3. PICK i \in Nat : i = strstart - 1
    BY <1>1, <1>2
  <1>4. told = Base + i /\ i < strstart + Ahead
    BY <1>1, <1>2, <1>3
  <1> QED BY <1>3, <1>4, NextByte

\* A match repeats what was decoded.
LEMMA MatchSent ==
    ASSUME WindowInv, DecodedInv, NEW d, NEW n \in MIN_MATCH .. MAX_MATCH, Real(told, d, n),
           told + n <= Len(input)
    PROVE  /\ InReach(Append(tally, Match(d, n)))
           /\ Begins(DecodeToken(decoded, Match(d, n)))
           /\ Len(DecodeToken(decoded, Match(d, n))) = told + n
  <1>1. n \in Nat /\ d \in 1 .. MAX_DIST /\ d \in Nat /\ d # 0
    BY Sizes DEF Real
  <1>2. TypeOK /\ Begins(decoded) /\ InReach(tally) /\ Len(decoded) = told
    BY DEF WindowInv, DecodedInv
  <1>3. Match(d, n) \in Token /\ Match(d, n).lc = n /\ Match(d, n).dist = d
    BY <1>1 DEF Match, Token
  <1>4. InReach(Append(tally, Match(d, n)))
    BY <1>1, <1>2, <1>3, InReachAppend
  <1> QED BY <1>1, <1>2, <1>4, MatchBegins

\* The match that deflate_fast() found here.
LEMMA FoundIsReal ==
    ASSUME WindowInv, MatchInv, OutputInv, pc = "decide", fast, match_length >= MIN_MATCH
    PROVE  Real(told, strstart - match_start, match_length)
  <1>1. told = inpos - lookahead /\ ~match_available
    BY FoundFits
  <1>2. match_length \in Nat /\ prev_length = 2
    BY DEF WindowInv, TypeOK, LengthInv, FastInv, MIN_MATCH
  <1>3. Real(Pos, strstart - match_start, match_length)
    BY <1>2, Sizes DEF MatchInv
  <1>4. Pos = inpos - lookahead
    BY DEF Ahead, Pos
  <1> QED BY <1>1, <1>3, <1>4

\* The match kept from the turn before.
LEMMA PreviousIsReal ==
    ASSUME WindowInv, WaitingInv, MatchInv, OutputInv, pc = "decide", TakesPrevious
    PROVE  Real(told, strstart - 1 - prev_match, prev_length)
  <1>1. told = inpos - lookahead - 1
    BY PreviousFits
  <1>2. Real(Pos - 1, strstart - 1 - prev_match, prev_length)
    BY DEF MatchInv, TakesPrevious
  <1>3. Pos = inpos - lookahead
    BY DEF Ahead, Pos
  <1> QED BY <1>1, <1>2, <1>3

LEMMA DecodedQuiet ==
    ASSUME DecodedInv,
           lm_init \/ fill_window \/ HashFirst \/ StartTurn \/ longest_match \/ Defer
             \/ InsertCovered \/ UNCHANGED vars
    PROVE  DecodedInv'
  <1>1. CASE ~InsertCovered
    BY <1>1, NothingAdded
       DEF lm_init, fill_window, HashFirst, StartTurn, longest_match, Defer, reading, given, output, vars
  <1>2. CASE InsertCovered
    BY <1>2, NothingAdded DEF InsertCovered, FlushIfAsked, FLUSH_BLOCK, reading, given, output
  <1> QED BY <1>1, <1>2

LEMMA DecodedLiteral ==
    ASSUME WindowInv, OutputInv, DecodedInv, LazyLiteral \/ FastLiteral
    PROVE  DecodedInv'
  <1>1. CASE LazyLiteral
    <2> DEFINE token == Literal(window[strstart - 1])
    <2>1. /\ pc = "decide" /\ match_available /\ input' = input
          /\ decoded' = DecodeToken(decoded, token) /\ told' = told + 1
          /\ tally' \in {Append(tally, token), << >>}
      BY <1>1 DEF LazyLiteral, reading, given, ct_tally, FlushIfAsked, FLUSH_BLOCK
    <2>2. window[strstart - 1] \in Nat /\ Begins(decoded') /\ Len(decoded') = told'
      BY <2>1, WaitingByte
    <2>3. InReach(Append(tally, token))
      BY <2>2, LiteralInReach DEF DecodedInv
    <2> HIDE DEF token
    <2> QED BY <2>1, <2>2, <2>3, TokenAdded
  <1>2. CASE FastLiteral
    <2> DEFINE token == Literal(window[strstart])
    <2>1. /\ pc = "decide" /\ fast /\ input' = input
          /\ decoded' = DecodeToken(decoded, token) /\ told' = told + 1
          /\ tally' \in {Append(tally, token), << >>}
      BY <1>2 DEF FastLiteral, reading, given, ct_tally, FlushIfAsked, FLUSH_BLOCK
    <2>2. ~match_available /\ lookahead >= 1
      BY <2>1 DEF WindowInv, LengthInv, FastInv
    <2>3. /\ told = inpos - lookahead - Undecided /\ told \in Nat
          /\ inpos \in Nat /\ lookahead \in Nat /\ strstart \in Nat /\ Base \in Nat /\ Ahead \in Nat
          /\ Base + strstart + Ahead = inpos
      BY <2>1, OutputPlace DEF Working
    <2>4. Undecided = 0 /\ Ahead = lookahead
      BY <2>1, <2>2 DEF Undecided, Ahead
    <2>5. told = Base + strstart /\ strstart < strstart + Ahead
      BY <2>2, <2>3, <2>4
    <2>6. window[strstart] \in Nat /\ Begins(decoded') /\ Len(decoded') = told'
      BY <2>1, <2>3, <2>5, NextByte
    <2>7. InReach(Append(tally, token))
      BY <2>6, LiteralInReach DEF DecodedInv
    <2> HIDE DEF token
    <2> QED BY <2>1, <2>6, <2>7, TokenAdded
  <1> QED BY <1>1, <1>2

LEMMA DecodedMatch ==
    ASSUME WindowInv, WaitingInv, MatchInv, OutputInv, DecodedInv,
           TakeFound \/ SkipFound \/ TakePrevious
    PROVE  DecodedInv'
  <1>1. ASSUME NEW d, NEW n, Real(told, d, n), n \in MIN_MATCH .. MAX_MATCH, told + n <= Len(input),
               decoded' = DecodeToken(decoded, Match(d, n)), told' = told + n, input' = input,
               tally' \in {Append(tally, Match(d, n)), << >>}
        PROVE  DecodedInv'
    <2>1. /\ InReach(Append(tally, Match(d, n))) /\ Begins(decoded') /\ Len(decoded') = told'
      BY <1>1, MatchSent
    <2> QED BY <1>1, <2>1, TokenAdded
  <1>2. CASE TakeFound \/ SkipFound
    <2> DEFINE d == strstart - match_start
    <2>1. /\ pc = "decide" /\ fast /\ match_length >= MIN_MATCH /\ input' = input
          /\ decoded' = DecodeToken(decoded, Match(d, match_length)) /\ told' = told + match_length
          /\ tally' \in {Append(tally, Match(d, match_length)), << >>}
      BY <1>2 DEF TakeFound, SkipFound, reading, given, ct_tally, FlushIfAsked, FLUSH_BLOCK
    <2>2. Real(told, d, match_length)
      BY <2>1, FoundIsReal
    <2>3. match_length \in MIN_MATCH .. MAX_MATCH /\ told + match_length <= Len(input)
      BY <2>1, FoundFits
    <2> HIDE DEF d
    <2> QED BY <1>1, <2>1, <2>2, <2>3
  <1>3. CASE TakePrevious
    <2> DEFINE d == strstart - 1 - prev_match
    <2>1. /\ pc = "decide" /\ TakesPrevious /\ input' = input
          /\ decoded' = DecodeToken(decoded, Match(d, prev_length)) /\ told' = told + prev_length
          /\ tally' \in {Append(tally, Match(d, prev_length)), << >>}
      BY <1>3 DEF TakePrevious, reading, given, ct_tally
    <2>2. Real(told, d, prev_length)
      BY <2>1, PreviousIsReal
    <2>3. prev_length \in MIN_MATCH .. MAX_MATCH /\ told + prev_length <= Len(input)
      BY <2>1, PreviousFits
    <2> HIDE DEF d
    <2> QED BY <1>1, <2>1, <2>2, <2>3
  <1> QED BY <1>2, <1>3

LEMMA DecodedFinish == ASSUME WindowInv, OutputInv, DecodedInv, Finish PROVE DecodedInv'
  <1>1. pc = "loop" /\ input' = input /\ tally' = << >>
    BY DEF Finish, FLUSH_BLOCK, reading, given
  <1>2. CASE match_available
    <2>1. decoded' = DecodeToken(decoded, Literal(window[strstart - 1])) /\ told' = told + 1
      BY <1>2 DEF Finish
    <2>2. Begins(decoded') /\ Len(decoded') = told'
      BY <1>1, <1>2, <2>1, WaitingByte
    <2>3. InReach(tally)
      BY DEF DecodedInv
    <2> QED BY <1>1, <2>2, <2>3, TokenAdded
  <1>3. CASE ~match_available
    BY <1>1, <1>3, NothingAdded DEF Finish
  <1> QED BY <1>2, <1>3

LEMMA DecodedStep ==
    WindowInv /\ WaitingInv /\ MatchInv /\ OutputInv /\ DecodedInv /\ [Next]_vars => DecodedInv'
  BY DecodedQuiet, DecodedLiteral, DecodedMatch, DecodedFinish
     DEF Next, deflate, deflate_fast, Ended

LEMMA DecodedAlways == Spec => [](WindowInv /\ OutputInv /\ (mixed = 0 => DecodedInv))
  <1>1. Init => DecodedInv
    <2> SUFFICES ASSUME Init PROVE DecodedInv
      OBVIOUS
    <2>1. tally = << >> /\ decoded = << >> /\ told = 0 /\ input \in Seq(Bytes)
      BY FilesAssumption DEF Init
    <2>2. InReach(tally) /\ Begins(decoded) /\ Len(decoded) = told
      BY <2>1 DEF InReach, Begins
    <2> QED BY <2>2 DEF DecodedInv
  <1>2. /\ WindowInv /\ WaitingInv /\ OutputInv /\ (mixed = 0 => MatchInv)
        /\ (mixed = 0 => DecodedInv) /\ [Next]_vars
        => (mixed = 0 => DecodedInv)'
    BY DecodedStep, MixedGrows
  <1> QED BY <1>1, <1>2, MatchesAlways, OutputAlways, PTL DEF Spec

\* MatchesInReach: whatever ct_tally is given can be expressed, its Assert holds,
\* although the search keeps match_start over turns and slides of the window, as long
\* as the race on m spoils no chain.
THEOREM TakesWhatDeflateCan == Spec => []MatchesInReach
  <1>1. (mixed = 0 => DecodedInv) => MatchesInReach
    BY DEF DecodedInv, InReach, MatchesInReach
  <1> QED BY <1>1, DecodedAlways, PTL

\* DecodesToInput: through lazy and immediate matches, the race on the first hash,
\* the third byte that longest_match() skips, reads of any size and slides of the
\* window that the race on m leaves right, the tokens decode to the file up to the byte
\* that is not decided, and at the end to the whole file.
THEOREM GzipLosesNothing == Spec => []DecodesToInput
  <1>1. WindowInv /\ OutputInv /\ (mixed = 0 => DecodedInv) => DecodesToInput
    <2> SUFFICES ASSUME WindowInv, OutputInv, DecodedInv
                 PROVE  /\ decoded = SubSeq(input, 1, inpos - lookahead - Undecided)
                        /\ pc = "done" => decoded = input
      BY DEF DecodesToInput
    <2>1. /\ input \in Seq(Bytes) /\ decoded \in Seq(Bytes) /\ Len(decoded) <= Len(input)
          /\ \A i \in 1 .. Len(decoded) : decoded[i] = input[i]
          /\ Len(decoded) = inpos - lookahead - Undecided
      BY InputType DEF WindowInv, OutputInv, ToldInv, DecodedInv, Begins
    <2>2. decoded = SubSeq(input, 1, inpos - lookahead - Undecided)
      BY <2>1, BeginningIsSubSeq
    <2>3. ASSUME pc = "done" PROVE decoded = input
      <3>1. eofile /\ lookahead = 0 /\ Undecided = 0
        BY <2>3 DEF OutputInv, ToldInv, Undecided
      <3>2. inpos = Len(input) /\ Len(input) \in Nat
        BY <2>1, <2>3, <3>1 DEF WindowInv, ReadAhead
      <3>3. Len(decoded) = Len(input)
        BY <2>1, <3>1, <3>2
      <3> QED BY <2>1, <3>3, SeqEqual
    <2> QED BY <2>2, <2>3
  <1> QED BY <1>1, DecodedAlways, PTL

\* BlockTextRight: flush_block() is given the piece of the file that the tokens of the
\* block stand for, or told that part of it has left the window, and its length; the
\* blocks reach the end of the file.  This needs no chain to be right.
THEOREM GzipStoresTheSame == Spec => []BlockTextRight
  <1>1. WindowInv /\ OutputInv => BlockTextRight
    <2> SUFFICES ASSUME WindowInv, OutputInv PROVE BlockTextRight
      OBVIOUS
    <2>1. /\ input \in Seq(Bytes) /\ Len(input) \in Nat /\ told \in Nat
          /\ FlushedRight(told) /\ told = inpos - lookahead - Undecided
      BY InputType DEF WindowInv, OutputInv, ToldInv, BlockInv
    <2>2. told <= Len(input)
      <3>1. inpos \in Nat /\ inpos <= Len(input) /\ lookahead \in Nat
        BY <2>1 DEF WindowInv, TypeOK
      <3>2. Undecided \in {0, 1}
        BY DEF Undecided
      <3> QED BY <2>1, <3>1, <3>2
    <2>3. PICK a \in Nat, b \in Nat : a = flushed.from /\ b = flushed.upto /\ a <= b /\ b <= Len(input)
      <3>1. /\ flushed.from \in Nat /\ flushed.upto \in Nat
            /\ flushed.from <= flushed.upto /\ flushed.upto <= told
        BY <2>1 DEF FlushedRight
      <3> QED BY <2>1, <2>2, <3>1
    <2>4. ASSUME flushed.has_buf PROVE flushed.buf = SubSeq(input, a + 1, b)
      <3>1. /\ flushed.buf \in Seq(Bytes) /\ Len(flushed.buf) = b - a
            /\ \A i \in 1 .. b - a : flushed.buf[i] = input[a + i]
        BY <2>1, <2>3, <2>4 DEF FlushedRight
      <3> DEFINE s == SubSeq(input, a + 1, b)
      <3>2. s \in Seq(Bytes) /\ Len(s) = b - a
        BY <2>1, <2>3
      <3>3. \A i \in 1 .. b - a : s[i] = input[a + i]
        BY <2>1, <2>3
      <3> HIDE DEF s
      <3>4. flushed.buf = s
        BY <3>1, <3>2, <3>3, SeqEqual
      <3> QED BY <3>4 DEF s
    <2>5. ASSUME pc = "done" PROVE b = Len(input)
      <3>1. eofile /\ lookahead = 0 /\ Undecided = 0 /\ b = told
        BY <2>3, <2>5 DEF OutputInv, ToldInv, BlockInv, Undecided
      <3>2. inpos = Len(input)
        BY <2>5, <3>1 DEF WindowInv, ReadAhead
      <3> QED BY <2>1, <3>1, <3>2
    <2>6. flushed.stored_len = flushed.upto - flushed.from
      BY <2>1 DEF FlushedRight
    <2> QED BY <2>3, <2>4, <2>5, <2>6 DEF BlockTextRight
  <1> QED BY <1>1, OutputAlways, PTL
=============================================================================
