---- MODULE Unlzw ----
(***************************************************************************)
(* unlzw() of gzip-src/unlzw.c: files of compress.  It reads the file by   *)
(* itself into the buffer it moves the unread bytes of to the front; the   *)
(* codes come in groups of eight, and a change of the code width leaves    *)
(* the rest of its group unused.                                           *)
(*                                                                         *)
(* The codes are as wide as in the program, but of n bits there are only   *)
(* 2^(n - SCALE): the table and the alphabet are divided down.             *)
(***************************************************************************)
EXTENDS GzipIO
LOCAL INSTANCE SequencesExt

CONSTANTS SCALE, BITS, INBUF_EXTRA
VARIABLES z, pc, res

INIT_BITS == 9
MAXCODE(n) == 2 ^ (n - SCALE)
CLEAR == MAXCODE(INIT_BITS - 1)
FIRST == CLEAR + 1
BLOCK_MODE == 128
BIT_MASK == 32      \* the bits below it
max_code(n, maxbits) == IF n = maxbits THEN MAXCODE(n) ELSE MAXCODE(n) - 1

\* The header's last byte.  z.at: where in the file the buffer begins.
unlzw ==
    /\ pc = "unlzw"
    /\ LET i == get_byte(s)
           maxbits == i.c % BIT_MASK
           block == i.c \div BLOCK_MODE = 1
       IN \/ i.short /\ s' = i /\ pc' = "abort" /\ UNCHANGED <<z, res>>
          \/ /\ ~i.short /\ maxbits > BITS
             /\ s' = i /\ pc' = "worked" /\ res' = 1 /\ z' = <<>>
          \/ /\ ~i.short /\ maxbits <= BITS
             /\ s' = i /\ pc' = "resetbuf" /\ UNCHANGED res
             /\ z' = [maxbits |-> maxbits, block_mode |-> block, rsize |-> i.insize,
                      n_bits |-> INIT_BITS, maxcode |-> MAXCODE(INIT_BITS) - 1,
                      oldcode |-> -1, finchar |-> 0, posbits |-> 8 * i.inptr, inbits |-> 0,
                      at |-> i.at - i.insize, free_ent |-> IF block THEN FIRST ELSE CLEAR,
                      tab_prefix |-> [c \in 0..(MAXCODE(maxbits) - 1) |-> 0],
                      tab_suffix |-> [c \in 0..(MAXCODE(maxbits) - 1) |->
                                        IF c < CLEAR THEN c ELSE 0]]
    /\ UNCHANGED <<file, o>>

\* resetbuf: the bytes not used yet move to the front; when they are few, one
\* read() adds to them as many as it likes.
InBits(insize, rsize) == IF rsize # 0 THEN 8 * (insize - (insize % z.n_bits))
                         ELSE 8 * insize - (z.n_bits - 1)
Reads == LET most == Lesser(s.cap, Len(file) - s.at)
         IN IF most = 0 THEN {0} ELSE {1, most}
resetbuf ==
    /\ pc = "resetbuf"
    /\ LET used == z.posbits \div 8
           e == s.insize - used
       IN \E r \in (IF e < INBUF_EXTRA THEN Reads ELSE {0}) :
            LET rsize == IF e < INBUF_EXTRA THEN r ELSE z.rsize
            IN /\ s' = [s EXCEPT !.at = @ + r, !.insize = e + r, !.inptr = 0]
               /\ z' = [z EXCEPT !.at = @ + used, !.posbits = 0, !.rsize = rsize,
                                 !.inbits = InBits(e + r, rsize)]
    /\ pc' = "lzw"
    /\ UNCHANGED <<file, o, res>>

\* posbits after the group of eight codes it is in.
SameGroup(posbits, n_bits) == posbits      \* Mutant
NextGroup(posbits, n_bits) ==
    (posbits - 1) + (8 * n_bits - ((posbits - 1 + 8 * n_bits) % (8 * n_bits)))
InputCode == LET b(k) == LET p == z.at + z.posbits \div 8 + k + 1
                         IN IF p <= Len(file) THEN file[p] ELSE 0
             IN ((b(0) + 256 * b(1) + 65536 * b(2)) \div 2 ^ (z.posbits % 8)) % 2 ^ z.n_bits

\* The string a code stands for.
RECURSIVE StringOf(_)
StringOf(code) == IF code < CLEAR THEN <<z.tab_suffix[code]>>
                  ELSE Append(StringOf(z.tab_prefix[code]), z.tab_suffix[code])
Put(bytes) == FoldLeft(put_ubyte, o, bytes)

\* The code for the next entry.  The string of a code that is not there yet
\* (KwKwK) is the last one and its first character.
Decoded(code, at) ==
    LET new == code >= z.free_ent
        string == IF new THEN Append(StringOf(z.oldcode), z.finchar) ELSE StringOf(code)
    IN /\ o' = Put(string)
       /\ z' = [z EXCEPT !.posbits = at, !.finchar = string[1], !.oldcode = code,
                         !.free_ent = IF @ < MAXCODE(z.maxbits) THEN @ + 1 ELSE @,
                         !.tab_prefix = IF z.free_ent < MAXCODE(z.maxbits)
                                        THEN [@ EXCEPT ![z.free_ent] = z.oldcode] ELSE @,
                         !.tab_suffix = IF z.free_ent < MAXCODE(z.maxbits)
                                        THEN [@ EXCEPT ![z.free_ent] = string[1]] ELSE @]

Widened == z.free_ent > z.maxcode
LzwCode ==
    /\ pc = "lzw" /\ z.inbits > z.posbits
    /\ LET code == InputCode
           at == z.posbits + z.n_bits
           clear == code = CLEAR /\ z.block_mode
       IN \/ /\ Widened
             /\ z' = [z EXCEPT !.posbits = NextGroup(@, z.n_bits), !.n_bits = @ + 1,
                               !.maxcode = max_code(z.n_bits + 1, z.maxbits)]
             /\ pc' = "resetbuf" /\ UNCHANGED o
          \/ /\ ~Widened /\ z.oldcode = -1
             /\ IF code >= CLEAR THEN pc' = "abort" /\ UNCHANGED <<z, o>>
                ELSE /\ z' = [z EXCEPT !.posbits = at, !.finchar = code, !.oldcode = code]
                     /\ o' = put_ubyte(o, code) /\ UNCHANGED pc
          \/ /\ ~Widened /\ z.oldcode # -1 /\ clear
             /\ z' = [z EXCEPT !.posbits = NextGroup(at, z.n_bits), !.n_bits = INIT_BITS,
                               !.maxcode = MAXCODE(INIT_BITS) - 1, !.free_ent = FIRST - 1,
                               !.tab_prefix = [c \in DOMAIN @ |-> IF c < CLEAR THEN 0 ELSE @[c]]]
             /\ pc' = "resetbuf" /\ UNCHANGED o
          \/ /\ ~Widened /\ z.oldcode # -1 /\ ~clear /\ code <= z.free_ent
             /\ Decoded(code, at) /\ UNCHANGED pc
          \/ /\ ~Widened /\ z.oldcode # -1 /\ ~clear /\ code > z.free_ent
             /\ o' = flush_window(o) /\ pc' = "abort" /\ UNCHANGED z
    /\ UNCHANGED <<file, s, res>>

LzwEnd ==
    /\ pc = "lzw" /\ z.inbits <= z.posbits
    /\ IF z.rsize # 0 THEN pc' = "resetbuf" /\ UNCHANGED <<o, z, res>>
       ELSE o' = flush_window(o) /\ pc' = "worked" /\ res' = 0 /\ z' = <<>>
    /\ UNCHANGED <<file, s>>

Next == unlzw \/ resetbuf \/ LzwCode \/ LzwEnd
====
