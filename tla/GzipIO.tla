---- MODULE GzipIO ----
(***************************************************************************)
(* What the decoders of gzip-src share: the input buffer (util.c,          *)
(* gzip.h), the bits taken from it (inflate.c), and the output window.     *)
(*                                                                         *)
(* The input s: at bytes of the file have been read into inbuf, which      *)
(* holds the last insize of them; inptr is the next.  bb holds bk bits     *)
(* taken from the bytes but not used yet.  c: the byte or the bits just    *)
(* taken; short: the file ended where more was needed; cap: INBUFSIZ, so   *)
(* that one run covers several sizes.                                      *)
(*                                                                         *)
(* The output o: outcnt bytes in the window; text and bytes_out before     *)
(* them, and a checksum, of which only what tells texts apart is kept.     *)
(***************************************************************************)
EXTENDS Integers, Sequences

CONSTANTS
    INBUFSIZES,  \* the sizes of the input buffer
    WSIZE        \* the size of the window
ASSUME BufferAssumption == INBUFSIZES \subseteq Nat \ {0} /\ WSIZE \in Nat \ {0}

VARIABLES
    file,    \* the bytes of the input file
    s, o     \* input and output
streams == <<s, o>>

Lesser(a, b) == IF a < b THEN a ELSE b

NoInput(cap) == [at |-> 0, insize |-> 0, inptr |-> 0, bb |-> 0, bk |-> 0, c |-> 0,
                 short |-> FALSE, cap |-> cap]
NoOutput == [window |-> [i \in 0..(WSIZE - 1) |-> 0], outcnt |-> 0, text |-> <<>>,
             bytes_out |-> 0, crc |-> 0]

\* The bytes before the next one.
Position(i) == i.at - i.insize + i.inptr

\* fill_inbuf() reads until the buffer is full or the file ends; at the end
\* it leaves the buffer empty.
Filled(i, n) == [i EXCEPT !.at = @ + n, !.insize = n,
                          !.inptr = IF n = 0 THEN @ ELSE 0, !.short = n = 0]
fill_inbuf(i) == Filled(i, Lesser(i.cap, Len(file) - i.at))
NextByte(i) == IF i.short THEN i
               ELSE [i EXCEPT !.inptr = @ + 1, !.c = file[i.at - i.insize + i.inptr + 1]]
get_byte(i) == NextByte(IF i.inptr < i.insize THEN i ELSE fill_inbuf(i))

\* try_byte(): -1 at the end of the file.
OrEOF(i) == IF i.short THEN [i EXCEPT !.short = FALSE, !.c = -1] ELSE i
try_byte(i) == OrEOF(get_byte(i))
\* n bytes, as a sequence in c.
AddByte(bytes, i) == IF i.short THEN i ELSE [i EXCEPT !.c = Append(bytes, @)]
TakeBytes(i, n) ==
    LET read[k \in 0..n] == IF k = 0 THEN [i EXCEPT !.c = <<>>]
                            ELSE AddByte(read[k - 1].c, get_byte(read[k - 1]))
    IN read[n]

AddBits(i) == IF i.short THEN i ELSE [i EXCEPT !.bb = @ + i.c * 2 ^ i.bk, !.bk = @ + 8]
RECURSIVE NEEDBITS(_, _)
NEEDBITS(i, n) == IF i.bk >= n \/ i.short THEN i ELSE NEEDBITS(AddBits(get_byte(i)), n)
DUMPBITS(i, n) == [i EXCEPT !.bb = @ \div 2 ^ n, !.bk = @ - n]
Peek(i, n) == i.bb % 2 ^ n
\* NEEDBITS, the n bits, DUMPBITS.
Taken(i, n) == [DUMPBITS(i, n) EXCEPT !.c = Peek(i, n)]
TakeBits(i, n) == Taken(NEEDBITS(i, n), n)

\* updcrc() goes on from the checksum of the bytes before (by halves).
RECURSIVE Checksum(_, _, _, _)
Checksum(crc, bytes, lo, hi) ==
    IF lo > hi THEN crc
    ELSE IF lo = hi THEN (31 * crc + bytes[lo] + 1) % 65536
    ELSE LET mid == (lo + hi) \div 2
             half == Checksum(crc, bytes, lo, mid)
         IN IF half < 0 THEN half ELSE Checksum(half, bytes, mid + 1, hi)
updcrc(crc, bytes) == Checksum(crc, bytes, 1, Len(bytes))

Held(w) == [k \in 1..w.outcnt |-> w.window[k - 1]]
flush_window(w) == [w EXCEPT !.text = @ \o Held(w), !.crc = updcrc(@, Held(w)),
                            !.bytes_out = @ + w.outcnt, !.outcnt = 0]
FlushIfFull(w) == IF w.outcnt = WSIZE THEN flush_window(w) ELSE w
put_ubyte(w, c) == FlushIfFull([w EXCEPT !.window[w.outcnt] = c, !.outcnt = @ + 1])

\* Everything written, the bytes still in the window included.
Produced(w) == w.text \o Held(w)
====
