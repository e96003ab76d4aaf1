----------------------------- MODULE BlockOutput -----------------------------
(***************************************************************************)
(* How compressed blocks become the bytes of the output file: the choice   *)
(* flush_block() makes between stored, static and dynamic, the bit buffer  *)
(* of bits.c, the byte buffer outbuf, the output vector of a context, and  *)
(* the vectors of the contexts written one after the other.                *)
(*                                                                         *)
(* A block is given as what flush_block compares: its bytes, whether they  *)
(* are still in the window, and the codes that represent it with the       *)
(* static and with its own trees.  A code is the sequence of its bits.  A  *)
(* context compresses a chunk, a sequence of blocks; an input is a         *)
(* sequence of chunks.  A step sends one code or copies one byte, or does  *)
(* the rest of flush_block on one side of them.                            *)
(***************************************************************************)
EXTENDS Integers, Sequences, FiniteSetsExt

CONSTANTS
    ByteBits,    \* the bits of a byte
    OUTBUFSIZ,
    Inputs       \* each a sequence of chunks of blocks [bytes, there, static, dynamic]

ASSUME ByteBitsAssumption == ByteBits \in Nat \ {0, 1}
ASSUME OutbufAssumption == OUTBUFSIZ \in Nat \ {0}

Buf_size == 2 * ByteBits

\* Bytes and unsigned shorts are functions from the places of their bits.
Bit == {0, 1}
Byte == [0 .. ByteBits - 1 -> Bit]
Short == [0 .. Buf_size - 1 -> Bit]

\* "length <= 16 and value fits in length bits" (bits.c:15)
Codes == {c \in Seq(Bit) : Len(c) <= Buf_size}

\* What is in the window is shorter than an unsigned short can say (WSIZE).
BlockSet ==
    {b \in [bytes : Seq(Byte), there : BOOLEAN, static : Seq(Codes), dynamic : Seq(Codes)] :
        b.there => Len(b.bytes) < 2 ^ Buf_size}
ASSUME InputAssumption == \A chunks \in Inputs : chunks \in Seq(Seq(BlockSet))

VARIABLES
    input,             \* what is left to compress
    out,               \* [bi_buf, bi_valid, outbuf, vector] of the context
    compressed_len,    \* zero until a block was flushed
    eof, codes, buf,   \* flush_block: the end bit, the codes to send, the bytes to copy
    file,              \* the bytes written
    sent,              \* history: the bits sent in this context
    stream,            \* history: the bits of the deflate stream (RFC 1951)
    raw, cut,          \* history: a block was sent bare, bits of a chunk were left
    pc

vars == <<input, out, compressed_len, eof, codes, buf, file, sent, stream, raw, cut, pc>>

-----------------------------------------------------------------------------
(* Bits and bytes.  A sequence of bits begins with the one sent first, the *)
(* lowest of its byte or value.                                            *)

Bits(w, length) == [k \in 1 .. length |-> w[k - 1]]
BitsOf(bytes) == [k \in 1 .. ByteBits * Len(bytes) |->
                    bytes[(k - 1) \div ByteBits + 1][(k - 1) % ByteBits]]
Padding(length) == [k \in 1 .. (-length) % ByteBits |-> 0]

\* The value of a code, the low 16 bits of a number, and the operators of C.
Value(code) == [k \in 0 .. Buf_size - 1 |-> IF k < Len(code) THEN code[k + 1] ELSE 0]
Word(n) == [k \in 0 .. Buf_size - 1 |-> IF (n \div 2 ^ k) % 2 = 1 THEN 1 ELSE 0]
Not(w) == [k \in 0 .. Buf_size - 1 |-> 1 - w[k]]
Or(v, w) == [k \in 0 .. Buf_size - 1 |-> IF v[k] = 1 \/ w[k] = 1 THEN 1 ELSE 0]
Left(w, n) == [k \in 0 .. Buf_size - 1 |-> IF k < n THEN 0 ELSE w[k - n]]
Right(w, n) == [k \in 0 .. Buf_size - 1 |-> IF k + n < Buf_size THEN w[k + n] ELSE 0]
Low(w) == [k \in 0 .. ByteBits - 1 |-> w[k]]
High(w) == [k \in 0 .. ByteBits - 1 |-> w[k + ByteBits]]

flush_outbuf(o) == [o EXCEPT !.vector = @ \o o.outbuf, !.outbuf = << >>]

put_byte(o, c) ==
    LET p == [o EXCEPT !.outbuf = Append(@, c)]
    IN  IF Len(p.outbuf) = OUTBUFSIZ THEN flush_outbuf(p) ELSE p

\* The low byte first.
put_short(o, w) == put_byte(put_byte(o, Low(w)), High(w))

\* Mutated: what does not fit is not kept for the next bytes.
send_bitsCut(o, code) ==
    LET both == Or(o.bi_buf, Left(Value(code), o.bi_valid))
    IN  IF o.bi_valid > Buf_size - Len(code)
        THEN [put_short(o, both) EXCEPT !.bi_buf = Word(0), !.bi_valid = @ + Len(code) - Buf_size]
        ELSE [o EXCEPT !.bi_buf = both, !.bi_valid = @ + Len(code)]

send_bits(o, code) ==
    LET both == Or(o.bi_buf, Left(Value(code), o.bi_valid))
    IN  IF o.bi_valid > Buf_size - Len(code)
        THEN [put_short(o, both) EXCEPT !.bi_buf = Right(Value(code), Buf_size - o.bi_valid),
                                        !.bi_valid = @ + Len(code) - Buf_size]
        ELSE [o EXCEPT !.bi_buf = both, !.bi_valid = @ + Len(code)]

bi_init(o) == [o EXCEPT !.bi_buf = [k \in 0 .. Buf_size - 1 |-> 0], !.bi_valid = 0]

bi_windup(o) ==
    bi_init(IF o.bi_valid > ByteBits THEN put_short(o, o.bi_buf)
            ELSE IF o.bi_valid > 0 THEN put_byte(o, Low(o.bi_buf)) ELSE o)

\* Mutated: the block begins in the middle of a byte.
copy_blockUnaligned(o, len, header) ==
    IF header THEN put_short(put_short(o, Word(len)), Not(Word(len))) ELSE o

\* copy_block, up to the bytes.
copy_block(o, len, header) ==
    LET p == bi_windup(o)
    IN  IF header THEN put_short(put_short(p, Word(len)), Not(Word(len))) ELSE p

-----------------------------------------------------------------------------
(* flush_block                                                              *)

Init ==
    /\ input \in Inputs
    /\ out = bi_init([bi_buf |-> 0, bi_valid |-> 0, outbuf |-> << >>, vector |-> << >>])
    /\ compressed_len = 0
    /\ eof = 0 /\ codes = << >> /\ buf = << >>
    /\ file = << >> /\ sent = << >> /\ stream = << >>
    /\ raw = FALSE /\ cut = FALSE
    /\ pc = "block"

Chunk == Head(input)
Block == Head(Chunk)
Rest == <<Tail(Chunk)>> \o Tail(input)

\* Mutated: what is whole already is rounded up as well.
AlignedTooFar(n) == n + ByteBits - (n % ByteBits)

Aligned(n) == LET m == n + ByteBits - 1 IN m - (m % ByteBits)

BitLength(cs) ==
    LET sum[k \in 0 .. Len(cs)] == IF k = 0 THEN 0 ELSE sum[k - 1] + Len(cs[k])
    IN  sum[Len(cs)]
InBytes(bits) == (bits + 3 + ByteBits - 1) \div ByteBits

stored_len == Len(Block.bytes)
static_lenb == InBytes(BitLength(Block.static))
opt_lenb == Min({InBytes(BitLength(Block.dynamic)), static_lenb})

\* The last block of the last chunk; a block flushed by ct_tally is never it.
IsLast == Len(Chunk) = 1 /\ Len(input) = 1
EofBit == IF IsLast THEN 1 ELSE 0

\* The bytes of a context's first block are there if it does not compress, so that
\* error("block vanished") is never reached.
WholeFileStored == stored_len <= opt_lenb /\ IsLast /\ compressed_len = 0
BlockStored == stored_len + 4 <= opt_lenb /\ Block.there

\* The type of a block, its low bit first, after the bit of the last block.
STORED_BLOCK == <<0, 0>>
STATIC_TREES == <<1, 0>>
DYN_TREES == <<0, 1>>
Header(type) == <<EofBit>> \o type

\* What RFC 1951 requires of a stored block before its bytes: the header, padding,
\* the length and its complement.
StoredOn(bits) ==
    LET begun == bits \o Header(STORED_BLOCK)
    IN  begun \o Padding(Len(begun)) \o Bits(Word(stored_len), Buf_size)
          \o Bits(Not(Word(stored_len)), Buf_size)

\* "The whole file is transformed into a stored file": its bytes alone.
FlushRaw ==
    /\ pc = "block" /\ input # << >> /\ Chunk # << >>
    /\ WholeFileStored
    /\ out' = copy_block(out, stored_len, FALSE)
    /\ buf' = Block.bytes
    /\ compressed_len' = ByteBits * stored_len
    /\ sent' = sent \o Padding(Len(sent))
    /\ stream' = StoredOn(stream)
    /\ eof' = EofBit
    /\ raw' = TRUE
    /\ pc' = "send"
    /\ UNCHANGED <<input, codes, file, cut>>

FlushStored ==
    /\ pc = "block" /\ input # << >> /\ Chunk # << >>
    /\ ~WholeFileStored /\ BlockStored
    /\ out' = copy_block(send_bits(out, Header(STORED_BLOCK)), stored_len, TRUE)
    /\ buf' = Block.bytes
    /\ compressed_len' = Aligned(compressed_len + 3) + ByteBits * (stored_len + 4)
    /\ sent' = StoredOn(sent)
    /\ stream' = StoredOn(stream)
    /\ eof' = EofBit
    /\ pc' = "send"
    /\ UNCHANGED <<input, codes, file, raw, cut>>

\* Static trees when they take no more bytes than the block's own, which are sent
\* first otherwise.
FlushTrees ==
    /\ pc = "block" /\ input # << >> /\ Chunk # << >>
    /\ ~WholeFileStored /\ ~BlockStored
    /\ LET static == static_lenb = opt_lenb
           header == Header(IF static THEN STATIC_TREES ELSE DYN_TREES)
       IN  /\ out' = send_bits(out, header)
           /\ codes' = IF static THEN Block.static ELSE Block.dynamic
           /\ compressed_len' = compressed_len + 3 + BitLength(codes')
           /\ sent' = sent \o header
           /\ stream' = stream \o header
    /\ eof' = EofBit
    /\ pc' = "send"
    /\ UNCHANGED <<input, buf, file, raw, cut>>

\* send_all_trees and compress_block, a code at a time.
SendCode ==
    /\ pc = "send" /\ codes # << >>
    /\ out' = send_bits(out, Head(codes))
    /\ sent' = sent \o Head(codes)
    /\ stream' = stream \o Head(codes)
    /\ codes' = Tail(codes)
    /\ UNCHANGED <<input, compressed_len, eof, buf, file, raw, cut, pc>>

\* The loop of copy_block, a byte at a time.
CopyByte ==
    /\ pc = "send" /\ buf # << >>
    /\ out' = put_byte(out, Head(buf))
    /\ sent' = sent \o Bits(Head(buf), ByteBits)
    /\ stream' = stream \o Bits(Head(buf), ByteBits)
    /\ buf' = Tail(buf)
    /\ UNCHANGED <<input, compressed_len, eof, codes, file, raw, cut, pc>>

AllSent ==
    /\ pc = "send" /\ codes = << >> /\ buf = << >>
    /\ pc' = "end"
    /\ UNCHANGED <<input, out, compressed_len, eof, codes, buf, file, sent, stream, raw, cut>>

\* The end of flush_block.  Only the last block of all is wound up.
EndBlock ==
    /\ pc = "end"
    /\ input' = Rest
    /\ IF eof = 1
       THEN /\ out' = bi_windup(out)
            /\ compressed_len' = compressed_len + 7
            /\ sent' = sent \o Padding(Len(sent))
            /\ stream' = stream \o Padding(Len(stream))
       ELSE UNCHANGED <<out, compressed_len, sent, stream>>
    /\ pc' = "block"
    /\ UNCHANGED <<eof, codes, buf, file, raw, cut>>

\* deflate_work ends with flush_outbuf; the vector goes to the file, in order, and
\* the next chunk begins with bi_init and a clean context.
FinishChunk ==
    /\ pc = "block" /\ input # << >> /\ Chunk = << >>
    /\ file' = file \o flush_outbuf(out).vector
    /\ out' = bi_init([flush_outbuf(out) EXCEPT !.vector = << >>])
    /\ compressed_len' = 0
    /\ sent' = << >>
    /\ cut' = (cut \/ (eof = 0 /\ out.bi_valid # 0))
    /\ input' = Tail(input)
    /\ UNCHANGED <<eof, codes, buf, stream, raw, pc>>

Done == pc = "block" /\ input = << >> /\ UNCHANGED vars

Next ==
    \/ FlushRaw \/ FlushStored \/ FlushTrees
    \/ SendCode \/ CopyByte \/ AllSent \/ EndBlock \/ FinishChunk \/ Done

Spec == Init /\ [][Next]_vars

-----------------------------------------------------------------------------
(* Properties                                                               *)

\* Whatever lengths are sent, and wherever the buffers fill, the vector, outbuf
\* and bi_buf together hold the bits sent in this context, in order, and "all bits
\* above the last valid bit are always zero" (bits.c:6), which send_bits relies on.
BitsKept ==
    /\ BitsOf(out.vector \o out.outbuf) \o Bits(out.bi_buf, out.bi_valid) = sent
    /\ \A k \in out.bi_valid .. Buf_size - 1 : out.bi_buf[k] = 0

\* Once everything is compressed the file is the deflate stream of its blocks,
\* unless the one block of the last chunk was sent bare or a chunk before it did
\* not end with a whole byte.
FileIsStream ==
    (pc = "block" /\ input = << >> /\ ~raw /\ ~cut) => BitsOf(file) = stream

\* The result flush_block computes is the length of what it wrote: at a block's
\* end compressed_len has counted every bit, save the padding of the last block.
LengthCounted ==
    pc = "end" => compressed_len = Len(sent)
=============================================================================
