---- MODULE Gunzip ----
(***************************************************************************)
(* gzip -d of gzip-src on one input: get_method() (gzip.c) reads the       *)
(* header of a member and chooses the decoder, the decoder (unzip.c, ...)  *)
(* writes what the member holds, and the loop of treat_file() goes on with *)
(* the next member.  A scene is a file with its options, what it should    *)
(* decompress to, and where its members end.                               *)
(***************************************************************************)
EXTENDS GzipIO
LOCAL INSTANCE SequencesExt

CONSTANTS
    Scenes,
    lbits, dbits, MAX_PEEK, CTABLE, PTABLE,      \* bits of the decoders' tables
    SCALE, BITS, INBUF_EXTRA                     \* sizes of unlzw()

VARIABLES
    scene,
    g,       \* the globals of gzip.c and unzip.c
    z, pc,   \* the decoder's own variables, the place in the program
    res      \* what the decoder returns
vars == <<file, s, o, scene, g, z, pc, res>>

OK == 0
ERROR == 1
WARNING == 2
STORED == 0
COMPRESSED == 1
PACKED == 2
LZHED == 3
DEFLATED == 8

I == INSTANCE Inflate
U == INSTANCE Unpack
W == INSTANCE Unlzw
H == INSTANCE Unlzh

Init == /\ scene \in Scenes
        /\ file = scene.file
        /\ \E cap \in INBUFSIZES : cap >= scene.mincap /\ s = NoInput(cap)
        /\ o = NoOutput
        /\ g = [method |-> -1, part_nb |-> 0, last_member |-> FALSE, exit_code |-> OK,
                work |-> "unzip", pkzip |-> FALSE, ext_header |-> FALSE, orig |-> <<>>]
        /\ z = I!NoBlock /\ pc = "method" /\ res = 0

Goto(label, i) == I!Goto(label, i)
fixed == <<file, scene>>

(***************************************************************************)
(* get_method()                                                            *)
(***************************************************************************)
Flag(f, b) == (f \div b) % 2 = 1
CONTINUATION == 2
EXTRA_FIELD == 4
ORIG_NAME == 8
COMMENT == 16
ENCRYPTED == 32
RESERVED == {64, 128}

Short2(b) == b[1] + 256 * b[2]
Bytes4(v) == <<v % 256, v \div 256, 0, 0>>
GZIP_MAGIC == <<31, 139>>
OLD_GZIP_MAGIC == <<31, 158>>
PKZIP_MAGIC == <<80, 75, 3, 4>>
PACK_MAGIC == <<31, 30>>
LZW_MAGIC == <<31, 157>>
LZH_MAGIC == <<31, 160>>

\* A string up to its null byte.
RECURSIVE SkipString(_)
SkipString(i) == LET Go(b) == IF b.short \/ b.c = 0 THEN b ELSE SkipString(b)
                 IN Go(get_byte(i))

\* After the flags: time stamp, extra flags, system, and the optional fields.
SkipExtra(len) == IF len.short THEN len ELSE TakeBytes(len, Short2(len.c))
Extra(i, f) == IF Flag(f, EXTRA_FIELD) THEN SkipExtra(TakeBytes(i, 2)) ELSE i
Name(i, f) == IF Flag(f, ORIG_NAME) THEN SkipString(i) ELSE i
Comment(i, f) == IF Flag(f, COMMENT) THEN SkipString(i) ELSE i
Part(i, f) == IF Flag(f, CONTINUATION) THEN TakeBytes(i, 2) ELSE i
\* Mutant: the part number is not read.
HeaderFieldsNoPart(i, f) == Comment(Name(Extra(TakeBytes(i, 6), f), f), f)
HeaderFields(i, f) == Comment(Name(Extra(Part(TakeBytes(i, 6), f), f), f), f)

\* Byte k of the input buffer.
Inbuf(i, k) == file[i.at - i.insize + k + 1]
\* A local header of a zip file at the start of the buffer.
LOCHDR == 30
ZipHeaderEnd(i) == LOCHDR + Inbuf(i, 26) + 256 * Inbuf(i, 27)
                          + Inbuf(i, 28) + 256 * Inbuf(i, 29)

\* The first two bytes; with -cf the file may be shorter.
Lenient == scene.force > 0 /\ scene.to_stdout
ReadByte(i) == IF Lenient THEN try_byte(i) ELSE get_byte(i)
Magic == LET Both(a) == [ReadByte(a) EXCEPT !.c = <<a.c, @>>]
         IN Both(ReadByte(s))

NotSupported(f) == Flag(f, ENCRYPTED)
Doubtful(f) == Flag(f, CONTINUATION) \/ \E b \in RESERVED : Flag(f, b)

Refused(m) == /\ g' = [m EXCEPT !.method = -1, !.exit_code = ERROR]
              /\ pc' = "close"
Accepted(m, method, work) == g' = [m EXCEPT !.method = method, !.work = work]
                             /\ pc' = work

\* The flags f of a deflated member, and the rest of its header.
GzipFlags(m, i, f) ==
    \/ i.short /\ Goto("abort", i) /\ g' = m
    \/ /\ ~i.short
       /\ NotSupported(f) \/ (Doubtful(f) /\ scene.force <= 1)
       /\ Refused(m) /\ s' = i
    \/ /\ ~i.short /\ ~NotSupported(f)
       /\ Doubtful(f) => scene.force > 1
       /\ \E h \in {HeaderFields(i, f)} : Goto("unzip", [h EXCEPT !.c = 0])
       /\ g' = [m EXCEPT !.method = DEFLATED, !.work = "unzip",
                         !.exit_code = IF Doubtful(f) THEN ERROR ELSE @]

\* The method is looked at before the flags are read.
GzipMember(m, i) ==
    \/ i.short /\ Goto("abort", i) /\ g' = m
    \/ ~i.short /\ i.c[1] # DEFLATED /\ Refused(m) /\ s' = i
    \/ /\ ~i.short /\ i.c[1] = DEFLATED
       /\ \E f \in {TakeBytes(i, 1)} : GzipFlags(m, f, IF f.short THEN 0 ELSE f.c[1])

\* check_zipfile(): the header is whole, the entry not encrypted.
ZipReadable(i) == /\ i.insize >= LOCHDR /\ ZipHeaderEnd(i) <= i.insize
                  /\ Inbuf(i, 8) \in {STORED, DEFLATED} /\ ~Flag(Inbuf(i, 6), 1)
ZipMember(m, i) ==
    \/ ~ZipReadable(i) /\ Refused(m) /\ s' = i
    \/ /\ ZipReadable(i)
       /\ s' = [i EXCEPT !.inptr = ZipHeaderEnd(i), !.c = 0]
       /\ Accepted([m EXCEPT !.last_member = TRUE, !.pkzip = TRUE,
                             !.ext_header = Flag(Inbuf(i, 6), 8)], Inbuf(i, 8), "unzip")

IsZip(i) == /\ i.inptr = 2 /\ i.insize >= 4
            /\ \A k \in 0..3 : Inbuf(i, k) = PKZIP_MAGIC[k + 1]

\* After the first member, anything else is trailing garbage; when it begins
\* with a zero byte and goes on, from the third byte, with zeros, it is passed
\* over without a warning.
RECURSIVE SkipZeros(_)
SkipZeros(i) == IF i.c = 0 THEN SkipZeros(try_byte(i)) ELSE i
Garbage(m, i) ==
    IF i.c[1] = 0 /\ SkipZeros([i EXCEPT !.c = 0]).c = -1
    THEN g' = [m EXCEPT !.method = -3]
    ELSE g' = [m EXCEPT !.method = -2, !.exit_code = IF @ = OK THEN WARNING ELSE @]

\* The first two bytes are in i.c.
Recognized == {GZIP_MAGIC, OLD_GZIP_MAGIC, PACK_MAGIC, LZW_MAGIC, LZH_MAGIC}
Chosen(m, i) ==
    \/ /\ i.c \in {GZIP_MAGIC, OLD_GZIP_MAGIC}
       /\ \E f \in {TakeBytes(i, 1)} : GzipMember(m, f)
    \/ IsZip(i) /\ ZipMember(m, i)
    \/ i.c = PACK_MAGIC /\ Accepted(m, PACKED, "unpack") /\ s' = [i EXCEPT !.c = 0]
    \/ /\ i.c = LZW_MAGIC
       /\ Accepted([m EXCEPT !.last_member = TRUE], COMPRESSED, "unlzw")
       /\ s' = [i EXCEPT !.c = 0]
    \/ /\ i.c = LZH_MAGIC
       /\ Accepted([m EXCEPT !.last_member = TRUE], LZHED, "unlzh")
       /\ s' = [i EXCEPT !.c = 0]
    \/ /\ i.c \notin Recognized /\ ~IsZip(i)
       /\ \/ /\ Lenient
             /\ Accepted([m EXCEPT !.last_member = TRUE], STORED, "copy")
             /\ s' = [i EXCEPT !.inptr = 0, !.c = 0]
          \/ /\ ~Lenient /\ m.part_nb = 1
             /\ Refused(m) /\ s' = [i EXCEPT !.c = 0]
          \/ /\ ~Lenient /\ m.part_nb > 1
             /\ Garbage(m, i) /\ pc' = "close" /\ s' = [i EXCEPT !.c = 0]
get_method ==
    /\ pc = "method"
    /\ \E i \in {Magic} :
       \E m \in {[g EXCEPT !.method = -1, !.part_nb = @ + 1, !.last_member = FALSE]} :
          \/ i.short /\ Goto("abort", i) /\ g' = m
          \/ ~i.short /\ Chosen(m, i)
    /\ o' = [o EXCEPT !.bytes_out = 0]
    /\ UNCHANGED <<fixed, z, res>>

(***************************************************************************)
(* unzip(), copy() and the loop over the members                           *)
(***************************************************************************)
ZipCrc == 14
ZipSize == 18
ZipLength == 22
Inbuf4(k) == [n \in 1..4 |-> Inbuf(s, k + n - 1)]

\* Up to the decoder; for a zip file without extended header, the checksum and
\* the length are those of the local header.
unzip ==
    /\ pc = "unzip"
    /\ o' = [o EXCEPT !.crc = 0]
    /\ \/ g.method = DEFLATED /\ pc' = "inflate" /\ UNCHANGED z
       \/ /\ g.method = STORED
          /\ IF Inbuf4(ZipLength) = Inbuf4(ZipSize)
             THEN pc' = "copystored" /\ z' = [z EXCEPT !.n = Short2(Inbuf4(ZipLength))]
             ELSE pc' = "abort" /\ UNCHANGED z
    /\ g' = [g EXCEPT !.orig = IF g.pkzip /\ ~g.ext_header
                               THEN Inbuf4(ZipCrc) \o Inbuf4(ZipLength) ELSE <<>>]
    /\ UNCHANGED <<fixed, s, res>>

CopyStored ==
    /\ pc = "copystored"
    /\ IF z.n = 0
       THEN o' = flush_window(o) /\ pc' = "worked" /\ res' = 0 /\ UNCHANGED <<s, z>>
       ELSE LET b == get_byte(s)
            IN /\ Goto("copystored", b) /\ UNCHANGED res
               /\ z' = [z EXCEPT !.n = @ - 1]
               /\ o' = IF b.short THEN o ELSE put_ubyte(o, b.c)
    /\ UNCHANGED <<fixed, g>>

\* The checksum and the length behind the data.
Extended(i) == IF i.short THEN i ELSE [i EXCEPT !.c = SubSeq(@, 5, 8) \o SubSeq(@, 13, 16)]
Trailer == IF ~g.pkzip THEN TakeBytes(s, 8)
           ELSE IF g.ext_header THEN Extended(TakeBytes(s, 16))
           ELSE [s EXCEPT !.c = g.orig]
MoreEntries(i) == /\ g.pkzip /\ i.inptr + 4 < i.insize
                  /\ \A k \in 0..3 : Inbuf(i, i.inptr + k) = PKZIP_MAGIC[k + 1]
ValidLength(i) == SubSeq(i.c, 5, 8) = Bytes4(o.bytes_out)      \* Mutant
Valid(i) == i.c = Bytes4(o.crc) \o Bytes4(o.bytes_out)

\* After unzip()'s decoder.
Unzipped ==
    /\ pc = "worked" /\ g.work = "unzip"
    /\ \E i \in {Trailer} : \E many \in {MoreEntries(i)} :
       \E m \in {[g EXCEPT !.pkzip = FALSE, !.ext_header = FALSE]} :
       \E good \in {~i.short /\ Valid(i) /\ (many => scene.to_stdout)} :
          \/ /\ res # 0 \/ i.short
             /\ pc' = "abort" /\ s' = i /\ UNCHANGED g
          \/ /\ res = 0 /\ ~i.short /\ good
             /\ g' = [m EXCEPT !.exit_code = IF many /\ @ = OK THEN WARNING ELSE @]
             /\ s' = [i EXCEPT !.c = 0] /\ pc' = "member"
          \/ /\ res = 0 /\ ~i.short /\ ~good
             /\ g' = [m EXCEPT !.exit_code = ERROR, !.method = -1]
             /\ s' = [i EXCEPT !.c = 0]
             /\ pc' = IF scene.test THEN "close" ELSE "abort"
    /\ UNCHANGED <<fixed, o, z, res>>

\* After another decoder.
Worked ==
    /\ pc = "worked" /\ g.work # "unzip"
    /\ \/ res = 0 /\ pc' = "member" /\ UNCHANGED g
       \/ res # 0 /\ pc' = "close" /\ g' = [g EXCEPT !.method = -1, !.exit_code = ERROR]
    /\ UNCHANGED <<fixed, s, o, z, res>>

\* copy(): the buffer, then what read() returns until the end.
copy ==
    /\ pc = "copy"
    /\ o' = [o EXCEPT !.text = IF s.insize = 0 THEN @
                               ELSE @ \o SubSeq(file, s.at - s.insize + 1, Len(file))]
    /\ pc' = "member" /\ UNCHANGED <<fixed, s, g, z, res>>

\* input_eof(), between two members.
input_eof ==
    /\ pc = "member"
    /\ \/ g.last_member /\ pc' = "close" /\ UNCHANGED s
       \/ ~g.last_member /\ s.inptr < s.insize /\ pc' = "method" /\ UNCHANGED s
       \/ /\ ~g.last_member /\ s.inptr = s.insize
          /\ LET f == fill_inbuf(s)
             IN IF s.insize # s.cap \/ f.short
                THEN pc' = "close" /\ UNCHANGED s
                ELSE pc' = "method" /\ s' = f
    /\ UNCHANGED <<fixed, o, g, z, res>>

Ended == pc \in {"close", "abort"} /\ UNCHANGED vars

Decoders == (I!Next \/ U!Next \/ W!Next \/ H!Next) /\ UNCHANGED <<scene, g>>
Next == get_method \/ unzip \/ CopyStored \/ Unzipped \/ Worked \/ copy \/ input_eof
        \/ Decoders \/ Ended
Spec == Init /\ [][Next]_vars

(***************************************************************************)
(* Properties                                                              *)
(***************************************************************************)
\* What each scene is: a file with what it should decompress to (want), the
\* places where its members end, whether gzip should decompress it and with
\* which exit status (good, code), and whether its format has a checksum or a
\* length to notice damage by (checked).
Ends == pc \in {"close", "abort"}

\* A good file gives what was compressed, all of it, with the exit status the
\* manual states, whatever the size of the input buffer.
Restores == scene.good /\ Ends => /\ pc = "close" /\ Produced(o) = scene.want
                                  /\ g.exit_code = scene.code

\* When gzip exits with OK, a file with checks was not damaged: what was
\* decompressed is what was compressed.
DamageNoticed == pc = "close" /\ g.exit_code = OK /\ scene.checked
                   => Produced(o) = scene.want

\* A decoder leaves the input where its data end, before the checksum and the
\* length: it has put back what it looked at too early.
AtMemberEnd == pc = "worked" /\ scene.good /\ ~g.last_member
                 => Position(s) + (IF g.work = "unzip" THEN 8 ELSE 0) \in scene.ends

\* Up to where a file is cut off, what is decompressed is right.
PrefixRight == scene.cut => IsPrefix(Produced(o), scene.want)
====
