---- MODULE MCGzipDeflate ----
(***************************************************************************)
(* Files of up to 50 bytes against a window of 2 * 16, with a match length *)
(* of 5: long enough for the window to slide twice, and for blocks whose   *)
(* start has left it.                                                      *)
(***************************************************************************)
EXTENDS GzipDeflate, Bitwise, TLC

CONSTANT HASH_BITS

\* The hash function of the code.
H_SHIFT == (HASH_BITS + MIN_MATCH - 1) \div MIN_MATCH
XorTable == [h \in HashKeys, c \in Bytes |-> ((h * 2 ^ H_SHIFT) ^^ c) % 2 ^ HASH_BITS]
XorHash(h, c) == XorTable[h, c]

\* Three of the ten rows, scaled: fast without and with search, and lazy.
MCTable == (1 :> [good |-> 4, lazy |-> 3, nice |-> 5, chain |-> 4])
        @@ (4 :> [good |-> 4, lazy |-> 4, nice |-> 4, chain |-> 4])
        @@ (9 :> [good |-> 5, lazy |-> 5, nice |-> 5, chain |-> 8])

\* Repeats at many distances, with a change every few bytes.
Sample(n, a, b) == [i \in 1..n |-> ((i % a) + (i \div b)) % 5]
Constant(n) == [i \in 1..n |-> 3]
\* Strings of which only the third bytes differ, after a start that hashes
\* like them.
Starts == {<<x, y, z>> \o <<1, 2, x, y, w, 0>> : x \in {0, 4}, y \in {0, 1, 4}, z \in {3}, w \in {3, 7}}

\* A long match, of which deflate_fast leaves out the strings, and then a string that
\* a wrong hash would take for the one after next but for its third byte.
Skips == {<<7, 1, 2, 3, 4, 1, 2, 3, 4, a, b, a, b, c, b, a, b, c, b, c>> :
            a \in {2, 6}, b \in {2, 3}, c \in {2, 6}}

MCInputs == {Sample(50, a, b) : a \in {3, 4, 7}, b \in {5, 11}}
            \cup {Sample(n, 4, 5) : n \in {23, 25, 31, 32, 33, 40}}
            \cup {Constant(n) : n \in {0, 1, 2, 3, 9, 48}}
            \cup {s \o s : s \in Starts} \cup Skips

\* Files during whose compression the race on m spoils an entry.
RacedFiles == {Sample(36, 3, 11), Sample(38, 7, 5)}
OneMixed(f) == IF f \in RacedFiles THEN 1 ELSE 0
MCRaced == MCInputs \cup RacedFiles

\* A file whose end falls in the last bytes of the window.
EndInputs == {Sample(28, a, b) : a \in {3, 4, 7}, b \in {5, 11}} \cup {Constant(27)}
====
