--------------------------- MODULE MCMatchFinder ---------------------------
(***************************************************************************)
(* Blocks for MatchFinder to compress.                                     *)
(***************************************************************************)
EXTENDS MatchFinder, Bitwise

CONSTANT HASH_BITS

\* The hash function of the code.
H_SHIFT == (HASH_BITS + MIN_MATCH - 1) \div MIN_MATCH
XorHash(h, c) == ((h * 2 ^ H_SHIFT) ^^ c) % 2 ^ HASH_BITS

\* A short word repeated, with a byte changed: repetitions at every distance,
\* broken at every place.
Repeated(word, length) == [i \in 1 .. length |-> word[((i - 1) % Len(word)) + 1]]
Flipped(s, i) == [s EXCEPT ![i] = (@ + 1) % 4]

\* The last one repeats itself only out of reach of a match.
Words == {<<0>>, <<0, 2>>, <<0, 3, 1, 0, 3>>, <<0, 0, 1, 0, 1, 1, 1>>,
          <<0, 0, 1, 1, 2, 2, 3, 3>>}

\* A block that is shorter than a match, one that ends just inside the window,
\* and two that make it slide, once and more than once.
Lengths == {2, 27, 33, 52}

MCInputs ==
    UNION {{Repeated(w, n)} \cup {Flipped(Repeated(w, n), i) : i \in {k \in 1 .. n : k % 7 = 3}} :
              w \in Words, n \in Lengths}
MCStale == {0, 1}
=============================================================================
