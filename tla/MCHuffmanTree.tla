--------------------------- MODULE MCHuffmanTree ---------------------------
(***************************************************************************)
(* Trees for HuffmanTree.  The small ones have five symbols with every     *)
(* choice of frequencies, or seven whose code overflows by several leaves; *)
(* symbols from 3 on have extra bits.  The tree of bit lengths is the one  *)
(* of a text of 8191 bytes in which 145 different bytes occur.             *)
(***************************************************************************)
EXTENDS HuffmanTree, Sequences, TLC

Fibonacci == <<1, 1, 2, 3, 5, 8, 13>>
Rising == [i \in 0 .. 6 |-> Fibonacci[i + 1]]
Falling == [i \in 0 .. 6 |-> Fibonacci[7 - i]]

MCFrequencies == {[i \in 0 .. 6 |-> IF i < 5 THEN f[i] ELSE 0] : f \in [0 .. 4 -> {0, 1, 2, 3, 5}]}
                 \cup {Rising, Falling}
MCExtraBits == [i \in 3 .. 6 |-> (i - 1) \div 2]
MCStaticLengths == [i \in 0 .. 6 |-> IF i = 0 THEN 2 ELSE 3]

\* How often scan_tree meets each bit length, and 18, the repeated zeros.
BlFreq ==
    1 :> 2 @@ 5 :> 25 @@ 6 :> 2 @@ 7 :> 5 @@ 8 :> 9 @@ 9 :> 48 @@ 10 :> 1 @@ 11 :> 21
      @@ 12 :> 33 @@ 13 :> 2 @@ 18 :> 1
MCBlFrequencies == {[i \in 0 .. 18 |-> IF i \in DOMAIN BlFreq THEN BlFreq[i] ELSE 0]}
MCBlExtraBits == [i \in 0 .. 18 |-> IF i = 16 THEN 2 ELSE IF i = 17 THEN 3
                                    ELSE IF i = 18 THEN 7 ELSE 0]
=============================================================================
