----------------------------- MODULE BlockStream -----------------------------
(***************************************************************************)
(* What a block compressor promises its caller: blocks are read in order,  *)
(* compressed in any order, and each is emitted after it was compressed    *)
(* and after all the blocks before it.  ParallelDeflate implements it.     *)
(***************************************************************************)
EXTENDS Integers, Sequences

CONSTANT Blocks   \* the blocks of the input, compressed, in order

VARIABLES
    taken,       \* how many blocks were read
    compressed,  \* the numbers of the blocks compressed
    emitted      \* the output, a sequence of compressed blocks

streamVars == <<taken, compressed, emitted>>

Init == taken = 0 /\ compressed = {} /\ emitted = << >>

Take ==
    /\ taken < Len(Blocks)
    /\ taken' = taken + 1
    /\ UNCHANGED <<compressed, emitted>>

Compress(i) ==
    /\ i \in 1 .. taken /\ i \notin compressed
    /\ compressed' = compressed \cup {i}
    /\ UNCHANGED <<taken, emitted>>

Emit ==
    /\ Len(emitted) + 1 \in compressed
    /\ emitted' = Append(emitted, Blocks[Len(emitted) + 1])
    /\ UNCHANGED <<taken, compressed>>

Next == Take \/ (\E i \in DOMAIN Blocks : Compress(i)) \/ Emit

Spec == Init /\ [][Next]_streamVars
=============================================================================
