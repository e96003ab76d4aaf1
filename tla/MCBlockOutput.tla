---------------------------- MODULE MCBlockOutput ----------------------------
(***************************************************************************)
(* Inputs for BlockOutput, with bytes of two bits: blocks that compress    *)
(* with codes of one to three bits, and blocks that do not.                *)
(***************************************************************************)
EXTENDS BlockOutput

CodeSet == {<<0>>, <<1>>, <<0, 1>>, <<1, 0, 1>>, <<0, 1, 1>>}
Dear == [i \in 1 .. 6 |-> <<1, 0, 1>>]

Long == <<0, 1, 2, 3, 1, 2, 1, 0>>

BlockOf(bs, there, static, dynamic) ==
    [bytes |-> [i \in DOMAIN bs |-> Low(Word(bs[i]))], there |-> there, static |-> static, dynamic |-> dynamic]

StaticBlocks == {BlockOf(Long, TRUE, <<a, b>>, Dear) : a \in CodeSet, b \in CodeSet}
DynamicBlocks == {BlockOf(Long, TRUE, Dear, <<a>>) : a \in CodeSet}
StoredBlocks == {BlockOf(bs, TRUE, Dear, Dear) : bs \in {<<1>>, <<3, 2>>, <<2, 0, 3>>}}

\* A block whose beginning has left the window; never the first of a chunk.
GoneBlock == BlockOf(<<3, 2>>, FALSE, Dear, Dear)

Blocks == StaticBlocks \cup DynamicBlocks \cup StoredBlocks
SomeBlocks == DynamicBlocks \cup StoredBlocks
LaterBlocks == SomeBlocks \cup {GoneBlock}

\* One chunk of up to three blocks, or two chunks.
MCInputs ==
    {<< <<b>> >> : b \in Blocks}
    \cup {<< <<a, b>> >> : a \in Blocks, b \in LaterBlocks}
    \cup {<< <<a, b, c>> >> : a \in SomeBlocks, b \in LaterBlocks, c \in LaterBlocks}
    \cup {<< <<a>>, <<b>> >> : a \in Blocks, b \in SomeBlocks}
    \cup {<< <<a>>, <<b, c>> >> : a \in Blocks, b \in SomeBlocks, c \in LaterBlocks}

\* README:28, pgzip "implements true gzip parallelism": the blocks compressed by
\* different threads make one deflate stream.
ChunksMakeStream == (pc = "block" /\ input = << >> /\ ~raw) => BitsOf(file) = stream

\* trees.c:590-592, the bytes go out bare only "if this is the first and last block,
\* and if the zip file can be seeked (to rewrite the local header)"; pgzip never
\* rewrites it, so that the file has to be a deflate stream all the same.
StoredFileReadable == (pc = "block" /\ input = << >> /\ ~cut) => BitsOf(file) = stream
=============================================================================
