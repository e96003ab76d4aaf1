---- MODULE MCPgzipFile ----
(***************************************************************************)
(* Command lines with every option, in the usual and in unusual places, and *)
(* files of up to two blocks; three blocks for safety alone.                *)
(***************************************************************************)
EXTENDS PgzipFile

Word(w) == [word |-> w, num |-> -1]
Num(n) == [word |-> "number", num |-> n]
b == Word("-b")
t == Word("-t")
f == Word("-f")

Scene(args, size, old, r) == [argv |-> args, size |-> size, out |-> old, readable |-> r]

MCScenes ==
    {Scene(<<f>>, 2, "old", TRUE), Scene(<<b, f>>, 1, "old", TRUE), Scene(<<t, f>>, 1, "old", TRUE),
     Scene(<<b, t, Num(1), f>>, 2, "old", TRUE), Scene(<<b, Num(2)>>, 3, "absent", TRUE),
     Scene(<< >>, 1, "old", FALSE), Scene(<< >>, -1, "old", TRUE),
     Scene(<<b, Num(0), t, Num(1)>>, 1, "absent", TRUE), Scene(<<t, Num(0)>>, 1, "absent", TRUE),
     Scene(<<b>>, 1, "absent", TRUE), Scene(<<f, b, Num(1), t>>, 1, "old", TRUE),
     Scene(<<f, Word("decompress")>>, 1, "old", TRUE),
     Scene(<<b, Num(3)>>, 0, "absent", TRUE)}

ThreeBlocks ==
    {Scene(<<t, f>>, 3, "old", TRUE), Scene(<<b, Num(1), t, Num(3)>>, 3, "absent", TRUE)}
====
