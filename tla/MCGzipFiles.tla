---- MODULE MCGzipFiles ----
(***************************************************************************)
(* File systems of a few names, with the options and the arguments of one  *)
(* command.  The stem "l" leaves no room for a suffix.                     *)
(***************************************************************************)
EXTENDS GzipFiles, TLC

MCStems == {"a", "b", "d", "l", "x"}
MCInDir == {"x"}
MCRoom == [s \in MCStems |-> IF s = "l" THEN 1 ELSE 9]

A == Name("a", <<>>)
Agz == Name("a", <<".gz">>)
Az == Name("a", <<".z">>)
B == Name("b", <<>>)
Bgz == Name("b", <<".gz">>)
L == Name("l", <<>>)
Lgz == [Name("l", <<".gz">>) EXCEPT !.cut = 2]
X == Name("x", <<>>)
Xgz == Name("x", <<".gz">>)
D == Name("d", <<>>)

Body(d, n) == [kind |-> "file", doc |-> d, gz |-> n, whole |-> TRUE, orig |-> None,
               tail |-> "end", to |-> None]
DirBody == [Body(90, 0) EXCEPT !.kind = "dir"]
LinkTo(nm) == [Body(91, 0) EXCEPT !.kind = "link", !.to = Key(nm)]

\* The i-th name holds the i-th body.
Scene(o, as, names, bodies) ==
    [opt |-> o, args |-> as, body |-> bodies,
     disk |-> [k \in {Key(names[i]) : i \in DOMAIN names} |->
                 CHOOSE i \in DOMAIN names : Key(names[i]) = k]]

Zip == Options(<<>>)
Unzip == Options(<<"d">>)

MCScenes == {
    \* gzip a b, with a.gz there; in the foreground, the background and with -f
    Scene(o, <<A, B>>, <<A, B, Agz>>, <<Body(1, 0), Body(2, 0), Body(3, 1)>>)
      : o \in {Zip, [Zip EXCEPT !.tty = FALSE], Options(<<"f">>)}}
  \cup {
    \* gunzip a b, with b there; a.gz is sound, followed by garbage or by a
    \* member that cannot be read
    Scene(o, <<A, Bgz>>, <<B, Agz, Bgz>>,
          <<Body(1, 0), [Body(2, 1) EXCEPT !.tail = t], Body(3, 1)>>)
      : o \in {Unzip, Options(<<"d", "v", "q">>)}, t \in {"end", "garbage", "unknown"}}
  \cup {
    \* gunzip -N, where the stored name is that of another file
    Scene(Options(<<"d", "n", "N">>), <<Agz>>, <<Agz, B>>,
          <<[Body(1, 1) EXCEPT !.orig = B], Body(2, 0)>>),
    \* gzip -r, of files of which one is compressed already
    Scene(Options(<<"r">>), <<D>>, <<D, X, Name("x", <<".z">>)>>,
          <<DirBody, Body(1, 0), Body(2, 1)>>),
    \* gunzip -r, of a file compressed twice
    Scene(Options(<<"d", "r">>), <<D>>, <<D, Name("x", <<".gz", ".gz">>)>>,
          <<DirBody, Body(1, 2)>>),
    \* gzip d a, a directory without -r, and a link without and with -f
    Scene(Zip, <<D, A>>, <<D, X, A, B>>, <<DirBody, Body(1, 0), LinkTo(B), Body(2, 0)>>),
    Scene(Options(<<"f">>), <<A, B>>, <<A, B, Agz>>,
          <<LinkTo(B), Body(2, 0), LinkTo(B)>>),
    \* gzip of a name that leaves no room for the suffix, and of a name whose
    \* shortened form is taken
    Scene(Zip, <<L>>, <<L, Lgz>>, <<Body(1, 0), Body(2, 1)>>),
    Scene([Zip EXCEPT !.silent = FALSE], <<L>>, <<L, Lgz>>, <<Body(1, 0), Body(2, 1)>>),
    Scene(Options(<<"f">>), <<L, A>>, <<L, A>>, <<Body(1, 0), Body(2, 0)>>),
    \* gunzip -c and -t, of a good, a truncated and a plain file; -cf is cat
    Scene(Options(<<"t">>), <<Agz, A, B>>, <<Agz, A, B>>,
          <<[Body(1, 1) EXCEPT !.whole = FALSE], Body(2, 1), Body(3, 0)>>),
    Scene(Options(<<"d", "c", "f">>), <<A, B>>, <<Az, B>>,
          <<Body(1, 1), Body(2, 0)>>),
    \* gzip -l
    Scene(Options(<<"l">>), <<Agz, B>>, <<Agz, B>>, <<Body(1, 1), Body(2, 0)>>),
    \* gunzip of a truncated file, gunzip of a .tgz
    Scene(Unzip, <<Agz, Name("b", <<".tgz">>)>>, <<Agz, Name("b", <<".tgz">>)>>,
          <<[Body(1, 1) EXCEPT !.whole = FALSE], Body(2, 1)>>),
    \* gunzip -f of two files with one output, and gunzip b.gz a.gz b, where a.gz
    \* cannot be read and b is what the first one became
    Scene(Options(<<"d", "f">>), <<Az, Agz>>, <<Az, Agz>>, <<Body(1, 1), Body(2, 1)>>),
    Scene(Unzip, <<Bgz, Agz, B>>, <<Agz, Bgz>>,
          <<[Body(1, 1) EXCEPT !.tail = "unknown"], Body(2, 1)>>),
    \* gzip -f of a file and of a link to it
    Scene(Options(<<"f">>), <<A, B>>, <<A, B>>, <<Body(1, 0), LinkTo(A)>>),
    \* the standard input, before and after a file
    Scene(Unzip, <<Stdin, Agz>>, <<Agz>>, <<Body(1, 1)>>),
    Scene(Zip, <<A, Stdin>>, <<A>>, <<Body(1, 0)>>)}

StdinScenes == {Scene(Unzip, <<Agz, Stdin>>, <<Agz>>, <<Body(1, 1)>>)}

AbortScenes == {
    Scene(Unzip, <<Agz, Bgz>>, <<Agz, B, Bgz>>,
          <<[Body(1, 1) EXCEPT !.tail = "unknown"], Body(2, 0), Body(3, 1)>>)}
====
