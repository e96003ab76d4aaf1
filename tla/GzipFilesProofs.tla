--------------------------- MODULE GzipFilesProofs ---------------------------
(***************************************************************************)
(* Theorems about GzipFiles, for whatever files, options, errors, signals  *)
(* and other processes gzip meets: that it leaves cleanly, that it loses   *)
(* no document, and that it takes no output of its own for an input.       *)
(***************************************************************************)
EXTENDS GzipFiles, TLAPS, FiniteSetTheorems, SequenceTheorems

Size == Cardinality(DOMAIN body)

\* Where an input is open, and where an output is.
Reading == {"method", "list", "create", "unlink", "creat"}
Creating == {"create", "unlink", "creat", "fstat", "cleanup", "stat_copied", "unlink_input"}
Writing == pc \in {"fstat", "work", "close", "cleanup"} /\ ~opt.to_stdout

\* The inodes are numbered from 1, and entries are of inodes there are.
DiskInv ==
    /\ Size \in Nat /\ body \in [1..Size -> Bodies]
    /\ DOMAIN disk \subseteq Keys /\ disk \in [DOMAIN disk -> DOMAIN body]
    /\ made \subseteq DOMAIN body

\* The names gzip works with, and that the input is there while it is read.
NameInv ==
    /\ args \in Seq(Names) /\ iname \in Names /\ ofname \in Names
    /\ pc \in Reading \cup {"fstat", "work", "close"} => ifd \in DOMAIN body
    /\ pc \in Reading \cup {"name", "open", "fstat", "work", "close", "cleanup"} /\ ~opt.to_stdout
         => IsFileName(ofname)

\* Which descriptors are open.
OpenInv ==
    /\ fds \subseteq {"ifd", "ofd"}
    /\ pc \in {"next", "stdin", "stat", "name", "open", "cleanup", "stat_copied", "unlink_input"}
         => "ifd" \notin fds /\ "ofd" \notin fds
    /\ pc \in Reading \/ (pc \in {"work", "close"} /\ opt.to_stdout) => "ofd" \notin fds

\* What the exit code says so far, and when method is -1.
CodeInv ==
    /\ pc \in Creating => ~opt.to_stdout
    /\ exit_code = OK => ~failed
    /\ pc \in {"create", "unlink", "creat", "fstat", "work"} /\ opt.decompress => method # -1
    /\ pc = "close" /\ method = -1 => exit_code # OK
    /\ pc = "cleanup" => exit_code # OK

\* A file of this program that is not whole is the output of the moment, which
\* has one name and is marked for removal.
Partial(k) == disk[k] \in made /\ ~body[disk[k]].whole
OutputInv ==
    /\ opt.to_stdout => made = {}
    /\ pc \in {"unlink", "creat"} \/ Writing => ~TooLongForPosix(ofname)
    /\ pc = "fstat" => ofd = Size /\ ifd # ofd
    /\ Writing => /\ remove_ofname /\ ofd \in DOMAIN body
                  /\ \A k \in DOMAIN disk : disk[k] = ofd => k = Key(ofname)
                  /\ pc = "close" /\ method # -1 => body[ofd].tail = "end"
    /\ pc # "killed" =>
         \A k \in DOMAIN disk : Partial(k) =>
           /\ Writing \/ pc = "abort"
           /\ remove_ofname /\ disk[k] = ofd /\ k = Key(ofname)
           /\ IsFileName(ofname) /\ ~TooLongForPosix(ofname)

CleanInv == DiskInv /\ NameInv /\ OpenInv /\ CodeInv /\ OutputInv

-----------------------------------------------------------------------------
(* Names                                                                    *)

LEMMA NameParts ==
    ASSUME NEW nm \in Names
    PROVE  /\ nm.cut \in Nat /\ nm.sfx \in Seq(AnySuffix) /\ Len(nm.sfx) \in Nat
           /\ IsFileName(nm) => Room[nm.stem] \in Nat
  <1>1. nm.cut \in Nat /\ nm.sfx \in Seq(AnySuffix)
    BY DEF Names
  <1>2. Len(nm.sfx) \in Nat
    BY <1>1, LenProperties
  <1>3. IsFileName(nm) => Room[nm.stem] \in Nat
    BY SizesAssumption DEF IsFileName
  <1> QED BY <1>1, <1>2, <1>3

LEMMA NameWith ==
    ASSUME NEW nm \in Names
    PROVE  /\ \A x \in Seq(AnySuffix) : /\ [nm EXCEPT !.sfx = x] \in Names
                                     /\ [nm EXCEPT !.sfx = x].stem = nm.stem
           /\ \A n \in Nat : /\ [nm EXCEPT !.cut = n] \in Names
                             /\ [nm EXCEPT !.cut = n].stem = nm.stem
                             /\ [nm EXCEPT !.cut = n].sfx = nm.sfx
                             /\ [nm EXCEPT !.cut = n].cut = n
  BY DEF Names

LEMMA SuffixedName ==
    ASSUME NEW nm \in Names, NEW x \in AnySuffix
    PROVE  Suffixed(nm, x) \in Names /\ Suffixed(nm, x).stem = nm.stem
  <1>1. Append(nm.sfx, x) \in Seq(AnySuffix)
    BY NameParts, AppendProperties
  <1> QED BY <1>1, NameWith DEF Suffixed

\* A name is stripped only of a suffix it has.
LEMMA StrippedName ==
    ASSUME NEW nm \in Names, get_suffix(nm) # None
    PROVE  Stripped(nm) \in Names /\ Stripped(nm).stem = nm.stem
  <1> DEFINE x == SubSeq(nm.sfx, 1, Len(nm.sfx) - 1)
  <1>1. nm.sfx \in Seq(AnySuffix) /\ nm.sfx # <<>>
    BY DEF get_suffix, Names
  <1>2. x \in Seq(AnySuffix)
    BY <1>1, SubSeqProperties
  <1>3. ".tar" \in AnySuffix
    BY DEF AnySuffix
  <1>4. Append(x, ".tar") \in Seq(AnySuffix)
    BY <1>2, <1>3, AppendProperties
  <1> DEFINE y == IF get_suffix(nm) = ".tgz" THEN Append(x, ".tar") ELSE x
  <1>5. y \in Seq(AnySuffix)
    BY <1>2, <1>4
  <1>6. Stripped(nm) = [nm EXCEPT !.sfx = y]
    BY DEF Stripped
  <1> HIDE DEF y
  <1> QED BY <1>5, <1>6, NameWith

LEMMA KeyType ==
    ASSUME NEW nm \in Names, IsFileName(nm)
    PROVE  Key(nm) \in Keys
  <1> DEFINE n == Chars(nm)
             kept == IF n <= Room[nm.stem] + nm.cut THEN n ELSE Room[nm.stem] + nm.cut
  <1>1. /\ nm.stem \in Stems /\ Room[nm.stem] \in Nat /\ nm.cut \in Nat
        /\ nm.sfx \in Seq(AnySuffix) /\ Len(nm.sfx) \in Nat
    BY NameParts DEF IsFileName
  <1>2. n = 3 * Len(nm.sfx) /\ n \in Nat
    BY <1>1 DEF Chars
  <1>3. kept \in 0..n /\ kept \div 3 \in 0..Len(nm.sfx) /\ kept % 3 \in Nat
    <2>1. kept \in Nat /\ kept <= 3 * Len(nm.sfx)
      BY <1>1, <1>2
    <2> HIDE DEF kept
    <2>2. kept \div 3 \in 0..Len(nm.sfx) /\ kept % 3 \in Nat
      BY <1>1, <2>1
    <2> QED BY <1>2, <2>1, <2>2
  <1>4. SubSeq(nm.sfx, 1, kept \div 3) \in Seq(AnySuffix)
    BY <1>1, <1>3, SubSeqProperties
  <1>5. Key(nm) = <<nm.stem, nm.cut, SubSeq(nm.sfx, 1, kept \div 3), kept % 3>>
    BY <1>2 DEF Key, KeyOf
  <1> DEFINE x == SubSeq(nm.sfx, 1, kept \div 3)  rest == kept % 3
  <1>6. Key(nm) = <<nm.stem, nm.cut, x, rest>> /\ x \in Seq(AnySuffix) /\ rest \in Nat
    BY <1>3, <1>4, <1>5
  <1> HIDE DEF x, rest
  <1> QED BY <1>1, <1>6 DEF Keys

\* A name the file system refuses is cut until it fits, and stays short.
LEMMA ShortName ==
    ASSUME NEW nm \in Names, IsFileName(nm)
    PROVE  /\ PosixShort(nm) \in Names /\ IsFileName(PosixShort(nm))
           /\ ~TooLongForPosix(PosixShort(nm))
           /\ shorten_name(nm) \in Names /\ IsFileName(shorten_name(nm))
           /\ TooLongForPosix(shorten_name(nm)) => TooLongForPosix(nm)
  <1>1. /\ nm.stem \in Stems /\ Room[nm.stem] \in Nat /\ nm.cut \in Nat
        /\ nm.sfx \in Seq(AnySuffix) /\ Len(nm.sfx) \in Nat
    BY NameParts DEF IsFileName
  <1>2. Over(nm) = 3 * Len(nm.sfx) - (Room[nm.stem] + nm.cut)
    BY DEF Over, Chars
  <1>3. shorten_name(nm) \in Names /\ IsFileName(shorten_name(nm))
    BY <1>1, NameWith DEF shorten_name, IsFileName
  <1>4. Over(shorten_name(nm)) = Over(nm) - 1
    <2>1. /\ shorten_name(nm).stem = nm.stem /\ shorten_name(nm).sfx = nm.sfx
          /\ shorten_name(nm).cut = nm.cut + 1
      BY <1>1, NameWith DEF shorten_name
    <2> QED BY <1>1, <1>2, <2>1 DEF Over, Chars
  <1>5. TooLongForPosix(shorten_name(nm)) => TooLongForPosix(nm)
    BY <1>1, <1>2, <1>4 DEF TooLongForPosix, IsFileName
  <1>6. CASE TooLongForPosix(nm)
    <2> DEFINE m == [nm EXCEPT !.cut = @ + Over(nm)]
    <2>1. Over(nm) \in Nat
      BY <1>1, <1>2, <1>6 DEF TooLongForPosix
    <2>2. m \in Names /\ m.stem = nm.stem /\ m.sfx = nm.sfx /\ m.cut = nm.cut + Over(nm)
      <3>1. nm.cut + Over(nm) \in Nat
        BY <1>1, <2>1
      <3> QED BY <3>1, NameWith
    <2> HIDE DEF m
    <2>3. Over(m) = 0
      BY <1>1, <1>2, <2>2 DEF Over, Chars
    <2>4. PosixShort(nm) = m
      BY <1>6 DEF PosixShort, m
    <2>5. ~TooLongForPosix(m) /\ IsFileName(m)
      BY <1>1, <2>2, <2>3 DEF TooLongForPosix, IsFileName
    <2> QED BY <1>3, <1>5, <2>2, <2>4, <2>5
  <1>7. CASE ~TooLongForPosix(nm)
    BY <1>3, <1>5, <1>7 DEF PosixShort
  <1> QED BY <1>6, <1>7

\* The name as given, and two more.
LEMMA CandidateNames ==
    ASSUME NEW nm \in Names
    PROVE  Candidates(nm) \in Seq(Names) /\ Len(Candidates(nm)) \in {1, 3}
  <1>1. <<nm>> \in Seq(Names) /\ Len(<<nm>>) = 1
    OBVIOUS
  <1>2. CASE opt.decompress /\ get_suffix(nm) = None
    <2> DEFINE more == [l \in 1..2 |-> Suffixed(nm, suffixes[l])]
    <2>1. suffixes[1] \in AnySuffix /\ suffixes[2] \in AnySuffix /\ Len(suffixes) = 2
      BY DEF suffixes, AnySuffix
    <2>2. more[1] \in Names /\ more[2] \in Names
      BY <2>1, SuffixedName
    <2>3. more \in Seq(Names) /\ Len(more) = 2
      BY <2>2
    <2>4. Candidates(nm) = <<nm>> \o more
      BY <1>2, <2>1 DEF Candidates
    <2> HIDE DEF more
    <2> QED BY <1>1, <2>3, <2>4, ConcatProperties
  <1>3. CASE ~(opt.decompress /\ get_suffix(nm) = None)
    <2>1. Candidates(nm) = <<nm>>
      BY <1>1, <1>3, ConcatEmptySeq DEF Candidates
    <2> QED BY <1>1, <2>1
  <1> QED BY <1>2, <1>3

\* get_istat() finds the first name there is.
LEMMA FirstFoundIn ==
    ASSUME NEW nm \in Names, Found(nm) # {}
    PROVE  (CHOOSE j \in Found(nm) : \A l \in Found(nm) : j <= l) \in Found(nm)
  <1>1. Len(Candidates(nm)) \in {1, 3}
    BY CandidateNames
  <1>2. Found(nm) \subseteq 1..3
    BY <1>1 DEF Found
  <1>3. \E j \in Found(nm) : \A l \in Found(nm) : j <= l
    <2>1. CASE 1 \in Found(nm)
      BY <1>2, <2>1
    <2>2. CASE 1 \notin Found(nm) /\ 2 \in Found(nm)
      BY <1>2, <2>2
    <2>3. CASE 1 \notin Found(nm) /\ 2 \notin Found(nm)
      <3>1. 3 \in Found(nm) /\ \A l \in Found(nm) : l = 3
        BY <1>2, <2>3
      <3> QED BY <3>1
    <2> QED BY <2>1, <2>2, <2>3
  <1> QED BY <1>3

LEMMA FirstFound ==
    ASSUME NEW nm \in Names, Found(nm) # {},
           NEW c, c = CHOOSE j \in Found(nm) : \A l \in Found(nm) : j <= l
    PROVE  Candidates(nm)[c] \in Names /\ IsFileName(Candidates(nm)[c]) /\ Exists(Candidates(nm)[c])
  <1>1. c \in 1..Len(Candidates(nm)) /\ do_statOK(Candidates(nm)[c])
    BY FirstFoundIn DEF Found
  <1> QED BY <1>1, CandidateNames, ElementOfSeq DEF do_statOK, StatOK, Exists

LEMMA FollowType ==
    ASSUME DiskInv, NEW n \in DOMAIN body
    PROVE  Follow(n) \in DOMAIN body
  BY DEF Follow, DiskInv

-----------------------------------------------------------------------------
(* Descriptors and the exit code                                            *)

LEMMA OpenStep ==
    ASSUME OpenInv, CodeInv, [Next]_vars
    PROVE  OpenInv'
  <1> USE DEF OpenInv, CodeInv, Reading, Creating
  <1>1. CASE NextArg
    BY <1>1 DEF NextArg, files, history, fixed
  <1>2. CASE ReadDir
    BY <1>2 DEF ReadDir, files, history, fixed
  <1>3. CASE do_exit
    BY <1>3 DEF do_exit, files, history, fixed
  <1>4. CASE treat_stdin
    BY <1>4 DEF treat_stdin, files, history, fixed, Failed
  <1>5. CASE get_istat
    BY <1>5 DEF get_istat, files, history, fixed, Failed, Warned, Leave
  <1>6. CASE make_ofname
    BY <1>6 DEF make_ofname, files, history, fixed, Warned, Leave
  <1>7. CASE OpenInput
    BY <1>7 DEF OpenInput, files, history, fixed, StatOK, Leave, Failed
  <1>8. CASE GetMethod
    BY <1>8 DEF GetMethod, files, history, fixed, Failed, Leave
  <1>9. CASE do_list
    BY <1>9 DEF do_list, files, history, fixed, Failed
  <1>10. CASE check_ofname
    BY <1>10 DEF check_ofname, files, history, fixed, Failed, Warned, Leave
  <1>11. CASE UnlinkOld
    BY <1>11 DEF UnlinkOld, files, history, fixed, Failed, Leave
  <1>12. CASE OpenOutput
    BY <1>12 DEF OpenOutput, files, history, fixed, Failed, Leave
  <1>13. CASE CheckNew
    BY <1>13 DEF CheckNew, files, history, fixed, Failed, Warned, Leave
  <1>14. CASE Work
    BY <1>14 DEF Work, files, history, fixed, Failed, Warned, ForceCleanup
  <1>15. CASE CloseFiles
    BY <1>15 DEF CloseFiles, files, history, fixed, Failed
  <1>16. CASE Cleanup
    BY <1>16 DEF Cleanup, files, history, fixed, Leave
  <1>17. CASE copy_stat
    BY <1>17 DEF copy_stat, files, history, fixed, Warned
  <1>18. CASE UnlinkInput
    BY <1>18 DEF UnlinkInput, files, history, fixed, Warned
  <1>19. CASE Abort \/ Signal
    BY <1>19 DEF Abort, Signal, abort_gzip, fixed, Failed
  <1>20. CASE Kill \/ Other
    BY <1>20 DEF Kill, Other, files, history, fixed
  <1>21. CASE UNCHANGED vars
    BY <1>21 DEF vars
  <1> QED BY <1>1, <1>2, <1>3, <1>4, <1>5, <1>6, <1>7, <1>8, <1>9, <1>10, <1>11, <1>12, <1>13, <1>14, <1>15, <1>16, <1>17, <1>18, <1>19, <1>20, <1>21 DEF Next, Program

LEMMA CodeStep ==
    ASSUME CodeInv, [Next]_vars
    PROVE  CodeInv'
  <1> USE DEF CodeInv, Reading, Creating, OK, ERROR, WARNING
  <1>1. CASE NextArg
    BY <1>1 DEF NextArg, files, history, fixed
  <1>2. CASE ReadDir
    BY <1>2 DEF ReadDir, files, history, fixed
  <1>3. CASE do_exit
    BY <1>3 DEF do_exit, files, history, fixed
  <1>4. CASE treat_stdin
    BY <1>4 DEF treat_stdin, files, history, fixed, Failed
  <1>5. CASE get_istat
    BY <1>5 DEF get_istat, files, history, fixed, Failed, Warned, Leave
  <1>6. CASE make_ofname
    BY <1>6 DEF make_ofname, files, history, fixed, Warned, Leave
  <1>7. CASE OpenInput
    BY <1>7 DEF OpenInput, files, history, fixed, StatOK, Leave, Failed
  <1>8. CASE GetMethod
    BY <1>8 DEF GetMethod, files, history, fixed, Failed, Leave
  <1>9. CASE do_list
    BY <1>9 DEF do_list, files, history, fixed, Failed
  <1>10. CASE check_ofname
    <2>1. /\ pc = "create" /\ opt' = opt /\ method' = method
          /\ \/ pc' \in {"creat", "unlink"} /\ UNCHANGED <<exit_code, failed>>
             \/ pc' = "next" /\ exit_code' # OK
      <3>1. pc = "create" /\ opt' = opt /\ method' = method
        BY <1>10 DEF check_ofname, fixed
      <3>2. \/ pc' = "creat" /\ UNCHANGED <<exit_code, failed>>
            \/ Failed /\ Leave
            \/ \E agree : IF agree THEN pc' = "unlink" /\ UNCHANGED <<exit_code, failed>>
                          ELSE Warned /\ Leave
        BY <1>10, Zenon DEF check_ofname
      <3> QED BY <3>1, <3>2 DEF Failed, Warned, Leave
    <2> QED BY <2>1
  <1>11. CASE UnlinkOld
    BY <1>11 DEF UnlinkOld, files, history, fixed, Failed, Leave
  <1>12. CASE OpenOutput
    BY <1>12 DEF OpenOutput, files, history, fixed, Failed, Leave
  <1>13. CASE CheckNew
    BY <1>13 DEF CheckNew, files, history, fixed, Failed, Warned, Leave
  <1>14. CASE Work
    BY <1>14 DEF Work, files, history, fixed, Failed, Warned, ForceCleanup
  <1>15. CASE CloseFiles
    <2>1. pc = "close" /\ opt' = opt
      BY <1>15 DEF CloseFiles, fixed
    <2>2. CASE opt.to_stdout
      <3>1. pc' = "next" /\ exit_code' = exit_code /\ (failed' => failed \/ method = -1)
        BY <1>15, <2>2 DEF CloseFiles
      <3> QED BY <2>1, <3>1
    <2>3. CASE ~opt.to_stdout
      <3>1. /\ failed' = failed
            /\ \/ pc' = "cleanup" /\ exit_code' = exit_code /\ method = -1
               \/ pc' = "stat_copied" /\ exit_code' = exit_code
               \/ pc' = "abort" /\ exit_code' = ERROR
        BY <1>15, <2>3 DEF CloseFiles, Failed
      <3> QED BY <2>1, <2>3, <3>1
    <2> QED BY <2>2, <2>3
  <1>16. CASE Cleanup
    BY <1>16 DEF Cleanup, files, history, fixed, Leave
  <1>17. CASE copy_stat
    BY <1>17 DEF copy_stat, files, history, fixed, Warned
  <1>18. CASE UnlinkInput
    BY <1>18 DEF UnlinkInput, files, history, fixed, Warned
  <1>19. CASE Abort \/ Signal
    BY <1>19 DEF Abort, Signal, abort_gzip, fixed, Failed
  <1>20. CASE Kill \/ Other
    BY <1>20 DEF Kill, Other, files, history, fixed
  <1>21. CASE UNCHANGED vars
    BY <1>21 DEF vars
  <1> QED BY <1>1, <1>2, <1>3, <1>4, <1>5, <1>6, <1>7, <1>8, <1>9, <1>10, <1>11, <1>12, <1>13, <1>14, <1>15, <1>16, <1>17, <1>18, <1>19, <1>20, <1>21 DEF Next, Program

-----------------------------------------------------------------------------
(* The disk                                                                 *)

LEMMA RemoveEntry ==
    ASSUME DiskInv, NEW nm, disk' = Without(nm), UNCHANGED <<body, made>>
    PROVE  DiskInv'
  <1>1. Size' = Size
    BY DEF Size
  <1>2. DOMAIN disk' \subseteq Keys /\ disk' \in [DOMAIN disk' -> DOMAIN body]
    BY DEF DiskInv, Without
  <1> QED BY <1>1, <1>2 DEF DiskInv

\* A new inode is numbered next.
LEMMA AddFile ==
    ASSUME DiskInv, NEW nm \in Names, IsFileName(nm), NEW b \in Bodies,
           disk' = With(nm, Fresh),
           body' = [n \in DOMAIN body \cup {Fresh} |-> IF n = Fresh THEN b ELSE body[n]],
           made' \subseteq made \cup {Fresh}
    PROVE  DiskInv' /\ Fresh \notin DOMAIN body /\ Fresh = Size' /\ Fresh \in DOMAIN body'
  <1>1. Fresh = Size + 1 /\ Size \in Nat /\ DOMAIN body = 1..Size
    BY DEF Fresh, Size, DiskInv
  <1>2. DOMAIN body' = 1..(Size + 1)
    BY <1>1
  <1>3. Size' = Size + 1
    <2>1. Cardinality(1..(Size + 1)) = Size + 1
      BY <1>1, FS_Interval
    <2>2. Size' = Cardinality(DOMAIN body')
      BY DEF Size
    <2> QED BY <1>2, <2>1, <2>2
  <1>4. body' \in [1..(Size + 1) -> Bodies]
    <2>1. \A n \in 1..Size : body[n] \in Bodies
      BY DEF DiskInv
    <2> QED BY <1>1, <1>2, <2>1
  <1>5. DOMAIN disk' \subseteq Keys
    BY KeyType DEF With, DiskInv
  <1>6. disk' \in [DOMAIN disk' -> DOMAIN body']
    BY <1>1, <1>2 DEF With, DiskInv
  <1>7. made' \subseteq DOMAIN body'
    BY <1>1, <1>2 DEF DiskInv
  <1> QED BY <1>1, <1>2, <1>3, <1>4, <1>5, <1>6, <1>7 DEF DiskInv

\* The last file is removed together with its one name.
LEMMA DropFile ==
    ASSUME DiskInv, ofd = Size, ofd \in DOMAIN body,
           \A k \in DOMAIN disk : disk[k] = ofd => k = Key(ofname),
           disk' = Without(ofname),
           body' = [n \in DOMAIN body \ {ofd} |-> body[n]],
           made' = made \ {ofd}
    PROVE  DiskInv'
  <1>1. Size \in Nat /\ DOMAIN body = 1..Size /\ Size # 0
    BY DEF DiskInv
  <1>2. DOMAIN body' = 1..(Size - 1) /\ Size - 1 \in Nat
    BY <1>1
  <1>3. Size' = Size - 1
    <2>1. Cardinality(1..(Size - 1)) = Size - 1
      BY <1>1, FS_Interval
    <2>2. Size' = Cardinality(DOMAIN body')
      BY DEF Size
    <2> QED BY <1>2, <2>1, <2>2
  <1>4. body' \in [1..(Size - 1) -> Bodies]
    <2>1. \A n \in 1..Size : body[n] \in Bodies
      BY DEF DiskInv
    <2> QED BY <1>1, <1>2, <2>1
  <1>5. DOMAIN disk' \subseteq Keys
    BY DEF Without, DiskInv
  <1>6. disk' \in [DOMAIN disk' -> DOMAIN body']
    <2>1. \A k \in DOMAIN disk' : disk'[k] \in DOMAIN body /\ disk'[k] # ofd
      BY DEF Without, DiskInv
    <2> QED BY <2>1 DEF Without
  <1>7. made' \subseteq DOMAIN body'
    BY DEF DiskInv
  <1> QED BY <1>2, <1>3, <1>4, <1>5, <1>6, <1>7 DEF DiskInv

LEMMA ChangeFile ==
    ASSUME DiskInv, NEW b \in Bodies, body' = [body EXCEPT ![ofd] = b],
           UNCHANGED <<disk, made>>
    PROVE  DiskInv'
  <1>1. DOMAIN body' = DOMAIN body /\ Size' = Size
    BY DEF Size
  <1>2. body' \in [1..Size -> Bodies]
    BY DEF DiskInv
  <1> QED BY <1>1, <1>2 DEF DiskInv

\* What Work and CloseFiles make of an output.
LEMMA WrittenFile ==
    ASSUME DiskInv, ofd \in DOMAIN body
    PROVE  /\ ~opt.to_stdout => \E b \in Bodies : /\ Written = [body EXCEPT ![ofd] = b]
                                               /\ b.whole = body[ofd].whole /\ b.tail = "end"
           /\ \E b \in Bodies : /\ Closed = [body EXCEPT ![ofd] = b]
                               /\ b.whole = (body[ofd].tail = "end")
  <1>1. body[ofd] \in Bodies /\ body[ofd].gz \in Int
    BY DEF DiskInv, Bodies
  <1>2. body \in [DOMAIN body -> Bodies]
    BY DEF DiskInv
  <1> DEFINE n == IF opt.decompress THEN body[ofd].gz - 1 ELSE body[ofd].gz + 1
             b == [body[ofd] EXCEPT !.tail = "end", !.gz = n]
             c == [body[ofd] EXCEPT !.whole = (body[ofd].tail = "end")]
  <1>3. n \in Int
    BY <1>1
  <1> HIDE DEF n
  <1>4. b \in Bodies /\ b.whole = body[ofd].whole /\ b.tail = "end"
    BY <1>1, <1>3 DEF Bodies
  <1>5. (body[ofd].tail = "end") \in BOOLEAN
    OBVIOUS
  <1>6. c \in Bodies /\ c.whole = (body[ofd].tail = "end")
    BY <1>1, <1>5 DEF Bodies
  <1>7. ~opt.to_stdout => Written = [body EXCEPT ![ofd] = b]
    BY <1>1, <1>2, <1>3 DEF Written, n, Bodies
  <1>8. Closed = [body EXCEPT ![ofd] = c]
    BY DEF Closed
  <1> HIDE DEF b, c
  <1> QED BY <1>4, <1>6, <1>7, <1>8

LEMMA NewFileType ==
    ASSUME DiskInv, NameInv, pc = "creat"
    PROVE  NewFile \in Bodies /\ [NewFile EXCEPT !.doc = Another, !.whole = TRUE] \in Bodies
  <1>1. body[ifd] \in Bodies
    BY DEF DiskInv, NameInv, Reading
  <1>2. NewFile \in Bodies
    BY <1>1 DEF NewFile, Bodies
  <1> QED BY <1>2 DEF Bodies, Another

LEMMA DiskStep ==
    ASSUME CleanInv, [Next]_vars
    PROVE  DiskInv'
  <1> USE DEF CleanInv
  <1>1. ASSUME UNCHANGED <<disk, body, made>> PROVE DiskInv'
    BY <1>1 DEF DiskInv, Size
  <1>2. CASE NextArg \/ ReadDir \/ do_exit \/ treat_stdin \/ do_list \/ copy_stat \/ Kill
    BY <1>1, <1>2 DEF NextArg, ReadDir, do_exit, treat_stdin, do_list, copy_stat, Kill, files,
                      history
  <1>3. CASE get_istat \/ make_ofname \/ OpenInput \/ GetMethod \/ check_ofname
    BY <1>1, <1>3 DEF get_istat, make_ofname, OpenInput, GetMethod, check_ofname, files
  <1>4. CASE UnlinkOld
    BY <1>1, <1>4, RemoveEntry DEF UnlinkOld, Unlinked
  <1>5. CASE OpenOutput
    <2>1. pc = "creat" /\ ofname \in Names /\ IsFileName(ofname)
      BY <1>5 DEF OpenOutput, NameInv, CodeInv, Creating, Reading
    <2>2. \/ /\ disk' = With(ofname, Fresh) /\ made' = made \cup {Fresh}
             /\ body' = [n \in DOMAIN body \cup {Fresh} |-> IF n = Fresh THEN NewFile ELSE body[n]]
          \/ UNCHANGED <<disk, body, made>>
      BY <1>5 DEF OpenOutput, files
    <2> QED BY <1>1, <2>1, <2>2, NewFileType, AddFile
  <1>6. CASE CheckNew
    <2>1. /\ ofd = Size /\ ofd \in DOMAIN body
          /\ \A k \in DOMAIN disk : disk[k] = ofd => k = Key(ofname)
      BY <1>6 DEF CheckNew, OutputInv, Writing, CodeInv, Creating
    <2>2. \/ /\ disk' = Without(ofname) /\ made' = made \ {ofd}
             /\ body' = [n \in DOMAIN body \ {ofd} |-> body[n]]
          \/ UNCHANGED <<disk, body, made>>
          \/ disk' = Without(ofname) /\ UNCHANGED <<body, made>>
      BY <1>6 DEF CheckNew, files, Unlinked
    <2> QED BY <1>1, <2>1, <2>2, DropFile, RemoveEntry
  <1>7. CASE Work
    <2>1. UNCHANGED <<disk, made>> /\ (body' = body \/ body' = Written)
      BY <1>7 DEF Work, history
    <2>2. CASE opt.to_stdout
      BY <1>1, <2>1, <2>2 DEF Written
    <2>3. CASE ~opt.to_stdout
      <3>1. ofd \in DOMAIN body
        BY <1>7, <2>3 DEF Work, OutputInv, Writing
      <3> QED BY <1>1, <2>1, <2>3, <3>1, WrittenFile, ChangeFile
    <2> QED BY <2>2, <2>3
  <1>8. CASE CloseFiles
    <2>1. UNCHANGED <<disk, made>> /\ (body' = body \/ (~opt.to_stdout /\ body' = Closed))
      BY <1>8 DEF CloseFiles
    <2>2. ~opt.to_stdout => ofd \in DOMAIN body
      BY <1>8 DEF CloseFiles, OutputInv, Writing
    <2> QED BY <1>1, <2>1, <2>2, WrittenFile, ChangeFile
  <1>9. CASE Cleanup \/ UnlinkInput \/ Abort \/ Signal
    <2>1. UNCHANGED <<body, made>> /\ (disk' = disk \/ \E nm : disk' = Without(nm))
      BY <1>9 DEF Cleanup, UnlinkInput, Abort, Signal, abort_gzip, Unlinked, history
    <2> QED BY <1>1, <2>1, RemoveEntry
  <1>10. CASE Other
    <2>1. pc = "creat" /\ ofname \in Names /\ IsFileName(ofname)
      BY <1>10 DEF Other, NameInv, CodeInv, Creating, Reading
    <2> DEFINE b == [NewFile EXCEPT !.doc = Another, !.whole = TRUE]
    <2>2. /\ disk' = With(ofname, Fresh) /\ made' = made
          /\ body' = [n \in DOMAIN body \cup {Fresh} |-> IF n = Fresh THEN b ELSE body[n]]
      BY <1>10 DEF Other, history
    <2>3. b \in Bodies
      BY <2>1, NewFileType
    <2> HIDE DEF b
    <2> QED BY <2>1, <2>2, <2>3, AddFile
  <1>11. CASE UNCHANGED vars
    BY <1>1, <1>11 DEF vars
  <1> QED BY <1>2, <1>3, <1>4, <1>5, <1>6, <1>7, <1>8, <1>9, <1>10, <1>11 DEF Next, Program

LEMMA NameStep ==
    ASSUME CleanInv, [Next]_vars
    PROVE  NameInv'
  <1> USE DEF CleanInv, Reading
  <1>1. NoName \in Names
    <2>1. <<>> \in Seq(AnySuffix)
      OBVIOUS
    <2> QED BY <2>1 DEF NoName, Name, Names
  <1>2. CASE NextArg
    <2>1. Head(args) \in Names /\ Tail(args) \in Seq(Names)
      BY <1>2, HeadTailProperties DEF NextArg, NameInv
    <2> QED BY <1>2, <2>1 DEF NextArg, NameInv, files
  <1>3. CASE ReadDir
    <2>1. \A k \in Keys : NameOf(k) \in Names
      BY DEF NameOf, Keys, Names
    <2>2. Entries \subseteq Names
      BY <2>1 DEF Entries, DiskInv
    <2> QED BY <1>3, <2>2 DEF ReadDir, NameInv, files
  <1>4. CASE do_exit \/ treat_stdin \/ do_list \/ copy_stat \/ Kill
    BY <1>1, <1>4 DEF do_exit, treat_stdin, do_list, copy_stat, Kill, NameInv, files, fixed
  <1>5. CASE get_istat
    <2>1. UNCHANGED <<opt, args, iname>> /\ pc' \in {"next", "open", "name"}
      BY <1>5 DEF get_istat, Leave
    <2>2. \/ ofname' \in {ofname, NoName} /\ (pc' = "next" \/ opt.to_stdout)
          \/ ofname' \in Names /\ IsFileName(ofname')
      <3>1. CASE Found(iname) = {}
        BY <1>5, <3>1 DEF get_istat, Leave
      <3>2. CASE Found(iname) # {}
        <4> DEFINE c == CHOOSE j \in Found(iname) : \A l \in Found(iname) : j <= l
                   nm == Candidates(iname)[c]
        <4>1. nm \in Names /\ IsFileName(nm)
          BY <3>2, FirstFound DEF NameInv
        <4>2. \/ ofname' = ofname /\ pc' = "next"
              \/ ofname' = NoName /\ opt.to_stdout
              \/ ofname' = nm
          BY <1>5, <3>2 DEF get_istat, Leave
        <4> QED BY <4>1, <4>2
      <3> QED BY <3>1, <3>2
    <2> QED BY <1>1, <2>1, <2>2 DEF NameInv
  <1>6. CASE make_ofname
    <2>1. UNCHANGED <<opt, args, iname>> /\ pc = "name" /\ pc' \in {"next", "open"}
      BY <1>6 DEF make_ofname, Leave, fixed
    <2>2. \/ ofname' = ofname
          \/ get_suffix(ofname) # None /\ ofname' = Stripped(ofname)
          \/ ofname' = Suffixed(ofname, z_suffix)
      BY <1>6 DEF make_ofname
    <2>3. z_suffix \in AnySuffix
      BY DEF z_suffix, AnySuffix
    <2>4. ofname' \in Names /\ ofname'.stem = ofname.stem
      BY <2>2, <2>3, StrippedName, SuffixedName DEF NameInv
    <2> QED BY <2>1, <2>4 DEF NameInv, IsFileName
  <1>7. CASE OpenInput
    <2>1. StatOK(ifname) => Follow(Entry(ifname)) \in DOMAIN body
      BY FollowType DEF StatOK, Exists, Entry, DiskInv
    <2> QED BY <1>7, <2>1 DEF OpenInput, NameInv, files, fixed, Leave
  <1>8. CASE GetMethod
    <2>1. pc = "method" /\ UNCHANGED <<opt, args, iname, ifd, body>>
      BY <1>8 DEF GetMethod, files, fixed
    <2>2. body[ifd] \in Bodies
      BY <2>1 DEF NameInv, DiskInv
    <2>3. body[ifd].orig # None => body[ifd].orig \in Names /\ IsFileName(body[ifd].orig)
      BY <2>2 DEF Bodies, IsFileName
    <2>4. ofname' = ofname \/ (body[ifd].orig # None /\ ofname' = body[ifd].orig)
      BY <1>8 DEF GetMethod
    <2>5. pc' \in {"list", "work", "create", "next", "abort"}
      BY <1>8 DEF GetMethod, Leave
    <2> QED BY <2>1, <2>3, <2>4, <2>5 DEF NameInv
  <1>9. CASE check_ofname
    <2>1. pc = "create" /\ UNCHANGED <<opt, args, iname, ifd, body>> /\ ~opt.to_stdout
      BY <1>9 DEF check_ofname, files, fixed, CodeInv, Creating
    <2>2. ofname \in Names /\ IsFileName(ofname)
      BY <2>1 DEF NameInv
    <2>3. ofname' \in {PosixShort(ofname), shorten_name(PosixShort(ofname))}
      BY <1>9 DEF check_ofname
    <2>4. ofname' \in Names /\ IsFileName(ofname')
      BY <2>2, <2>3, ShortName
    <2>5. pc' \in {"creat", "unlink", "next"}
      BY <1>9, Zenon DEF check_ofname, Leave
    <2> QED BY <2>1, <2>4, <2>5 DEF NameInv
  <1>10. CASE UnlinkOld
    BY <1>10 DEF UnlinkOld, NameInv, fixed, Leave
  <1>11. CASE OpenOutput
    <2>1. DOMAIN body \subseteq DOMAIN body'
      BY <1>11 DEF OpenOutput, files
    <2> QED BY <1>11, <2>1 DEF OpenOutput, NameInv, fixed, Leave
  <1>12. CASE CheckNew
    <2>1. pc = "fstat" /\ UNCHANGED <<opt, args, iname, ifd>> /\ ~opt.to_stdout
      BY <1>12 DEF CheckNew, fixed, CodeInv, Creating
    <2>2. ifd \in DOMAIN body /\ ifd # ofd /\ ofname \in Names /\ IsFileName(ofname)
      BY <2>1 DEF NameInv, OutputInv
    <2>3. ifd \in DOMAIN body'
      BY <1>12, <2>2 DEF CheckNew, files
    <2>4. ofname' \in {ofname, shorten_name(ofname)} /\ pc' \in {"create", "work", "next"}
      BY <1>12 DEF CheckNew, Leave
    <2>5. ofname' \in Names /\ IsFileName(ofname')
      BY <2>2, <2>4, ShortName
    <2> QED BY <2>1, <2>3, <2>4, <2>5 DEF NameInv
  <1>13. CASE Work \/ CloseFiles
    <2>1. DOMAIN body' = DOMAIN body
      BY <1>13 DEF Work, CloseFiles, Written, Closed
    <2>2. /\ UNCHANGED <<opt, args, iname, ifd, ofname>>
          /\ \/ pc \in {"work", "close"} /\ pc' \in {"close", "cleanup", "abort"}
             \/ pc' \in {"next", "stat_copied"}
      BY <1>13 DEF Work, CloseFiles, fixed
    <2> QED BY <2>1, <2>2 DEF NameInv
  <1>14. CASE Cleanup \/ UnlinkInput \/ Abort \/ Signal
    BY <1>14 DEF Cleanup, UnlinkInput, Abort, Signal, abort_gzip, fixed, NameInv, Leave
  <1>15. CASE Other
    <2>1. DOMAIN body \subseteq DOMAIN body'
      BY <1>15 DEF Other
    <2> QED BY <1>15, <2>1 DEF Other, NameInv, fixed
  <1>16. CASE UNCHANGED vars
    BY <1>16 DEF vars, NameInv
  <1> QED BY <1>2, <1>3, <1>4, <1>5, <1>6, <1>7, <1>8, <1>9, <1>10, <1>11, <1>12, <1>13, <1>14,
             <1>15, <1>16 DEF Next, Program

-----------------------------------------------------------------------------
(* The output                                                               *)

LEMMA OutputStep ==
    ASSUME CleanInv, [Next]_vars
    PROVE  OutputInv'
  <1> USE DEF CleanInv
  <1>1. ASSUME ~Writing, pc \notin {"abort", "killed"}
        PROVE  \A k \in DOMAIN disk : ~Partial(k)
    BY <1>1 DEF OutputInv
  <1>2. ASSUME opt.to_stdout
        PROVE  \A k \in DOMAIN disk : ~Partial(k)
    BY <1>2 DEF OutputInv, Partial
  <1>3. ASSUME opt' = opt, made' \subseteq made, ~Writing', pc' \notin {"unlink", "creat", "fstat"},
               \A k \in DOMAIN disk' : ~Partial(k)'
        PROVE  OutputInv'
    BY <1>3 DEF OutputInv
  <1>4. ASSUME opt' = opt, made' = made, body' = body, ~Writing',
               pc' \notin {"unlink", "creat", "fstat"},
               \A k \in DOMAIN disk' : k \in DOMAIN disk /\ disk'[k] = disk[k] /\ ~Partial(k)
        PROVE  OutputInv'
    <2>1. \A k \in DOMAIN disk' : ~Partial(k)'
      BY <1>4 DEF Partial
    <2> QED BY <1>3, <1>4, <2>1
  <1>5. ASSUME opt' = opt, UNCHANGED <<disk, body, made>>, ~Writing, pc \notin {"abort", "killed"},
               ~Writing', pc' \notin {"unlink", "creat", "fstat"}
        PROVE  OutputInv'
    BY <1>1, <1>4, <1>5
  <1>6. CASE NextArg \/ ReadDir \/ do_exit \/ treat_stdin \/ do_list \/ copy_stat
    <2>1. opt' = opt /\ UNCHANGED <<disk, body, made>>
      BY <1>6 DEF NextArg, ReadDir, do_exit, treat_stdin, do_list, copy_stat, files, history, fixed
    <2>2. /\ pc \in {"next", "stdin", "list", "stat_copied"}
          /\ pc' \in {"next", "stdin", "stat", "exit", "abort", "unlink_input"}
      BY <1>6 DEF NextArg, ReadDir, do_exit, treat_stdin, do_list, copy_stat
    <2> QED BY <1>5, <2>1, <2>2 DEF Writing
  <1>7. CASE get_istat \/ make_ofname \/ OpenInput \/ GetMethod
    <2>1. opt' = opt /\ UNCHANGED <<disk, body, made>>
      BY <1>7 DEF get_istat, make_ofname, OpenInput, GetMethod, files, fixed
    <2>2. pc \in {"stat", "name", "open", "method"}
      BY <1>7 DEF get_istat, make_ofname, OpenInput, GetMethod
    <2>3. \/ pc' \in {"next", "open", "name", "method", "create", "list", "abort"}
          \/ pc' = "work" /\ opt.to_stdout
      BY <1>7 DEF get_istat, make_ofname, OpenInput, GetMethod, Leave
    <2> QED BY <1>5, <2>1, <2>2, <2>3 DEF Writing
  <1>8. CASE check_ofname
    <2>1. pc = "create" /\ opt' = opt /\ UNCHANGED <<disk, body, made>> /\ ~opt.to_stdout
      BY <1>8 DEF check_ofname, files, fixed, CodeInv, Creating
    <2>2. ofname \in Names /\ IsFileName(ofname)
      BY <2>1 DEF NameInv, Reading
    <2>3. ofname' \in {PosixShort(ofname), shorten_name(PosixShort(ofname))}
      BY <1>8 DEF check_ofname
    <2>4. ~TooLongForPosix(ofname')
      BY <2>2, <2>3, ShortName
    <2>5. pc' \in {"creat", "unlink", "next"}
      BY <1>8, Zenon DEF check_ofname, Leave
    <2>6. \A k \in DOMAIN disk' : ~Partial(k)'
      BY <1>1, <2>1 DEF Writing, Partial
    <2>7. ~TooLongForPosix(ofname)'
      BY <2>1, <2>4 DEF TooLongForPosix, IsFileName, Over, Chars
    <2> QED BY <2>1, <2>5, <2>6, <2>7 DEF OutputInv, Writing
  <1>9. CASE UnlinkOld
    <2>1. pc = "unlink" /\ opt' = opt /\ UNCHANGED <<body, made, ofname>> /\ pc' \in {"creat", "next"}
      BY <1>9 DEF UnlinkOld, fixed, Leave
    <2>2. \A k \in DOMAIN disk' : k \in DOMAIN disk /\ disk'[k] = disk[k]
      BY <1>9 DEF UnlinkOld, Unlinked, Without
    <2>3. \A k \in DOMAIN disk' : ~Partial(k)'
      BY <1>1, <2>1, <2>2 DEF Writing, Partial
    <2>4. ~TooLongForPosix(ofname)'
      BY <2>1 DEF OutputInv, TooLongForPosix, IsFileName, Over, Chars
    <2> QED BY <2>1, <2>3, <2>4 DEF OutputInv, Writing
  <1>10. CASE OpenOutput
    <2>1. /\ pc = "creat" /\ opt' = opt /\ UNCHANGED <<ofname, ifd, method>> /\ remove_ofname' = TRUE
          /\ ~opt.to_stdout
      BY <1>10 DEF OpenOutput, MarkOutput, fixed, CodeInv, Creating
    <2>2. /\ ofname \in Names /\ IsFileName(ofname) /\ ~TooLongForPosix(ofname)
          /\ ifd \in DOMAIN body
      BY <2>1 DEF NameInv, OutputInv, Reading
    <2>3. \A k \in DOMAIN disk : ~Partial(k)
      BY <1>1, <2>1 DEF Writing
    <2>4. CASE pc' = "next" /\ UNCHANGED <<disk, body, made>>
      BY <1>5, <2>1, <2>4 DEF Writing
    <2>5. CASE /\ disk' = With(ofname, Fresh) /\ made' = made \cup {Fresh} /\ ofd' = Fresh
               /\ body' = [n \in DOMAIN body \cup {Fresh} |-> IF n = Fresh THEN NewFile ELSE body[n]]
               /\ pc' = "fstat"
      <3>1. Fresh \notin DOMAIN body /\ Fresh = Size' /\ Fresh \in DOMAIN body'
        BY <2>1, <2>2, <2>5, NewFileType, AddFile
      <3>2. ~TooLongForPosix(ofname)' /\ IsFileName(ofname)' /\ Key(ofname)' = Key(ofname)
        BY <2>1, <2>2 DEF TooLongForPosix, IsFileName, Over, Chars, Key, KeyOf
      <3>3. \A k \in DOMAIN disk' : \/ k = Key(ofname) /\ disk'[k] = Fresh
                                    \/ k \in DOMAIN disk /\ disk'[k] = disk[k] /\ disk[k] \in DOMAIN body
        BY <2>5 DEF With, DiskInv
      <3>4. \A k \in DOMAIN disk' : disk'[k] = Fresh => k = Key(ofname)
        BY <3>1, <3>3
      <3>5. \A k \in DOMAIN disk' : Partial(k)' => k = Key(ofname) /\ disk'[k] = Fresh
        <4>1. \A n \in DOMAIN body : body'[n] = body[n]
          BY <2>5, <3>1
        <4>2. \A k \in DOMAIN disk' : k \in DOMAIN disk /\ disk'[k] = disk[k] /\ disk[k] \in DOMAIN body
                                      => ~Partial(k)'
          BY <2>3, <2>5, <3>1, <4>1 DEF Partial
        <4> QED BY <3>3, <4>2
      <3> QED BY <2>1, <2>2, <2>5, <3>1, <3>2, <3>4, <3>5 DEF OutputInv, Writing
    <2> QED BY <1>10, <2>4, <2>5 DEF OpenOutput, files, Leave
  <1>11. CASE CheckNew
    <2>1. /\ pc = "fstat" /\ UNCHANGED <<opt, remove_ofname, ofd, method>> /\ ~opt.to_stdout
          /\ Writing
      BY <1>11 DEF CheckNew, fixed, CodeInv, Creating, Writing
    <2>2. \A k \in DOMAIN disk : Partial(k) => k = Key(ofname)
      BY <2>1 DEF OutputInv
    <2>3. \A k \in DOMAIN Without(ofname) : /\ k \in DOMAIN disk /\ Without(ofname)[k] = disk[k]
                                            /\ k # Key(ofname)
      BY DEF Without
    <2>4. CASE pc' = "create" /\ disk' = Without(ofname) /\ made' = made \ {ofd}
               /\ body' = [n \in DOMAIN body \ {ofd} |-> body[n]]
      <3>1. \A k \in DOMAIN disk' : ~Partial(k)'
        <4>1. \A k \in DOMAIN disk : disk[k] \in DOMAIN body
          BY DEF DiskInv
        <4> QED BY <2>2, <2>3, <2>4, <4>1 DEF Partial
      <3> QED BY <1>3, <2>1, <2>4, <3>1 DEF Writing
    <2>5. CASE pc' = "work" /\ UNCHANGED <<disk, body, made, ofname>>
      <3>1. /\ TooLongForPosix(ofname)' = TooLongForPosix(ofname)
            /\ IsFileName(ofname)' = IsFileName(ofname) /\ Key(ofname)' = Key(ofname)
        BY <2>1, <2>5 DEF TooLongForPosix, IsFileName, Over, Chars, Key, KeyOf
      <3>2. \A k \in DOMAIN disk : Partial(k)' = Partial(k)
        BY <2>5 DEF Partial
      <3> QED BY <2>1, <2>5, <3>1, <3>2 DEF OutputInv, Writing
    <2>6. CASE pc' = "next" /\ disk' = Without(ofname) /\ UNCHANGED <<body, made>>
      BY <1>4, <2>1, <2>2, <2>3, <2>6 DEF Writing
    <2> QED BY <1>11, <2>4, <2>5, <2>6 DEF CheckNew, files, Leave, Unlinked
  <1>12. CASE Work
    <2>1. /\ pc = "work" /\ UNCHANGED <<opt, disk, made, ofname, ofd, remove_ofname>>
          /\ pc' \in {"close", "abort"}
          /\ body' = Written \/ (body' = body /\ (pc' = "close" => method' = -1))
      BY <1>12 DEF Work, history, fixed, ForceCleanup
    <2>2. CASE opt.to_stdout
      <3>1. body' = body
        BY <2>1, <2>2 DEF Written
      <3> QED BY <1>2, <1>4, <2>1, <2>2, <3>1 DEF Writing
    <2>3. CASE ~opt.to_stdout
      <3>1. Writing /\ ofd \in DOMAIN body
        BY <2>1, <2>3 DEF Writing, OutputInv
      <3>2. /\ DOMAIN body' = DOMAIN body
            /\ \A n \in DOMAIN body : body'[n].whole = body[n].whole
            /\ pc' = "close" /\ method' # -1 => body'[ofd].tail = "end"
        <4>1. CASE body' = Written
          <5>1. PICK b \in Bodies : /\ Written = [body EXCEPT ![ofd] = b]
                                    /\ b.whole = body[ofd].whole /\ b.tail = "end"
            BY <2>3, <3>1, WrittenFile
          <5> QED BY <3>1, <4>1, <5>1
        <4>2. CASE body' = body /\ (pc' = "close" => method' = -1)
          BY <4>2
        <4> QED BY <2>1, <4>1, <4>2
      <3>3. /\ TooLongForPosix(ofname)' = TooLongForPosix(ofname)
            /\ IsFileName(ofname)' = IsFileName(ofname) /\ Key(ofname)' = Key(ofname)
        BY <2>1 DEF TooLongForPosix, IsFileName, Over, Chars, Key, KeyOf
      <3>4. \A k \in DOMAIN disk : Partial(k)' = Partial(k)
        BY <2>1, <3>2 DEF Partial, DiskInv
      <3> QED BY <2>1, <2>3, <3>1, <3>2, <3>3, <3>4 DEF OutputInv, Writing
    <2> QED BY <2>2, <2>3
  <1>13. CASE CloseFiles
    <2>1. /\ pc = "close"
          /\ UNCHANGED <<opt, disk, made, ofname, ofd, remove_ofname, method>>
      BY <1>13 DEF CloseFiles, fixed
    <2>2. CASE opt.to_stdout
      <3>1. pc' = "next" /\ body' = body
        BY <1>13, <2>2 DEF CloseFiles
      <3> QED BY <1>2, <1>4, <2>1, <2>2, <3>1 DEF Writing
    <2>3. CASE ~opt.to_stdout /\ body' = body /\ pc' \in {"cleanup", "abort"}
      <3>1. /\ TooLongForPosix(ofname)' = TooLongForPosix(ofname)
            /\ IsFileName(ofname)' = IsFileName(ofname) /\ Key(ofname)' = Key(ofname)
        BY <2>1 DEF TooLongForPosix, IsFileName, Over, Chars, Key, KeyOf
      <3>2. \A k \in DOMAIN disk : Partial(k)' = Partial(k)
        BY <2>1, <2>3 DEF Partial
      <3> QED BY <2>1, <2>3, <3>1, <3>2 DEF OutputInv, Writing
    <2>4. CASE ~opt.to_stdout /\ method # -1 /\ body' = Closed /\ pc' = "stat_copied"
      <3>1. /\ ofd \in DOMAIN body /\ body[ofd].tail = "end"
            /\ \A k \in DOMAIN disk : Partial(k) => disk[k] = ofd
        BY <2>1, <2>4 DEF Writing, OutputInv
      <3>2. PICK b \in Bodies : Closed = [body EXCEPT ![ofd] = b] /\ b.whole = (body[ofd].tail = "end")
        BY <3>1, WrittenFile
      <3>3. \A n \in DOMAIN body : body'[n].whole = IF n = ofd THEN TRUE ELSE body[n].whole
        BY <2>4, <3>1, <3>2
      <3>4. \A k \in DOMAIN disk : ~Partial(k)'
        BY <2>1, <3>1, <3>3 DEF Partial, DiskInv
      <3> QED BY <1>3, <2>1, <2>4, <3>4 DEF Writing
    <2> QED BY <1>13, <2>2, <2>3, <2>4 DEF CloseFiles
  <1>14. CASE Cleanup
    <2>1. /\ pc = "cleanup" /\ pc' = "next" /\ UNCHANGED <<opt, body, made>>
          /\ disk' = Without(ofname) /\ ~opt.to_stdout
      BY <1>14 DEF Cleanup, Leave, fixed, Unlinked, CodeInv, Creating
    <2>2. \A k \in DOMAIN disk : Partial(k) => k = Key(ofname)
      BY <2>1 DEF OutputInv
    <2>3. \A k \in DOMAIN disk' : k \in DOMAIN disk /\ disk'[k] = disk[k] /\ k # Key(ofname)
      BY <2>1 DEF Without
    <2> QED BY <1>4, <2>1, <2>2, <2>3 DEF Writing
  <1>15. CASE UnlinkInput
    <2>1. pc = "unlink_input" /\ pc' = "next" /\ UNCHANGED <<opt, body, made>>
      BY <1>15 DEF UnlinkInput, history, fixed
    <2>2. \A k \in DOMAIN disk' : k \in DOMAIN disk /\ disk'[k] = disk[k]
      BY <1>15 DEF UnlinkInput, Unlinked, Without
    <2> QED BY <1>1, <1>4, <2>1, <2>2 DEF Writing
  <1>16. CASE Abort \/ Signal
    <2>1. /\ pc # "killed" /\ pc' = "exit" /\ UNCHANGED <<opt, body, made>>
          /\ disk' = IF remove_ofname /\ Exists(ofname) THEN Without(ofname) ELSE disk
      BY <1>16 DEF Abort, Signal, abort_gzip, fixed, Unlinked
    <2>2. \A k \in DOMAIN disk : Partial(k) => remove_ofname /\ Exists(ofname) /\ k = Key(ofname)
      BY <2>1 DEF OutputInv, Exists
    <2>3. \A k \in DOMAIN disk' : /\ k \in DOMAIN disk /\ disk'[k] = disk[k]
                                  /\ remove_ofname /\ Exists(ofname) => k # Key(ofname)
      BY <2>1 DEF Without
    <2> QED BY <1>4, <2>1, <2>2, <2>3 DEF Writing
  <1>17. CASE Kill
    <2>1. pc' = "killed" /\ UNCHANGED <<opt, made>>
      BY <1>17 DEF Kill, history, fixed
    <2> QED BY <2>1 DEF OutputInv, Writing
  <1>18. CASE Other
    <2> DEFINE b == [NewFile EXCEPT !.doc = Another, !.whole = TRUE]
    <2>1. /\ pc = "creat" /\ pc' = "creat" /\ UNCHANGED <<opt, ofname, made>>
          /\ disk' = With(ofname, Fresh)
          /\ body' = [n \in DOMAIN body \cup {Fresh} |-> IF n = Fresh THEN b ELSE body[n]]
      BY <1>18 DEF Other, history, fixed
    <2>2. ofname \in Names /\ IsFileName(ofname) /\ ~opt.to_stdout /\ ~TooLongForPosix(ofname)
      BY <2>1 DEF NameInv, OutputInv, Reading, CodeInv, Creating
    <2>3. b \in Bodies
      BY <2>1, NewFileType
    <2> HIDE DEF b
    <2>4. Fresh \notin DOMAIN body
      BY <2>1, <2>2, <2>3, AddFile
    <2>5. \A k \in DOMAIN disk' : \/ disk'[k] = Fresh
                                  \/ k \in DOMAIN disk /\ disk'[k] = disk[k] /\ disk[k] \in DOMAIN body
      BY <2>1 DEF With, DiskInv
    <2>6. \A k \in DOMAIN disk' : ~Partial(k)'
      <3>1. Fresh \notin made
        BY <2>4 DEF DiskInv
      <3>2. \A n \in DOMAIN body : body'[n] = body[n]
        BY <2>1, <2>4
      <3>3. \A k \in DOMAIN disk : ~Partial(k)
        BY <1>1, <2>1 DEF Writing
      <3> QED BY <2>1, <2>5, <3>1, <3>2, <3>3 DEF Partial
    <2>7. ~TooLongForPosix(ofname)'
      BY <2>1, <2>2 DEF TooLongForPosix, IsFileName, Over, Chars
    <2> QED BY <2>1, <2>2, <2>6, <2>7 DEF OutputInv, Writing
  <1>19. CASE UNCHANGED vars
    <2>1. UNCHANGED <<opt, disk, body, made, pc, ofname, ifd, ofd, remove_ofname, method>>
      BY <1>19 DEF vars
    <2>2. Writing' = Writing /\ Size' = Size /\ (\A k : Partial(k)' = Partial(k))
      BY <2>1 DEF Writing, Size, Partial
    <2>3. /\ TooLongForPosix(ofname)' = TooLongForPosix(ofname)
          /\ IsFileName(ofname)' = IsFileName(ofname) /\ Key(ofname)' = Key(ofname)
      BY <2>1 DEF TooLongForPosix, IsFileName, Over, Chars, Key, KeyOf
    <2> QED BY <2>1, <2>2, <2>3 DEF OutputInv
  <1> QED BY <1>6, <1>7, <1>8, <1>9, <1>10, <1>11, <1>12, <1>13, <1>14, <1>15, <1>16, <1>17,
             <1>18, <1>19 DEF Next, Program

-----------------------------------------------------------------------------
(* The theorem                                                              *)

LEMMA CleanInit == Init => CleanInv
  <1> SUFFICES ASSUME Init PROVE CleanInv
    OBVIOUS
  <1>1. PICK sc \in Scenes : opt = sc.opt /\ args = sc.args /\ disk = sc.disk /\ body = sc.body
    BY DEF Init
  <1>2. /\ args \in Seq(Names) /\ body \in [1..Size -> Bodies]
        /\ DOMAIN disk \subseteq Keys /\ disk \in [DOMAIN disk -> DOMAIN body]
    BY <1>1, SceneAssumption DEF Size
  <1>3. Size \in Nat
    <2>1. IsFiniteSet(DOMAIN body)
      BY <1>1, SceneAssumption
    <2> QED BY <2>1, FS_CardinalityType DEF Size
  <1>4. NoName \in Names
    <2>1. <<>> \in Seq(AnySuffix)
      OBVIOUS
    <2> QED BY <2>1 DEF NoName, Name, Names
  <1>5. DiskInv
    BY <1>2, <1>3 DEF Init, DiskInv
  <1>6. NameInv
    BY <1>2, <1>4 DEF Init, NameInv, Reading
  <1>7. OpenInv /\ CodeInv
    BY DEF Init, OpenInv, CodeInv, Reading, Creating
  <1>8. OutputInv
    BY DEF Init, OutputInv, Writing, Partial
  <1> QED BY <1>5, <1>6, <1>7, <1>8 DEF CleanInv

LEMMA CleanIsClean == CleanInv => CleanExit
  <1> SUFFICES ASSUME CleanInv PROVE CleanExit
    OBVIOUS
  <1>1. pc = "exit" => \A k \in DOMAIN disk : disk[k] \in made => body[disk[k]].whole
    BY DEF CleanInv, OutputInv, Writing, Partial
  <1>2. exit_code = OK => ~failed
    BY DEF CleanInv, CodeInv
  <1>3. pc = "next" => fds = {}
    BY DEF CleanInv, OpenInv
  <1> QED BY <1>1, <1>2, <1>3 DEF CleanExit

\* However gzip ends, by itself, after an error or by a signal it handles, no
\* partial output of its own is left on the disk (do_exit() and abort_gzip(),
\* gzip.c:1827-1859), a status of 0 means that no file was left aside, and
\* treat_file() returns with both descriptors closed.
THEOREM CleanExitCorrect == Spec => []CleanExit
  <1>1. CleanInv /\ [Next]_vars => CleanInv'
    BY DiskStep, NameStep, OpenStep, CodeStep, OutputStep DEF CleanInv
  <1> QED BY <1>1, CleanInit, CleanIsClean, PTL DEF Spec

-----------------------------------------------------------------------------
(* Documents and names: the invariant is extended by what is known of the   *)
(* input that is being treated, of its output, and of the names of both.    *)

\* Where an input has been chosen, and where its output exists.
Taking == {"open", "method", "create", "unlink", "creat", "fstat", "work", "close", "cleanup",
           "stat_copied", "unlink_input"}
InProgress ==
    pc \in {"fstat", "work", "close", "cleanup", "stat_copied", "unlink_input"} /\ ~opt.to_stdout

\* The name of the input leads to the file istat, as itself or as a link.
Leads(k) ==
    \/ disk[k] = istat
    \/ /\ body[disk[k]].kind = "link" /\ body[disk[k]].to \in DOMAIN disk
       /\ disk[body[disk[k]].to] = istat
InputInv ==
    /\ pc \in Taking \cup {"name"} /\ ~opt.to_stdout =>
         /\ ifname \in Names /\ Exists(ifname) /\ Leads(Key(ifname))
         /\ istat \in DOMAIN body /\ body[istat].kind = "file"
    /\ pc \in Taking \ {"open"} /\ ~opt.to_stdout => ifd = istat
    /\ pc = "unlink" => StatOK(ofname) /\ Follow(Entry(ofname)) # istat

\* The output has a name of its own and the document of the input.
ResultInv ==
    /\ InProgress =>
         /\ Key(ofname) \in DOMAIN disk /\ disk[Key(ofname)] = ofd /\ ofd \in made /\ ofd # ifd
         /\ body[ofd].kind = "file" /\ body[ofd].doc = body[ifd].doc
    /\ pc \in {"stat_copied", "unlink_input"} => body[ofd].whole

\* What an abort may remove: the output of the moment, else something was left
\* aside before or the name of the output has been shortened.
MarkInv ==
    /\ opt.to_stdout \/ pc = "unlink_input" => ~remove_ofname
    /\ remove_ofname /\ pc \notin {"exit", "killed"} =>
         \/ failed \/ InProgress
         \/ pc \in {"create", "unlink", "creat"} /\ ofname.cut > 0
         \/ pc = "abort" /\ Exists(ofname) /\ Entry(ofname) = ofd /\ ofd \in made
    /\ pc # "exit" => aborted = {}
    /\ aborted # {} => failed \/ ofname.cut > 0

\* Every document is there, in another file than the output that an abort removes.
Removable == IF remove_ofname /\ ofd \in made THEN {ofd} ELSE {}
Sources == {n \in DOMAIN body \ made : body[n].kind = "file"}
Stored(i) == \E k \in DOMAIN disk : disk[k] \notin Removable /\ Holds(disk[k], i)
Given(i) == \E j \in agreed \cup aborted : Holds(j, i)
KeepInv ==
    /\ agreed \subseteq DOMAIN body /\ aborted \subseteq DOMAIN body
    /\ pc = "fstat" => ofd \notin agreed
    /\ \A i \in Sources : Stored(i) \/ Given(i)

\* To compress, the names taken as input have none of the suffixes, and those
\* written have one, which the file system keeps.
Marked(x) == x # <<>> /\ x[Len(x)] \in known_suffixes
CompressInv ==
    Compressing =>
        /\ pc # "method" /\ (pc = "name" => ofname = ifname)
        /\ pc \in Taking => ~Marked(ifname.sfx) /\ Marked(ofname.sfx)
        /\ pc \in {"work", "close", "cleanup", "stat_copied", "unlink_input"} => Over(ofname) <= 0
        /\ pc \notin {"exit", "killed"} =>
             \A k \in DOMAIN disk :
                disk[k] \in made => Marked(k[3]) \/ (pc = "fstat" /\ disk[k] = ofd)

FileInv == InputInv /\ ResultInv /\ MarkInv /\ KeepInv /\ CompressInv

-----------------------------------------------------------------------------
(* What the steps do to the disk                                            *)

\* An entry under the name of the output, which nothing had.
LEMMA EntryAdded ==
    ASSUME CleanInv, pc = "creat", ~Exists(ofname), NEW b \in Bodies,
           disk' = With(ofname, Fresh),
           body' = [n \in DOMAIN body \cup {Fresh} |-> IF n = Fresh THEN b ELSE body[n]]
    PROVE  /\ Fresh \notin DOMAIN body /\ body'[Fresh] = b
           /\ DOMAIN body' = DOMAIN body \cup {Fresh}
           /\ \A n \in DOMAIN body : body'[n] = body[n]
           /\ Key(ofname) \notin DOMAIN disk /\ disk'[Key(ofname)] = Fresh
           /\ DOMAIN disk' = DOMAIN disk \cup {Key(ofname)}
           /\ \A k \in DOMAIN disk : disk'[k] = disk[k]
  <1>1. ofname \in Names /\ IsFileName(ofname) /\ ~TooLongForPosix(ofname)
    BY DEF CleanInv, NameInv, OutputInv, CodeInv, Reading, Creating
  <1>2. Key(ofname) \notin DOMAIN disk
    BY <1>1 DEF Exists
  <1>3. Fresh \notin DOMAIN body
    <2>1. Fresh = Size + 1 /\ Size \in Nat /\ DOMAIN body = 1..Size
      BY DEF Fresh, Size, CleanInv, DiskInv
    <2> QED BY <2>1
  <1> QED BY <1>2, <1>3 DEF With

LEMMA EntryRemoved ==
    ASSUME NEW nm, disk' = Without(nm)
    PROVE  /\ DOMAIN disk' = DOMAIN disk \ {Key(nm)}
           /\ \A k \in DOMAIN disk' : disk'[k] = disk[k]
  BY DEF Without

\* Work and CloseFiles only add to the output.
LEMMA OutputGrows ==
    ASSUME CleanInv, Work \/ CloseFiles
    PROVE  /\ DOMAIN body' = DOMAIN body
           /\ \A n \in DOMAIN body :
                 /\ body'[n].kind = body[n].kind /\ body'[n].doc = body[n].doc
                 /\ body'[n].to = body[n].to /\ (body[n].whole => body'[n].whole)
                 /\ n # ofd \/ opt.to_stdout => body'[n] = body[n]
           /\ pc' = "stat_copied" => body'[ofd].whole
  <1>1. CASE body' = body /\ pc' # "stat_copied"
    BY <1>1
  <1>2. CASE Work /\ body' = Written /\ ~opt.to_stdout
    <2>1. ofd \in DOMAIN body /\ pc' # "stat_copied"
      BY <1>2 DEF Work, CleanInv, OutputInv, Writing
    <2>2. body[ofd] \in Bodies
      BY <2>1 DEF CleanInv, DiskInv
    <2> DEFINE x == [body[ofd] EXCEPT !.tail = "end",
                                      !.gz = IF opt.decompress THEN @ - 1 ELSE @ + 1]
    <2>3. body' = [body EXCEPT ![ofd] = x]
      BY <1>2, <2>1, <2>2 DEF Written, CleanInv, DiskInv, Bodies
    <2>4. /\ x.kind = body[ofd].kind /\ x.doc = body[ofd].doc /\ x.to = body[ofd].to
          /\ x.whole = body[ofd].whole
      BY <2>2 DEF Bodies
    <2> HIDE DEF x
    <2> QED BY <1>2, <2>1, <2>3, <2>4
  <1>3. CASE CloseFiles /\ body' = Closed /\ ~opt.to_stdout /\ method # -1
    <2>1. ofd \in DOMAIN body /\ body[ofd].tail = "end"
      BY <1>3 DEF CloseFiles, CleanInv, OutputInv, Writing
    <2>2. body[ofd] \in Bodies
      BY <2>1 DEF CleanInv, DiskInv
    <2> DEFINE x == [body[ofd] EXCEPT !.whole = TRUE]
    <2>3. body' = [body EXCEPT ![ofd] = x]
      BY <1>3, <2>1 DEF Closed
    <2>4. /\ x.kind = body[ofd].kind /\ x.doc = body[ofd].doc /\ x.to = body[ofd].to /\ x.whole
      BY <2>2 DEF Bodies
    <2> HIDE DEF x
    <2> QED BY <1>3, <2>1, <2>3, <2>4
  <1>4. Work => (body' = body \/ (body' = Written /\ ~opt.to_stdout)) /\ pc' # "stat_copied"
    BY DEF Work, Written
  <1>5. CloseFiles => \/ body' = body /\ pc' # "stat_copied"
                      \/ body' = Closed /\ ~opt.to_stdout /\ method # -1
    BY DEF CloseFiles
  <1> QED BY <1>1, <1>2, <1>3, <1>4, <1>5

\* Keys and names depend on names only.
LEMMA KeySame ==
    ASSUME NEW a, NEW b, a = b, opt' = opt
    PROVE  /\ Key(a) = Key(b) /\ IsFileName(a) = IsFileName(b)
           /\ TooLongForPosix(a)' = TooLongForPosix(b)
  BY DEF Key, KeyOf, Chars, IsFileName, TooLongForPosix, Over

-----------------------------------------------------------------------------
(* The input                                                                *)

\* The first name that get_istat() finds leads to what do_stat() says of it.
LEMMA FoundLeads ==
    ASSUME DiskInv, NEW nm, do_statOK(nm), body[do_stat(nm)].kind = "file",
           istat' = do_stat(nm), UNCHANGED <<disk, body>>
    PROVE  Leads(Key(nm))' /\ istat' \in DOMAIN body
  <1>1. Exists(nm) /\ Entry(nm) = disk[Key(nm)] /\ Entry(nm) \in DOMAIN body
    BY DEF do_statOK, StatOK, Exists, Entry, DiskInv
  <1>2. istat' \in {Entry(nm), Follow(Entry(nm))}
    BY DEF do_stat
  <1>3. istat' \in DOMAIN body
    BY <1>1, <1>2, FollowType
  <1>4. Leads(Key(nm))'
    BY <1>1, <1>2 DEF Leads, Follow
  <1> QED BY <1>3, <1>4

\* A step that leaves the entries that lead to the input, and what the files are.
LEMMA InputStays ==
    ASSUME CleanInv, InputInv, pc \in Taking \cup {"name"}, ~opt.to_stdout, UNCHANGED <<opt, ifname, istat>>,
           \A k \in DOMAIN disk : k = Key(ifname) \/ disk[k] = istat =>
               k \in DOMAIN disk' /\ disk'[k] = disk[k],
           \A n \in DOMAIN body : (\E k \in DOMAIN disk' : disk'[k] = n) => 
               n \in DOMAIN body' /\ body'[n].kind = body[n].kind /\ body'[n].to = body[n].to,
           istat \in DOMAIN body'
    PROVE  /\ (ifname \in Names /\ Exists(ifname) /\ Leads(Key(ifname)))'
           /\ (istat \in DOMAIN body /\ body[istat].kind = "file")'
  <1>1. /\ ifname \in Names /\ Exists(ifname) /\ Leads(Key(ifname))
        /\ istat \in DOMAIN body /\ body[istat].kind = "file"
    BY DEF InputInv
  <1>2. /\ Key(ifname) \in DOMAIN disk /\ IsFileName(ifname) /\ ~TooLongForPosix(ifname)
        /\ Key(ifname)' = Key(ifname)
    BY <1>1 DEF Exists, Key, KeyOf, Chars
  <1>3. Key(ifname) \in DOMAIN disk' /\ disk'[Key(ifname)] = disk[Key(ifname)]
    BY <1>2
  <1>4. disk[Key(ifname)] \in DOMAIN body
    BY <1>2 DEF CleanInv, DiskInv
  <1>5. Exists(ifname)'
    BY <1>2, <1>3 DEF Exists, IsFileName, TooLongForPosix, Over, Chars
  <1>6. \E k \in DOMAIN disk' : disk'[k] = istat
    BY <1>1, <1>2, <1>3 DEF Leads
  <1>7. Leads(Key(ifname))'
    <2>1. /\ body'[disk[Key(ifname)]].kind = body[disk[Key(ifname)]].kind
          /\ body'[disk[Key(ifname)]].to = body[disk[Key(ifname)]].to
      BY <1>3, <1>4
    <2> QED BY <1>1, <1>2, <1>3, <2>1 DEF Leads
  <1>8. body'[istat].kind = "file"
    BY <1>1, <1>6
  <1> QED BY <1>1, <1>5, <1>7, <1>8

\* An entry that leads to the input is not that of an output.
LEMMA InputElsewhere ==
    ASSUME InputInv, pc \in Taking \cup {"name"}, ~opt.to_stdout,
           NEW n, n # istat, body[n].kind = "file",
           Key(ofname) \in DOMAIN disk => disk[Key(ofname)] = n
    PROVE  \A k \in DOMAIN disk : k = Key(ifname) \/ disk[k] = istat => k # Key(ofname)
  BY DEF InputInv, Leads

LEMMA InputStep ==
    ASSUME CleanInv, InputInv, ResultInv, [Next]_vars
    PROVE  InputInv'
  <1>1. ASSUME pc' \notin Taking \cup {"name"}
        PROVE  InputInv'
    BY <1>1 DEF InputInv, Taking
  <1>2. ASSUME opt.to_stdout, opt' = opt, pc' # "unlink"
        PROVE  InputInv'
    BY <1>2 DEF InputInv
  \* The steps that leave the disk alone.
  <1>3. ASSUME UNCHANGED <<opt, disk, body, ifname, istat>>, ~opt.to_stdout, pc \in Taking \cup {"name"},
               pc' # "unlink",
               pc' \in Taking \ {"open"} => ifd' = istat
        PROVE  InputInv'
    <2>1. istat \in DOMAIN body
      BY <1>3 DEF InputInv
    <2>2. /\ (ifname \in Names /\ Exists(ifname) /\ Leads(Key(ifname)))'
          /\ (istat \in DOMAIN body /\ body[istat].kind = "file")'
      BY <1>3, <2>1, InputStays
    <2> QED BY <1>3, <2>2 DEF InputInv
  <1>4. CASE NextArg \/ ReadDir \/ do_exit \/ treat_stdin \/ do_list \/ Cleanup \/ UnlinkInput \/ Abort
             \/ Signal \/ Kill
    <2>1. pc' \in {"next", "stdin", "stat", "exit", "abort", "killed"}
      BY <1>4 DEF NextArg, ReadDir, do_exit, treat_stdin, do_list, Cleanup, UnlinkInput, Abort, Signal,
                  abort_gzip, Kill, Leave
    <2> QED BY <1>1, <2>1 DEF Taking
  <1>5. CASE get_istat
    <2>1. opt' = opt /\ UNCHANGED <<disk, body>> /\ pc' \in {"next", "open", "name"}
      BY <1>5 DEF get_istat, files, Leave
    <2>2. CASE Found(iname) = {}
      <3>1. pc' = "next"
        BY <1>5, <2>2 DEF get_istat, Leave
      <3> QED BY <1>1, <3>1 DEF Taking
    <2>3. CASE Found(iname) # {} /\ ~opt.to_stdout /\ pc' # "next"
      <3>1. PICK nm \in Names : /\ Exists(nm) /\ do_statOK(nm) /\ ifname' = nm /\ istat' = do_stat(nm)
                                /\ body[do_stat(nm)].kind = "file" /\ pc' = "name"
        <4> DEFINE c == CHOOSE j \in Found(iname) : \A l \in Found(iname) : j <= l
                   found == Candidates(iname)[c]
        <4>1. iname \in Names
          BY DEF CleanInv, NameInv
        <4>2. found \in Names /\ Exists(found)
          BY <2>3, <4>1, FirstFound
        <4>3. c \in Found(iname)
          BY <2>3, <4>1, FirstFoundIn
        <4>4. do_statOK(found)
          BY <4>3 DEF Found
        <4>5. /\ ifname' = found /\ istat' = do_stat(found) /\ body[do_stat(found)].kind = "file"
              /\ pc' = "name"
          BY <1>5, <2>3 DEF get_istat, Leave
        <4> QED BY <4>2, <4>4, <4>5
      <3>3. Leads(Key(nm))' /\ istat' \in DOMAIN body
        BY <2>1, <3>1, FoundLeads DEF CleanInv
      <3>4. Exists(ifname)' /\ Leads(Key(ifname))'
        BY <2>1, <3>1, <3>3 DEF Exists, IsFileName, TooLongForPosix, Over, Chars, Key, KeyOf
      <3> QED BY <2>1, <2>3, <3>1, <3>3, <3>4 DEF InputInv, Taking
    <2> QED BY <1>1, <1>2, <2>1, <2>2, <2>3 DEF Taking
  <1>6. CASE make_ofname \/ copy_stat
    <2>1. /\ UNCHANGED <<opt, disk, body, ifname, istat, ifd>> /\ pc \in {"name", "stat_copied"}
          /\ pc' \in {"open", "next", "unlink_input"} /\ (pc = "name" => pc' # "unlink_input")
      BY <1>6 DEF make_ofname, copy_stat, files, fixed, Leave
    <2>2. pc = "stat_copied" /\ ~opt.to_stdout => ifd = istat
      BY DEF InputInv, Taking
    <2> QED BY <1>2, <1>3, <2>1, <2>2 DEF Taking
  <1>7. CASE OpenInput
    <2>1. UNCHANGED <<opt, disk, body, ifname, istat>> /\ pc = "open" /\ pc' \in {"method", "work", "create", "next"}
      BY <1>7 DEF OpenInput, files, fixed, Leave
    <2>2. pc' # "next" => ifd' = Follow(Entry(ifname))
      BY <1>7 DEF OpenInput, Leave
    <2>3. ~opt.to_stdout => Follow(Entry(ifname)) = istat
      BY <2>1 DEF InputInv, Leads, Follow, Entry, Taking
    <2> QED BY <1>2, <1>3, <2>1, <2>2, <2>3 DEF Taking
  <1>8. CASE GetMethod
    <2>1. UNCHANGED <<opt, disk, body, ifname, istat, ifd>> /\ pc = "method" /\ pc' # "unlink"
      BY <1>8 DEF GetMethod, files, fixed, Leave
    <2>2. ~opt.to_stdout => ifd = istat
      BY <2>1 DEF InputInv, Taking
    <2> QED BY <1>2, <1>3, <2>1, <2>2 DEF Taking
  <1>9. CASE check_ofname
    <2>1. /\ UNCHANGED <<opt, disk, body, ifname, istat, ifd>> /\ pc = "create" /\ ~opt.to_stdout
          /\ ifd = istat
      BY <1>9 DEF check_ofname, files, fixed, CleanInv, CodeInv, Creating, InputInv, Taking
    <2>2. \/ pc' \in {"creat", "next"}
          \/ pc' = "unlink" /\ StatOK(ofname') /\ Follow(Entry(ofname')) # istat
      BY <1>9, Zenon DEF check_ofname, Leave
    <2>3. CASE pc' # "unlink"
      BY <1>3, <2>1, <2>3 DEF Taking
    <2>4. CASE pc' = "unlink"
      <3>1. StatOK(ofname)' /\ Follow(Entry(ofname))' # istat'
        BY <2>1, <2>2, <2>4 DEF StatOK, Exists, Dangling, IsFileName, TooLongForPosix, Over, Chars, Key,
                                KeyOf, Entry, Follow
      <3>2. /\ (ifname \in Names /\ Exists(ifname) /\ Leads(Key(ifname)))'
            /\ (istat \in DOMAIN body /\ body[istat].kind = "file")'
        BY <2>1, InputStays DEF InputInv, Taking
      <3> QED BY <2>1, <3>1, <3>2 DEF InputInv
    <2> QED BY <2>3, <2>4
  <1>10. CASE UnlinkOld
    <2>1. /\ UNCHANGED <<opt, body, ifname, istat, ifd>> /\ pc = "unlink" /\ ~opt.to_stdout
          /\ ifd = istat /\ istat \in DOMAIN body /\ body[istat].kind = "file"
      BY <1>10 DEF UnlinkOld, fixed, CleanInv, CodeInv, Creating, InputInv, Taking
    <2>2. CASE pc' = "next"
      BY <1>1, <2>2 DEF Taking
    <2>3. CASE pc' = "creat" /\ disk' = Without(ofname)
      <3>1. StatOK(ofname) /\ Follow(Entry(ofname)) # istat
        BY <2>1 DEF InputInv
      <3>2. \A k \in DOMAIN disk : k = Key(ifname) \/ disk[k] = istat => k # Key(ofname)
        <4>1. disk[Key(ofname)] = Entry(ofname)
          BY DEF Entry
        <4> QED BY <2>1, <3>1, <4>1 DEF InputInv, Leads, Follow, Taking
      <3>3. /\ (ifname \in Names /\ Exists(ifname) /\ Leads(Key(ifname)))'
            /\ (istat \in DOMAIN body /\ body[istat].kind = "file")'
        <4>1. \A n \in DOMAIN body : n \in DOMAIN body' /\ body'[n] = body[n]
          BY <2>1
        <4>2. \A k \in DOMAIN disk : k = Key(ifname) \/ disk[k] = istat => k \in DOMAIN disk' /\ disk'[k] = disk[k]
          BY <2>3, <3>2, EntryRemoved
        <4> QED BY <2>1, <4>1, <4>2, InputStays DEF Taking
      <3> QED BY <2>1, <2>3, <3>3 DEF InputInv
    <2> QED BY <1>10, <2>2, <2>3 DEF UnlinkOld, Unlinked, Leave
  <1>11. CASE OpenOutput \/ Other
    <2>1. /\ UNCHANGED <<opt, ifname, istat, ifd>> /\ pc = "creat" /\ ~opt.to_stdout
          /\ ifd = istat /\ istat \in DOMAIN body
      BY <1>11 DEF OpenOutput, Other, fixed, CleanInv, CodeInv, Creating, InputInv, Taking
    <2>2. \/ pc' = "next"
          \/ /\ ~Exists(ofname) /\ disk' = With(ofname, Fresh) /\ pc' \in {"fstat", "creat"}
             /\ \E b \in Bodies :
                  body' = [n \in DOMAIN body \cup {Fresh} |-> IF n = Fresh THEN b ELSE body[n]]
      BY <1>11, NewFileType DEF OpenOutput, Other, Leave, CleanInv
    <2>3. CASE pc' = "next"
      BY <1>1, <2>3 DEF Taking
    <2>4. CASE pc' # "next"
      <3>1. PICK b \in Bodies : body' = [n \in DOMAIN body \cup {Fresh} |-> IF n = Fresh THEN b ELSE body[n]]
        BY <2>2, <2>4
      <3>2. /\ Fresh \notin DOMAIN body /\ DOMAIN body' = DOMAIN body \cup {Fresh}
            /\ \A n \in DOMAIN body : body'[n] = body[n]
            /\ DOMAIN disk' = DOMAIN disk \cup {Key(ofname)}
            /\ \A k \in DOMAIN disk : disk'[k] = disk[k]
        BY <2>1, <2>2, <2>4, <3>1, EntryAdded
      <3>3. /\ (ifname \in Names /\ Exists(ifname) /\ Leads(Key(ifname)))'
            /\ (istat \in DOMAIN body /\ body[istat].kind = "file")'
        BY <2>1, <3>2, InputStays DEF Taking
      <3> QED BY <2>1, <2>2, <2>4, <3>3 DEF InputInv
    <2> QED BY <2>3, <2>4
  <1>12. CASE CheckNew
    <2>1. /\ UNCHANGED <<opt, ifname, istat, ifd, ofd>> /\ pc = "fstat" /\ ~opt.to_stdout
          /\ ifd = istat /\ istat \in DOMAIN body
      BY <1>12 DEF CheckNew, fixed, CleanInv, CodeInv, Creating, InputInv, Taking
    <2>2. /\ disk[Key(ofname)] = ofd /\ ofd # istat /\ body[ofd].kind = "file"
          /\ \A k \in DOMAIN disk : disk[k] = ofd => k = Key(ofname)
      BY <2>1 DEF ResultInv, InProgress, CleanInv, OutputInv, Writing
    <2>3. \/ pc' = "next"
          \/ pc' = "work" /\ UNCHANGED <<disk, body>>
          \/ /\ pc' = "create" /\ disk' = Without(ofname)
             /\ body' = [n \in DOMAIN body \ {ofd} |-> body[n]]
      BY <1>12 DEF CheckNew, files, Leave, Unlinked
    <2>4. CASE pc' = "create"
      <3>1. /\ DOMAIN disk' = DOMAIN disk \ {Key(ofname)}
            /\ \A k \in DOMAIN disk' : disk'[k] = disk[k] /\ disk'[k] # ofd
        <4>1. disk' = Without(ofname)
          BY <2>3, <2>4
        <4> QED BY <2>2, <4>1 DEF Without
      <3>2. \A k \in DOMAIN disk : k = Key(ifname) \/ disk[k] = istat => k # Key(ofname)
        BY <2>1, <2>2, InputElsewhere DEF Taking
      <3>3. /\ (ifname \in Names /\ Exists(ifname) /\ Leads(Key(ifname)))'
            /\ (istat \in DOMAIN body /\ body[istat].kind = "file")'
        <4>1. \A n \in DOMAIN body : n # ofd => n \in DOMAIN body' /\ body'[n] = body[n]
          BY <2>3, <2>4
        <4> QED BY <2>1, <2>2, <3>1, <3>2, <4>1, InputStays DEF Taking
      <3> QED BY <2>1, <2>4, <3>3 DEF InputInv
    <2> QED BY <1>1, <1>3, <2>1, <2>3, <2>4 DEF Taking
  <1>13. CASE Work \/ CloseFiles
    <2>1. UNCHANGED <<opt, ifname, istat, ifd, disk>> /\ pc \in {"work", "close"} /\ pc' # "unlink"
      BY <1>13 DEF Work, CloseFiles, fixed
    <2>2. CASE ~opt.to_stdout
      <3>1. ifd = istat /\ istat \in DOMAIN body
        BY <2>1, <2>2 DEF InputInv, Taking
      <3>2. /\ (ifname \in Names /\ Exists(ifname) /\ Leads(Key(ifname)))'
            /\ (istat \in DOMAIN body /\ body[istat].kind = "file")'
        BY <1>13, <2>1, <2>2, <3>1, OutputGrows, InputStays DEF Taking
      <3> QED BY <2>1, <3>1, <3>2 DEF InputInv
    <2> QED BY <1>2, <2>1, <2>2
  <1>14. CASE UNCHANGED vars
    <2>1. UNCHANGED <<opt, disk, body, pc, ifname, ofname, istat, ifd>>
      BY <1>14 DEF vars
    <2>2. /\ Exists(ifname)' = Exists(ifname) /\ Leads(Key(ifname))' = Leads(Key(ifname))
          /\ StatOK(ofname)' = StatOK(ofname) /\ Follow(Entry(ofname))' = Follow(Entry(ofname))
      BY <2>1 DEF StatOK, Exists, Dangling, IsFileName, TooLongForPosix, Over, Chars, Key, KeyOf, Entry, Follow,
                  Leads
    <2> QED BY <2>1, <2>2 DEF InputInv
  <1> QED BY <1>4, <1>5, <1>6, <1>7, <1>8, <1>9, <1>10, <1>11, <1>12, <1>13, <1>14 DEF Next, Program

-----------------------------------------------------------------------------
(* The output                                                               *)

LEMMA ResultStep ==
    ASSUME CleanInv, InputInv, ResultInv, [Next]_vars
    PROVE  ResultInv'
  <1>1. ASSUME pc' \notin {"fstat", "work", "close", "cleanup", "stat_copied", "unlink_input"}
        PROVE  ResultInv'
    BY <1>1 DEF ResultInv, InProgress
  <1>2. ASSUME pc' = "work", opt' = opt, opt.to_stdout
        PROVE  ResultInv'
    BY <1>2 DEF ResultInv, InProgress
  \* The steps of an output that exists.
  <1>3. ASSUME InProgress, UNCHANGED <<opt, disk, ofname, ofd, ifd, made>>, DOMAIN body' = DOMAIN body,
               \A n \in DOMAIN body :
                  /\ body'[n].kind = body[n].kind /\ body'[n].doc = body[n].doc
                  /\ body[n].whole => body'[n].whole,
               pc' = "stat_copied" => body'[ofd].whole,
               pc' = "unlink_input" => pc = "stat_copied"
        PROVE  ResultInv'
    <2>1. ofd \in DOMAIN body /\ ifd \in DOMAIN body
      BY <1>3 DEF ResultInv, InputInv, InProgress, Taking, CleanInv, DiskInv
    <2>2. Key(ofname)' = Key(ofname)
      BY <1>3 DEF Key, KeyOf, Chars
    <2> QED BY <1>3, <2>1, <2>2 DEF ResultInv
  <1>4. CASE NextArg \/ ReadDir \/ do_exit \/ treat_stdin \/ get_istat \/ make_ofname
    <2>1. pc' \in {"next", "stdin", "stat", "exit", "abort", "open", "name"}
      BY <1>4 DEF NextArg, ReadDir, do_exit, treat_stdin, get_istat, make_ofname, Leave
    <2> QED BY <1>1, <2>1
  <1>5. CASE OpenInput \/ GetMethod
    <2>1. opt' = opt /\ (pc' \in {"method", "list", "create", "next", "abort"}
                          \/ (pc' = "work" /\ opt.to_stdout))
      BY <1>5 DEF OpenInput, GetMethod, Leave, fixed, CleanInv, CodeInv
    <2> QED BY <1>1, <1>2, <2>1
  <1>6. CASE do_list \/ check_ofname \/ UnlinkOld
    <2>1. pc' \in {"next", "abort", "creat", "unlink"}
      BY <1>6, Zenon DEF do_list, check_ofname, UnlinkOld, Leave
    <2> QED BY <1>1, <2>1
  <1>7. CASE OpenOutput
    <2>1. /\ UNCHANGED <<opt, ofname, ifd>> /\ pc = "creat" /\ ~opt.to_stdout /\ ifd \in DOMAIN body
          /\ body[ifd].kind = "file"
      BY <1>7 DEF OpenOutput, fixed, CleanInv, CodeInv, Creating, InputInv, Taking
    <2>2. CASE pc' = "next"
      BY <1>1, <2>2
    <2>3. CASE /\ ~Exists(ofname) /\ disk' = With(ofname, Fresh) /\ ofd' = Fresh
               /\ made' = made \cup {Fresh} /\ pc' = "fstat"
               /\ body' = [n \in DOMAIN body \cup {Fresh} |-> IF n = Fresh THEN NewFile ELSE body[n]]
      <3>1. /\ Fresh \notin DOMAIN body /\ body'[Fresh] = NewFile /\ disk'[Key(ofname)] = Fresh
            /\ \A n \in DOMAIN body : body'[n] = body[n]
            /\ DOMAIN disk' = DOMAIN disk \cup {Key(ofname)}
        BY <2>1, <2>3, NewFileType, EntryAdded DEF CleanInv
      <3>2. NewFile.kind = "file" /\ NewFile.doc = body[ifd].doc
        <4>1. body[ifd] \in Bodies
          BY <2>1 DEF CleanInv, DiskInv
        <4> QED BY <2>1, <4>1 DEF NewFile, Bodies
      <3>3. Key(ofname)' = Key(ofname)
        BY <2>1 DEF Key, KeyOf, Chars
      <3> QED BY <2>1, <2>3, <3>1, <3>2, <3>3 DEF ResultInv
    <2> QED BY <1>7, <2>2, <2>3 DEF OpenOutput, Leave
  <1>8. CASE CheckNew
    <2>1. UNCHANGED <<opt, ofd, ifd>> /\ InProgress
      BY <1>8 DEF CheckNew, fixed, CleanInv, CodeInv, Creating, InProgress
    <2>2. pc' \in {"create", "next"} \/ (pc' = "work" /\ UNCHANGED <<disk, body, made, ofname>>)
      BY <1>8 DEF CheckNew, files, Leave
    <2> QED BY <1>1, <1>3, <2>1, <2>2
  <1>9. CASE Work \/ CloseFiles
    <2>1. /\ UNCHANGED <<opt, disk, ofname, ofd, ifd, made>> /\ pc \in {"work", "close"}
          /\ pc' \notin {"fstat", "work", "unlink_input"}
      BY <1>9 DEF Work, CloseFiles, fixed, history
    <2>2. CASE opt.to_stdout
      BY <1>9, <2>1, <2>2, OutputGrows DEF CloseFiles, Work, ResultInv, InProgress
    <2>3. CASE ~opt.to_stdout
      BY <1>3, <1>9, <2>1, <2>3, OutputGrows DEF InProgress
    <2> QED BY <2>2, <2>3
  <1>10. CASE copy_stat
    <2>1. /\ UNCHANGED <<opt, disk, body, ofname, ofd, ifd, made>> /\ InProgress
          /\ pc = "stat_copied" /\ pc' = "unlink_input"
      BY <1>10 DEF copy_stat, files, history, fixed, CleanInv, CodeInv, Creating, InProgress
    <2> QED BY <1>3, <2>1
  <1>11. CASE Cleanup \/ UnlinkInput \/ Abort \/ Signal \/ Kill \/ Other
    <2>1. pc' \in {"next", "exit", "killed", "creat"}
      BY <1>11 DEF Cleanup, UnlinkInput, Abort, Signal, abort_gzip, Kill, Other, Leave
    <2> QED BY <1>1, <2>1
  <1>12. CASE UNCHANGED vars
    <2>1. UNCHANGED <<opt, disk, body, pc, ofname, ifd, ofd, made>>
      BY <1>12 DEF vars
    <2>2. Key(ofname)' = Key(ofname)
      BY <2>1 DEF Key, KeyOf, Chars
    <2> QED BY <2>1, <2>2 DEF ResultInv, InProgress
  <1> QED BY <1>4, <1>5, <1>6, <1>7, <1>8, <1>9, <1>10, <1>11, <1>12 DEF Next, Program

-----------------------------------------------------------------------------
(* The mark                                                                 *)

\* Names are only shortened.
LEMMA CutGrows ==
    ASSUME NEW nm \in Names, IsFileName(nm)
    PROVE  /\ PosixShort(nm).cut >= nm.cut /\ PosixShort(nm).sfx = nm.sfx
           /\ shorten_name(nm).cut = nm.cut + 1 /\ shorten_name(nm).sfx = nm.sfx
           /\ shorten_name(nm).stem = nm.stem /\ PosixShort(nm).stem = nm.stem
  <1>1. /\ nm.stem \in Stems /\ Room[nm.stem] \in Nat /\ nm.cut \in Nat
        /\ nm.sfx \in Seq(AnySuffix) /\ Len(nm.sfx) \in Nat
    BY NameParts DEF IsFileName
  <1>2. /\ shorten_name(nm).cut = nm.cut + 1 /\ shorten_name(nm).sfx = nm.sfx
        /\ shorten_name(nm).stem = nm.stem
    BY <1>1, NameWith DEF shorten_name
  <1>3. CASE TooLongForPosix(nm)
    <2>1. Over(nm) \in Nat
      BY <1>1, <1>3 DEF TooLongForPosix, Over, Chars
    <2>2. nm.cut + Over(nm) \in Nat /\ nm.cut + Over(nm) >= nm.cut
      BY <1>1, <2>1
    <2>3. PosixShort(nm) = [nm EXCEPT !.cut = nm.cut + Over(nm)]
      BY <1>3 DEF PosixShort
    <2> DEFINE n == nm.cut + Over(nm)
    <2>4. n \in Nat /\ n >= nm.cut /\ PosixShort(nm) = [nm EXCEPT !.cut = n]
      BY <2>2, <2>3
    <2> HIDE DEF n
    <2> QED BY <1>2, <2>4, NameWith
  <1>4. CASE ~TooLongForPosix(nm)
    BY <1>1, <1>2, <1>4 DEF PosixShort
  <1> QED BY <1>3, <1>4

LEMMA MarkStep ==
    ASSUME CleanInv, ResultInv, MarkInv, [Next]_vars
    PROVE  MarkInv'
  <1>1. CASE NextArg \/ ReadDir \/ do_exit \/ treat_stdin \/ get_istat \/ make_ofname \/ OpenInput
             \/ GetMethod \/ do_list
    <2>1. pc \in {"next", "stdin", "stat", "name", "open", "method", "list"} /\ pc' # "unlink_input"
      BY <1>1 DEF NextArg, ReadDir, do_exit, treat_stdin, get_istat, make_ofname, OpenInput, GetMethod,
                  do_list, Leave
    <2>2. UNCHANGED <<opt, remove_ofname, aborted>> /\ (failed => failed')
      BY <1>1 DEF NextArg, ReadDir, do_exit, treat_stdin, get_istat, make_ofname, OpenInput, GetMethod,
                  do_list, Leave, history, fixed
    <2>3. remove_ofname => failed
      BY <2>1 DEF MarkInv, InProgress
    <2>4. aborted = {}
      BY <2>1 DEF MarkInv
    <2> QED BY <2>1, <2>2, <2>3, <2>4 DEF MarkInv
  <1>2. CASE check_ofname
    <2>1. pc = "create" /\ UNCHANGED <<opt, remove_ofname, aborted>>
      BY <1>2 DEF check_ofname, fixed
    <2>2. \/ pc' \in {"creat", "unlink"} /\ (failed => failed')
          \/ pc' = "next" /\ failed'
      <3>1. \/ pc' \in {"creat", "unlink"} /\ UNCHANGED <<exit_code, failed, fds>>
            \/ pc' = "creat" /\ UNCHANGED <<exit_code, failed, fds>>
            \/ Leave
            \/ \E agree : IF agree THEN pc' = "unlink" /\ UNCHANGED <<exit_code, failed, fds>> ELSE Leave
        BY <1>2, Zenon DEF check_ofname
      <3> QED BY <3>1 DEF Leave
    <2>3. ofname \in Names /\ IsFileName(ofname) /\ ~opt.to_stdout
      BY <2>1 DEF CleanInv, NameInv, CodeInv, Creating, Reading
    <2>4. ofname' \in {PosixShort(ofname), shorten_name(PosixShort(ofname))}
      BY <1>2 DEF check_ofname
    <2>5. ofname.cut > 0 => ofname'.cut > 0
      <3>1. ofname.cut \in Nat /\ PosixShort(ofname).cut \in Nat
        BY <2>3, ShortName, NameParts
      <3>2. PosixShort(ofname).cut >= ofname.cut
        BY <2>3, CutGrows
      <3>3. shorten_name(PosixShort(ofname)).cut = PosixShort(ofname).cut + 1
        BY <2>3, ShortName, CutGrows
      <3> QED BY <2>4, <3>1, <3>2, <3>3
    <2> QED BY <2>1, <2>2, <2>3, <2>5 DEF MarkInv, InProgress
  <1>3. CASE UnlinkOld
    <2>1. /\ pc = "unlink" /\ UNCHANGED <<opt, ofname, remove_ofname, aborted>>
          /\ ((pc' = "creat" /\ (failed => failed')) \/ (pc' = "next" /\ failed'))
      BY <1>3 DEF UnlinkOld, fixed, Leave
    <2> QED BY <2>1 DEF MarkInv, InProgress
  <1>4. CASE OpenOutput
    <2>1. /\ pc = "creat" /\ UNCHANGED <<opt, aborted>> /\ ~opt.to_stdout
          /\ (pc' = "fstat" \/ (pc' = "next" /\ failed'))
      BY <1>4 DEF OpenOutput, fixed, Leave, CleanInv, CodeInv, Creating
    <2> QED BY <2>1 DEF MarkInv, InProgress
  <1>5. CASE CheckNew
    <2>1. pc = "fstat" /\ UNCHANGED <<opt, remove_ofname, aborted>> /\ ~opt.to_stdout
      BY <1>5 DEF CheckNew, fixed, CleanInv, CodeInv, Creating
    <2>2. \/ pc' = "create" /\ ofname' = shorten_name(ofname)
          \/ pc' = "work"
          \/ pc' = "next" /\ failed'
      BY <1>5 DEF CheckNew, Leave
    <2>3. shorten_name(ofname).cut > 0
      <3>1. ofname \in Names /\ IsFileName(ofname)
        BY <2>1 DEF CleanInv, NameInv, CodeInv, Creating
      <3> QED BY <3>1, CutGrows, NameParts
    <2> QED BY <2>1, <2>2, <2>3 DEF MarkInv, InProgress
  <1>6. CASE Work \/ CloseFiles
    <2>1. /\ pc \in {"work", "close"} /\ pc' \in {"close", "abort", "next", "cleanup", "stat_copied"}
          /\ UNCHANGED <<opt, disk, ofname, ofd, made, remove_ofname, aborted>>
          /\ (pc' = "next" => opt.to_stdout)
      BY <1>6 DEF Work, CloseFiles, fixed, history
    <2>2. CASE opt.to_stdout
      BY <2>1, <2>2 DEF MarkInv
    <2>3. CASE ~opt.to_stdout
      <3>1. Exists(ofname)' /\ Entry(ofname)' = ofd' /\ ofd' \in made'
        <4>1. /\ Key(ofname) \in DOMAIN disk /\ disk[Key(ofname)] = ofd /\ ofd \in made
              /\ ~TooLongForPosix(ofname) /\ IsFileName(ofname)
          BY <2>1, <2>3 DEF ResultInv, InProgress, CleanInv, OutputInv, NameInv, Writing
        <4>2. Key(ofname)' = Key(ofname) /\ TooLongForPosix(ofname)' = TooLongForPosix(ofname)
          BY <2>1 DEF Key, KeyOf, Chars, TooLongForPosix, IsFileName, Over
        <4> QED BY <2>1, <4>1, <4>2 DEF Exists, Entry, IsFileName
      <3>2. failed => failed'
        BY <1>6, <2>3 DEF Work, CloseFiles, history
      <3> QED BY <2>1, <2>3, <3>1, <3>2 DEF MarkInv, InProgress
    <2> QED BY <2>2, <2>3
  <1>7. CASE Cleanup
    <2>1. pc = "cleanup" /\ pc' = "next" /\ failed' /\ UNCHANGED <<opt, remove_ofname, aborted>>
      BY <1>7 DEF Cleanup, Leave, fixed
    <2> QED BY <2>1 DEF MarkInv, InProgress
  <1>8. CASE copy_stat \/ UnlinkInput
    <2>1. ~remove_ofname' /\ UNCHANGED <<opt, aborted>> /\ pc \in {"stat_copied", "unlink_input"}
      BY <1>8 DEF copy_stat, UnlinkInput, fixed, history, MarkInv
    <2> QED BY <2>1 DEF MarkInv
  <1>9. CASE Abort \/ Signal
    <2>1. /\ pc \notin {"exit", "killed"} /\ pc' = "exit"
          /\ UNCHANGED <<opt, ofname, remove_ofname, failed>> /\ aborted = {}
      BY <1>9 DEF Abort, Signal, abort_gzip, fixed, MarkInv
    <2>2. aborted' # {} => remove_ofname /\ Exists(ofname) /\ ~(Entry(ofname) = ofd /\ ofd \in made)
      BY <1>9, <2>1 DEF Abort, Signal, abort_gzip
    <2>3. remove_ofname /\ ~(Entry(ofname) = ofd /\ ofd \in made) => failed \/ ofname.cut > 0
      <3>1. InProgress => Entry(ofname) = ofd /\ ofd \in made
        BY DEF ResultInv, Entry
      <3> QED BY <2>1, <3>1 DEF MarkInv
    <2> QED BY <2>1, <2>2, <2>3 DEF MarkInv
  <1>10. CASE Kill
    <2>1. pc' = "killed" /\ UNCHANGED <<opt, remove_ofname, aborted, failed, ofname>> /\ aborted = {}
      BY <1>10 DEF Kill, history, fixed, MarkInv
    <2> QED BY <2>1 DEF MarkInv
  <1>11. CASE Other
    <2>1. pc = "creat" /\ pc' = "creat" /\ UNCHANGED <<opt, remove_ofname, aborted, failed, ofname>>
      BY <1>11 DEF Other, history, fixed
    <2> QED BY <2>1 DEF MarkInv, InProgress
  <1>12. CASE UNCHANGED vars
    <2>1. UNCHANGED <<opt, disk, pc, ofname, ofd, remove_ofname, made, aborted, failed>>
      BY <1>12 DEF vars
    <2>2. Exists(ofname)' = Exists(ofname) /\ Entry(ofname)' = Entry(ofname)
      BY <2>1 DEF Exists, Entry, Key, KeyOf, Chars, TooLongForPosix, IsFileName, Over
    <2> QED BY <2>1, <2>2 DEF MarkInv, InProgress
  <1> QED BY <1>1, <1>2, <1>3, <1>4, <1>5, <1>6, <1>7, <1>8, <1>9, <1>10, <1>11, <1>12
          DEF Next, Program

-----------------------------------------------------------------------------
(* The documents                                                            *)

\* A file that stays what it is, or becomes whole.
Grows(n) == /\ body'[n].kind = body[n].kind /\ body'[n].doc = body[n].doc
            /\ body[n].whole => body'[n].whole

\* Every file outside of the output keeps its entry, or is given up.
LEMMA KeepStays ==
    ASSUME KeepInv,
           \A i \in Sources : i \in Sources' => body'[i] = body[i],
           \A k \in DOMAIN disk : disk[k] \notin Removable =>
              /\ Grows(disk[k])
              /\ \/ disk[k] \in agreed' \cup aborted'
                 \/ k \in DOMAIN disk' /\ disk'[k] = disk[k] /\ disk[k] \notin Removable',
           \A j \in agreed \cup aborted : j \in agreed' \cup aborted' /\ Grows(j)
    PROVE  \A i \in Sources : i \in Sources' => Stored(i)' \/ Given(i)'
  <1> SUFFICES ASSUME NEW i \in Sources, i \in Sources'
               PROVE  Stored(i)' \/ Given(i)'
    OBVIOUS
  <1>1. \A j : Holds(j, i) /\ Grows(j) => Holds(j, i)'
    BY DEF Holds, Grows
  <1>2. CASE Given(i)
    <2>1. PICK j \in agreed \cup aborted : Holds(j, i)
      BY <1>2 DEF Given
    <2>2. Holds(j, i)' /\ j \in agreed' \cup aborted'
      BY <1>1, <2>1
    <2> QED BY <2>2 DEF Given
  <1>3. CASE Stored(i)
    <2>1. PICK k \in DOMAIN disk : disk[k] \notin Removable /\ Holds(disk[k], i)
      BY <1>3 DEF Stored
    <2> DEFINE j == disk[k]
    <2>2. PICK n : n = j
      OBVIOUS
    <2>3. Grows(n) /\ Holds(n, i)
      BY <2>1, <2>2
    <2>4. Holds(n, i)'
      BY <1>1, <2>3
    <2>5. \/ n \in agreed' \cup aborted'
          \/ k \in DOMAIN disk' /\ disk'[k] = n /\ n \notin Removable'
      BY <2>1, <2>2
    <2>6. disk'[k] = n => Holds(disk[k], i)'
      BY <2>4 DEF Holds
    <2> QED BY <2>4, <2>5, <2>6 DEF Given, Stored
  <1> QED BY <1>2, <1>3 DEF KeepInv

LEMMA KeepStep ==
    ASSUME CleanInv, InputInv, ResultInv, MarkInv, KeepInv, [Next]_vars
    PROVE  KeepInv'
  <1>1. \A k \in DOMAIN disk : disk[k] \in DOMAIN body
    BY DEF CleanInv, DiskInv
  <1>2. /\ agreed \subseteq DOMAIN body /\ aborted \subseteq DOMAIN body /\ made \subseteq DOMAIN body
        /\ Sources \subseteq DOMAIN body
    BY DEF KeepInv, CleanInv, DiskInv, Sources
  \* The steps that change no file.
  <1>3. ASSUME UNCHANGED <<body, made, agreed>>, aborted \subseteq aborted', aborted' \subseteq DOMAIN body,
               pc' # "fstat",
               \A k \in DOMAIN disk : disk[k] \notin Removable =>
                  \/ disk[k] \in aborted'
                  \/ k \in DOMAIN disk' /\ disk'[k] = disk[k] /\ disk[k] \notin Removable'
        PROVE  KeepInv'
    <2>1. Sources' = Sources
      BY <1>3 DEF Sources
    <2>2. \A n : Grows(n)
      BY <1>3 DEF Grows
    <2>3. \A k \in DOMAIN disk : disk[k] \notin Removable =>
            /\ Grows(disk[k])
            /\ \/ disk[k] \in agreed' \cup aborted'
               \/ k \in DOMAIN disk' /\ disk'[k] = disk[k] /\ disk[k] \notin Removable'
      BY <1>3, <2>2
    <2>4. \A j \in agreed \cup aborted : j \in agreed' \cup aborted' /\ Grows(j)
      BY <1>3, <2>2
    <2>5. \A i \in Sources' : body'[i] = body[i]
      BY <1>3
    <2>6. \A i \in Sources' : Stored(i)' \/ Given(i)'
      BY <2>1, <2>3, <2>4, <2>5, KeepStays
    <2> QED BY <1>2, <1>3, <2>6 DEF KeepInv
  <1>4. CASE NextArg \/ ReadDir \/ do_exit \/ treat_stdin \/ get_istat \/ make_ofname \/ OpenInput
             \/ GetMethod \/ do_list \/ check_ofname \/ Kill
    <2>1. UNCHANGED <<disk, body, made, agreed, aborted, ofd, remove_ofname>>
      BY <1>4 DEF NextArg, ReadDir, do_exit, treat_stdin, get_istat, make_ofname, OpenInput, GetMethod,
                  do_list, check_ofname, Kill, files, history, fixed
    <2>2. pc' # "fstat"
      <3>1. ~check_ofname => pc' # "fstat"
        BY <1>4 DEF NextArg, ReadDir, do_exit, treat_stdin, get_istat, make_ofname, OpenInput, GetMethod,
                    do_list, Kill, Leave
      <3>2. check_ofname => pc' # "fstat"
        BY Zenon DEF check_ofname, Leave
      <3> QED BY <3>1, <3>2
    <2>3. Removable' = Removable
      BY <2>1 DEF Removable
    <2> QED BY <1>2, <1>3, <2>1, <2>2, <2>3
  <1>5. CASE UnlinkOld
    <2>1. /\ UNCHANGED <<body, made, aborted, ofd, remove_ofname>> /\ pc' # "fstat"
      BY <1>5 DEF UnlinkOld, fixed, Leave
    <2>2. Removable' = Removable /\ Sources' = Sources /\ \A n : Grows(n)
      BY <2>1 DEF Removable, Sources, Grows
    <2>3. CASE UNCHANGED <<disk, agreed>>
      BY <1>2, <1>3, <2>1, <2>2, <2>3
    <2>4. CASE Exists(ofname) /\ disk' = Without(ofname) /\ agreed' = agreed \cup {Entry(ofname)}
      <3>1. agreed' \subseteq DOMAIN body
        BY <1>1, <1>2, <2>4 DEF Exists, Entry
      <3>2. \A k \in DOMAIN disk : disk[k] \notin Removable =>
            /\ Grows(disk[k])
            /\ \/ disk[k] \in agreed' \cup aborted'
               \/ k \in DOMAIN disk' /\ disk'[k] = disk[k] /\ disk[k] \notin Removable'
        BY <2>2, <2>4 DEF Without, Entry
      <3>3. \A j \in agreed \cup aborted : j \in agreed' \cup aborted' /\ Grows(j)
        BY <2>1, <2>2, <2>4
      <3>4. \A i \in Sources' : body'[i] = body[i]
        BY <2>1
      <3>5. \A i \in Sources' : Stored(i)' \/ Given(i)'
        BY <2>2, <3>2, <3>3, <3>4, KeepStays
      <3> QED BY <1>2, <2>1, <3>1, <3>5 DEF KeepInv
    <2> QED BY <1>5, <2>3, <2>4 DEF UnlinkOld, Unlinked
  <1>6. CASE OpenOutput
    <2>1. /\ pc = "creat" /\ UNCHANGED <<opt, ifname, ofname, agreed, aborted>> /\ ifd \in DOMAIN body
      BY <1>6 DEF OpenOutput, fixed, CleanInv, NameInv, Reading
    <2>2. CASE UNCHANGED <<disk, body, made>> /\ ofd' = None /\ pc' = "next"
      <3>1. None \notin DOMAIN body
        BY NoneAssumption DEF CleanInv, DiskInv
      <3>2. Removable' = {}
        BY <1>2, <2>2, <3>1 DEF Removable
      <3> QED BY <1>2, <1>3, <2>1, <2>2, <3>2
    <2>3. CASE /\ ~Exists(ofname) /\ disk' = With(ofname, Fresh) /\ ofd' = Fresh
               /\ made' = made \cup {Fresh} /\ pc' = "fstat"
               /\ body' = [n \in DOMAIN body \cup {Fresh} |-> IF n = Fresh THEN NewFile ELSE body[n]]
      <3>1. /\ Fresh \notin DOMAIN body
            /\ DOMAIN body' = DOMAIN body \cup {Fresh}
            /\ \A n \in DOMAIN body : body'[n] = body[n]
            /\ \A k \in DOMAIN disk : disk'[k] = disk[k]
            /\ DOMAIN disk \subseteq DOMAIN disk'
        BY <2>1, <2>3, NewFileType, EntryAdded DEF CleanInv
      <3>2. Removable' \subseteq {Fresh}
        BY <2>3 DEF Removable
      <3>3. Sources' \subseteq Sources
        BY <2>3, <3>1 DEF Sources
      <3>4. \A n \in DOMAIN body : Grows(n)
        BY <3>1 DEF Grows
      <3>5. \A k \in DOMAIN disk : disk[k] \notin Removable =>
            /\ Grows(disk[k])
            /\ \/ disk[k] \in agreed' \cup aborted'
               \/ k \in DOMAIN disk' /\ disk'[k] = disk[k] /\ disk[k] \notin Removable'
        BY <1>1, <3>1, <3>2, <3>4
      <3>6. \A j \in agreed \cup aborted : j \in agreed' \cup aborted' /\ Grows(j)
        BY <1>2, <2>1, <3>4
      <3>7. \A i \in Sources' : body'[i] = body[i]
        BY <1>2, <3>1, <3>3
      <3>8. \A i \in Sources' : Stored(i)' \/ Given(i)'
        BY <3>3, <3>5, <3>6, <3>7, KeepStays
      <3> QED BY <1>2, <2>1, <2>3, <3>1, <3>8 DEF KeepInv
    <2> QED BY <1>6, <2>2, <2>3 DEF OpenOutput, files, Leave
  <1>7. CASE CheckNew
    <2>1. /\ pc = "fstat" /\ UNCHANGED <<ofd, remove_ofname, agreed, aborted>> /\ aborted = {}
          /\ ~opt.to_stdout
      BY <1>7 DEF CheckNew, fixed, CleanInv, CodeInv, Creating, MarkInv
    <2>2. /\ Removable = {ofd} /\ ofd \in made /\ ofd \notin agreed
          /\ Key(ofname) \in DOMAIN disk /\ disk[Key(ofname)] = ofd
      BY <2>1 DEF Removable, ResultInv, InProgress, CleanInv, OutputInv, Writing, KeepInv
    <2>3. CASE UNCHANGED <<disk, body, made>> /\ pc' = "work"
      <3>1. Removable' = Removable
        BY <2>1, <2>3 DEF Removable
      <3> QED BY <1>2, <1>3, <2>1, <2>3, <3>1
    <2>4. CASE disk' = Without(ofname) /\ UNCHANGED <<body, made>> /\ pc' = "next"
      <3>1. Removable' = Removable
        BY <2>1, <2>4 DEF Removable
      <3>2. \A k \in DOMAIN disk : disk[k] \notin Removable => k \in DOMAIN disk' /\ disk'[k] = disk[k]
        BY <2>2, <2>4 DEF Without
      <3> QED BY <1>2, <1>3, <2>1, <2>4, <3>1, <3>2
    <2>5. CASE /\ disk' = Without(ofname) /\ made' = made \ {ofd} /\ pc' = "create"
               /\ body' = [n \in DOMAIN body \ {ofd} |-> body[n]]
      <3>1. /\ DOMAIN body' = DOMAIN body \ {ofd}
            /\ \A n \in DOMAIN body \ {ofd} : body'[n] = body[n]
        BY <2>5
      <3>2. Removable' = {}
        BY <2>1, <2>5 DEF Removable
      <3>3. Sources' \subseteq Sources
        BY <2>2, <2>5, <3>1 DEF Sources
      <3>4. \A n \in DOMAIN body \ {ofd} : Grows(n)
        BY <3>1 DEF Grows
      <3>5. \A k \in DOMAIN disk : disk[k] \notin Removable =>
            /\ Grows(disk[k])
            /\ \/ disk[k] \in agreed' \cup aborted'
               \/ k \in DOMAIN disk' /\ disk'[k] = disk[k] /\ disk[k] \notin Removable'
        BY <1>1, <2>2, <2>5, <3>2, <3>4 DEF Without
      <3>6. \A j \in agreed \cup aborted : j \in agreed' \cup aborted' /\ Grows(j)
        BY <1>2, <2>1, <2>2, <3>4
      <3>7. \A i \in Sources' : body'[i] = body[i]
        BY <3>1 DEF Sources
      <3>8. \A i \in Sources' : Stored(i)' \/ Given(i)'
        BY <3>3, <3>5, <3>6, <3>7, KeepStays
      <3> QED BY <1>2, <2>1, <2>2, <2>5, <3>1, <3>8 DEF KeepInv
    <2> QED BY <1>7, <2>3, <2>4, <2>5 DEF CheckNew, files, Leave, Unlinked
  <1>8. CASE Work \/ CloseFiles
    <2>1. /\ UNCHANGED <<opt, disk, ofd, made, remove_ofname, agreed, aborted>> /\ pc' # "fstat"
          /\ pc \in {"work", "close"}
      BY <1>8 DEF Work, CloseFiles, fixed, history
    <2>2. /\ DOMAIN body' = DOMAIN body
          /\ \A n \in DOMAIN body : /\ Grows(n)
                                    /\ n # ofd \/ opt.to_stdout => body'[n] = body[n]
      BY <1>8, OutputGrows DEF Grows
    <2>3. opt.to_stdout \/ ofd \in made
      BY <2>1 DEF ResultInv, InProgress
    <2>4. Removable' = Removable
      BY <2>1 DEF Removable
    <2>5. Sources' = Sources
      BY <2>1, <2>2 DEF Sources, Grows
    <2>6. \A i \in Sources' : body'[i] = body[i]
      BY <2>2, <2>3, <2>5 DEF Sources
    <2>7. \A i \in Sources' : Stored(i)' \/ Given(i)'
      BY <1>1, <1>2, <2>1, <2>2, <2>4, <2>5, <2>6, KeepStays
    <2> QED BY <1>2, <2>1, <2>2, <2>7 DEF KeepInv
  <1>9. CASE Cleanup
    <2>1. /\ pc = "cleanup" /\ pc' = "next" /\ disk' = Without(ofname) /\ ~opt.to_stdout
          /\ UNCHANGED <<body, made, agreed, aborted, ofd, remove_ofname>>
      BY <1>9 DEF Cleanup, Leave, Unlinked, fixed, CleanInv, CodeInv, Creating
    <2>2. Removable = {ofd} /\ disk[Key(ofname)] = ofd
      BY <2>1 DEF Removable, ResultInv, InProgress, CleanInv, OutputInv, Writing
    <2>3. Removable' = Removable
      BY <2>1 DEF Removable
    <2>4. \A k \in DOMAIN disk : disk[k] \notin Removable => k \in DOMAIN disk' /\ disk'[k] = disk[k]
      BY <2>1, <2>2 DEF Without
    <2> QED BY <1>2, <1>3, <2>1, <2>3, <2>4
  <1>10. CASE copy_stat
    <2>1. ~remove_ofname' /\ UNCHANGED <<disk, body, made, agreed, aborted>> /\ pc' = "unlink_input"
      BY <1>10 DEF copy_stat, files, history
    <2>2. Removable' = {}
      BY <2>1 DEF Removable
    <2> QED BY <1>2, <1>3, <2>1, <2>2
  <1>11. CASE UnlinkInput
    <2>1. /\ pc = "unlink_input" /\ pc' = "next" /\ ~opt.to_stdout /\ ~remove_ofname
          /\ UNCHANGED <<body, made, agreed, aborted, remove_ofname>>
      BY <1>11 DEF UnlinkInput, history, fixed, CleanInv, CodeInv, Creating, MarkInv
    <2>2. Removable = {} /\ Removable' = {}
      BY <2>1 DEF Removable
    <2>3. CASE disk' = disk
      BY <1>2, <1>3, <2>1, <2>2, <2>3
    <2>4. CASE disk' = Without(ifname)
      <3>1. /\ Key(ofname) \in DOMAIN disk /\ disk[Key(ofname)] = ofd /\ ofd # istat
            /\ body[ofd].kind = "file" /\ body[ofd].doc = body[istat].doc /\ body[ofd].whole
            /\ Leads(Key(ifname))
        BY <2>1 DEF ResultInv, InProgress, InputInv, Taking
      <3>2. PICK kf : kf = Key(ifname)
        OBVIOUS
      <3>3. PICK ko : ko = Key(ofname)
        OBVIOUS
      <3>4. /\ DOMAIN disk' = DOMAIN disk \ {kf}
            /\ \A k \in DOMAIN disk' : disk'[k] = disk[k]
        BY <2>4, <3>2 DEF Without
      <3>5. body[disk[kf]].kind = "file" => disk[kf] = istat
        BY <3>1, <3>2 DEF Leads
      <3>6. \A i \in Sources : Stored(i)' \/ Given(i)'
        <4> SUFFICES ASSUME NEW i \in Sources PROVE Stored(i)' \/ Given(i)'
          OBVIOUS
        <4>1. CASE Given(i)
          BY <2>1, <4>1 DEF Given, Holds
        <4>2. CASE Stored(i)
          <5>1. PICK k \in DOMAIN disk : Holds(disk[k], i)
            BY <4>2 DEF Stored
          <5>2. CASE k # kf
            BY <2>1, <2>2, <3>4, <5>1, <5>2 DEF Stored, Holds
          <5>3. CASE k = kf
            <6>1. disk[k] = istat /\ ko \in DOMAIN disk' /\ disk'[ko] = ofd
              BY <3>1, <3>3, <3>4, <3>5, <5>1, <5>3 DEF Holds
            <6>2. body'[disk'[ko]].kind = "file" /\ body'[disk'[ko]].doc = body'[i].doc
                  /\ body'[disk'[ko]].whole
              BY <2>1, <3>1, <5>1, <6>1 DEF Holds
            <6> QED BY <2>2, <6>1, <6>2 DEF Stored, Holds
          <5> QED BY <5>2, <5>3
        <4> QED BY <4>1, <4>2 DEF KeepInv
      <3>7. Sources' = Sources
        BY <2>1 DEF Sources
      <3> QED BY <1>2, <2>1, <3>6, <3>7 DEF KeepInv
    <2> QED BY <1>11, <2>3, <2>4 DEF UnlinkInput, Unlinked
  <1>12. CASE Abort \/ Signal
    <2>1. UNCHANGED <<body, made, agreed, ofd, remove_ofname>> /\ pc' = "exit"
      BY <1>12 DEF Abort, Signal, abort_gzip, fixed
    <2>2. Removable' = Removable
      BY <2>1 DEF Removable
    <2>3. CASE UNCHANGED <<disk, aborted>>
      BY <1>2, <1>3, <2>1, <2>2, <2>3
    <2>4. CASE /\ remove_ofname /\ Exists(ofname) /\ disk' = Without(ofname)
               /\ aborted' = IF Entry(ofname) = ofd /\ ofd \in made THEN aborted
                             ELSE aborted \cup {Entry(ofname)}
      <3>1. Entry(ofname) \in Removable \/ Entry(ofname) \in aborted'
        BY <2>4 DEF Removable
      <3>2. aborted \subseteq aborted' /\ aborted' \subseteq DOMAIN body
        BY <1>1, <1>2, <2>4 DEF Exists, Entry
      <3>3. \A k \in DOMAIN disk : disk[k] \notin Removable =>
               disk[k] \in aborted' \/ (k \in DOMAIN disk' /\ disk'[k] = disk[k])
        BY <2>4, <3>1 DEF Without, Entry
      <3> QED BY <1>3, <2>1, <2>2, <3>2, <3>3
    <2> QED BY <1>12, <2>3, <2>4 DEF Abort, Signal, abort_gzip, Unlinked
  <1>13. CASE Other
    <2> DEFINE b == [NewFile EXCEPT !.doc = Another, !.whole = TRUE]
    <2>1. /\ pc = "creat" /\ pc' = "creat" /\ ~Exists(ofname) /\ disk' = With(ofname, Fresh)
          /\ body' = [n \in DOMAIN body \cup {Fresh} |-> IF n = Fresh THEN b ELSE body[n]]
          /\ UNCHANGED <<made, agreed, aborted, ofd, remove_ofname>>
          /\ ifd \in DOMAIN body /\ ifd = istat /\ body[istat].kind = "file"
      BY <1>13 DEF Other, history, fixed, CleanInv, NameInv, CodeInv, Reading, Creating, InputInv, Taking
    <2>2. b \in Bodies /\ b.kind = "file"
      <3>1. NewFile \in Bodies /\ b \in Bodies
        BY <2>1, NewFileType DEF CleanInv
      <3>2. NewFile.kind = "file"
        <4>1. body[ifd] \in Bodies
          BY <2>1 DEF CleanInv, DiskInv
        <4> QED BY <2>1, <4>1 DEF NewFile, Bodies
      <3>3. b.kind = NewFile.kind
        BY <3>1 DEF Bodies
      <3> QED BY <3>1, <3>2, <3>3
    <2> HIDE DEF b
    <2>3. PICK ko : ko = Key(ofname)
      OBVIOUS
    <2>4. /\ Fresh \notin DOMAIN body /\ body'[Fresh] = b
          /\ DOMAIN body' = DOMAIN body \cup {Fresh}
          /\ \A n \in DOMAIN body : body'[n] = body[n]
          /\ \A k \in DOMAIN disk : disk'[k] = disk[k]
          /\ DOMAIN disk' = DOMAIN disk \cup {ko} /\ disk'[ko] = Fresh
      BY <2>1, <2>2, <2>3, EntryAdded
    <2>5. Removable' = Removable /\ Fresh \notin Removable
      BY <1>2, <2>1, <2>4 DEF Removable
    <2>6. \A n \in DOMAIN body : Grows(n)
      BY <2>4 DEF Grows
    <2>7. PICK new : new = Fresh
      OBVIOUS
    <2>8. Sources' \subseteq Sources \cup {new}
      BY <2>1, <2>4, <2>7 DEF Sources
    <2>9. Stored(new)'
      <3>1. body'[new].kind = "file" /\ disk'[ko] = new /\ ko \in DOMAIN disk' /\ new \notin Removable'
        BY <2>2, <2>4, <2>5, <2>7
      <3> QED BY <3>1 DEF Stored, Holds
    <2>10. \A k \in DOMAIN disk : disk[k] \notin Removable =>
            /\ Grows(disk[k])
            /\ \/ disk[k] \in agreed' \cup aborted'
               \/ k \in DOMAIN disk' /\ disk'[k] = disk[k] /\ disk[k] \notin Removable'
      BY <1>1, <2>4, <2>5, <2>6
    <2>11. \A j \in agreed \cup aborted : j \in agreed' \cup aborted' /\ Grows(j)
      BY <1>2, <2>1, <2>6
    <2>12. \A i \in Sources : i \in Sources' => Stored(i)' \/ Given(i)'
      <3>1. \A i \in Sources : i \in Sources' => body'[i] = body[i]
        BY <1>2, <2>4
      <3> QED BY <2>10, <2>11, <3>1, KeepStays
    <2> QED BY <1>2, <2>1, <2>4, <2>8, <2>9, <2>12 DEF KeepInv
  <1>14. CASE UNCHANGED vars
    <2>1. UNCHANGED <<disk, body, pc, made, agreed, aborted, ofd, remove_ofname>>
      BY <1>14 DEF vars
    <2> QED BY <2>1 DEF KeepInv, Sources, Stored, Given, Holds, Removable
  <1> QED BY <1>4, <1>5, <1>6, <1>7, <1>8, <1>9, <1>10, <1>11, <1>12, <1>13, <1>14 DEF Next, Program

-----------------------------------------------------------------------------
(* The names                                                                *)

LEMMA SuffixMarked ==
    ASSUME NEW nm \in Names
    PROVE  /\ get_suffix(nm) = None <=> ~Marked(nm.sfx)
           /\ Marked(Suffixed(nm, z_suffix).sfx)
  <1>1. get_suffix(nm) = None <=> ~Marked(nm.sfx)
    BY NoneAssumption DEF get_suffix, Marked, known_suffixes
  <1>2. Marked(Suffixed(nm, z_suffix).sfx)
    <2>1. nm.sfx \in Seq(AnySuffix) /\ ".gz" \in AnySuffix
      BY NameParts DEF AnySuffix
    <2> DEFINE x == Append(nm.sfx, ".gz")
    <2>2. x \in Seq(AnySuffix) /\ Len(x) = Len(nm.sfx) + 1 /\ x[Len(x)] = ".gz" /\ x # <<>>
      BY <2>1, AppendProperties
    <2>3. Suffixed(nm, z_suffix) = [nm EXCEPT !.sfx = x]
      BY DEF Suffixed, z_suffix
    <2> HIDE DEF x
    <2>4. Suffixed(nm, z_suffix).sfx = x
      BY <2>2, <2>3, NameWith
    <2> QED BY <2>2, <2>4 DEF Marked, known_suffixes
  <1> QED BY <1>1, <1>2

\* A name that is not cut is found under its own suffixes; one that is cut has
\* the entry of a name with a character less.
LEMMA KeyKeeps ==
    ASSUME NEW nm \in Names, IsFileName(nm)
    PROVE  /\ Over(nm) <= 0 => Key(nm)[3] = nm.sfx
           /\ ~(Over(nm) <= 0) => KeyOf(nm, Chars(nm) - 1) = Key(nm)
  <1>1. /\ Room[nm.stem] \in Nat /\ nm.cut \in Nat /\ nm.sfx \in Seq(AnySuffix) /\ Len(nm.sfx) \in Nat
    BY NameParts
  <1> DEFINE n == Chars(nm)
             r == Room[nm.stem] + nm.cut
  <1>2. n \in Nat /\ r \in Nat /\ n = 3 * Len(nm.sfx) /\ Over(nm) = n - r
    <2>1. n = 3 * Len(nm.sfx) /\ Over(nm) = n - r
      BY DEF Chars, Over
    <2>2. 3 * Len(nm.sfx) \in Nat /\ r \in Nat
      BY <1>1
    <2> QED BY <2>1, <2>2
  <1>3. CASE n <= r
    <2>1. n \div 3 = Len(nm.sfx)
      <3>1. \A l \in Nat : (3 * l) \div 3 = l
        OBVIOUS
      <3> QED BY <1>1, <1>2, <3>1
    <2>2. Key(nm) = <<nm.stem, nm.cut, SubSeq(nm.sfx, 1, Len(nm.sfx)), n % 3>>
      <3>1. ~(n < 0)
        BY <1>2
      <3> QED BY <1>3, <2>1, <3>1 DEF Key, KeyOf
    <2>3. SubSeq(nm.sfx, 1, Len(nm.sfx)) = nm.sfx
      BY <1>1, SubSeqProperties
    <2>4. Key(nm)[3] = nm.sfx
      BY <2>2, <2>3
    <2> QED BY <1>2, <1>3, <2>4
  <1>4. CASE ~(n <= r)
    <2>1. ~(n < 0) /\ ~(n - 1 < 0) /\ (IF n - 1 <= r THEN n - 1 ELSE r) = r
      BY <1>2, <1>4
    <2>2. Key(nm) = <<nm.stem, nm.cut, SubSeq(nm.sfx, 1, r \div 3), r % 3>>
      BY <1>4, <2>1 DEF Key, KeyOf
    <2>3. KeyOf(nm, n - 1) = <<nm.stem, nm.cut, SubSeq(nm.sfx, 1, r \div 3), r % 3>>
      <3> DEFINE m == n - 1
      <3>1. ~(m < 0) /\ (IF m <= r THEN m ELSE r) = r
        BY <2>1
      <3> HIDE DEF m
      <3>2. KeyOf(nm, m) = <<nm.stem, nm.cut, SubSeq(nm.sfx, 1, r \div 3), r % 3>>
        BY <3>1 DEF KeyOf
      <3> QED BY <3>2 DEF m
    <2>4. ~(Over(nm) <= 0)
      BY <1>2, <1>4
    <2> QED BY <2>2, <2>3, <2>4
  <1> QED BY <1>3, <1>4

LEMMA CompressStep ==
    ASSUME CleanInv, InputInv, ResultInv, CompressInv, [Next]_vars
    PROVE  CompressInv'
  <1> SUFFICES ASSUME Compressing' PROVE CompressInv'
    BY DEF CompressInv
  <1>1. Compressing /\ opt' = opt
    <2>1. opt' = opt
      BY DEF Next, Program, NextArg, ReadDir, do_exit, treat_stdin, get_istat, make_ofname, OpenInput,
             GetMethod, do_list, check_ofname, UnlinkOld, OpenOutput, CheckNew, Work, CloseFiles, Cleanup,
             copy_stat, UnlinkInput, Abort, Signal, abort_gzip, Kill, Other, vars, fixed
    <2> QED BY <2>1 DEF Compressing
  <1>2. ~opt.decompress /\ ~opt.to_stdout
    BY <1>1 DEF Compressing
  <1>3. pc \in {"name", "create", "fstat"} => IsFileName(ofname) /\ ofname \in Names
    BY <1>2 DEF CleanInv, NameInv, Reading
  \* The entries that remain are marked as they were.
  <1>4. ASSUME pc \notin {"exit", "killed"}, made' \subseteq made,
               \A k \in DOMAIN disk' : /\ k \in DOMAIN disk /\ disk'[k] = disk[k]
                                       /\ pc = "fstat" /\ pc' # "fstat" => disk[k] # ofd,
               pc' = "fstat" => pc = "fstat" /\ ofd' = ofd
        PROVE  \A k \in DOMAIN disk' :
                 disk'[k] \in made' => Marked(k[3]) \/ (pc' = "fstat" /\ disk'[k] = ofd')
    BY <1>1, <1>4 DEF CompressInv
  <1>5. CASE NextArg \/ ReadDir \/ do_exit \/ treat_stdin \/ do_list
    <2>1. /\ UNCHANGED <<disk, made>> /\ pc \in {"next", "stdin", "list"}
          /\ pc' \in {"next", "stdin", "stat", "abort", "exit"}
      BY <1>5 DEF NextArg, ReadDir, do_exit, treat_stdin, do_list, files, history
    <2> QED BY <1>4, <2>1 DEF CompressInv, Taking
  <1>6. CASE get_istat
    <2>1. /\ UNCHANGED <<disk, made>> /\ pc = "stat"
          /\ pc' = "next" \/ (pc' = "name" /\ ofname' = ifname')
      BY <1>2, <1>6 DEF get_istat, files, Leave
    <2> QED BY <1>4, <2>1 DEF CompressInv, Taking
  <1>7. CASE make_ofname
    <2>1. /\ UNCHANGED <<disk, made, ifname>> /\ pc = "name"
          /\ pc' = "next" \/ (pc' = "open" /\ get_suffix(ofname) = None /\ ofname' = Suffixed(ofname, z_suffix))
      BY <1>2, <1>7 DEF make_ofname, files, Leave
    <2>2. ofname = ifname /\ ofname \in Names
      BY <1>1, <1>3, <2>1 DEF CompressInv
    <2>3. pc' = "open" => ~Marked(ifname'.sfx) /\ Marked(ofname'.sfx)
      BY <2>1, <2>2, SuffixMarked
    <2> QED BY <1>4, <2>1, <2>3 DEF CompressInv, Taking
  <1>8. CASE OpenInput \/ GetMethod
    <2>1. /\ UNCHANGED <<disk, made, ifname, ofname>> /\ pc = "open" /\ pc' \in {"next", "create"}
      BY <1>1, <1>2, <1>8 DEF OpenInput, GetMethod, files, Leave, CompressInv
    <2> QED BY <1>1, <1>4, <2>1 DEF CompressInv, Taking
  <1>9. CASE check_ofname
    <2>1. /\ UNCHANGED <<disk, made, ifname>> /\ pc = "create"
          /\ ofname' \in {PosixShort(ofname), shorten_name(PosixShort(ofname))}
      BY <1>9 DEF check_ofname, files
    <2>2. pc' \in {"next", "unlink", "creat"}
      BY <1>9, Zenon DEF check_ofname, Leave
    <2>3. ofname'.sfx = ofname.sfx
      <3>1. ofname \in Names /\ IsFileName(ofname)
        BY <1>3, <2>1
      <3>2. PosixShort(ofname).sfx = ofname.sfx /\ PosixShort(ofname) \in Names /\ IsFileName(PosixShort(ofname))
        BY <3>1, CutGrows, ShortName
      <3>3. shorten_name(PosixShort(ofname)).sfx = ofname.sfx
        BY <3>2, CutGrows
      <3> QED BY <2>1, <3>2, <3>3
    <2> QED BY <1>1, <1>4, <2>1, <2>2, <2>3 DEF CompressInv, Taking
  <1>10. CASE UnlinkOld
    <2>1. /\ UNCHANGED <<made, ifname, ofname>> /\ pc = "unlink" /\ pc' \in {"next", "creat"}
          /\ \A k \in DOMAIN disk' : k \in DOMAIN disk /\ disk'[k] = disk[k]
      BY <1>10 DEF UnlinkOld, Unlinked, Without, Leave
    <2> QED BY <1>1, <1>4, <2>1 DEF CompressInv, Taking
  <1>11. CASE OpenOutput
    <2>1. /\ UNCHANGED <<ifname, ofname>> /\ pc = "creat" /\ ifd \in DOMAIN body
      BY <1>11 DEF OpenOutput, fixed, CleanInv, NameInv, Reading
    <2>2. CASE UNCHANGED <<disk, made>> /\ pc' = "next"
      BY <1>4, <2>1, <2>2 DEF CompressInv, Taking
    <2>3. CASE /\ ~Exists(ofname) /\ disk' = With(ofname, Fresh) /\ ofd' = Fresh
               /\ made' = made \cup {Fresh} /\ pc' = "fstat"
               /\ body' = [n \in DOMAIN body \cup {Fresh} |-> IF n = Fresh THEN NewFile ELSE body[n]]
      <3>1. PICK ko : ko = Key(ofname)
        OBVIOUS
      <3>2. /\ DOMAIN disk' = DOMAIN disk \cup {ko} /\ disk'[ko] = ofd'
            /\ \A k \in DOMAIN disk : disk'[k] = disk[k] /\ (disk[k] \in made' => disk[k] \in made)
        <4>1. /\ Fresh \notin DOMAIN body /\ DOMAIN disk' = DOMAIN disk \cup {Key(ofname)}
              /\ disk'[Key(ofname)] = Fresh /\ \A k \in DOMAIN disk : disk'[k] = disk[k]
          BY <2>1, <2>3, NewFileType, EntryAdded DEF CleanInv
        <4> QED BY <2>3, <3>1, <4>1 DEF CleanInv, DiskInv
      <3>3. \A k \in DOMAIN disk : disk[k] \in made => Marked(k[3])
        BY <1>1, <2>1 DEF CompressInv
      <3>4. \A k \in DOMAIN disk' : disk'[k] \in made' => Marked(k[3]) \/ disk'[k] = ofd'
        BY <3>2, <3>3
      <3> QED BY <1>1, <2>1, <2>3, <3>4 DEF CompressInv, Taking
    <2> QED BY <1>11, <2>2, <2>3 DEF OpenOutput, files, Leave
  <1>12. CASE CheckNew
    <2>1. pc = "fstat" /\ UNCHANGED <<ifname, ofd>> /\ ofname \in Names /\ IsFileName(ofname)
      BY <1>3, <1>12 DEF CheckNew, fixed
    <2>2. /\ \A k \in DOMAIN disk : disk[k] = ofd => k = Key(ofname)
          /\ Key(ofname) \in DOMAIN disk
      BY <1>2, <2>1 DEF CleanInv, OutputInv, Writing, ResultInv, InProgress
    <2>3. CASE ~name_too_long(ofname) /\ UNCHANGED <<disk, made, ofname>> /\ pc' = "work"
      <3>1. Over(ofname) <= 0
        BY <2>1, <2>2, <2>3, KeyKeeps DEF name_too_long, Entry
      <3>2. Marked(Key(ofname)[3])
        BY <1>1, <2>1, <3>1, KeyKeeps DEF CompressInv, Taking
      <3>3. Over(ofname)' <= 0
        BY <2>3, <3>1 DEF Over, Chars
      <3>4. \A k \in DOMAIN disk' : disk'[k] \in made' => Marked(k[3])
        BY <1>1, <2>1, <2>2, <2>3, <3>2 DEF CompressInv
      <3> QED BY <1>1, <2>1, <2>3, <3>3, <3>4 DEF CompressInv, Taking
    <2>4. CASE disk' = Without(ofname) /\ made' \subseteq made
               /\ (pc' = "next" \/ (pc' = "create" /\ ofname' = shorten_name(ofname)))
      <3>1. pc' = "create" => ofname'.sfx = ofname.sfx
        BY <2>1, <2>4, CutGrows
      <3>2. \A k \in DOMAIN disk' : k \in DOMAIN disk /\ disk'[k] = disk[k] /\ disk[k] # ofd
        BY <2>2, <2>4 DEF Without
      <3> QED BY <1>1, <1>4, <2>1, <2>4, <3>1, <3>2 DEF CompressInv, Taking
    <2> QED BY <1>2, <1>12, <2>3, <2>4 DEF CheckNew, files, Leave, Unlinked
  <1>13. CASE Work \/ CloseFiles \/ copy_stat
    <2>1. /\ UNCHANGED <<disk, made, ifname, ofname>> /\ pc \in {"work", "close", "stat_copied"}
          /\ pc' \in {"close", "abort", "next", "cleanup", "stat_copied", "unlink_input"}
      BY <1>13 DEF Work, CloseFiles, copy_stat, files, fixed, history
    <2>2. Over(ofname)' = Over(ofname)
      BY <2>1 DEF Over, Chars
    <2> QED BY <1>1, <1>4, <2>1, <2>2 DEF CompressInv, Taking
  <1>14. CASE Cleanup \/ UnlinkInput
    <2>1. /\ made' = made /\ pc \in {"cleanup", "unlink_input"} /\ pc' = "next"
          /\ \A k \in DOMAIN disk' : k \in DOMAIN disk /\ disk'[k] = disk[k]
      BY <1>14 DEF Cleanup, UnlinkInput, Unlinked, Without, Leave, history
    <2> QED BY <1>4, <2>1 DEF CompressInv, Taking
  <1>15. CASE Abort \/ Signal \/ Kill
    <2>1. pc' \in {"exit", "killed"}
      BY <1>15 DEF Abort, Signal, abort_gzip, Kill
    <2> QED BY <2>1 DEF CompressInv, Taking
  <1>16. CASE Other
    <2>1. /\ pc = "creat" /\ pc' = "creat" /\ UNCHANGED <<ifname, ofname, made>>
          /\ disk' = With(ofname, Fresh)
      BY <1>16 DEF Other, history, fixed
    <2>2. Fresh \notin made
      <3>1. Fresh = Size + 1 /\ Size \in Nat /\ made \subseteq 1..Size
        BY DEF Fresh, Size, CleanInv, DiskInv
      <3> QED BY <3>1
    <2>3. \A k \in DOMAIN disk' : disk'[k] = Fresh \/ (k \in DOMAIN disk /\ disk'[k] = disk[k])
      BY <2>1 DEF With
    <2>4. \A k \in DOMAIN disk' : disk'[k] \in made' => Marked(k[3])
      BY <1>1, <2>1, <2>2, <2>3 DEF CompressInv
    <2> QED BY <1>1, <2>1, <2>4 DEF CompressInv, Taking
  <1>17. CASE UNCHANGED vars
    <2>1. UNCHANGED <<opt, disk, pc, made, ifname, ofname, ofd>>
      BY <1>17 DEF vars
    <2>2. Over(ofname)' = Over(ofname)
      BY <2>1 DEF Over, Chars
    <2> QED BY <1>1, <2>1, <2>2 DEF CompressInv
  <1> QED BY <1>5, <1>6, <1>7, <1>8, <1>9, <1>10, <1>11, <1>12, <1>13, <1>14, <1>15, <1>16, <1>17
          DEF Next, Program

-----------------------------------------------------------------------------
(* The theorems                                                             *)

LEMMA FileInit == Init => FileInv
  <1> SUFFICES ASSUME Init PROVE FileInv
    OBVIOUS
  <1>1. InputInv /\ ResultInv
    BY DEF Init, InputInv, ResultInv, InProgress, Taking
  <1>2. MarkInv
    BY DEF Init, MarkInv, InProgress
  <1>3. KeepInv
    <2>1. Removable = {}
      BY DEF Init, Removable
    <2>2. \A i \in Sources : Stored(i)
      <3> SUFFICES ASSUME NEW i \in Sources PROVE Stored(i)
        OBVIOUS
      <3>1. PICK sc \in Scenes : disk = sc.disk /\ body = sc.body
        BY DEF Init
      <3>2. \E k \in DOMAIN disk : disk[k] = i
        BY <3>1, SceneAssumption DEF Sources
      <3> QED BY <2>1, <3>2 DEF Stored, Holds, Sources
    <2> QED BY <2>2 DEF Init, KeepInv
  <1>4. CompressInv
    BY DEF Init, CompressInv, Taking
  <1> QED BY <1>1, <1>2, <1>3, <1>4 DEF FileInv

LEMMA FileStep == CleanInv /\ FileInv /\ [Next]_vars => CleanInv' /\ FileInv'
  <1>1. CleanInv /\ [Next]_vars => CleanInv'
    BY DiskStep, NameStep, OpenStep, CodeStep, OutputStep DEF CleanInv
  <1> QED BY <1>1, InputStep, ResultStep, MarkStep, KeepStep, CompressStep DEF FileInv

LEMMA FilesAreKept == FileInv => Kept
  <1> SUFFICES ASSUME FileInv PROVE Kept
    OBVIOUS
  <1>1. \A i \in Sources : \/ \E k \in DOMAIN disk : Holds(disk[k], i)
                           \/ \E j \in agreed \cup aborted : Holds(j, i)
    BY DEF FileInv, KeepInv, Stored, Given
  <1> QED BY <1>1 DEF FileInv, MarkInv, Kept, Sources

LEMMA NamesAreRight == CleanInv /\ FileInv => NamesRight
  <1> SUFFICES ASSUME CleanInv, FileInv, Compressing
               PROVE  NamesRight
    BY DEF NamesRight
  <1>1. ASSUME pc \in {"create", "unlink", "creat", "fstat", "work", "close", "stat_copied", "unlink_input"},
               Over(ifname) <= 0, Entry(ifname) \in made
        PROVE  FALSE
    <2>1. /\ ifname \in Names /\ Exists(ifname) /\ Leads(Key(ifname)) /\ ifd = istat
      BY <1>1 DEF FileInv, InputInv, Taking, Compressing
    <2>2. Key(ifname)[3] = ifname.sfx /\ ~Marked(ifname.sfx)
      BY <1>1, <2>1, KeyKeeps DEF Exists, FileInv, CompressInv, Taking
    <2>3. pc = "fstat" /\ Entry(ifname) = ofd
      BY <1>1, <2>1, <2>2 DEF Exists, Entry, FileInv, CompressInv
    <2>4. ofd # istat /\ body[ofd].kind = "file"
      BY <2>1, <2>3 DEF FileInv, ResultInv, InProgress, Compressing
    <2> QED BY <2>1, <2>3, <2>4 DEF Leads, Entry
  <1>2. pc \in {"work", "close", "stat_copied", "unlink_input"} => Over(ofname) <= 0
    BY DEF FileInv, CompressInv
  <1> QED BY <1>1, <1>2 DEF NamesRight

\* At every moment, after a signal or a crash too, every document that was there
\* is in a file that has all of it, plain or compressed, unless the user let
\* check_ofname() remove that file or abort_gzip() removed it; which it only does
\* when the mark was left by an output given up before (gzip.c:787-1138, 1844-1859).
THEOREM KeptCorrect == Spec => []Kept
  <1> QED BY FileInit, CleanInit, FileStep, FilesAreKept, PTL DEF Spec

\* To compress, no output is taken as an input, however treat_dir() comes to read
\* it (gzip.c:1737-1779), and no output keeps a name the file system has cut.
THEOREM NamesCorrect == Spec => []NamesRight
  <1> QED BY FileInit, CleanInit, FileStep, NamesAreRight, PTL DEF Spec
=============================================================================
