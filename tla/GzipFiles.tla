---- MODULE GzipFiles ----
(***************************************************************************)
(* What the gzip program of gzip-src (gzip.c) does to the files it is      *)
(* given: which names it reads, creates, overwrites and removes, in which  *)
(* order, and what a signal, an input/output error or the user's answer    *)
(* does in between.  The bytes of a file are abstracted to the document it *)
(* holds, how many times that is compressed, what follows it, and whether  *)
(* the file is whole.                                                      *)
(*                                                                         *)
(* A name is a stem with suffixes; the file system keeps Room[stem]        *)
(* characters after the stem and either cuts a longer name silently        *)
(* (opt.silent) or refuses it with ENAMETOOLONG.                           *)
(***************************************************************************)
EXTENDS Integers, Sequences, FiniteSets
LOCAL INSTANCE SequencesExt

CONSTANTS
    Stems,       \* file stems
    InDir,       \* the stems of the files that are in the one directory
    Room,        \* Room[s]: characters a name keeps after the stem s
    Scenes,      \* initial file systems with the options and arguments
    MaxCreated,  \* bound on the files another process creates
    None

ASSUME SizesAssumption == /\ InDir \subseteq Stems
                          /\ Room \in [Stems -> Nat]
                          /\ MaxCreated \in Nat
ASSUME NoneAssumption == None \notin Nat /\ None \notin {".gz", ".z", ".tgz"}

\* A name, the entry a directory has for one, and what a file can be.
AnySuffix == {".gz", ".z", ".tgz", ".tar"}
Names == [stem : Stems \cup {"", "-"}, cut : Nat, sfx : Seq(AnySuffix)]
Keys == Stems \X Nat \X Seq(AnySuffix) \X Nat
Bodies == [kind : {"file", "dir", "link"}, doc : Nat, gz : Int, whole : BOOLEAN,
           orig : {nm \in Names : nm.stem \in Stems} \cup {None},
           tail : {"end", "garbage", "unknown", "partial"},
           to : Keys \cup {None}]
ASSUME SceneAssumption ==
    \A sc \in Scenes :
        /\ sc.args \in Seq(Names) /\ IsFiniteSet(DOMAIN sc.body)
        /\ sc.body \in [1..Cardinality(DOMAIN sc.body) -> Bodies]
        /\ DOMAIN sc.disk \subseteq Keys /\ sc.disk \in [DOMAIN sc.disk -> DOMAIN sc.body]
        /\ \A i \in DOMAIN sc.body : \E k \in DOMAIN sc.disk : sc.disk[k] = i

VARIABLES
    opt,           \* the options: decompress, force, to_stdout, ...
    args,          \* arguments not treated yet
    disk,          \* key -> inode, for the names that exist
    body,          \* inode -> what it holds
    pc, iname, ifname, ofname, istat,
    ifd, ofd,      \* inode last opened (StdinFd at first)
    fds,           \* descriptors that are open: subset of {"ifd", "ofd"}
    remove_ofname, method, exit_code,
    dir,           \* the directory treat_dir() is reading, or None
    seen,          \* the entries readdir() has returned
    made,          \* inodes this program created            (history)
    agreed,        \* inodes removed with consent            (history)
    aborted,       \* inodes removed by abort_gzip() that were not the output
                   \* it was called for                      (history)
    failed         \* a file was left aside, and not on -q or -r (history)

vars == <<opt, args, disk, body, pc, iname, ifname, ofname, istat, ifd, ofd,
          fds, remove_ofname, method, exit_code, dir, seen, made, agreed,
          aborted, failed>>
files == <<disk, body>>
history == <<made, agreed, aborted, failed>>
fixed == <<opt, args, iname, dir, seen>>

OK == 0
ERROR == 1
WARNING == 2
StdinFd == 0
Another == 0       \* the document of a file another process creates

(***************************************************************************)
(* The options: what each letter sets, in the order given.  no_name is     *)
(* unset (-1 in the code) until the end, when it follows decompress.       *)
(***************************************************************************)
NoOptions == [decompress |-> FALSE, force |-> FALSE, to_stdout |-> FALSE, test |-> FALSE,
              list |-> FALSE, recursive |-> FALSE, quiet |-> FALSE, no_name |-> None,
              tty |-> TRUE, silent |-> TRUE]
SetOption(o, c) ==
    CASE c = "c" -> [o EXCEPT !.to_stdout = TRUE]
      [] c = "d" -> [o EXCEPT !.decompress = TRUE]
      [] c = "f" -> [o EXCEPT !.force = TRUE]
      [] c = "l" -> [o EXCEPT !.list = TRUE, !.decompress = TRUE, !.to_stdout = TRUE]
      [] c = "n" -> [o EXCEPT !.no_name = TRUE]
      [] c = "N" -> [o EXCEPT !.no_name = FALSE]
      [] c = "q" -> [o EXCEPT !.quiet = TRUE]
      [] c = "r" -> [o EXCEPT !.recursive = TRUE]
      [] c = "t" -> [o EXCEPT !.test = TRUE, !.decompress = TRUE, !.to_stdout = TRUE]
      [] c = "v" -> [o EXCEPT !.quiet = FALSE]
Options(letters) ==
    LET o == FoldLeft(SetOption, NoOptions, letters)
    IN [o EXCEPT !.no_name = IF @ = None THEN o.decompress ELSE @]

(***************************************************************************)
(* Names                                                                   *)
(***************************************************************************)
\* cut: characters shorten_name() took from the stem.
Name(s, x) == [stem |-> s, cut |-> 0, sfx |-> x]
NoName == Name("", <<>>)       \* no name in the file system
Stdin == Name("-", <<>>)

Chars(nm) == 3 * Len(nm.sfx)
Over(nm) == Chars(nm) - (Room[nm.stem] + nm.cut)

\* The directory entry the file system uses for the first n characters after
\* the stem of nm.
KeyOf(nm, n) ==
    IF n < 0 THEN <<nm.stem, nm.cut - n, <<>>, 0>>
    ELSE LET kept == IF n <= Room[nm.stem] + nm.cut THEN n
                     ELSE Room[nm.stem] + nm.cut
         IN <<nm.stem, nm.cut, SubSeq(nm.sfx, 1, kept \div 3), kept % 3>>
Key(nm) == KeyOf(nm, Chars(nm))
NameOf(k) == [stem |-> k[1], cut |-> k[2], sfx |-> k[3]]
IsFileName(nm) == nm.stem \in Stems

TooLongForPosix(nm) == ~opt.silent /\ IsFileName(nm) /\ Over(nm) > 0
Exists(nm) == IsFileName(nm) /\ ~TooLongForPosix(nm) /\ Key(nm) \in DOMAIN disk
Entry(nm) == disk[Key(nm)]

\* The inode stat() reports: the target, for a symbolic link.
Follow(i) == IF body[i].kind = "link" /\ body[i].to \in DOMAIN disk
             THEN disk[body[i].to] ELSE i
Dangling(i) == body[i].kind = "link" /\ body[i].to \notin DOMAIN disk
StatOK(nm) == Exists(nm) /\ ~Dangling(Entry(nm))

\* do_stat(): lstat(), or stat() with -c or -f.
do_statOK(nm) == IF opt.to_stdout \/ opt.force THEN StatOK(nm) ELSE Exists(nm)
do_stat(nm) == IF opt.to_stdout \/ opt.force THEN Follow(Entry(nm)) ELSE Entry(nm)

\* Three of the suffixes the program knows; each counts three characters.
\* Mutant: z_suffix is left out of the list.
suffixesShort == {".z", ".tgz"}
known_suffixes == {".gz", ".z", ".tgz"}
suffixes == <<".gz", ".z">>       \* those get_istat() tries, in this order
z_suffix == ".gz"
get_suffix(nm) == IF nm.sfx # <<>> /\ nm.sfx[Len(nm.sfx)] \in known_suffixes
                  THEN nm.sfx[Len(nm.sfx)] ELSE None
Stripped(nm) == LET x == SubSeq(nm.sfx, 1, Len(nm.sfx) - 1)
                IN [nm EXCEPT !.sfx = IF get_suffix(nm) = ".tgz"
                                      THEN Append(x, ".tar") ELSE x]
Suffixed(nm, s) == [nm EXCEPT !.sfx = Append(@, s)]

\* A name is ambiguous when the name without its last character is the same
\* file.
name_too_long(nm) == /\ KeyOf(nm, Chars(nm) - 1) \in DOMAIN disk
                     /\ disk[KeyOf(nm, Chars(nm) - 1)] = Entry(nm)
\* Mutant: the name is left as it is.
same_name(nm) == nm
shorten_name(nm) == [nm EXCEPT !.cut = @ + 1]
\* The loop of check_ofname() on ENAMETOOLONG.
PosixShort(nm) == IF TooLongForPosix(nm) THEN [nm EXCEPT !.cut = @ + Over(nm)] ELSE nm

Links(i) == Cardinality({k \in DOMAIN disk : disk[k] = i})
Without(nm) == [k \in DOMAIN disk \ {Key(nm)} |-> disk[k]]
With(nm, i) == [k \in DOMAIN disk \cup {Key(nm)} |-> IF k = Key(nm) THEN i ELSE disk[k]]
Fresh == Cardinality(DOMAIN body) + 1

\* WARN and progerror() on the exit code.
Warned == exit_code' = IF exit_code = OK THEN WARNING ELSE exit_code
Failed == exit_code' = ERROR

(***************************************************************************)
(* main() and treat_dir(): the next file                                   *)
(***************************************************************************)
Init == /\ \E sc \in Scenes : /\ opt = sc.opt
                             /\ args = sc.args
                             /\ disk = sc.disk
                             /\ body = sc.body
        /\ pc = "next" /\ iname = NoName /\ ifname = NoName /\ ofname = NoName
        /\ istat = None /\ ifd = StdinFd /\ ofd = None /\ fds = {}
        /\ remove_ofname = FALSE /\ method = 8 /\ exit_code = OK
        /\ dir = None /\ seen = {}
        /\ made = {} /\ agreed = {} /\ aborted = {} /\ failed = FALSE

\* The files created after opendir() may or may not be returned.
Entries == {nm \in {NameOf(k) : k \in {q \in DOMAIN disk : q[4] = 0}} :
              nm.stem \in InDir}
OldEntries == {nm \in Entries : Entry(nm) \notin made}

NextArg ==
    /\ pc = "next" /\ dir = None /\ args # <<>>
    /\ args' = Tail(args)
    /\ IF Head(args) = Stdin THEN pc' = "stdin" /\ UNCHANGED iname
       ELSE pc' = "stat" /\ iname' = Head(args)
    /\ UNCHANGED <<files, history, opt, ifname, ofname, istat, ifd, ofd, fds,
                   remove_ofname, method, exit_code, dir, seen>>

ReadDir ==
    /\ pc = "next" /\ dir # None
    /\ \/ \E nm \in Entries \ seen : /\ iname' = nm
                                    /\ seen' = seen \cup {nm}
                                    /\ pc' = "stat" /\ UNCHANGED dir
       \/ /\ OldEntries \subseteq seen
          /\ dir' = None /\ seen' = {} /\ UNCHANGED <<iname, pc>>
    /\ UNCHANGED <<files, history, opt, args, ifname, ofname, istat, ifd, ofd,
                   fds, remove_ofname, method, exit_code>>

do_exit == /\ pc = "next" /\ dir = None /\ args = <<>>
           /\ pc' = "exit"
           /\ UNCHANGED <<files, history, fixed, ifname, ofname, istat, ifd, ofd,
                          fds, remove_ofname, method, exit_code>>

\* treat_stdin(), for "-".  The first bytes of compressed input are read from
\* the descriptor ifd, which only the first file leaves at the standard input.
treat_stdin ==
    /\ pc = "stdin"
    /\ ofname' = NoName /\ ifname' = NoName
    /\ \/ /\ ~opt.decompress \/ ifd = StdinFd
          /\ pc' = "next" /\ UNCHANGED <<exit_code, method>>
       \/ /\ opt.decompress /\ ifd # StdinFd
          /\ pc' = "abort" /\ Failed /\ UNCHANGED method
       \/ pc' = "abort" /\ Failed /\ UNCHANGED method       \* an I/O error
       \/ /\ opt.decompress
          /\ method' = -1 /\ Failed /\ pc' = "exit"        \* get_method() < 0
    /\ UNCHANGED <<files, history, fixed, istat, ifd, ofd, fds, remove_ofname>>

(***************************************************************************)
(* treat_file()                                                            *)
(***************************************************************************)
\* The file is left aside: back to the caller.
Leave == pc' = "next" /\ failed' = TRUE

\* get_istat(): the name as given or, to decompress, with a suffix.
Candidates(nm) ==
    <<nm>> \o IF opt.decompress /\ get_suffix(nm) = None
              THEN [i \in 1..Len(suffixes) |-> Suffixed(nm, suffixes[i])]
              ELSE <<>>
Found(nm) == {i \in 1..Len(Candidates(nm)) : do_statOK(Candidates(nm)[i])}

\* treat_file() up to the name of the output, of which make_ofname() first
\* copies the input name.
get_istat ==
    /\ pc = "stat"
    /\ UNCHANGED <<files, opt, args, iname, ifd, ofd, fds, remove_ofname, method>>
    /\ UNCHANGED <<made, agreed, aborted>>
    /\ IF Found(iname) = {}
       THEN /\ Failed /\ Leave /\ ifname' = iname
            /\ UNCHANGED <<ofname, istat, dir, seen>>
       ELSE LET c == CHOOSE i \in Found(iname) : \A j \in Found(iname) : i <= j
                nm == Candidates(iname)[c]
                i == do_stat(nm)
            IN /\ ifname' = nm /\ istat' = i
               /\ \/ /\ body[i].kind = "dir" /\ opt.recursive
                     /\ dir' = nm /\ seen' = {} /\ pc' = "next"
                     /\ UNCHANGED <<exit_code, failed, ofname>>
                  \/ /\ \/ body[i].kind = "dir" /\ ~opt.recursive
                        \/ body[i].kind = "link"
                        \/ body[i].kind = "file" /\ Links(i) > 1
                             /\ ~opt.to_stdout /\ ~opt.force
                     /\ Warned /\ Leave /\ UNCHANGED <<dir, seen, ofname>>
                  \/ /\ body[i].kind = "file"
                     /\ Links(i) <= 1 \/ opt.to_stdout \/ opt.force
                     /\ IF opt.to_stdout /\ ~opt.test /\ ~opt.list
                        THEN pc' = "open" /\ ofname' = NoName
                        ELSE pc' = "name" /\ ofname' = nm
                     /\ UNCHANGED <<exit_code, failed, dir, seen>>

\* make_ofname()
make_ofname ==
    /\ pc = "name"
    /\ LET suff == get_suffix(ofname)
           skip == IF opt.decompress THEN suff = None ELSE suff # None
           try == opt.decompress /\ (opt.test \/ opt.list) /\ ~opt.recursive
       IN \/ /\ skip /\ try
             /\ pc' = "open" /\ UNCHANGED <<ofname, exit_code, failed>>
          \/ /\ skip /\ ~try
             /\ IF opt.recursive \/ opt.quiet
                THEN pc' = "next" /\ UNCHANGED <<exit_code, failed>>
                ELSE Warned /\ Leave
             /\ UNCHANGED ofname
          \/ /\ ~skip /\ pc' = "open"
             /\ ofname' = IF opt.decompress THEN Stripped(ofname)
                          ELSE Suffixed(ofname, z_suffix)
             /\ UNCHANGED <<exit_code, failed>>
    /\ UNCHANGED <<files, fixed, ifname, istat, ifd, ofd, fds, remove_ofname,
                   method, made, agreed, aborted>>

\* OPEN(ifname)
OpenInput ==
    /\ pc = "open"
    /\ \/ /\ StatOK(ifname)
          /\ ifd' = Follow(Entry(ifname)) /\ fds' = fds \cup {"ifd"}
          /\ pc' = IF opt.decompress THEN "method"
                   ELSE IF opt.to_stdout THEN "work" ELSE "create"
          /\ UNCHANGED <<exit_code, failed>>
       \/ /\ Failed /\ Leave /\ ifd' = None /\ UNCHANGED fds
    /\ UNCHANGED <<files, fixed, ifname, ofname, istat, ofd, remove_ofname, method,
                   made, agreed, aborted>>

\* get_method() on the first member: it may put the name the file had when it
\* was compressed into ofname.  A file too short is a read_error().
GetMethod ==
    /\ pc = "method"
    /\ \/ /\ body[ifd].gz > 0 /\ body[ifd].whole
          /\ method' = 8
          /\ IF opt.no_name \/ (opt.to_stdout /\ ~opt.list) \/ body[ifd].orig = None
             THEN UNCHANGED ofname ELSE ofname' = body[ifd].orig
          /\ pc' = IF opt.list THEN "list" ELSE IF opt.to_stdout THEN "work" ELSE "create"
          /\ UNCHANGED <<exit_code, failed, fds>>
       \/ /\ body[ifd].gz = 0
          /\ IF opt.force /\ opt.to_stdout /\ ~opt.list
             THEN /\ method' = 0 /\ pc' = "work"          \* copy()
                  /\ UNCHANGED <<exit_code, failed, fds>>
             ELSE method' = -1 /\ Failed /\ Leave /\ fds' = fds \ {"ifd"}
          /\ UNCHANGED ofname
       \/ /\ body[ifd].gz = 0 \/ ~body[ifd].whole
          /\ pc' = "abort" /\ Failed /\ UNCHANGED <<ofname, failed, fds, method>>
    /\ UNCHANGED <<files, fixed, ifname, istat, ifd, ofd, remove_ofname, made,
                   agreed, aborted>>

\* do_list(): the trailer is read from the end of the file.
do_list ==
    /\ pc = "list"
    /\ \/ pc' = "next" /\ fds' = fds \ {"ifd"} /\ UNCHANGED exit_code
       \/ pc' = "abort" /\ Failed /\ UNCHANGED fds
    /\ UNCHANGED <<files, history, fixed, ifname, ofname, istat, ifd, ofd,
                   remove_ofname, method>>

(***************************************************************************)
(* create_outfile()                                                        *)
(***************************************************************************)
Unlinked(nm) == disk' = Without(nm)

\* check_ofname().  agree is the answer to "do you wish to overwrite": only
\* asked in the foreground, and taken as given with -f.
check_ofname ==
    /\ pc = "create"
    /\ LET nm1 == PosixShort(ofname)
           nm == IF StatOK(nm1) /\ ~opt.decompress /\ name_too_long(nm1)
                 THEN shorten_name(nm1) ELSE nm1
       IN /\ ofname' = nm
          /\ \/ /\ ~StatOK(nm)
                /\ pc' = "creat" /\ UNCHANGED <<exit_code, failed, fds>>
             \/ /\ StatOK(nm) /\ Follow(Entry(nm)) = istat
                /\ Failed /\ Leave /\ fds' = fds \ {"ifd"}
             \/ /\ StatOK(nm) /\ Follow(Entry(nm)) # istat
                /\ \E agree \in IF opt.force THEN {TRUE}
                                ELSE IF opt.tty THEN BOOLEAN ELSE {FALSE} :
                     IF agree
                     THEN pc' = "unlink" /\ UNCHANGED <<exit_code, failed, fds>>
                     ELSE Warned /\ Leave /\ fds' = fds \ {"ifd"}
    /\ UNCHANGED <<files, fixed, ifname, istat, ifd, ofd, remove_ofname, method,
                   made, agreed, aborted>>

\* xunlink(ofname) at the end of check_ofname(); it may fail.
UnlinkOld ==
    /\ pc = "unlink"
    /\ \/ /\ Exists(ofname)
          /\ Unlinked(ofname) /\ agreed' = agreed \cup {Entry(ofname)}
          /\ pc' = "creat" /\ UNCHANGED <<exit_code, failed, fds>>
       \/ /\ Failed /\ Leave /\ fds' = fds \ {"ifd"}
          /\ UNCHANGED <<disk, agreed>>
    /\ UNCHANGED <<body, fixed, ifname, ofname, istat, ifd, ofd, remove_ofname,
                   method, made, aborted>>

NewFile == [body[ifd] EXCEPT !.whole = FALSE, !.tail = "partial", !.orig = None]

\* Mutant: the mark is not set.
MarkOutputNot == UNCHANGED remove_ofname
MarkOutput == remove_ofname' = TRUE

\* remove_ofname = 1 and OPEN(ofname, O_CREAT | O_EXCL)
OpenOutput ==
    /\ pc = "creat"
    /\ MarkOutput
    /\ \/ /\ ~Exists(ofname)
          /\ disk' = With(ofname, Fresh)
          /\ body' = [i \in DOMAIN body \cup {Fresh} |-> IF i = Fresh THEN NewFile ELSE body[i]]
          /\ ofd' = Fresh /\ made' = made \cup {Fresh}
          /\ fds' = fds \cup {"ofd"} /\ pc' = "fstat"
          /\ UNCHANGED <<exit_code, failed>>
       \/ /\ Failed /\ Leave /\ ofd' = None /\ fds' = fds \ {"ifd"}
          /\ UNCHANGED <<files, made>>
    /\ UNCHANGED <<fixed, ifname, ofname, istat, ifd, method, agreed, aborted>>

\* A new file whose name was cut is removed and tried under a shorter name,
\* except to decompress; fstat() may fail.
CheckNew ==
    /\ pc = "fstat"
    /\ \/ /\ name_too_long(ofname) /\ ~opt.decompress
          /\ Unlinked(ofname) /\ fds' = fds \ {"ofd"}
          /\ body' = [i \in DOMAIN body \ {ofd} |-> body[i]] /\ made' = made \ {ofd}
          /\ ofname' = shorten_name(ofname) /\ pc' = "create"
          /\ UNCHANGED <<exit_code, failed>>
       \/ /\ name_too_long(ofname) => opt.decompress
          /\ IF name_too_long(ofname) THEN Warned ELSE UNCHANGED exit_code
          /\ pc' = "work" /\ UNCHANGED <<files, made, fds, ofname, failed>>
       \/ /\ Failed /\ Leave /\ fds' = fds \ {"ifd", "ofd"}
          /\ Unlinked(ofname) /\ UNCHANGED <<body, made, ofname>>
    /\ UNCHANGED <<fixed, ifname, istat, ifd, ofd, remove_ofname, method, agreed,
                   aborted>>

(***************************************************************************)
(* The work, the further members, and what follows                         *)
(***************************************************************************)
\* The output, written to its end; it is whole once close() has succeeded.
Written == IF opt.to_stdout THEN body
           ELSE [body EXCEPT ![ofd].tail = "end",
                             ![ofd].gz = IF opt.decompress THEN @ - 1 ELSE @ + 1]
Closed == [body EXCEPT ![ofd].whole = (body[ofd].tail = "end")]

\* Mutant: the cleanup is not forced.
ForceCleanupNot == UNCHANGED method
ForceCleanup == method' = -1

\* (*work)(ifd, ofd), with the loop over the members of the input: it may
\* write all of them, find that what follows is not a member (trailing
\* garbage, with a warning) or is one it cannot read, give up with ERROR, or
\* run into an error that ends the program.
Work ==
    /\ pc = "work"
    /\ \/ /\ opt.decompress => body[ifd].tail = "end"
          /\ method' = IF opt.decompress THEN method ELSE 8
          /\ body' = Written /\ pc' = "close" /\ UNCHANGED exit_code
       \/ /\ opt.decompress /\ body[ifd].tail = "garbage"
          /\ method' = -2 /\ Warned
          /\ body' = Written /\ pc' = "close"
       \/ /\ opt.decompress
          /\ ForceCleanup /\ Failed
          /\ pc' = "close" /\ UNCHANGED body
       \/ pc' = "abort" /\ Failed /\ UNCHANGED <<method, body>>
    /\ UNCHANGED <<disk, history, fixed, ifname, ofname, istat, ifd, ofd, fds,
                   remove_ofname>>

\* close(ifd), and close(ofd), which may report a write error.
CloseFiles ==
    /\ pc = "close"
    /\ \/ /\ opt.to_stdout
          /\ fds' = fds \ {"ifd"} /\ pc' = "next"
          /\ failed' = (failed \/ method = -1)
          /\ UNCHANGED <<body, exit_code>>
       \/ /\ ~opt.to_stdout
          /\ fds' = {} /\ UNCHANGED failed
          /\ \/ /\ method = -1
                /\ pc' = "cleanup" /\ UNCHANGED <<body, exit_code>>
             \/ /\ method # -1
                /\ body' = Closed /\ pc' = "stat_copied" /\ UNCHANGED exit_code
             \/ /\ pc' = "abort" /\ Failed /\ UNCHANGED body
    /\ UNCHANGED <<disk, fixed, ifname, ofname, istat, ifd, ofd, remove_ofname,
                   method, made, agreed, aborted>>

\* method == -1: the output is removed.
Cleanup ==
    /\ pc = "cleanup"
    /\ Unlinked(ofname) /\ Leave
    /\ UNCHANGED <<body, fixed, ifname, ofname, istat, ifd, ofd, fds,
                   remove_ofname, method, exit_code, made, agreed, aborted>>

\* copy_stat(): first the times and modes, then remove_ofname = 0 ...
copy_stat ==
    /\ pc = "stat_copied"
    /\ remove_ofname' = FALSE /\ pc' = "unlink_input"
    /\ \/ UNCHANGED exit_code
       \/ Warned
    /\ UNCHANGED <<files, history, fixed, ifname, ofname, istat, ifd, ofd, fds,
                   method>>

\* ... then xunlink(ifname), which may fail with a warning.
UnlinkInput ==
    /\ pc = "unlink_input"
    /\ pc' = "next"
    /\ \/ Unlinked(ifname) /\ UNCHANGED exit_code
       \/ Warned /\ UNCHANGED disk
    /\ UNCHANGED <<body, history, fixed, ifname, ofname, istat, ifd, ofd, fds,
                   remove_ofname, method>>

(***************************************************************************)
(* Errors, signals, and other processes                                    *)
(***************************************************************************)
\* abort_gzip(), called by an error or by SIGINT, SIGTERM or SIGHUP.
abort_gzip ==
    /\ pc \notin {"exit", "killed"}
    /\ IF remove_ofname /\ Exists(ofname)
       THEN /\ Unlinked(ofname)
            /\ aborted' = IF Entry(ofname) = ofd /\ ofd \in made THEN aborted
                          ELSE aborted \cup {Entry(ofname)}
       ELSE UNCHANGED <<disk, aborted>>
    /\ pc' = "exit" /\ Failed
    /\ UNCHANGED <<body, fixed, ifname, ofname, istat, ifd, ofd, fds,
                   remove_ofname, method, made, agreed, failed>>

Abort == pc = "abort" /\ abort_gzip
Signal == pc # "abort" /\ abort_gzip

\* SIGKILL or a crash of the machine: no handler runs.
Kill == /\ pc \notin {"exit", "killed"}
        /\ pc' = "killed"
        /\ UNCHANGED <<files, history, fixed, ifname, ofname, istat, ifd, ofd, fds,
                       remove_ofname, method, exit_code>>

Foreign == {i \in DOMAIN body : body[i].doc = Another}

\* Another process creates a file under the name gzip is about to create.
Other ==
    /\ pc = "creat" /\ ~Exists(ofname)
    /\ Cardinality(Foreign) < MaxCreated
    /\ disk' = With(ofname, Fresh)
    /\ body' = [i \in DOMAIN body \cup {Fresh} |->
                  IF i = Fresh THEN [NewFile EXCEPT !.doc = Another, !.whole = TRUE]
                  ELSE body[i]]
    /\ UNCHANGED <<history, fixed, pc, ifname, ofname, istat, ifd, ofd, fds,
                   remove_ofname, method, exit_code>>

Program == \/ NextArg \/ ReadDir \/ treat_stdin \/ get_istat \/ make_ofname
           \/ OpenInput \/ GetMethod \/ do_list \/ check_ofname \/ UnlinkOld
           \/ OpenOutput \/ CheckNew \/ Work \/ CloseFiles \/ Cleanup \/ copy_stat
           \/ UnlinkInput \/ Abort \/ do_exit
Next == Program \/ Signal \/ Kill \/ Other

\* The program runs on; signals, crashes and other processes need not come.
Spec == Init /\ [][Next]_vars /\ WF_vars(Program)
(***************************************************************************)
(* Properties                                                              *)
(***************************************************************************)
\* The file j has the document of i, whole if i is.
Holds(j, i) == /\ body[j].kind = "file" /\ body[j].doc = body[i].doc
               /\ body[i].whole => body[j].whole

\* At every moment, a crash included, every document that this program did not
\* write is in some whole file, plain or compressed, unless the user agreed to
\* the removal of one or abort_gzip() removed one; and abort_gzip() only does so
\* when remove_ofname is left over from an output that was given up: that of an
\* earlier file, or one under a name that had to be shortened.
Kept == /\ \A i \in {n \in DOMAIN body \ made : body[n].kind = "file"} :
             \/ \E k \in DOMAIN disk : Holds(disk[k], i)
             \/ \E j \in agreed \cup aborted : Holds(j, i)
        /\ aborted # {} => failed \/ ofname.cut > 0

\* When the program ends by itself or by a signal it handles, no partial output
\* of its own is left, a status of 0 means that no file was left aside, and
\* between two files no descriptor stays open.
CleanExit ==
    /\ pc = "exit" => /\ \A k \in DOMAIN disk : disk[k] \in made => body[disk[k]].whole
                      /\ exit_code = OK => ~failed
    /\ pc = "next" => fds = {}

Compressing == ~opt.decompress /\ ~opt.to_stdout

\* To compress, no name is taken as input that this program wrote under, although
\* it reads the directories it writes to, unless the file system cuts that name;
\* and the name under which an output is kept is not one it has cut.
NamesRight ==
    Compressing =>
        /\ pc \in {"create", "unlink", "creat", "fstat", "work", "close", "stat_copied",
                   "unlink_input"} /\ Over(ifname) <= 0 => Entry(ifname) \notin made
        /\ pc \in {"work", "close", "stat_copied", "unlink_input"} => Over(ofname) <= 0

\* The program ends, whatever it finds in the directories it reads.
Finishes == <>(pc \in {"exit", "killed"})

\* "remove output file on error" (gzip.c:245): an error or a signal removes the
\* output file, never a file the program did not write.
AbortRemovesOwn == aborted = {}

\* "Accept "-" as synonym for stdin" (gzip.c:763): the compressed data is read
\* from the standard input.
ReadsStdin == pc = "stdin" /\ opt.decompress => ifd = StdinFd

====
