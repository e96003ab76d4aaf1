----------------------------- MODULE PgzipFile -----------------------------
(***************************************************************************)
(* pgzip from the command line to the finished file: main() and            *)
(* treatfile() of gzip.c, the framing of zip() and file_read(), and around *)
(* the thread pool the containers main keeps to itself, the output vector  *)
(* of each context and the sorted list.                                    *)
(*                                                                         *)
(* How main hands jobs to the threads is the matter of ParallelDeflate.    *)
(* Here a context is asked for, compressed and collected in any order, and *)
(* the loop may be left while a context is asked for only, which is what   *)
(* ExitLeavesOnlyUnstarted says of it.  What the threads wait for is here: *)
(* main for a block that is done, the io thread for blocks or the end, and *)
(* the two signals that come too early for it are lost.  The queue between *)
(* main and the io thread is one sequence as long as enqueue and dequeue   *)
(* do not overlap, and anything SharedQueue lets it be when they do.       *)
(* Another process may create or remove the output, or shorten the input,  *)
(* once.                                                                   *)
(***************************************************************************)
EXTENDS Integers, Sequences, SequencesExt

CONSTANTS
    Scenes,      \* commands: [argv, size, out, readable], see Init
    NumCPU,      \* sysconf(_SC_NPROCESSORS_ONLN)
    DefaultChunk,\* 100000
    OUTBUFSIZ,   \* the most that flush_outbuf appends at once
    MaxFlushes,  \* bound: flushes per block, of 1 or OUTBUFSIZ bytes
    MaxBlocks,   \* bound: blocks read, which -b 0 makes infinitely many
    UIntMax      \* UINT_MAX + 1

ASSUME SizesAssumption == /\ NumCPU \in Nat \ {0} /\ DefaultChunk \in Nat \ {0}
                          /\ OUTBUFSIZ \in Nat \ {0} /\ MaxFlushes \in Nat
                          /\ MaxBlocks \in Nat
\* No block compresses to more than half of what an unsigned int can count, and
\* a chunk fits in one.
ASSUME UIntAssumption == UIntMax \in Nat /\ 2 * OUTBUFSIZ * MaxFlushes < UIntMax
\* An argument is a word or a number.  There may be an old output file, which
\* may not be readable.
ASSUME SceneAssumption ==
    \A s \in Scenes :
        /\ s.argv \in Seq([word : STRING, num : Nat \cup {-1}])
        /\ \A i \in DOMAIN s.argv : s.argv[i].num < UIntMax
        /\ s.size \in Nat \cup {-1} /\ s.out \in {"absent", "old"} /\ s.readable \in BOOLEAN
ASSUME ChunkAssumption == DefaultChunk < UIntMax

VARIABLES
    argv, i,              \* the arguments after the input file, and the next one
    block_chunk_size, number_of_threads, canOverwriteOldOutput,
    responseBuf,          \* "y", "n", "unread" if scanf fails, "none" if not asked
    insize,               \* bytes in the input file, -1 if there is none
    out,                  \* the output path: "absent", "old", "foreign" or "ours"
    readable,             \* whether fopen(, "r") succeeds on the old file
    ifile_size, bytes_to_read, offset, crc,
    vec, ctx,             \* vectors, and what each context compresses
    reading,              \* what file_read has still to read, for whom, and what then
    block_number, next_block_to_output, processed_blocks, shutdown,
    output_queue, q,      \* of the io thread: what main gives it, and what it took
    kill_output_io_thread,
    text,                 \* what was written to the file pgzip created
    short, lost, meddled, \* history: a short write, a job left, the other process
    torn,                 \* history: output_queue was spoilt by the two at once
    pc, io                \* where main and the io thread are

options == <<argv, i, block_chunk_size, number_of_threads, canOverwriteOldOutput>>
files == <<insize, out, readable, meddled>>
sizes == <<ifile_size, bytes_to_read, offset, crc>>
pool == <<vec, ctx, reading, block_number, next_block_to_output, processed_blocks,
          shutdown, lost>>
queues == <<output_queue, q, torn>>
output == <<text, short, queues, kill_output_io_thread, io>>
vars == <<options, responseBuf, files, sizes, pool, output, pc>>

NoVector == [total |-> 0, occupied |-> 0]
Idle == [stage |-> "free", block |-> 0, size |-> 0, flushes |-> 0]

Init == \E s \in Scenes :
    /\ argv = s.argv /\ i = 1
    /\ block_chunk_size = DefaultChunk /\ number_of_threads = NumCPU
    /\ canOverwriteOldOutput = FALSE /\ responseBuf = "none"
    /\ insize = s.size /\ out = s.out /\ readable = s.readable /\ meddled = FALSE
    /\ ifile_size = 0 /\ bytes_to_read = 0 /\ offset = 0 /\ crc = << >>
    /\ vec = << >> /\ ctx = << >> /\ reading = [who |-> 0, left |-> 0, next |-> "first"]
    /\ block_number = 1 /\ next_block_to_output = 1
    /\ processed_blocks = << >> /\ shutdown = FALSE /\ lost = FALSE
    /\ text = << >> /\ short = FALSE
    /\ output_queue = << >> /\ q = << >> /\ torn = FALSE
    /\ kill_output_io_thread = FALSE
    /\ pc = "parse" /\ io = "none"

-----------------------------------------------------------------------------
(* The command line and the old output (main)                               *)

\* The value after -b is tested for -t again, so -b -t 4 sets the threads.
AfterB == IF argv[i].word = "-b" THEN i + 1 ELSE i
AfterT == IF AfterB \in DOMAIN argv /\ argv[AfterB].word = "-t" THEN AfterB + 1 ELSE AfterB

\* sscanf leaves the variable alone when there is no number.
Scanned(old, k) == IF argv[k].num = -1 THEN old ELSE argv[k].num

ParseArgument ==
    /\ pc = "parse" /\ i <= Len(argv) /\ AfterT <= Len(argv)
    /\ argv[AfterT].word # "decompress"
    /\ canOverwriteOldOutput' = (canOverwriteOldOutput \/ argv[i].word = "-f")
    /\ block_chunk_size' = IF AfterB = i THEN block_chunk_size
                           ELSE Scanned(block_chunk_size, AfterB)
    /\ number_of_threads' = IF AfterT = AfterB THEN number_of_threads
                            ELSE Scanned(number_of_threads, AfterT)
    /\ i' = AfterT + 1
    /\ UNCHANGED <<argv, responseBuf, files, sizes, pool, output, pc>>

\* A missing value is a NULL pointer to sscanf.
ParseMissing ==
    /\ pc = "parse" /\ i <= Len(argv) /\ AfterT > Len(argv)
    /\ pc' = "crashed"
    /\ UNCHANGED <<options, responseBuf, files, sizes, pool, output>>

ParseDecompress ==
    /\ pc = "parse" /\ i <= Len(argv) /\ AfterT <= Len(argv)
    /\ argv[AfterT].word = "decompress"
    /\ pc' = "returned"
    /\ UNCHANGED <<options, responseBuf, files, sizes, pool, output>>

\* Whether fopen finds an old output; one that cannot be read passes for none.
FoundOld == out \in {"old", "foreign"} /\ readable

Probe ==
    /\ pc = "parse" /\ i > Len(argv)
    /\ pc' = CASE ~FoundOld -> "stat"
               [] FoundOld /\ canOverwriteOldOutput -> "remove"
               [] FoundOld /\ ~canOverwriteOldOutput -> "ask"
    /\ UNCHANGED <<options, responseBuf, files, sizes, pool, output>>

\* When scanf finds no answer the buffer is uninitialized and may hold anything.
Ask ==
    /\ pc = "ask"
    /\ \E r \in {"y", "n", "unread"} :
        /\ responseBuf' = r
        /\ \/ r \in {"y", "unread"} /\ pc' = "remove"
           \/ r \in {"n", "unread"} /\ pc' = "exited"
    /\ UNCHANGED <<options, files, sizes, pool, output>>

RemoveOld ==
    /\ pc = "remove"
    /\ out' = "absent" /\ pc' = "stat"
    /\ UNCHANGED <<options, responseBuf, insize, readable, meddled, sizes, pool, output>>

-----------------------------------------------------------------------------
(* Opening the files (treatfile, create_outfile)                            *)

StatInput ==
    /\ pc = "stat"
    /\ IF insize = -1
       THEN pc' = "exited" /\ UNCHANGED <<ifile_size, bytes_to_read>>
       ELSE pc' = "open" /\ ifile_size' = insize /\ bytes_to_read' = insize
    /\ UNCHANGED <<options, responseBuf, files, offset, crc, pool, output>>

OpenInput ==
    /\ pc = "open"
    /\ pc' \in {"create", "returned"}  \* or open fails
    /\ UNCHANGED <<options, responseBuf, files, sizes, pool, output>>

\* Mutated: without O_EXCL, the file that is there is taken.
MayCreateAny == TRUE

\* O_CREAT | O_EXCL
MayCreate == out = "absent"

CreateOutput ==
    /\ pc = "create"
    /\ IF MayCreate THEN out' = "ours" /\ pc' = "check"
                    ELSE pc' = "exited" /\ UNCHANGED out
    /\ UNCHANGED <<options, responseBuf, insize, readable, meddled, sizes, pool, output>>

CheckOutput ==
    /\ pc = "check"
    /\ pc' = IF out = "absent" THEN "returned" ELSE "header"
    /\ UNCHANGED <<options, responseBuf, files, sizes, pool, output>>

-----------------------------------------------------------------------------
(* The frame (zip)                                                          *)

Part(p, n, s) == [part |-> p, number |-> n, size |-> s]
Header == Part("header", 0, 0)
Trailer == Part("trailer", Len(crc), ifile_size)

\* create_threadpool makes no pool of no threads, and deflate() locks a mutex in
\* it, after it has made the io thread.  Nothing tests what write() returns for the header and the trailer.
WriteHeader ==
    /\ pc = "header"
    /\ \/ text' = <<Header>> /\ UNCHANGED short
       \/ short' = TRUE /\ UNCHANGED text
    /\ vec' = [c \in 1 .. number_of_threads |-> NoVector]
    /\ ctx' = [c \in 1 .. number_of_threads |-> Idle]
    /\ io' = "test"
    /\ pc' = IF number_of_threads = 0 THEN "crashed" ELSE "first"
    /\ UNCHANGED <<options, responseBuf, files, sizes, reading, block_number,
                   next_block_to_output, processed_blocks, shutdown, lost,
                   queues, kill_output_io_thread>>

WriteTrailer ==
    /\ pc = "trailer"
    /\ \/ text' = Append(text, Trailer) /\ UNCHANGED short
       \/ short' = TRUE /\ UNCHANGED text
    /\ pc' = "returned"
    /\ UNCHANGED <<options, responseBuf, files, sizes, pool, queues,
                   kill_output_io_thread, io>>

-----------------------------------------------------------------------------
(* The extensible array (init_vector, memcpy_safe)                          *)

init_vector(n) == [total |-> n, occupied |-> 0]

\* Mutated: the array is doubled, however much is appended.
GrownTwice(v, n) == (2 * v.total) % UIntMax

\* Beyond twice its size the array grows to twice what is asked for.
Grown(v, n) == IF n + v.occupied > 2 * v.total THEN (2 * (v.occupied + n)) % UIntMax
                                               ELSE (2 * v.total) % UIntMax

memcpy_safe(v, n) ==
    [total |-> IF n > v.total - v.occupied THEN Grown(v, n) ELSE v.total,
     occupied |-> v.occupied + n]

-----------------------------------------------------------------------------
(* The sorted list (insert_into_sorted_linked_list, pop_top)                *)

Node(n, d) == [index |-> n, data |-> d]

\* Mutated: a new node goes to the end.
PlaceLast(list, n) == Len(list) + 1

\* Before the first node of a greater index.
Place(list, n) == IF \E k \in DOMAIN list : n < list[k].index
                  THEN CHOOSE k \in DOMAIN list :
                          n < list[k].index /\ \A l \in 1 .. k - 1 : list[l].index <= n
                  ELSE Len(list) + 1

insert(list, n, d) == InsertAt(list, Place(list, n), Node(n, d))

\* The first node with the index of the head, which is the head.
pop_top(list) == Tail(list)

-----------------------------------------------------------------------------
(* Reading a block (grab_another_block, file_read)                          *)

ReadSize == IF bytes_to_read > block_chunk_size THEN block_chunk_size ELSE bytes_to_read

\* A context is made for the first block it takes, and cleaned for the next.
grab_another_block(c, next) ==
    /\ block_number <= MaxBlocks
    /\ vec' = [vec EXCEPT ![c] = IF ctx[c].block = 0 THEN init_vector(block_chunk_size)
                                 ELSE [@ EXCEPT !.occupied = 0]]
    /\ ctx' = [ctx EXCEPT ![c] = [stage |-> "read", block |-> block_number,
                                  size |-> ReadSize, flushes |-> 0]]
    /\ block_number' = block_number + 1
    /\ reading' = [who |-> c, left |-> ReadSize, next |-> next]
    /\ pc' = "read"

\* read() may return less than it is asked for, but for what the file has.
ReadSome ==
    /\ pc = "read"
    /\ \E n \in {1, reading.left} :
        /\ n <= reading.left /\ offset + n <= insize
        /\ offset' = offset + n
        /\ reading' = [reading EXCEPT !.left = @ - n]
    /\ UNCHANGED <<options, responseBuf, files, ifile_size, bytes_to_read, crc, vec, ctx,
                   block_number, next_block_to_output, processed_blocks, shutdown, lost,
                   output, pc>>

\* The checksum is what it was taken over.
updcrc(c, block) == Append(c, block)

\* The checksum takes the block in, and the context is asked to compress it.
BlockRead ==
    /\ pc = "read" /\ reading.left = 0
    /\ LET c == reading.who
       IN  /\ crc' = updcrc(crc, ctx[c].block)
           /\ bytes_to_read' = bytes_to_read - ctx[c].size
           /\ ctx' = [ctx EXCEPT ![c].stage = "asked"]
    /\ pc' = reading.next
    /\ UNCHANGED <<options, responseBuf, files, ifile_size, offset, vec, reading,
                   block_number, next_block_to_output, processed_blocks, shutdown, lost,
                   output>>

-----------------------------------------------------------------------------
(* The loop around the pool (deflate)                                       *)

\* The first blocks, one for each thread while there is input.
First ==
    /\ pc = "first"
    /\ IF block_number <= number_of_threads /\ bytes_to_read > 0
       THEN /\ grab_another_block(block_number, "first")
            /\ UNCHANGED <<next_block_to_output, processed_blocks, shutdown, lost>>
       ELSE pc' = "loop" /\ UNCHANGED pool
    /\ UNCHANGED <<options, responseBuf, files, sizes, output>>

InLoop == pc \in {"first", "read", "loop", "enqueue", "tosleep", "asleep"}

SetStage(c, from, to) == /\ ctx[c].stage = from
                         /\ ctx' = [ctx EXCEPT ![c].stage = to]

\* deflate_work, as far as the vector goes: some flushes of outbuf, here no more
\* than the block has bytes.
WorkerStart(c) ==
    /\ InLoop /\ SetStage(c, "asked", "compress")
    /\ UNCHANGED <<options, responseBuf, files, sizes, vec, reading, block_number,
                   next_block_to_output, processed_blocks, shutdown, lost, output, pc>>

flush_outbuf(c) ==
    /\ InLoop /\ ctx[c].stage = "compress"
    /\ ctx[c].flushes < MaxFlushes /\ (ctx[c].flushes = 0 \/ ctx[c].flushes < ctx[c].size)
    /\ \E n \in {1, OUTBUFSIZ} : vec' = [vec EXCEPT ![c] = memcpy_safe(@, n)]
    /\ ctx' = [ctx EXCEPT ![c].flushes = @ + 1]
    /\ UNCHANGED <<options, responseBuf, files, sizes, reading, block_number,
                   next_block_to_output, processed_blocks, shutdown, lost, output, pc>>

\* The signal wakes main if it sleeps, and is lost if it does not yet.
WorkerFinish(c) ==
    /\ InLoop /\ ctx[c].flushes > 0 /\ SetStage(c, "compress", "done")
    /\ pc' = IF pc = "asleep" THEN "loop" ELSE pc
    /\ UNCHANGED <<options, responseBuf, files, sizes, vec, reading, block_number,
                   next_block_to_output, processed_blocks, shutdown, lost, output>>

\* Mutated: the loop goes on for ever when the input ends.
ShutdownNever == FALSE

\* A context that comes back when nothing is left to read ends the reading.
Shutdown == bytes_to_read = 0

\* What the vector holds is copied; then the context is used again.
Collect(c) ==
    /\ pc = "loop" /\ ctx[c].stage = "done"
    /\ processed_blocks' = insert(processed_blocks, ctx[c].block,
                                  Part("block", ctx[c].block, ctx[c].size))
    /\ \/ /\ bytes_to_read # 0
          /\ grab_another_block(c, "loop")
          /\ UNCHANGED shutdown
       \/ /\ bytes_to_read = 0
          /\ shutdown' = Shutdown
          /\ ctx' = [ctx EXCEPT ![c].stage = "free"]
          /\ UNCHANGED <<vec, block_number, reading, pc>>
    /\ UNCHANGED <<options, responseBuf, files, sizes, next_block_to_output, lost, output>>

HeadIsNext == /\ processed_blocks # << >>
              /\ Head(processed_blocks).index = next_block_to_output

\* The head of the list goes to the io thread, under a lock of main's; nobody
\* signals.  While main is in enqueue the io thread may see the block.
Enqueue ==
    /\ pc = "loop" /\ HeadIsNext
    /\ processed_blocks' = pop_top(processed_blocks)
    /\ next_block_to_output' = next_block_to_output + 1
    /\ \/ output_queue' = Append(output_queue, Head(processed_blocks).data)
       \/ torn /\ UNCHANGED output_queue
    /\ pc' = "enqueue"
    /\ UNCHANGED <<options, responseBuf, files, sizes, vec, ctx, reading, block_number,
                   shutdown, lost, text, short, q, torn, kill_output_io_thread, io>>

Enqueued ==
    /\ pc = "enqueue" /\ pc' = "loop"
    /\ UNCHANGED <<options, responseBuf, files, sizes, pool, output>>

\* The wait for a thread: main sees none that is done, and then sleeps, also
\* beside one that is done meanwhile, as that takes another lock.
Check ==
    /\ pc = "loop" /\ ~HeadIsNext
    /\ ~shutdown /\ \A c \in DOMAIN ctx : ctx[c].stage # "done"
    /\ pc' = "tosleep"
    /\ UNCHANGED <<options, responseBuf, files, sizes, pool, output>>

Sleep ==
    /\ pc = "tosleep" /\ pc' = "asleep"
    /\ UNCHANGED <<options, responseBuf, files, sizes, pool, output>>

\* All threads are free; a job none of them was given is lost.
LeaveLoop ==
    /\ pc = "loop" /\ ~HeadIsNext
    /\ shutdown /\ \A c \in DOMAIN ctx : ctx[c].stage \in {"free", "asked"}
    /\ lost' = \E c \in DOMAIN ctx : ctx[c].stage = "asked"
    /\ pc' = "kill"
    /\ UNCHANGED <<options, responseBuf, files, sizes, vec, ctx, reading, block_number,
                   next_block_to_output, processed_blocks, shutdown, output>>

SetKill ==
    /\ pc = "kill" /\ pc' = "signal"
    /\ kill_output_io_thread' = TRUE
    /\ UNCHANGED <<options, responseBuf, files, sizes, pool, text, short, queues, io>>

\* The signal is lost on an io thread that does not sleep yet.
SignalKill ==
    /\ pc = "signal" /\ pc' = "join"
    /\ io' = IF io = "asleep" THEN "test" ELSE io
    /\ UNCHANGED <<options, responseBuf, files, sizes, pool, text, short, queues,
                   kill_output_io_thread>>

Join ==
    /\ pc = "join" /\ io = "done" /\ pc' = "trailer"
    /\ UNCHANGED <<options, responseBuf, files, sizes, pool, output>>

-----------------------------------------------------------------------------
(* The io thread (io_out_function)                                          *)

IoRuns == InLoop \/ pc \in {"kill", "signal", "join"}

IoGoto(from, to) ==
    /\ IoRuns /\ io = from /\ io' = to
    /\ UNCHANGED <<options, responseBuf, files, sizes, pool, text, short, queues,
                   kill_output_io_thread, pc>>

\* The wait's predicate, and the test for the end after it.
IoTest ==
    \/ output_queue # << >> /\ IoGoto("test", "drain")
    \/ output_queue = << >> /\ kill_output_io_thread /\ IoGoto("test", "done")
    \/ output_queue = << >> /\ ~kill_output_io_thread /\ IoGoto("test", "tosleep")

IoSleep == IoGoto("tosleep", "asleep")

\* The loop of dequeue, until the queue is empty.
IoTake ==
    /\ IoRuns /\ io = "drain" /\ io' = "write"
    /\ q' = q \o output_queue /\ output_queue' = << >>
    /\ UNCHANGED <<options, responseBuf, files, sizes, pool, text, short, torn,
                   kill_output_io_thread, pc>>

\* The loop of write() for one block.
IoWrite ==
    /\ IoRuns /\ io = "write" /\ q # << >>
    /\ text' = Append(text, Head(q)) /\ q' = Tail(q)
    /\ UNCHANGED <<options, responseBuf, files, sizes, pool, short, output_queue, torn,
                   kill_output_io_thread, io, pc>>

\* With the flag the thread ends, whatever came into the queue meanwhile.
IoWritten ==
    q = << >> /\ IoGoto("write", IF kill_output_io_thread THEN "done" ELSE "test")

-----------------------------------------------------------------------------
(* What is not due                                                          *)

\* Main enqueues under output_block_lock while the io thread dequeues under
\* output_fd_lock: blocks may be lost or come twice, or the program crash on a
\* node freed twice or a NULL pointer, see SharedQueue.
QueueTorn ==
    /\ pc = "enqueue" /\ io = "drain"
    /\ torn' = TRUE
    /\ output_queue' \in BoundedSeq(Range(output_queue), Len(output_queue))
    /\ pc' \in {"enqueue", "crashed"}
    /\ UNCHANGED <<options, responseBuf, files, sizes, pool, text, short, q,
                   kill_output_io_thread, io>>

\* pthread_cond_wait may return without a signal.
SpuriousWakeup ==
    \/ /\ pc = "asleep" /\ pc' = "loop"
       /\ UNCHANGED <<options, responseBuf, files, sizes, pool, output>>
    \/ IoGoto("asleep", "test")

\* read or write fails: error(), write_error().
IoFails ==
    /\ pc = "read" \/ (IoRuns /\ io = "write" /\ q # << >>)
    /\ pc' = "exited"
    /\ UNCHANGED <<options, responseBuf, files, sizes, pool, output>>

-----------------------------------------------------------------------------
(* The other process                                                        *)

Running == pc \notin {"returned", "exited", "crashed"}

CreateForeign ==
    /\ Running /\ ~meddled /\ out = "absent"
    /\ out' = "foreign" /\ readable' = TRUE /\ meddled' = TRUE
    /\ UNCHANGED <<options, responseBuf, insize, sizes, pool, output, pc>>

RemoveForeign ==
    /\ Running /\ ~meddled /\ out # "absent"
    /\ out' = "absent" /\ meddled' = TRUE
    /\ UNCHANGED <<options, responseBuf, insize, readable, sizes, pool, output, pc>>

ShortenInput ==
    /\ Running /\ ~meddled /\ insize > 0
    /\ insize' = insize - 1 /\ meddled' = TRUE
    /\ UNCHANGED <<options, responseBuf, out, readable, sizes, pool, output, pc>>

Main ==
    \/ ParseArgument \/ ParseMissing \/ ParseDecompress \/ Probe \/ Ask \/ RemoveOld
    \/ StatInput \/ OpenInput \/ CreateOutput \/ CheckOutput
    \/ WriteHeader \/ First \/ ReadSome \/ BlockRead
    \/ (\E c \in DOMAIN ctx : Collect(c)) \/ Enqueue \/ Enqueued \/ Check \/ Sleep
    \/ LeaveLoop \/ SetKill \/ SignalKill \/ Join \/ WriteTrailer

Workers ==
    \E c \in DOMAIN ctx : WorkerStart(c) \/ flush_outbuf(c) \/ WorkerFinish(c)

Io == IoTest \/ IoSleep \/ IoTake \/ IoWrite \/ IoWritten

Program == Main \/ Workers \/ Io

Other == CreateForeign \/ RemoveForeign \/ ShortenInput

Next == Program \/ QueueTorn \/ SpuriousWakeup \/ IoFails \/ Other

\* The system calls return, and every thread that can run does; between two steps
\* of main the workers take finitely many, so that all of them get through.
Spec == Init /\ [][Next]_vars /\ WF_vars(Main) /\ WF_vars(Workers) /\ WF_vars(Io)

-----------------------------------------------------------------------------
(* Properties                                                               *)

\* Whatever the arguments, and whatever another process does meanwhile, pgzip
\* touches a file it has not made only if -f is among the arguments or the
\* question was not answered with no (gzip.c:135-151, and O_EXCL of gzip.c:45).
OverwritesOnlyWhenAsked ==
    [][Program /\ out \in {"old", "foreign"} /\ out' # out
         => \/ \E k \in DOMAIN argv : argv[k].word = "-f"
            \/ responseBuf \in {"y", "unread"}]_vars

\* When main returns after zip(), the file is the header, the blocks of the input
\* in order and once, block_chunk_size bytes each and the rest in the last, and the
\* trailer with the checksum of all blocks and the size (zip.c:61-122); what may be
\* missing are the last blocks, exactly those the io thread left in output_queue
\* when it saw the flag (deflate.c:256).  That is so for every order in which
\* blocks come back, but for a write of header or trailer that came short, a loop
\* that was left while a job was pending (deflate.c:379), and a queue that main
\* and the io thread changed at once.
Framed ==
    pc = "returned" /\ text # << >> /\ ~short /\ ~lost /\ ~torn =>
        LET blocks == SubSeq(text, 2, Len(text) - 1) \o output_queue
            n == Len(blocks)
            rest == ifile_size - (n - 1) * block_chunk_size
        IN  /\ text[1] = Header
            /\ n >= 1 /\ rest \in 1 .. block_chunk_size
            /\ \A b \in 1 .. n :
                 blocks[b] = Part("block", b, IF b < n THEN block_chunk_size ELSE rest)
            /\ text[Len(text)] = Part("trailer", n, ifile_size)

\* Every append finds room in the vector, so that memcpy stays inside it
\* (threads.c:23-41), also when the context is used again for its next block.
VectorsHold == \A c \in DOMAIN vec : vec[c].occupied <= vec[c].total

\* pgzip stops, unless the input has become shorter than stat said, in which case
\* file_read (zip.c:151) asks for ever for bytes that are not there, or the input
\* is empty, or -b 0 was given, or output_queue was changed by two at once; or a
\* signal was lost: a block was done after main had looked for one and before it
\* slept (deflate.c:286-287, threads.c:293), or the flag went up after the io
\* thread had tested it and before that slept (deflate.c:223-224, 383-384).
OnlyTheseHang ==
    LET AnyDone == \E c \in DOMAIN ctx : ctx[c].stage = "done"
    IN  \/ <>(~Running \/ insize < ifile_size \/ insize = 0 \/ block_chunk_size = 0 \/ torn)
        \/ /\ <>(pc = "tosleep" /\ AnyDone)
           /\ <>[](pc = "asleep" /\ AnyDone /\ ~shutdown)
        \/ /\ <>(io = "tosleep" /\ kill_output_io_thread)
           /\ <>[](pc = "join" /\ io = "asleep")
=============================================================================
