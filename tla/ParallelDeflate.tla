--------------------------- MODULE ParallelDeflate ---------------------------
(***************************************************************************)
(* The concurrent core of pgzip: the main loop of deflate() with the       *)
(* thread pool it feeds (do_work) and the thread that writes the output    *)
(* file (io_out_function).                                                 *)
(*                                                                         *)
(* Three kinds of process run: main, which cuts the input into blocks,     *)
(* hands them to workers, collects what they return and puts the results   *)
(* in order; the NumThreads workers; and the io thread.  An action is a    *)
(* critical section, or a piece of unlocked code that reads at most one    *)
(* variable another process writes.  A mutex is held exactly while its     *)
(* owner is at one of a few points, so it needs no variable: the           *)
(* thread_lock of a worker while wpc is "working", completed_threads_lock  *)
(* while mpc is "collect".  pending_job_requests_lock, output_block_lock   *)
(* and output_fd_lock have one user each and exclude nobody.               *)
(*                                                                         *)
(* The bytes of a block are represented by where they lie in the input and *)
(* whether they end it, and compressed bytes by the sequence of the pieces *)
(* that were compressed into them.                                         *)
(***************************************************************************)
EXTENDS Integers, Sequences, FiniteSets, Functions

CONSTANTS
    NumThreads,  \* number_of_threads, the -t option
    FileSize,    \* ifile_size
    ChunkSize    \* block_chunk_size, the -b option

ASSUME NumThreadsAssumption == NumThreads \in Nat \ {0}
ASSUME FileSizeAssumption == FileSize \in Nat
ASSUME ChunkSizeAssumption == ChunkSize \in Nat \ {0}

Threads == 0 .. NumThreads - 1
\* A thread_context is named by the first block it is allocated for.
Contexts == 1 .. NumThreads
Null == 0

Pieces == [from : Nat, size : Nat, last_block : BOOLEAN]
ContextRecords == [block_number : Nat, from : Nat, size : Nat,
                   last_block : BOOLEAN, output : Seq(Pieces)]
FreshContext == [block_number |-> 0, from |-> 0, size |-> 0,
                 last_block |-> FALSE, output |-> << >>]

VARIABLES
    \* global_context, written by main alone
    bytes_to_read,        \* what is left to read
    offset,               \* read position of ifd; crc covers the bytes before
    bytes_in,
    block_number,         \* the number of the next block to read
    last_block_number,
    blocks_read,
    next_block_to_output,
    processed_blocks,     \* the sorted list, as a set of [index, data]
    kill_output_io_thread,
    \* global_context, main enqueues and the io thread dequeues
    output_queue,
    \* thread pool
    pending_job_requests, \* FIFO of contexts
    free_threads,         \* FIFO of thread ids
    completed_threads,    \* FIFO of thread ids, filled by the workers
    shutdown,
    \* spec_thread and thread_context
    busy, work, ctx,
    \* the queue q of io_out_function, and what is in the output file
    q, written,
    \* where each process is, and whether the program still runs
    mpc, wpc, ipc, status

input == <<bytes_to_read, offset, bytes_in, block_number, last_block_number>>
order == <<blocks_read, next_block_to_output, processed_blocks>>
jobs == <<pending_job_requests, free_threads, shutdown>>
slots == <<busy, work>>
output == <<q, written, ipc>>
vars == <<input, order, jobs, slots, output, completed_threads, ctx,
          output_queue, kill_output_io_thread, mpc, wpc, status>>

Running == status = "running"

Init ==
    /\ bytes_to_read = FileSize /\ offset = 0 /\ bytes_in = 0
    /\ block_number = 1 /\ last_block_number = 0
    /\ blocks_read = 0 /\ next_block_to_output = 1
    /\ processed_blocks = {}
    /\ kill_output_io_thread = 0
    /\ output_queue = << >>
    /\ pending_job_requests = << >>
    /\ free_threads = [i \in 1 .. NumThreads |-> i - 1]
    /\ completed_threads = << >>
    /\ shutdown = 0
    /\ busy = [t \in Threads |-> 0]
    /\ work = [t \in Threads |-> Null]
    /\ ctx = [c \in Contexts |-> FreshContext]
    /\ q = << >> /\ written = << >>
    /\ mpc = "start"
    /\ wpc = [t \in Threads |-> "top"]
    /\ ipc = "testQueue"
    /\ status = "running"

-----------------------------------------------------------------------------
(* Reading a block (grab_another_block, file_read)                          *)

IsLastRead == bytes_to_read <= ChunkSize

\* Mutated: the last block is not cut to what is left.
ReadSizeUncut == ChunkSize

ReadSize == IF IsLastRead THEN bytes_to_read ELSE ChunkSize

\* Mutated: the output vector is not reset.
CleanContextNot(tc) == tc

CleanContext(tc) == [tc EXCEPT !.output = << >>]

\* file_read and its caller both add the size to bytes_in.
grab_another_block(c) ==
    /\ ctx' = [ctx EXCEPT ![c] = [CleanContext(ctx[c]) EXCEPT
                                    !.block_number = block_number,
                                    !.from = offset,
                                    !.size = ReadSize,
                                    !.last_block = IsLastRead]]
    /\ last_block_number' = IF IsLastRead THEN block_number ELSE last_block_number
    /\ block_number' = block_number + 1
    /\ blocks_read' = blocks_read + 1
    /\ bytes_in' = bytes_in + 2 * ReadSize
    /\ bytes_to_read' = bytes_to_read - ReadSize
    /\ offset' = offset + ReadSize

\* Mutated: the job is signalled but not queued.
dispatchNothing(c) == c \in Contexts /\ UNCHANGED pending_job_requests

\* dispatch signals pending_job_requests_cond too; only its caller, main,
\* ever waits there.
dispatch(c) == pending_job_requests' = Append(pending_job_requests, c)

-----------------------------------------------------------------------------
(* The main loop (deflate)                                                  *)

DispatchInitial ==
    /\ Running /\ mpc = "start"
    /\ block_number <= NumThreads /\ bytes_to_read > 0
    /\ grab_another_block(block_number)
    /\ dispatch(block_number)
    /\ UNCHANGED <<next_block_to_output, processed_blocks, free_threads, shutdown,
                   slots, output, completed_threads, output_queue,
                   kill_output_io_thread, mpc, wpc, status>>

InitialDispatched ==
    /\ Running /\ mpc = "start"
    /\ block_number > NumThreads \/ bytes_to_read = 0
    /\ mpc' = "check"
    /\ UNCHANGED <<input, order, jobs, slots, output, completed_threads, ctx,
                   output_queue, kill_output_io_thread, wpc, status>>

\* Mutated: the wait does not look at shutdown.
NothingToDoIgnoringShutdown == pending_job_requests = << >> /\ completed_threads = << >>

NothingToDo ==
    pending_job_requests = << >> /\ completed_threads = << >> /\ shutdown = 0

\* The predicate of the wait, under pending_job_requests_lock: completed_threads
\* changes under another lock, between this step and Sleep as well.
Check ==
    /\ Running /\ mpc = "check"
    /\ mpc' = IF NothingToDo THEN "tosleep" ELSE "handoff"
    /\ UNCHANGED <<input, order, jobs, slots, output, completed_threads, ctx,
                   output_queue, kill_output_io_thread, wpc, status>>

Sleep ==
    /\ Running /\ mpc = "tosleep"
    /\ mpc' = "asleep"
    /\ UNCHANGED <<input, order, jobs, slots, output, completed_threads, ctx,
                   output_queue, kill_output_io_thread, wpc, status>>

CanHandOff == pending_job_requests # << >> /\ free_threads # << >>

\* Mutated: the job stays in the queue.
HandOffPeeks ==
    /\ Running /\ mpc = "handoff" /\ CanHandOff
    /\ LET t == Head(free_threads) IN
         /\ wpc[t] # "working"
         /\ work' = [work EXCEPT ![t] = Head(pending_job_requests)]
         /\ busy' = [busy EXCEPT ![t] = 1]
         /\ wpc' = [wpc EXCEPT ![t] = IF @ = "asleep" THEN "top" ELSE @]
    /\ free_threads' = Tail(free_threads)
    /\ UNCHANGED <<input, order, shutdown, output, completed_threads, ctx,
                   pending_job_requests, output_queue, kill_output_io_thread,
                   mpc, status>>

\* The signal on thread_cond wakes the worker if it waits.
HandOff ==
    /\ Running /\ mpc = "handoff" /\ CanHandOff
    /\ LET t == Head(free_threads) IN
         /\ wpc[t] # "working"    \* th->thread_lock is free
         /\ work' = [work EXCEPT ![t] = Head(pending_job_requests)]
         /\ busy' = [busy EXCEPT ![t] = 1]
         /\ wpc' = [wpc EXCEPT ![t] = IF @ = "asleep" THEN "top" ELSE @]
    /\ free_threads' = Tail(free_threads)
    /\ pending_job_requests' = Tail(pending_job_requests)
    /\ UNCHANGED <<input, order, shutdown, output, completed_threads, ctx,
                   output_queue, kill_output_io_thread, mpc, status>>

\* The unlocked test of completed_threads, and the lock when it finds some.
HandOffDone ==
    /\ Running /\ mpc = "handoff" /\ ~CanHandOff
    /\ mpc' = IF completed_threads = << >> THEN "output" ELSE "collect"
    /\ UNCHANGED <<input, order, jobs, slots, output, completed_threads, ctx,
                   output_queue, kill_output_io_thread, wpc, status>>

\* What main does first with a completed thread t: keep its output in the
\* sorted list and free it.
TakeCompleted(t) ==
    /\ completed_threads' = Tail(completed_threads)
    /\ processed_blocks' = processed_blocks \cup
          {[index |-> ctx[work[t]].block_number, data |-> ctx[work[t]].output]}
    /\ free_threads' = Append(free_threads, t)

\* One turn of the collecting loop while input is left: the context goes back
\* to work on the next block.
CollectAndGrab ==
    /\ Running /\ mpc = "collect" /\ completed_threads # << >>
    /\ bytes_to_read # 0
    /\ TakeCompleted(Head(completed_threads))
    /\ grab_another_block(work[Head(completed_threads)])
    /\ dispatch(work[Head(completed_threads)])
    /\ UNCHANGED <<next_block_to_output, shutdown, slots, output, output_queue,
                   kill_output_io_thread, mpc, wpc, status>>

CollectAndShutdown ==
    /\ Running /\ mpc = "collect" /\ completed_threads # << >>
    /\ bytes_to_read = 0
    /\ TakeCompleted(Head(completed_threads))
    /\ shutdown' = 1
    /\ UNCHANGED <<input, blocks_read, next_block_to_output, pending_job_requests,
                   slots, output, ctx, output_queue, kill_output_io_thread,
                   mpc, wpc, status>>

CollectDone ==
    /\ Running /\ mpc = "collect" /\ completed_threads = << >>
    /\ mpc' = "output"
    /\ UNCHANGED <<input, order, jobs, slots, output, completed_threads, ctx,
                   output_queue, kill_output_io_thread, wpc, status>>

\* The head of the sorted list is b.
IsHead(b) == b \in processed_blocks /\ \A o \in processed_blocks : b.index <= o.index

\* Mutated: whatever is at the head of the list is passed on.
OutputAny ==
    /\ Running /\ mpc = "output"
    /\ \E b \in processed_blocks :
         /\ IsHead(b)
         /\ processed_blocks' = processed_blocks \ {b}
         /\ output_queue' = Append(output_queue, b.data)
    /\ next_block_to_output' = next_block_to_output + 1
    /\ blocks_read' = blocks_read - 1
    /\ UNCHANGED <<input, jobs, slots, output, completed_threads, ctx,
                   kill_output_io_thread, mpc, wpc, status>>

\* enqueue(output_queue) does not signal more_io_output.
OutputOne ==
    /\ Running /\ mpc = "output"
    /\ \E b \in processed_blocks :
         /\ IsHead(b) /\ b.index = next_block_to_output
         /\ processed_blocks' = processed_blocks \ {b}
         /\ output_queue' = Append(output_queue, b.data)
    /\ next_block_to_output' = next_block_to_output + 1
    /\ blocks_read' = blocks_read - 1
    /\ UNCHANGED <<input, jobs, slots, output, completed_threads, ctx,
                   kill_output_io_thread, mpc, wpc, status>>

\* Mutated: the loop does not wait for the threads.
LoopExitAtOnce == shutdown = 1

LoopExit == shutdown = 1 /\ Len(free_threads) = NumThreads

OutputDone ==
    /\ Running /\ mpc = "output"
    /\ ~ \E b \in processed_blocks : IsHead(b) /\ b.index = next_block_to_output
    /\ mpc' = IF LoopExit THEN "kill" ELSE "check"
    /\ UNCHANGED <<input, order, jobs, slots, output, completed_threads, ctx,
                   output_queue, kill_output_io_thread, wpc, status>>

SetKill ==
    /\ Running /\ mpc = "kill"
    /\ kill_output_io_thread' = 1
    /\ mpc' = "signal"
    /\ UNCHANGED <<input, order, jobs, slots, output, completed_threads, ctx,
                   output_queue, wpc, status>>

SignalKill ==
    /\ Running /\ mpc = "signal"
    /\ ipc' = IF ipc = "asleep" THEN "testQueue" ELSE ipc
    /\ mpc' = "join"
    /\ UNCHANGED <<input, order, jobs, slots, q, written, completed_threads, ctx,
                   output_queue, kill_output_io_thread, wpc, status>>

\* pthread_join, then zip() writes the crc and the size and the program ends.
Join ==
    /\ Running /\ mpc = "join" /\ ipc = "done"
    /\ mpc' = "done" /\ status' = "exited"
    /\ UNCHANGED <<input, order, jobs, slots, output, completed_threads, ctx,
                   output_queue, kill_output_io_thread, wpc>>

Main ==
    \/ DispatchInitial \/ InitialDispatched \/ Check \/ Sleep
    \/ HandOff \/ HandOffDone
    \/ CollectAndGrab \/ CollectAndShutdown \/ CollectDone
    \/ OutputOne \/ OutputDone
    \/ SetKill \/ SignalKill \/ Join

-----------------------------------------------------------------------------
(* A worker (do_work)                                                       *)

WorkerSleep(t) ==
    /\ Running /\ wpc[t] = "top" /\ busy[t] = 0
    /\ wpc' = [wpc EXCEPT ![t] = "asleep"]
    /\ UNCHANGED <<input, order, jobs, slots, output, completed_threads, ctx,
                   output_queue, kill_output_io_thread, mpc, status>>

WorkerStart(t) ==
    /\ Running /\ wpc[t] = "top" /\ busy[t] # 0
    /\ wpc' = [wpc EXCEPT ![t] = "working"]
    /\ UNCHANGED <<input, order, jobs, slots, output, completed_threads, ctx,
                   output_queue, kill_output_io_thread, mpc, status>>

\* deflate_work: the compressed bytes are appended to the output vector, the
\* final bit set in the last block alone.
deflate_work(c) ==
    ctx' = [ctx EXCEPT ![c].output =
              Append(@, [from |-> ctx[c].from, size |-> ctx[c].size,
                         last_block |-> ctx[c].last_block])]

\* Mutated: the worker stays marked busy.
WorkerFinishBusy(t) ==
    /\ Running /\ wpc[t] = "working"
    /\ deflate_work(work[t])
    /\ wpc' = [wpc EXCEPT ![t] = "finished"]
    /\ UNCHANGED <<input, order, jobs, slots, output, completed_threads,
                   output_queue, kill_output_io_thread, mpc, status>>

WorkerFinish(t) ==
    /\ Running /\ wpc[t] = "working"
    /\ deflate_work(work[t])
    /\ busy' = [busy EXCEPT ![t] = 0]
    /\ wpc' = [wpc EXCEPT ![t] = "finished"]
    /\ UNCHANGED <<input, order, jobs, work, output, completed_threads,
                   output_queue, kill_output_io_thread, mpc, status>>

WorkerComplete(t) ==
    /\ Running /\ wpc[t] = "finished"
    /\ mpc # "collect"            \* completed_threads_lock is free
    /\ completed_threads' = Append(completed_threads, t)
    /\ wpc' = [wpc EXCEPT ![t] = "signal"]
    /\ UNCHANGED <<input, order, jobs, slots, output, ctx,
                   output_queue, kill_output_io_thread, mpc, status>>

\* Mutated: no signal.
WorkerSignalNot(t) ==
    /\ Running /\ wpc[t] = "signal"
    /\ wpc' = [wpc EXCEPT ![t] = "top"]
    /\ UNCHANGED <<input, order, jobs, slots, output, completed_threads, ctx,
                   output_queue, kill_output_io_thread, mpc, status>>

\* pthread_cond_signal outside every lock: it is lost unless main waits.
WorkerSignal(t) ==
    /\ Running /\ wpc[t] = "signal"
    /\ mpc' = IF mpc = "asleep" THEN "check" ELSE mpc
    /\ wpc' = [wpc EXCEPT ![t] = "top"]
    /\ UNCHANGED <<input, order, jobs, slots, output, completed_threads, ctx,
                   output_queue, kill_output_io_thread, status>>

Worker(t) ==
    \/ WorkerSleep(t) \/ WorkerStart(t) \/ WorkerFinish(t)
    \/ WorkerComplete(t) \/ WorkerSignal(t)

-----------------------------------------------------------------------------
(* The io thread (io_out_function)                                          *)

IoGoto(from, to) ==
    /\ Running /\ ipc = from
    /\ ipc' = to
    /\ UNCHANGED <<input, order, jobs, slots, q, written, completed_threads, ctx,
                   output_queue, kill_output_io_thread, mpc, wpc, status>>

\* The wait's predicate reads the queue, then the flag.
IoTestQueue ==
    IoGoto("testQueue", IF output_queue = << >> THEN "testKill" ELSE "exitTest")
IoTestKill ==
    IoGoto("testKill", IF kill_output_io_thread # 1 THEN "tosleep" ELSE "exitTest")
IoSleep == IoGoto("tosleep", "asleep")

IoExitTest ==
    IoGoto("exitTest", IF kill_output_io_thread = 1 /\ output_queue = << >>
                       THEN "done" ELSE "drain")

IoDrainOne ==
    /\ Running /\ ipc = "drain" /\ output_queue # << >>
    /\ q' = Append(q, Head(output_queue))
    /\ output_queue' = Tail(output_queue)
    /\ UNCHANGED <<input, order, jobs, slots, written, ipc, completed_threads, ctx,
                   kill_output_io_thread, mpc, wpc, status>>

IoDrained == output_queue = << >> /\ IoGoto("drain", "write")

\* The loop of write() calls for one block.
IoWriteOne ==
    /\ Running /\ ipc = "write" /\ q # << >>
    /\ written' = Append(written, Head(q))
    /\ q' = Tail(q)
    /\ UNCHANGED <<input, order, jobs, slots, ipc, completed_threads, ctx,
                   output_queue, kill_output_io_thread, mpc, wpc, status>>

IoWritten ==
    /\ q = << >>
    /\ IoGoto("write", IF kill_output_io_thread = 1 THEN "done" ELSE "testQueue")

Io ==
    \/ IoTestQueue \/ IoTestKill \/ IoSleep \/ IoExitTest
    \/ IoDrainOne \/ IoDrained \/ IoWriteOne \/ IoWritten

-----------------------------------------------------------------------------
(* What the operating system may do                                         *)

\* pthread_cond_wait may return without a signal.
SpuriousWakeupMain ==
    /\ Running /\ mpc = "asleep"
    /\ mpc' = "check"
    /\ UNCHANGED <<input, order, jobs, slots, output, completed_threads, ctx,
                   output_queue, kill_output_io_thread, wpc, status>>

SpuriousWakeupWorker(t) ==
    /\ Running /\ wpc[t] = "asleep"
    /\ wpc' = [wpc EXCEPT ![t] = "top"]
    /\ UNCHANGED <<input, order, jobs, slots, output, completed_threads, ctx,
                   output_queue, kill_output_io_thread, mpc, status>>

SpuriousWakeupIo == IoGoto("asleep", "testQueue")

\* read() in file_read, or write() in io_out_function, returns -1, or an Assert of
\* the compression a worker does fails: error() ends in exit(), wherever the other
\* threads are.
Abort ==
    /\ Running
    /\ \/ mpc = "start" /\ block_number <= NumThreads /\ bytes_to_read > 0
       \/ mpc = "collect" /\ completed_threads # << >> /\ bytes_to_read # 0
       \/ ipc = "write" /\ q # << >>
       \/ \E t \in Threads : wpc[t] = "working"
    /\ status' = "aborted"
    /\ UNCHANGED <<input, order, jobs, slots, output, completed_threads, ctx,
                   output_queue, kill_output_io_thread, mpc, wpc>>

Environment ==
    \/ SpuriousWakeupMain \/ SpuriousWakeupIo \/ Abort
    \/ \E t \in Threads : SpuriousWakeupWorker(t)

\* The process is gone.
Ended == ~Running /\ UNCHANGED vars

Next ==
    \/ Main
    \/ \E t \in Threads : Worker(t)
    \/ Io
    \/ Environment
    \/ Ended

\* The scheduler runs every thread that can run; the environment owes nothing.
Fairness ==
    /\ WF_vars(Main)
    /\ \A t \in Threads : WF_vars(Worker(t))
    /\ WF_vars(Io)

Spec == Init /\ [][Next]_vars
FairSpec == Spec /\ Fairness
-----------------------------------------------------------------------------
(* Properties                                                               *)

\* Every variable has its type: the flags are 0 or 1, the queues hold the ids of
\* threads and of contexts, each process is at one of its points.
TypeOK ==
    /\ bytes_to_read \in Nat /\ offset \in Nat /\ bytes_in \in Nat
    /\ block_number \in Nat \ {0} /\ last_block_number \in Nat
    /\ blocks_read \in Int /\ next_block_to_output \in Nat \ {0}
    /\ processed_blocks \in SUBSET [index : Nat, data : Seq(Pieces)]
    /\ kill_output_io_thread \in {0, 1} /\ shutdown \in {0, 1}
    /\ output_queue \in Seq(Seq(Pieces))
    /\ q \in Seq(Seq(Pieces)) /\ written \in Seq(Seq(Pieces))
    /\ pending_job_requests \in Seq(Contexts)
    /\ free_threads \in Seq(Threads) /\ completed_threads \in Seq(Threads)
    /\ busy \in [Threads -> {0, 1}]
    /\ work \in [Threads -> Contexts \cup {Null}]
    /\ ctx \in [Contexts -> ContextRecords]
    /\ mpc \in {"start", "check", "tosleep", "asleep", "handoff", "collect",
                "output", "kill", "signal", "join", "done"}
    /\ wpc \in [Threads -> {"top", "asleep", "working", "finished", "signal"}]
    /\ ipc \in {"testQueue", "testKill", "tosleep", "asleep", "exitTest",
                "drain", "write", "done"}
    /\ status \in {"running", "exited", "aborted"}

\* What block i of the input is, and what it must be once compressed.
BlockFrom(i) == (i - 1) * ChunkSize
BlockPiece(i) ==
    LET rest == FileSize - BlockFrom(i)
    IN  [from |-> BlockFrom(i),
         size |-> IF rest <= ChunkSize THEN rest ELSE ChunkSize,
         last_block |-> rest <= ChunkSize]
Compressed(i) == <<BlockPiece(i)>>

\* Whatever order the workers finish in, and although a context serves many
\* blocks, the file holds blocks 1, 2, 3 ... of the input, each whole, each
\* once, with the final bit on the last block of the input only; what is on
\* the way to the file continues that sequence.
WrittenInOrder ==
    written \o q \o output_queue
        = [i \in 1 .. next_block_to_output - 1 |-> Compressed(i)]

\* A thread is at work from the hand-off until main collects it.
AtWork(t) == busy[t] = 1 \/ wpc[t] = "finished" \/ t \in Range(completed_threads)

\* A thread is free exactly when it is not at work, and it waits in at most one
\* queue, once: main's Assert "Why is thread Busy?" cannot fail, and the lock
\* of a free thread is never held for a whole compression.
ThreadsAccountedFor ==
    /\ \A t \in Threads : t \in Range(free_threads) <=> ~AtWork(t)
    /\ IsInjective(free_threads) /\ IsInjective(completed_threads)
    /\ \A t \in Range(completed_threads) :
          busy[t] = 0 /\ wpc[t] \notin {"working", "finished"}

\* Every block read is in one place: asked for, at work, in the sorted list or
\* passed on.  None is dropped or compressed twice by the hand-overs.
BlocksConserved ==
    LET pending == {ctx[c].block_number : c \in Range(pending_job_requests)}
        atWork == {ctx[work[t]].block_number : t \in {u \in Threads : AtWork(u)}}
        sorted == {b.index : b \in processed_blocks}
    IN  /\ pending \cup atWork \cup sorted \cup (1 .. next_block_to_output - 1)
              = 1 .. block_number - 1
        /\ Len(pending_job_requests) + Cardinality({t \in Threads : AtWork(t)})
             + Cardinality(processed_blocks) + next_block_to_output
              = block_number

\* When the loop is left, everything was read, and what a worker has compressed was
\* passed to the io thread in order; the blocks still missing are jobs no worker was
\* given, fewer than there are threads: with one thread none is.
ExitLeavesOnlyUnstarted ==
    mpc \in {"kill", "signal", "join", "done"} =>
        /\ bytes_to_read = 0
        /\ {ctx[c].block_number : c \in Range(pending_job_requests)}
              = next_block_to_output .. block_number - 1
        /\ Len(pending_job_requests) < NumThreads

\* While a worker compresses, nobody changes the context it works on nor gives
\* it other work: main reuses a context only after collecting it.
WorkerOwnsContext ==
    [][\A t \in Threads :
         wpc[t] = "working" /\ wpc'[t] = "working" =>
             work'[t] = work[t] /\ ctx'[work[t]] = ctx[work[t]]]_vars

\* A program given some input ends, unless one of two signals was lost: the
\* one for a thread that completed after main tested for it and before main
\* slept, or the one for the flag main raised after the io thread tested it and
\* before that slept.  Nothing else keeps the threads waiting for ever, and once
\* shutdown is set the first cannot: main never waits for a worker again.
OnlyLostSignalsHang ==
    \/ <>~Running
    \/ /\ <>(mpc = "tosleep" /\ completed_threads # << >>)
       /\ <>[](mpc = "asleep" /\ completed_threads # << >> /\ shutdown = 0)
    \/ /\ <>(ipc = "tosleep" /\ kill_output_io_thread = 1)
       /\ <>[](mpc = "join" /\ ipc = "asleep")

\* Blocks whose compression has not finished.
Uncompressed ==
    {ctx[c].block_number : c \in Range(pending_job_requests)}
    \cup {ctx[work[t]].block_number : t \in {u \in Threads : busy[u] = 1}}

BlockCount == (FileSize + ChunkSize - 1) \div ChunkSize

Stream == INSTANCE BlockStream WITH
    Blocks <- [i \in 1 .. BlockCount |-> Compressed(i)],
    taken <- block_number - 1,
    compressed <- (1 .. block_number - 1) \ Uncompressed,
    emitted <- written

\* Main, the workers and the io thread together are a stream of blocks: each
\* block is taken once, compressed once, and written after its compression and
\* after every block before it.
ImplementsBlockStream == Stream!Spec
=============================================================================
