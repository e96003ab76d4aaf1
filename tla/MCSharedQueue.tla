---------------------------- MODULE MCSharedQueue ----------------------------
(***************************************************************************)
(* The two queues of pgzip that threads share, for SharedQueue.            *)
(***************************************************************************)
EXTENDS SharedQueue

CONSTANTS worker1, worker2, main, io, n1, n2, n3, n4

\* completed_threads: two workers, and main
Workers == {worker1, worker2}
CompletedLock == [t \in {worker1, worker2, main} |-> "completed_threads_lock"]
FourNodes == {n1, n2, n3, n4}

\* output_queue: main, and the io thread
MainAlone == {main}
OutputLocks ==
    [t \in {main, io} |-> IF t = main THEN "output_block_lock" ELSE "output_fd_lock"]

\* zip.c:21, output_fd_lock is the "lock to push data from this io thread to the
\* output io thread": what is pushed gets there, all of it, and the threads
\* survive.
PushedArrives == ~crashed /\ NothingLost
=============================================================================
