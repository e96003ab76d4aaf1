------------------------ MODULE ParallelDeflateProofs ------------------------
(***************************************************************************)
(* Theorems about ParallelDeflate, for every number of threads, size of    *)
(* the input and size of a block: who owns a thread and a context, what is *)
(* in the file, where every block is, and that it implements BlockStream.  *)
(***************************************************************************)
EXTENDS ParallelDeflate, SequenceTheorems, FiniteSetTheorems, TLAPS

-----------------------------------------------------------------------------
(* Queues                                                                   *)

\* Appending to a queue adds one element to those in it.
LEMMA AppendRange ==
    ASSUME NEW S, NEW s \in Seq(S), NEW e \in S
    PROVE  /\ Append(s, e) \in Seq(S)
           /\ Range(Append(s, e)) = Range(s) \cup {e}
           /\ (IsInjective(s) /\ e \notin Range(s)) => IsInjective(Append(s, e))
<1> DEFINE a == Append(s, e)
<1>1. /\ a \in Seq(S) /\ Len(a) = Len(s) + 1 /\ Len(s) \in Nat
      /\ \A i \in 1 .. Len(s) : a[i] = s[i]
      /\ a[Len(s) + 1] = e
      /\ DOMAIN a = 1 .. Len(a) /\ DOMAIN s = 1 .. Len(s)
  BY AppendProperties, LenProperties
<1>2. Range(a) = Range(s) \cup {e}
  BY <1>1 DEF Range
<1>3. IsInjective(s) /\ e \notin Range(s) => IsInjective(a)
  <2> HIDE DEF a
  <2> SUFFICES ASSUME IsInjective(s), e \notin Range(s),
                      NEW i \in 1 .. Len(a), NEW j \in 1 .. Len(a), a[i] = a[j]
               PROVE  i = j
    BY <1>1 DEF IsInjective
  <2>1. \A k \in 1 .. Len(s) : s[k] # e
    BY <1>1 DEF Range
  <2> QED BY <1>1, <2>1 DEF IsInjective
<1> QED BY <1>1, <1>2, <1>3

\* Taking the head of a queue removes it and nothing else when nothing is
\* in the queue twice.
LEMMA TailRange ==
    ASSUME NEW S, NEW s \in Seq(S), s # << >>
    PROVE  /\ Head(s) \in S /\ Head(s) \in Range(s)
           /\ Tail(s) \in Seq(S) /\ Range(Tail(s)) \subseteq Range(s)
           /\ Len(Tail(s)) = Len(s) - 1
           /\ IsInjective(s) => /\ IsInjective(Tail(s))
                                /\ Range(Tail(s)) = Range(s) \ {Head(s)}
<1> DEFINE t == Tail(s)
<1>1. /\ Head(s) \in S /\ t \in Seq(S) /\ Len(t) = Len(s) - 1
      /\ \A i \in 1 .. Len(t) : t[i] = s[i + 1]
      /\ DOMAIN t = 1 .. Len(t) /\ DOMAIN s = 1 .. Len(s)
      /\ Len(s) \in Nat \ {0}
  BY HeadTailProperties, LenProperties, EmptySeq
<1>2. Head(s) = s[1]
  BY <1>1
<1>3. Head(s) \in Range(s) /\ Range(t) \subseteq Range(s)
  <2> HIDE DEF t
  <2>1. \A i \in 1 .. Len(t) : i + 1 \in 1 .. Len(s)
    BY <1>1
  <2> QED BY <1>1, <1>2, <2>1 DEF Range
<1>4. ASSUME IsInjective(s)
      PROVE  IsInjective(t) /\ Range(t) = Range(s) \ {Head(s)}
  <2> HIDE DEF t
  <2>1. \A i \in 1 .. Len(t) : i + 1 \in 1 .. Len(s)
    BY <1>1
  <2>2. IsInjective(t)
    <3> SUFFICES ASSUME NEW i \in 1 .. Len(t), NEW j \in 1 .. Len(t), t[i] = t[j]
                 PROVE  i = j
      BY <1>1 DEF IsInjective
    <3>1. s[i + 1] = s[j + 1]
      BY <1>1
    <3>2. i + 1 = j + 1
      BY <1>1, <1>4, <2>1, <3>1 DEF IsInjective
    <3> QED BY <3>2
  <2>3. \A i \in 1 .. Len(t) : t[i] # Head(s)
    BY <1>1, <1>2, <1>4, <2>1 DEF IsInjective
  <2>4. \A i \in 1 .. Len(s) : s[i] # Head(s) => s[i] \in Range(t)
    <3> TAKE i \in 1 .. Len(s)
    <3> HAVE s[i] # Head(s)
    <3>1. i - 1 \in 1 .. Len(t) /\ t[i - 1] = s[i]
      BY <1>1, <1>2
    <3> QED BY <1>1, <3>1 DEF Range
  <2> QED BY <1>1, <1>3, <2>2, <2>3, <2>4 DEF Range
<1> QED BY <1>1, <1>3, <1>4

-----------------------------------------------------------------------------
(* Types                                                                    *)

\* A thread at work, or about to be, has been given a context.
WorkTyped ==
    \A t \in Threads : AtWork(t) \/ wpc[t] = "working" => work[t] \in Contexts

TypeInv == TypeOK /\ WorkTyped

LEMMA GrabTypes ==
    ASSUME TypeOK, NEW c \in Contexts, grab_another_block(c)
    PROVE  /\ bytes_to_read' \in Nat /\ offset' \in Nat /\ bytes_in' \in Nat
           /\ block_number' \in Nat \ {0} /\ last_block_number' \in Nat
           /\ blocks_read' \in Int
           /\ ctx' \in [Contexts -> ContextRecords]
<1>1. ReadSize \in Nat /\ ReadSize <= bytes_to_read /\ IsLastRead \in BOOLEAN
  BY ChunkSizeAssumption DEF TypeOK, ReadSize, IsLastRead
<1>2. ctx' \in [Contexts -> ContextRecords]
  <2>1. CleanContext(ctx[c]) \in ContextRecords
    <3>1. ctx[c] \in ContextRecords
      BY DEF TypeOK
    <3>2. << >> \in Seq(Pieces)
      BY EmptySeq
    <3> QED BY <3>1, <3>2 DEF CleanContext, ContextRecords
  <2> DEFINE new == [CleanContext(ctx[c]) EXCEPT !.block_number = block_number,
                       !.from = offset, !.size = ReadSize, !.last_block = IsLastRead]
  <2>2. new \in ContextRecords
    BY <2>1, <1>1 DEF TypeOK, ContextRecords
  <2>3. ctx' = [ctx EXCEPT ![c] = new]
    BY DEF grab_another_block
  <2> HIDE DEF new
  <2> QED BY <2>2, <2>3 DEF TypeOK
<1>3. /\ last_block_number' \in {block_number, last_block_number}
      /\ block_number' = block_number + 1 /\ blocks_read' = blocks_read + 1
      /\ bytes_in' = bytes_in + 2 * ReadSize
      /\ bytes_to_read' = bytes_to_read - ReadSize /\ offset' = offset + ReadSize
  BY DEF grab_another_block
<1> QED BY <1>1, <1>2, <1>3 DEF TypeOK

LEMMA InitTypes == Init => TypeInv
<1> SUFFICES ASSUME Init PROVE TypeInv
  OBVIOUS
<1>1. FreshContext \in ContextRecords
  BY EmptySeq DEF FreshContext, ContextRecords
<1>2. free_threads \in Seq(Threads)
  BY NumThreadsAssumption DEF Init, Threads
<1>3. Range(completed_threads) = {}
  BY EmptySeq, LenProperties DEF Init, Range
<1>4. TypeOK
  BY <1>1, <1>2, EmptySeq, FileSizeAssumption DEF Init, TypeOK
<1> QED BY <1>3, <1>4 DEF Init, TypeInv, WorkTyped, AtWork

\* The steps that only move one of the program counters.
MovesOnly ==
    \/ InitialDispatched \/ Check \/ Sleep \/ HandOffDone \/ CollectDone \/ OutputDone
    \/ SignalKill \/ Join
    \/ IoTestQueue \/ IoTestKill \/ IoSleep \/ IoExitTest \/ IoDrained \/ IoWritten
    \/ SpuriousWakeupMain \/ SpuriousWakeupIo \/ Abort \/ UNCHANGED vars

\* They leave the data of main, of the workers and of the queues alone.
LEMMA MovesOnlyUnchanged ==
    ASSUME MovesOnly
    PROVE  /\ UNCHANGED <<input, order, jobs, slots, q, written, completed_threads, ctx,
                          output_queue, kill_output_io_thread, wpc>>
           /\ mpc' = "start" => mpc = "start"
BY DEF MovesOnly, InitialDispatched, Check, Sleep, HandOffDone, CollectDone, OutputDone,
       SignalKill, Join, IoTestQueue, IoTestKill, IoSleep, IoExitTest, IoDrained,
       IoWritten, IoGoto, SpuriousWakeupMain, SpuriousWakeupIo, Abort,
       vars, output

\* A step is one of those or one of the steps that change data.
LEMMA StepCases ==
    ASSUME [Next]_vars
    PROVE  \/ MovesOnly \/ DispatchInitial \/ HandOff \/ CollectAndGrab
           \/ CollectAndShutdown \/ OutputOne \/ SetKill
           \/ IoDrainOne \/ IoWriteOne
           \/ \E t \in Threads :
                \/ WorkerSleep(t) \/ WorkerStart(t) \/ WorkerFinish(t)
                \/ WorkerComplete(t) \/ WorkerSignal(t) \/ SpuriousWakeupWorker(t)
BY DEF Next, Main, Worker, Io, Environment, Ended, MovesOnly

LEMMA TypeInvInductive ==
    ASSUME TypeInv, [Next]_vars
    PROVE  TypeInv'
<1> USE DEF input, order, jobs, slots, output
<1>1. CASE MovesOnly
  <2>1. UNCHANGED <<input, order, jobs, slots, q, written, completed_threads, ctx,
                    output_queue, kill_output_io_thread, wpc>>
    BY <1>1, MovesOnlyUnchanged
  <2>2. mpc' \in {"start", "check", "tosleep", "asleep", "handoff", "collect",
                 "output", "kill", "signal", "join", "done"}
    BY <1>1 DEF MovesOnly, InitialDispatched, Check, Sleep, HandOffDone, CollectDone,
       OutputDone, SignalKill, Join, IoTestQueue, IoTestKill, IoSleep, IoExitTest,
       IoDrained, IoWritten, IoGoto, SpuriousWakeupMain, SpuriousWakeupIo, Abort, vars,
       TypeInv, TypeOK
  <2>3. ipc' \in {"testQueue", "testKill", "tosleep", "asleep", "exitTest",
                 "drain", "write", "done"}
    BY <1>1 DEF MovesOnly, InitialDispatched, Check, Sleep, HandOffDone, CollectDone,
       OutputDone, SignalKill, Join, IoTestQueue, IoTestKill, IoSleep, IoExitTest,
       IoDrained, IoWritten, IoGoto, SpuriousWakeupMain, SpuriousWakeupIo, Abort, vars,
       TypeInv, TypeOK
  <2>4. status' \in {"running", "exited", "aborted"}
    BY <1>1 DEF MovesOnly, InitialDispatched, Check, Sleep, HandOffDone, CollectDone,
       OutputDone, SignalKill, Join, IoTestQueue, IoTestKill, IoSleep, IoExitTest,
       IoDrained, IoWritten, IoGoto, SpuriousWakeupMain, SpuriousWakeupIo, Abort, vars,
       TypeInv, TypeOK
  <2> QED BY <2>1, <2>2, <2>3, <2>4 DEF TypeInv, TypeOK, WorkTyped, AtWork
<1>2. CASE DispatchInitial
  <2>1. block_number \in Contexts
    BY <1>2 DEF DispatchInitial, Contexts, TypeInv, TypeOK
  <2>2. pending_job_requests' \in Seq(Contexts)
    BY <1>2, <2>1, AppendRange DEF DispatchInitial, dispatch, TypeInv, TypeOK
  <2> QED
    BY <1>2, <2>1, <2>2, GrabTypes DEF DispatchInitial, TypeInv, TypeOK, WorkTyped, AtWork
<1>3. CASE HandOff
  <2>1. /\ Head(pending_job_requests) \in Contexts
        /\ pending_job_requests' \in Seq(Contexts)
        /\ Head(free_threads) \in Threads
        /\ free_threads' \in Seq(Threads)
    BY <1>3, TailRange DEF HandOff, CanHandOff, TypeInv, TypeOK
  <2> QED BY <1>3, <2>1 DEF HandOff, TypeInv, TypeOK, WorkTyped, AtWork
<1>4. ASSUME completed_threads # << >>, TakeCompleted(Head(completed_threads))
      PROVE  /\ Head(completed_threads) \in Threads
             /\ work[Head(completed_threads)] \in Contexts
             /\ completed_threads' \in Seq(Threads)
             /\ Range(completed_threads') \subseteq Range(completed_threads)
             /\ free_threads' \in Seq(Threads)
             /\ processed_blocks' \in SUBSET [index : Nat, data : Seq(Pieces)]
  <2>1. /\ Head(completed_threads) \in Threads
        /\ Head(completed_threads) \in Range(completed_threads)
        /\ completed_threads' \in Seq(Threads)
        /\ Range(completed_threads') \subseteq Range(completed_threads)
    BY <1>4, TailRange DEF TakeCompleted, TypeInv, TypeOK
  <2>2. work[Head(completed_threads)] \in Contexts
    BY <2>1 DEF TypeInv, WorkTyped, AtWork
  <2>3. free_threads' \in Seq(Threads)
    BY <1>4, <2>1, AppendRange DEF TakeCompleted, TypeInv, TypeOK
  <2> QED BY <1>4, <2>1, <2>2, <2>3 DEF TakeCompleted, TypeInv, TypeOK, ContextRecords
<1>5. CASE CollectAndGrab
  <2>1. pending_job_requests' \in Seq(Contexts)
    BY <1>4, <1>5, AppendRange DEF CollectAndGrab, dispatch, TypeInv, TypeOK
  <2> QED
    BY <1>4, <1>5, <2>1, GrabTypes DEF CollectAndGrab, TypeInv, TypeOK, WorkTyped, AtWork
<1>6. CASE CollectAndShutdown
  BY <1>4, <1>6 DEF CollectAndShutdown, TypeInv, TypeOK, WorkTyped, AtWork
<1>7. CASE OutputOne
  <2>1. output_queue' \in Seq(Seq(Pieces))
    BY <1>7, AppendRange DEF OutputOne, TypeInv, TypeOK
  <2> QED BY <1>7, <2>1 DEF OutputOne, TypeInv, TypeOK, WorkTyped, AtWork
<1>8. CASE SetKill
  BY <1>8 DEF SetKill, TypeInv, TypeOK, WorkTyped, AtWork
<1>9. CASE IoDrainOne
  <2>1. q' \in Seq(Seq(Pieces)) /\ output_queue' \in Seq(Seq(Pieces))
    BY <1>9, AppendRange, TailRange DEF IoDrainOne, TypeInv, TypeOK
  <2> QED BY <1>9, <2>1 DEF IoDrainOne, TypeInv, TypeOK, WorkTyped, AtWork
<1>10. CASE IoWriteOne
  <2>1. q' \in Seq(Seq(Pieces)) /\ written' \in Seq(Seq(Pieces))
    BY <1>10, AppendRange, TailRange DEF IoWriteOne, TypeInv, TypeOK
  <2> QED BY <1>10, <2>1 DEF IoWriteOne, TypeInv, TypeOK, WorkTyped, AtWork
<1>11. ASSUME NEW t \in Threads,
              WorkerSleep(t) \/ WorkerStart(t) \/ SpuriousWakeupWorker(t)
       PROVE  TypeInv'
  <2>1. CASE WorkerSleep(t)
    BY <2>1 DEF WorkerSleep, TypeInv, TypeOK, WorkTyped, AtWork
  <2>2. CASE WorkerStart(t)
    BY <2>2 DEF WorkerStart, TypeInv, TypeOK, WorkTyped, AtWork
  <2>3. CASE SpuriousWakeupWorker(t)
    BY <2>3 DEF SpuriousWakeupWorker, TypeInv, TypeOK, WorkTyped, AtWork
  <2> QED BY <1>11, <2>1, <2>2, <2>3
<1>12. ASSUME NEW t \in Threads, WorkerFinish(t)
       PROVE  TypeInv'
  <2>1. work[t] \in Contexts
    BY <1>12 DEF WorkerFinish, TypeInv, WorkTyped
  <2> DEFINE piece == [from |-> ctx[work[t]].from, size |-> ctx[work[t]].size,
                       last_block |-> ctx[work[t]].last_block]
  <2>2. ctx[work[t]] \in ContextRecords /\ piece \in Pieces
    BY <2>1 DEF TypeInv, TypeOK, ContextRecords, Pieces
  <2>3. Append(ctx[work[t]].output, piece) \in Seq(Pieces)
    BY <2>2, AppendRange DEF ContextRecords
  <2>4. ctx' \in [Contexts -> ContextRecords]
    BY <1>12, <2>1, <2>2, <2>3 DEF WorkerFinish, deflate_work, TypeInv, TypeOK,
                                   ContextRecords
  <2> QED BY <1>12, <2>1, <2>4 DEF WorkerFinish, TypeInv, TypeOK, WorkTyped, AtWork
<1>13. ASSUME NEW t \in Threads, WorkerComplete(t)
       PROVE  TypeInv'
  <2>1. /\ completed_threads' \in Seq(Threads)
        /\ Range(completed_threads') = Range(completed_threads) \cup {t}
    BY <1>13, AppendRange DEF WorkerComplete, TypeInv, TypeOK
  <2> QED BY <1>13, <2>1 DEF WorkerComplete, TypeInv, TypeOK, WorkTyped, AtWork
<1>14. ASSUME NEW t \in Threads, WorkerSignal(t)
       PROVE  TypeInv'
  BY <1>14 DEF WorkerSignal, TypeInv, TypeOK, WorkTyped, AtWork
<1> QED
  BY <1>1, <1>2, <1>3, <1>5, <1>6, <1>7, <1>8, <1>9, <1>10, <1>11, <1>12, <1>13, <1>14,
     StepCases

\* Every variable keeps its type, for any number of threads and any sizes.
THEOREM TypeCorrect == Spec => []TypeOK
<1>1. Spec => []TypeInv
  BY InitTypes, TypeInvInductive, PTL DEF Spec
<1>2. TypeInv => TypeOK
  BY DEF TypeInv
<1> QED BY <1>1, <1>2, PTL

-----------------------------------------------------------------------------
(* Threads                                                                  *)

\* busy is 1 while a worker works and 0 once it has finished.
WorkersMarked ==
    \A t \in Threads :
        /\ wpc[t] = "working" => busy[t] = 1
        /\ wpc[t] = "finished" => busy[t] = 0

ThreadInv == ThreadsAccountedFor /\ WorkersMarked

LEMMA InitThreads == Init => ThreadInv
<1> SUFFICES ASSUME Init PROVE ThreadInv
  OBVIOUS
<1>1. Range(completed_threads) = {} /\ IsInjective(completed_threads)
  BY EmptySeq, LenProperties DEF Init, Range, IsInjective
<1>2. DOMAIN free_threads = 1 .. NumThreads
  BY DEF Init
<1>3. IsInjective(free_threads)
  BY <1>2, NumThreadsAssumption DEF Init, IsInjective
<1>4. Threads \subseteq Range(free_threads)
  <2> SUFFICES ASSUME NEW t \in Threads PROVE t \in Range(free_threads)
    OBVIOUS
  <2>1. t + 1 \in 1 .. NumThreads /\ free_threads[t + 1] = t
    BY NumThreadsAssumption DEF Threads, Init
  <2> QED BY <1>2, <2>1 DEF Range
<1> QED
  BY <1>1, <1>3, <1>4 DEF Init, ThreadInv, ThreadsAccountedFor, WorkersMarked, AtWork

LEMMA ThreadInvInductive ==
    ASSUME TypeInv, ThreadInv, [Next]_vars
    PROVE  ThreadInv'
<1> USE DEF jobs, slots
<1>1. ASSUME UNCHANGED <<free_threads, completed_threads, busy, wpc>>
      PROVE  ThreadInv'
  BY <1>1 DEF ThreadInv, ThreadsAccountedFor, WorkersMarked, AtWork
<1>2. CASE MovesOnly
  BY <1>1, <1>2, MovesOnlyUnchanged
<1>3. CASE DispatchInitial
  BY <1>1, <1>3 DEF DispatchInitial
<1>4. CASE HandOff
  <2> DEFINE t == Head(free_threads)
  <2>1. /\ t \in Threads /\ t \in Range(free_threads)
        /\ Range(free_threads') = Range(free_threads) \ {t}
        /\ IsInjective(free_threads')
    BY <1>4, TailRange DEF HandOff, CanHandOff, TypeInv, TypeOK, ThreadInv,
                           ThreadsAccountedFor
  <2>2. /\ busy' = [busy EXCEPT ![t] = 1]
        /\ wpc' = [wpc EXCEPT ![t] = IF @ = "asleep" THEN "top" ELSE @]
        /\ wpc[t] # "working"
        /\ UNCHANGED completed_threads
    BY <1>4 DEF HandOff
  <2>3. wpc[t] # "finished" /\ t \notin Range(completed_threads)
    BY <2>1 DEF ThreadInv, ThreadsAccountedFor, AtWork
  <2> HIDE DEF t
  <2> QED
    BY <2>1, <2>2, <2>3
       DEF TypeInv, TypeOK, ThreadInv, ThreadsAccountedFor, WorkersMarked, AtWork
<1>5. ASSUME completed_threads # << >>, TakeCompleted(Head(completed_threads)),
             UNCHANGED <<busy, wpc>>
      PROVE  ThreadInv'
  <2> DEFINE t == Head(completed_threads)
  <2>1. /\ t \in Threads /\ t \in Range(completed_threads)
        /\ Range(completed_threads') = Range(completed_threads) \ {t}
        /\ IsInjective(completed_threads')
    BY <1>5, TailRange DEF TakeCompleted, TypeInv, TypeOK, ThreadInv, ThreadsAccountedFor
  <2>2. t \notin Range(free_threads)
    BY <2>1 DEF ThreadInv, ThreadsAccountedFor, AtWork
  <2>3. /\ Range(free_threads') = Range(free_threads) \cup {t}
        /\ IsInjective(free_threads')
    BY <1>5, <2>1, <2>2, AppendRange DEF TakeCompleted, TypeInv, TypeOK, ThreadInv,
                                         ThreadsAccountedFor
  <2> HIDE DEF t
  <2> QED
    BY <1>5, <2>1, <2>2, <2>3 DEF ThreadInv, ThreadsAccountedFor, WorkersMarked, AtWork
<1>6. CASE CollectAndGrab
  BY <1>5, <1>6 DEF CollectAndGrab
<1>7. CASE CollectAndShutdown
  BY <1>5, <1>7 DEF CollectAndShutdown
<1>8. CASE OutputOne \/ SetKill \/ IoDrainOne \/ IoWriteOne
  BY <1>1, <1>8 DEF OutputOne, SetKill, IoDrainOne, IoWriteOne
<1>9. ASSUME NEW t \in Threads,
             WorkerSleep(t) \/ WorkerStart(t) \/ WorkerSignal(t) \/ SpuriousWakeupWorker(t)
      PROVE  ThreadInv'
  <2>1. \E to \in {"asleep", "working", "top"} :
          /\ wpc' = [wpc EXCEPT ![t] = to]
          /\ to = "working" => busy[t] = 1
    BY <1>9 DEF WorkerSleep, WorkerStart, WorkerSignal, SpuriousWakeupWorker,
                TypeInv, TypeOK
  <2>2. /\ wpc[t] \notin {"working", "finished"}
        /\ UNCHANGED <<free_threads, completed_threads, busy>>
    BY <1>9 DEF WorkerSleep, WorkerStart, WorkerSignal, SpuriousWakeupWorker
  <2>3. CASE t \in Range(completed_threads)
    <3>1. busy[t] = 0
      BY <2>3 DEF ThreadInv, ThreadsAccountedFor
    <3> QED
      BY <2>1, <2>2, <2>3, <3>1 DEF TypeInv, TypeOK, ThreadInv, ThreadsAccountedFor,
                                    WorkersMarked, AtWork
  <2>4. CASE t \notin Range(completed_threads)
    BY <2>1, <2>2, <2>4 DEF TypeInv, TypeOK, ThreadInv, ThreadsAccountedFor,
                            WorkersMarked, AtWork
  <2> QED BY <2>3, <2>4
<1>10. ASSUME NEW t \in Threads, WorkerFinish(t)
       PROVE  ThreadInv'
  <2>1. /\ wpc[t] = "working"
        /\ busy' = [busy EXCEPT ![t] = 0] /\ wpc' = [wpc EXCEPT ![t] = "finished"]
        /\ UNCHANGED <<free_threads, completed_threads>>
    BY <1>10 DEF WorkerFinish
  <2>2. busy[t] = 1
    BY <2>1 DEF ThreadInv, WorkersMarked
  <2>3. t \notin Range(completed_threads)
    BY <2>1 DEF ThreadInv, ThreadsAccountedFor
  <2> QED
    BY <2>1, <2>2, <2>3
       DEF TypeInv, TypeOK, ThreadInv, ThreadsAccountedFor, WorkersMarked, AtWork
<1>11. ASSUME NEW t \in Threads, WorkerComplete(t)
       PROVE  ThreadInv'
  <2>1. wpc[t] = "finished" /\ busy[t] = 0 /\ t \notin Range(completed_threads)
    BY <1>11 DEF WorkerComplete, ThreadInv, ThreadsAccountedFor, WorkersMarked
  <2>2. /\ Range(completed_threads') = Range(completed_threads) \cup {t}
        /\ IsInjective(completed_threads')
    BY <1>11, <2>1, AppendRange DEF WorkerComplete, TypeInv, TypeOK, ThreadInv,
                                    ThreadsAccountedFor
  <2>3. /\ wpc' = [wpc EXCEPT ![t] = "signal"]
        /\ UNCHANGED <<free_threads, busy>>
    BY <1>11 DEF WorkerComplete
  <2> QED
    BY <2>1, <2>2, <2>3
       DEF TypeInv, TypeOK, ThreadInv, ThreadsAccountedFor, WorkersMarked, AtWork
<1> QED
  BY <1>2, <1>3, <1>4, <1>6, <1>7, <1>8, <1>9, <1>10, <1>11, StepCases

\* Threads are never lost, never free while at work, never queued twice: the
\* Assert in deflate() cannot fail.
THEOREM ThreadsCorrect == Spec => []ThreadsAccountedFor
<1>1. Init => TypeInv /\ ThreadInv
  BY InitTypes, InitThreads
<1>2. TypeInv /\ ThreadInv /\ [Next]_vars => TypeInv' /\ ThreadInv'
  BY TypeInvInductive, ThreadInvInductive
<1>3. ThreadInv => ThreadsAccountedFor
  BY DEF ThreadInv
<1> QED BY <1>1, <1>2, <1>3, PTL DEF Spec

-----------------------------------------------------------------------------
(* Contexts                                                                 *)

\* A context is asked for once, or belongs to one thread at work; while the
\* first blocks are dispatched only the contexts below block_number are used.
ContextInv ==
    /\ IsInjective(pending_job_requests)
    /\ \A t \in Threads : AtWork(t) => work[t] \notin Range(pending_job_requests)
    /\ \A t, u \in Threads : AtWork(t) /\ AtWork(u) /\ work[t] = work[u] => t = u
    /\ mpc = "start" =>
          /\ \A t \in Threads : ~AtWork(t)
          /\ \A c \in Range(pending_job_requests) : c < block_number

\* A hand-off puts one free thread to work.
LEMMA AtWorkHandOff ==
    ASSUME TypeInv, ThreadInv, HandOff
    PROVE  LET t == Head(free_threads) IN
           /\ t \in Threads /\ ~AtWork(t)
           /\ \A u \in Threads : AtWork(u)' <=> AtWork(u) \/ u = t
<1> DEFINE t == Head(free_threads)
<1>1. t \in Threads /\ t \in Range(free_threads)
  BY TailRange DEF HandOff, CanHandOff, TypeInv, TypeOK
<1>2. ~AtWork(t)
  BY <1>1 DEF ThreadInv, ThreadsAccountedFor
<1>3. /\ busy' = [busy EXCEPT ![t] = 1]
      /\ wpc' = [wpc EXCEPT ![t] = IF @ = "asleep" THEN "top" ELSE @]
      /\ UNCHANGED completed_threads
  BY DEF HandOff
<1> HIDE DEF t
<1>4. \A u \in Threads : AtWork(u)' <=> AtWork(u) \/ u = t
  BY <1>1, <1>2, <1>3 DEF AtWork, TypeInv, TypeOK
<1> QED BY <1>1, <1>2, <1>4 DEF t

\* Collecting frees the thread at the head of completed_threads.
LEMMA AtWorkCollect ==
    ASSUME TypeInv, ThreadInv, CollectAndGrab \/ CollectAndShutdown
    PROVE  LET t == Head(completed_threads) IN
           /\ t \in Threads /\ AtWork(t) /\ busy[t] = 0
           /\ \A u \in Threads : AtWork(u)' <=> AtWork(u) /\ u # t
<1> DEFINE t == Head(completed_threads)
<1>1. /\ completed_threads # << >>
      /\ completed_threads' = Tail(completed_threads)
      /\ UNCHANGED <<busy, wpc>>
  BY DEF CollectAndGrab, CollectAndShutdown, TakeCompleted, slots
<1>2. /\ t \in Threads /\ t \in Range(completed_threads)
      /\ Range(completed_threads') = Range(completed_threads) \ {t}
  BY <1>1, TailRange DEF TypeInv, TypeOK, ThreadInv, ThreadsAccountedFor
<1>3. busy[t] = 0 /\ wpc[t] # "finished"
  BY <1>2 DEF ThreadInv, ThreadsAccountedFor
<1>4. \A u \in Threads : AtWork(u)' <=> AtWork(u) /\ u # t
  BY <1>1, <1>2, <1>3 DEF AtWork
<1> QED BY <1>2, <1>3, <1>4 DEF AtWork

\* No other step starts or ends the work of a thread.
AtWorkUnchanged == \A u \in Threads : AtWork(u)' <=> AtWork(u)

LEMMA AtWorkOtherwise ==
    ASSUME TypeInv, ThreadInv, [Next]_vars,
           ~HandOff, ~CollectAndGrab, ~CollectAndShutdown
    PROVE  AtWorkUnchanged
<1> USE DEF jobs, slots
<1>1. ASSUME UNCHANGED <<completed_threads, busy, wpc>>
      PROVE  AtWorkUnchanged
  BY <1>1 DEF AtWorkUnchanged, AtWork
<1>2. CASE MovesOnly
  BY <1>1, <1>2, MovesOnlyUnchanged
<1>3. CASE DispatchInitial \/ OutputOne \/ SetKill \/ IoDrainOne \/ IoWriteOne
  BY <1>1, <1>3 DEF DispatchInitial, OutputOne, SetKill, IoDrainOne, IoWriteOne
<1>4. ASSUME NEW t \in Threads,
             WorkerSleep(t) \/ WorkerStart(t) \/ WorkerSignal(t) \/ SpuriousWakeupWorker(t)
      PROVE  AtWorkUnchanged
  <2>1. \E to \in {"asleep", "working", "top"} : wpc' = [wpc EXCEPT ![t] = to]
    BY <1>4 DEF WorkerSleep, WorkerStart, WorkerSignal, SpuriousWakeupWorker
  <2>2. wpc[t] # "finished" /\ UNCHANGED <<completed_threads, busy>>
    BY <1>4 DEF WorkerSleep, WorkerStart, WorkerSignal, SpuriousWakeupWorker
  <2> QED BY <2>1, <2>2 DEF AtWorkUnchanged, AtWork, TypeInv, TypeOK
<1>5. ASSUME NEW t \in Threads, WorkerFinish(t)
      PROVE  AtWorkUnchanged
  <2>1. /\ wpc[t] = "working" /\ UNCHANGED completed_threads
        /\ busy' = [busy EXCEPT ![t] = 0] /\ wpc' = [wpc EXCEPT ![t] = "finished"]
    BY <1>5 DEF WorkerFinish
  <2>2. busy[t] = 1
    BY <2>1 DEF ThreadInv, WorkersMarked
  <2> QED BY <2>1, <2>2 DEF AtWorkUnchanged, AtWork, TypeInv, TypeOK
<1>6. ASSUME NEW t \in Threads, WorkerComplete(t)
      PROVE  AtWorkUnchanged
  <2>1. Range(completed_threads') = Range(completed_threads) \cup {t}
    BY <1>6, AppendRange DEF WorkerComplete, TypeInv, TypeOK
  <2>2. /\ wpc[t] = "finished" /\ wpc' = [wpc EXCEPT ![t] = "signal"]
        /\ UNCHANGED busy
    BY <1>6 DEF WorkerComplete
  <2> QED BY <2>1, <2>2 DEF AtWorkUnchanged, AtWork, TypeInv, TypeOK
<1> QED BY <1>2, <1>3, <1>4, <1>5, <1>6, StepCases

LEMMA InitContexts == Init => ContextInv
<1> SUFFICES ASSUME Init PROVE ContextInv
  OBVIOUS
<1>1. /\ Range(pending_job_requests) = {} /\ IsInjective(pending_job_requests)
      /\ Range(completed_threads) = {}
  BY EmptySeq, LenProperties DEF Init, Range, IsInjective
<1> QED BY <1>1 DEF Init, ContextInv, AtWork

LEMMA ContextInvInductive ==
    ASSUME TypeInv, ThreadInv, ContextInv, [Next]_vars
    PROVE  ContextInv'
<1> USE DEF input, jobs, slots
<1>1. ASSUME ~HandOff, ~CollectAndGrab, ~CollectAndShutdown,
             UNCHANGED <<pending_job_requests, work, block_number>>,
             mpc' = "start" => mpc = "start"
      PROVE  ContextInv'
  <2>1. AtWorkUnchanged
    BY <1>1, AtWorkOtherwise
  <2> QED BY <1>1, <2>1 DEF ContextInv, AtWorkUnchanged
<1>2. CASE HandOff
  <2> DEFINE t == Head(free_threads)
             c == Head(pending_job_requests)
  <2>1. /\ t \in Threads /\ ~AtWork(t)
        /\ \A u \in Threads : AtWork(u)' <=> AtWork(u) \/ u = t
    BY <1>2, AtWorkHandOff
  <2>2. /\ c \in Range(pending_job_requests)
        /\ Range(pending_job_requests') = Range(pending_job_requests) \ {c}
        /\ IsInjective(pending_job_requests')
    BY <1>2, TailRange DEF HandOff, CanHandOff, TypeInv, TypeOK, ContextInv
  <2>3. work' = [work EXCEPT ![t] = c] /\ mpc' # "start"
    BY <1>2 DEF HandOff
  <2> HIDE DEF t, c
  <2> QED BY <2>1, <2>2, <2>3 DEF ContextInv, TypeInv, TypeOK
<1>3. CASE CollectAndGrab
  <2> DEFINE t == Head(completed_threads)
  <2>1. /\ t \in Threads /\ AtWork(t)
        /\ \A u \in Threads : AtWork(u)' <=> AtWork(u) /\ u # t
    BY <1>3, AtWorkCollect
  <2>2. /\ pending_job_requests' = Append(pending_job_requests, work[t])
        /\ UNCHANGED work /\ mpc' # "start"
    BY <1>3 DEF CollectAndGrab, dispatch
  <2>3. work[t] \in Contexts /\ work[t] \notin Range(pending_job_requests)
    BY <2>1 DEF ContextInv, TypeInv, WorkTyped
  <2>4. /\ Range(pending_job_requests') = Range(pending_job_requests) \cup {work[t]}
        /\ IsInjective(pending_job_requests')
    BY <2>2, <2>3, AppendRange DEF ContextInv, TypeInv, TypeOK
  <2> HIDE DEF t
  <2> QED BY <2>1, <2>2, <2>4 DEF ContextInv
<1>4. CASE CollectAndShutdown
  <2>1. \A u \in Threads : AtWork(u)' => AtWork(u)
    BY <1>4, AtWorkCollect
  <2>2. UNCHANGED <<pending_job_requests, work>> /\ mpc' # "start"
    BY <1>4 DEF CollectAndShutdown
  <2> QED BY <2>1, <2>2 DEF ContextInv
<1>5. CASE DispatchInitial
  <2>1. /\ mpc = "start" /\ UNCHANGED <<completed_threads, busy, wpc, work, mpc>>
        /\ pending_job_requests' = Append(pending_job_requests, block_number)
        /\ block_number' = block_number + 1
        /\ block_number \in Contexts
    <3>1. block_number <= NumThreads /\ block_number \in Nat \ {0}
      BY <1>5 DEF DispatchInitial, TypeInv, TypeOK
    <3>2. block_number \in Contexts
      BY <3>1, NumThreadsAssumption DEF Contexts
    <3> QED BY <1>5, <3>2 DEF DispatchInitial, dispatch, grab_another_block, slots
  <2>2. block_number \notin Range(pending_job_requests)
    BY <2>1 DEF ContextInv, TypeInv, TypeOK
  <2>3. /\ Range(pending_job_requests') = Range(pending_job_requests) \cup {block_number}
        /\ IsInjective(pending_job_requests')
    BY <2>1, <2>2, AppendRange DEF ContextInv, TypeInv, TypeOK
  <2>4. \A u \in Threads : AtWork(u)' <=> AtWork(u)
    BY <2>1 DEF AtWork
  <2>5. \A c \in Range(pending_job_requests) : c < block_number + 1
    <3>1. Range(pending_job_requests) \subseteq Contexts
      BY RangeOfSeq DEF TypeInv, TypeOK
    <3> QED BY <2>1, <3>1 DEF ContextInv, Contexts, TypeInv, TypeOK
  <2> QED BY <2>1, <2>3, <2>4, <2>5 DEF ContextInv, TypeInv, TypeOK
<1>6. CASE MovesOnly
  BY <1>1, <1>2, <1>3, <1>4, <1>6, MovesOnlyUnchanged
<1>7. CASE OutputOne \/ SetKill \/ IoDrainOne \/ IoWriteOne
  BY <1>1, <1>2, <1>3, <1>4, <1>7 DEF OutputOne, SetKill, IoDrainOne, IoWriteOne
<1>8. ASSUME NEW t \in Threads,
             \/ WorkerSleep(t) \/ WorkerStart(t) \/ WorkerFinish(t)
             \/ WorkerComplete(t) \/ WorkerSignal(t) \/ SpuriousWakeupWorker(t)
      PROVE  ContextInv'
  <2>1. /\ UNCHANGED <<pending_job_requests, work, block_number>>
        /\ mpc' = "start" => mpc = "start"
    BY <1>8 DEF WorkerSleep, WorkerStart, WorkerFinish, WorkerComplete, WorkerSignal,
                SpuriousWakeupWorker
  <2> QED BY <1>1, <1>2, <1>3, <1>4, <2>1
<1> QED BY <1>2, <1>3, <1>4, <1>5, <1>6, <1>7, <1>8, StepCases

\* One step leaves a working thread its work and its context as it is.
LEMMA WorkingUndisturbed ==
    ASSUME TypeInv, ThreadInv, ContextInv, [Next]_vars,
           NEW t \in Threads, wpc[t] = "working", wpc'[t] = "working"
    PROVE  work'[t] = work[t] /\ ctx'[work[t]] = ctx[work[t]]
<1> USE DEF slots
<1>1. AtWork(t) /\ busy[t] = 1 /\ work[t] \in Contexts
  BY DEF ThreadInv, WorkersMarked, AtWork, TypeInv, WorkTyped
<1>2. CASE MovesOnly
  BY <1>2, MovesOnlyUnchanged
<1>3. CASE DispatchInitial
  BY <1>1, <1>3 DEF DispatchInitial, ContextInv
<1>4. CASE HandOff
  <2>1. t # Head(free_threads)
    BY <1>1, <1>4, AtWorkHandOff
  <2> QED BY <1>4, <2>1 DEF HandOff, TypeInv, TypeOK
<1>5. CASE CollectAndGrab
  <2> DEFINE u == Head(completed_threads)
  <2>1. u \in Threads /\ AtWork(u) /\ busy[u] = 0
    BY <1>5, AtWorkCollect
  <2>2. work[t] # work[u]
    BY <1>1, <2>1 DEF ContextInv
  <2>3. /\ UNCHANGED work
        /\ \E r : ctx' = [ctx EXCEPT ![work[u]] = r]
    BY <1>5 DEF CollectAndGrab, grab_another_block
  <2> HIDE DEF u
  <2> QED BY <1>1, <2>2, <2>3 DEF TypeInv, TypeOK
<1>6. CASE CollectAndShutdown \/ OutputOne \/ SetKill \/ IoDrainOne \/ IoWriteOne
  BY <1>6 DEF CollectAndShutdown, OutputOne, SetKill, IoDrainOne, IoWriteOne
<1>7. ASSUME NEW u \in Threads,
             \/ WorkerSleep(u) \/ WorkerStart(u) \/ WorkerComplete(u)
             \/ WorkerSignal(u) \/ SpuriousWakeupWorker(u)
      PROVE  UNCHANGED <<work, ctx>>
  BY <1>7 DEF WorkerSleep, WorkerStart, WorkerComplete, WorkerSignal,
              SpuriousWakeupWorker
<1>8. ASSUME NEW u \in Threads, WorkerFinish(u)
      PROVE  work'[t] = work[t] /\ ctx'[work[t]] = ctx[work[t]]
  <2>1. /\ UNCHANGED work /\ wpc[u] = "working"
        /\ wpc' = [wpc EXCEPT ![u] = "finished"]
        /\ \E r : ctx' = [ctx EXCEPT ![work[u]].output = r]
    BY <1>8 DEF WorkerFinish, deflate_work
  <2>2. t # u
    BY <2>1 DEF TypeInv, TypeOK
  <2>3. AtWork(u)
    BY <2>1 DEF ThreadInv, WorkersMarked, AtWork
  <2>4. work[t] # work[u]
    BY <1>1, <2>2, <2>3 DEF ContextInv
  <2> QED BY <1>1, <2>1, <2>4 DEF TypeInv, TypeOK
<1> QED BY <1>2, <1>3, <1>4, <1>5, <1>6, <1>7, <1>8, StepCases

\* While a worker compresses, nobody else touches its context or its work.
THEOREM WorkerOwns == Spec => WorkerOwnsContext
<1> DEFINE Own == \A t \in Threads :
                    wpc[t] = "working" /\ wpc'[t] = "working" =>
                        work'[t] = work[t] /\ ctx'[work[t]] = ctx[work[t]]
<1>1. TypeInv /\ ThreadInv /\ ContextInv /\ [Next]_vars => [Own]_vars
  BY WorkingUndisturbed
<1>2. Init => TypeInv /\ ThreadInv /\ ContextInv
  BY InitTypes, InitThreads, InitContexts
<1>3. TypeInv /\ ThreadInv /\ ContextInv /\ [Next]_vars
        => TypeInv' /\ ThreadInv' /\ ContextInv'
  BY TypeInvInductive, ThreadInvInductive, ContextInvInductive
<1> QED BY <1>1, <1>2, <1>3, PTL DEF Spec, WorkerOwnsContext

-----------------------------------------------------------------------------
(* What the contexts hold                                                   *)

\* The context r describes the block whose number it carries.
Describes(r) ==
    [from |-> r.from, size |-> r.size, last_block |-> r.last_block]
        = BlockPiece(r.block_number)

\* The input is cut where the blocks begin.  A context that waits for a worker
\* describes its block and has no output; one that a worker has finished holds
\* its block compressed, and so does the sorted list.
ContentInv ==
    /\ offset + bytes_to_read = FileSize
    /\ bytes_to_read > 0 => offset = BlockFrom(block_number)
    /\ \A c \in Range(pending_job_requests) : Describes(ctx[c]) /\ ctx[c].output = << >>
    /\ \A t \in Threads : AtWork(t) =>
          /\ Describes(ctx[work[t]])
          /\ busy[t] = 1 => ctx[work[t]].output = << >>
          /\ busy[t] = 0 => ctx[work[t]].output = Compressed(ctx[work[t]].block_number)
    /\ \A b \in processed_blocks : b.data = Compressed(b.index)

\* A read fills the context with the next block, and leaves the others alone.
LEMMA GrabFills ==
    ASSUME TypeInv, ContentInv, bytes_to_read > 0,
           NEW c \in Contexts, grab_another_block(c)
    PROVE  /\ offset' + bytes_to_read' = FileSize
           /\ bytes_to_read' > 0 => offset' = BlockFrom(block_number')
           /\ Describes(ctx'[c]) /\ ctx'[c].output = << >>
           /\ \A d \in Contexts \ {c} : ctx'[d] = ctx[d]
<1>1. /\ bytes_to_read \in Nat /\ offset \in Nat /\ block_number \in Nat
      /\ offset + bytes_to_read = FileSize /\ offset = BlockFrom(block_number)
  BY DEF TypeInv, TypeOK, ContentInv
<1>2. /\ block_number' = block_number + 1
      /\ bytes_to_read' = bytes_to_read - ReadSize /\ offset' = offset + ReadSize
  BY DEF grab_another_block
<1>3. BlockFrom(block_number + 1) = BlockFrom(block_number) + ChunkSize
  BY <1>1, ChunkSizeAssumption DEF BlockFrom
<1>4. bytes_to_read' > 0 => offset' = BlockFrom(block_number')
  BY <1>1, <1>2, <1>3, ChunkSizeAssumption DEF ReadSize, IsLastRead
<1>5. offset' + bytes_to_read' = FileSize
  BY <1>1, <1>2, ChunkSizeAssumption DEF ReadSize, IsLastRead
<1> DEFINE new == [CleanContext(ctx[c]) EXCEPT !.block_number = block_number,
                     !.from = offset, !.size = ReadSize, !.last_block = IsLastRead]
<1>6. ctx' = [ctx EXCEPT ![c] = new]
  BY DEF grab_another_block
<1>7. /\ new.block_number = block_number /\ new.from = offset /\ new.size = ReadSize
      /\ new.last_block = IsLastRead /\ new.output = << >>
  BY DEF TypeInv, TypeOK, ContextRecords, CleanContext
<1>8. ctx'[c] = new /\ \A d \in Contexts \ {c} : ctx'[d] = ctx[d]
  <2> HIDE DEF new
  <2> QED BY <1>6 DEF TypeInv, TypeOK
<1>9. [from |-> offset, size |-> ReadSize, last_block |-> IsLastRead]
        = BlockPiece(block_number)
  <2>1. FileSize - BlockFrom(block_number) = bytes_to_read
    BY <1>1, FileSizeAssumption
  <2> QED BY <1>1, <2>1 DEF BlockPiece, ReadSize, IsLastRead
<1>10. Describes(ctx'[c])
  <2> HIDE DEF new
  <2> QED BY <1>7, <1>8, <1>9 DEF Describes
<1> QED BY <1>4, <1>5, <1>7, <1>8, <1>10

LEMMA InitContent == Init => ContentInv
<1> SUFFICES ASSUME Init PROVE ContentInv
  OBVIOUS
<1>1. Range(pending_job_requests) = {} /\ Range(completed_threads) = {}
  BY EmptySeq, LenProperties DEF Init, Range
<1>2. \A t \in Threads : ~AtWork(t)
  BY <1>1 DEF Init, AtWork
<1>3. offset + bytes_to_read = FileSize /\ offset = BlockFrom(block_number)
  BY FileSizeAssumption, ChunkSizeAssumption DEF Init, BlockFrom
<1>4. processed_blocks = {}
  BY DEF Init
<1> QED BY <1>1, <1>2, <1>3, <1>4 DEF ContentInv

LEMMA ContentInvInductive ==
    ASSUME TypeInv, ThreadInv, ContextInv, ContentInv, [Next]_vars
    PROVE  ContentInv'
<1> USE DEF input, order, jobs, slots
<1>1. ASSUME ~HandOff, ~CollectAndGrab, ~CollectAndShutdown,
             UNCHANGED <<offset, bytes_to_read, block_number, pending_job_requests,
                         work, busy, ctx>>,
             processed_blocks' \subseteq processed_blocks
      PROVE  ContentInv'
  <2>1. \A t \in Threads : AtWork(t)' <=> AtWork(t)
    BY <1>1, AtWorkOtherwise DEF AtWorkUnchanged
  <2>2. BlockFrom(block_number)' = BlockFrom(block_number)
    BY <1>1 DEF BlockFrom
  <2>3. \A i : Compressed(i)' = Compressed(i)
    BY DEF Compressed, BlockPiece, BlockFrom
  <2> QED BY <1>1, <2>1, <2>2, <2>3 DEF ContentInv
<1>2. CASE HandOff
  <2> DEFINE t == Head(free_threads)
             c == Head(pending_job_requests)
  <2>1. /\ t \in Threads /\ ~AtWork(t)
        /\ \A u \in Threads : AtWork(u)' <=> AtWork(u) \/ u = t
    BY <1>2, AtWorkHandOff
  <2>2. /\ c \in Range(pending_job_requests)
        /\ Range(pending_job_requests') \subseteq Range(pending_job_requests)
    BY <1>2, TailRange DEF HandOff, CanHandOff, TypeInv, TypeOK
  <2>3. /\ work' = [work EXCEPT ![t] = c] /\ busy' = [busy EXCEPT ![t] = 1]
        /\ UNCHANGED <<offset, bytes_to_read, block_number, ctx, processed_blocks>>
    BY <1>2 DEF HandOff
  <2> HIDE DEF t, c
  <2>4. Describes(ctx[c]) /\ ctx[c].output = << >>
    BY <2>2 DEF ContentInv
  <2>5. \A u \in Threads : AtWork(u)' =>
          /\ Describes(ctx'[work'[u]])
          /\ busy'[u] = 1 => ctx'[work'[u]].output = << >>
          /\ busy'[u] = 0 =>
                ctx'[work'[u]].output = Compressed(ctx'[work'[u]].block_number)
    <3> SUFFICES ASSUME NEW u \in Threads, AtWork(u)'
                 PROVE  /\ Describes(ctx'[work'[u]])
                        /\ busy'[u] = 1 => ctx'[work'[u]].output = << >>
                        /\ busy'[u] = 0 => ctx'[work'[u]].output
                                             = Compressed(ctx'[work'[u]].block_number)
      OBVIOUS
    <3>1. CASE u = t
      BY <2>1, <2>3, <2>4, <3>1 DEF TypeInv, TypeOK
    <3>2. CASE u # t
      <4>1. work'[u] = work[u] /\ busy'[u] = busy[u] /\ AtWork(u)
        BY <2>1, <2>3, <3>2 DEF TypeInv, TypeOK
      <4> QED BY <2>3, <4>1 DEF ContentInv
    <3> QED BY <3>1, <3>2
  <2>6. \A d \in Range(pending_job_requests') : Describes(ctx'[d]) /\ ctx'[d].output = << >>
    BY <2>2, <2>3 DEF ContentInv
  <2>7. BlockFrom(block_number)' = BlockFrom(block_number)
    BY <2>3 DEF BlockFrom
  <2>8. \A i : Compressed(i)' = Compressed(i)
    BY DEF Compressed, BlockPiece, BlockFrom
  <2> QED BY <2>3, <2>5, <2>6, <2>7, <2>8 DEF ContentInv
<1>3. ASSUME completed_threads # << >>, TakeCompleted(Head(completed_threads)),
             CollectAndGrab \/ CollectAndShutdown
      PROVE  \A b \in processed_blocks' : b.data = Compressed(b.index)
  <2> DEFINE t == Head(completed_threads)
  <2>1. t \in Threads /\ AtWork(t) /\ busy[t] = 0
    BY <1>3, AtWorkCollect
  <2>2. ctx[work[t]].output = Compressed(ctx[work[t]].block_number)
    BY <2>1 DEF ContentInv
  <2>3. processed_blocks' = processed_blocks \cup
          {[index |-> ctx[work[t]].block_number, data |-> ctx[work[t]].output]}
    BY <1>3 DEF TakeCompleted
  <2> HIDE DEF t
  <2> QED BY <2>2, <2>3 DEF ContentInv
<1>4. \A i : Compressed(i)' = Compressed(i)
  BY DEF Compressed, BlockPiece, BlockFrom
<1>5. CASE CollectAndGrab
  <2> DEFINE t == Head(completed_threads)
             c == work[t]
  <2>1. /\ t \in Threads /\ AtWork(t)
        /\ \A u \in Threads : AtWork(u)' <=> AtWork(u) /\ u # t
    BY <1>5, AtWorkCollect
  <2>2. /\ bytes_to_read # 0 /\ grab_another_block(c)
        /\ completed_threads # << >> /\ TakeCompleted(t)
        /\ pending_job_requests' = Append(pending_job_requests, c)
        /\ UNCHANGED <<work, busy>>
    BY <1>5 DEF CollectAndGrab, dispatch
  <2>3. c \in Contexts /\ c \notin Range(pending_job_requests)
    BY <2>1 DEF ContextInv, TypeInv, WorkTyped
  <2>4. Range(pending_job_requests') = Range(pending_job_requests) \cup {c}
    BY <2>2, <2>3, AppendRange DEF TypeInv, TypeOK
  <2>5. \A b \in processed_blocks' : b.data = Compressed(b.index)
    BY <1>3, <1>5, <2>2
  <2>6. \A u \in Threads : AtWork(u)' =>
          AtWork(u) /\ work[u] # c /\ work[u] \in Contexts
    BY <2>1 DEF ContextInv, TypeInv, WorkTyped
  <2>7. bytes_to_read > 0
    BY <2>2 DEF TypeInv, TypeOK
  <2> HIDE DEF t, c
  <2>8. /\ offset' + bytes_to_read' = FileSize
        /\ bytes_to_read' > 0 => offset' = BlockFrom(block_number')
        /\ Describes(ctx'[c]) /\ ctx'[c].output = << >>
        /\ \A d \in Contexts \ {c} : ctx'[d] = ctx[d]
    BY <2>2, <2>3, <2>7, GrabFills
  <2>9. \A d \in Range(pending_job_requests') : Describes(ctx'[d]) /\ ctx'[d].output = << >>
    <3>1. Range(pending_job_requests) \subseteq Contexts
      BY RangeOfSeq DEF TypeInv, TypeOK
    <3> QED BY <2>3, <2>4, <2>8, <3>1 DEF ContentInv
  <2>10. \A u \in Threads : AtWork(u)' =>
           /\ Describes(ctx'[work'[u]])
           /\ busy'[u] = 1 => ctx'[work'[u]].output = << >>
           /\ busy'[u] = 0 =>
                 ctx'[work'[u]].output = Compressed(ctx'[work'[u]].block_number)
    <3> SUFFICES ASSUME NEW u \in Threads, AtWork(u)'
                 PROVE  /\ Describes(ctx'[work'[u]])
                        /\ busy'[u] = 1 => ctx'[work'[u]].output = << >>
                        /\ busy'[u] = 0 => ctx'[work'[u]].output
                                             = Compressed(ctx'[work'[u]].block_number)
      OBVIOUS
    <3>1. /\ AtWork(u) /\ work'[u] = work[u] /\ busy'[u] = busy[u]
          /\ ctx'[work[u]] = ctx[work[u]]
      BY <2>2, <2>6, <2>8
    <3> QED BY <3>1 DEF ContentInv
  <2> QED BY <1>4, <2>5, <2>8, <2>9, <2>10 DEF ContentInv, BlockFrom
<1>6. CASE CollectAndShutdown
  <2>1. \A u \in Threads : AtWork(u)' => AtWork(u)
    BY <1>6, AtWorkCollect
  <2>2. /\ completed_threads # << >> /\ TakeCompleted(Head(completed_threads))
        /\ UNCHANGED <<offset, bytes_to_read, block_number, pending_job_requests,
                       work, busy, ctx>>
    BY <1>6 DEF CollectAndShutdown
  <2>3. \A b \in processed_blocks' : b.data = Compressed(b.index)
    BY <1>3, <1>6, <2>2
  <2>4. BlockFrom(block_number)' = BlockFrom(block_number)
    BY <2>2 DEF BlockFrom
  <2> QED BY <1>4, <2>1, <2>2, <2>3, <2>4 DEF ContentInv
<1>7. CASE DispatchInitial
  <2>1. /\ mpc = "start" /\ UNCHANGED <<completed_threads, busy, wpc, work,
                                         processed_blocks>>
        /\ bytes_to_read > 0 /\ block_number \in Contexts
        /\ grab_another_block(block_number)
        /\ pending_job_requests' = Append(pending_job_requests, block_number)
    BY <1>7 DEF DispatchInitial, dispatch, Contexts, TypeInv, TypeOK
  <2>2. \A u \in Threads : ~AtWork(u)'
    BY <2>1 DEF ContextInv, AtWork
  <2>3. PICK c \in Contexts : c = block_number
    BY <2>1
  <2>4. Range(pending_job_requests') = Range(pending_job_requests) \cup {c}
    BY <2>1, <2>3, AppendRange DEF TypeInv, TypeOK
  <2>5. /\ offset' + bytes_to_read' = FileSize
        /\ bytes_to_read' > 0 => offset' = BlockFrom(block_number')
        /\ Describes(ctx'[c]) /\ ctx'[c].output = << >>
        /\ \A d \in Contexts \ {c} : ctx'[d] = ctx[d]
    BY <2>1, <2>3, GrabFills
  <2>6. \A d \in Range(pending_job_requests) : d \in Contexts /\ d # c
    BY <2>1, <2>3, RangeOfSeq DEF ContextInv, TypeInv, TypeOK
  <2>7. \A d \in Range(pending_job_requests') :
           Describes(ctx'[d]) /\ ctx'[d].output = << >>
    BY <2>4, <2>5, <2>6 DEF ContentInv
  <2> QED BY <1>4, <2>1, <2>2, <2>5, <2>7 DEF ContentInv, BlockFrom
<1>8. ASSUME NEW t \in Threads, WorkerFinish(t)
      PROVE  ContentInv'
  <2> DEFINE c == work[t]
             r == ctx[c]
  <2>1. /\ wpc[t] = "working" /\ busy' = [busy EXCEPT ![t] = 0]
        /\ deflate_work(c)
        /\ UNCHANGED <<offset, bytes_to_read, block_number, pending_job_requests, work,
                       processed_blocks>>
    BY <1>8 DEF WorkerFinish
  <2>2. busy[t] = 1 /\ AtWork(t) /\ c \in Contexts
    BY <2>1 DEF ThreadInv, WorkersMarked, AtWork, TypeInv, WorkTyped
  <2>3. Describes(r) /\ r.output = << >> /\ r \in ContextRecords
    BY <2>2 DEF ContentInv, TypeInv, TypeOK
  <2>4. Append(r.output, [from |-> r.from, size |-> r.size, last_block |-> r.last_block])
          = Compressed(r.block_number)
    BY <2>3 DEF Describes, Compressed
  <2>5. ctx' = [ctx EXCEPT ![c].output = Compressed(r.block_number)]
    BY <2>1, <2>4 DEF deflate_work
  <2>6. /\ ctx'[c].output = Compressed(ctx'[c].block_number)
        /\ Describes(ctx'[c])
        /\ \A d \in Contexts \ {c} : ctx'[d] = ctx[d]
    BY <2>2, <2>3, <2>5 DEF TypeInv, TypeOK, ContextRecords, Describes
  <2>7. \A d \in Range(pending_job_requests) : d \in Contexts /\ d # c
    BY <2>2, RangeOfSeq DEF ContextInv, TypeInv, TypeOK
  <2>8. \A d \in Range(pending_job_requests') :
           Describes(ctx'[d]) /\ ctx'[d].output = << >>
    BY <2>1, <2>6, <2>7 DEF ContentInv
  <2>9. \A u \in Threads : AtWork(u)' <=> AtWork(u)
    <3>1. ~HandOff /\ ~CollectAndGrab /\ ~CollectAndShutdown
      BY <1>8, <2>1, <2>2 DEF WorkerFinish, HandOff, CollectAndGrab, CollectAndShutdown,
                       slots, TypeInv, TypeOK
    <3> QED BY <3>1, AtWorkOtherwise DEF AtWorkUnchanged
  <2>10. \A u \in Threads : AtWork(u)' =>
           /\ Describes(ctx'[work'[u]])
           /\ busy'[u] = 1 => ctx'[work'[u]].output = << >>
           /\ busy'[u] = 0 =>
                 ctx'[work'[u]].output = Compressed(ctx'[work'[u]].block_number)
    <3> SUFFICES ASSUME NEW u \in Threads, AtWork(u)'
                 PROVE  /\ Describes(ctx'[work'[u]])
                        /\ busy'[u] = 1 => ctx'[work'[u]].output = << >>
                        /\ busy'[u] = 0 => ctx'[work'[u]].output
                                             = Compressed(ctx'[work'[u]].block_number)
      OBVIOUS
    <3>1. AtWork(u) /\ work'[u] = work[u] /\ work[u] \in Contexts
      BY <2>1, <2>9 DEF TypeInv, WorkTyped
    <3>2. CASE u = t
      BY <2>1, <2>6, <3>1, <3>2 DEF TypeInv, TypeOK
    <3>3. CASE u # t
      <4>1. work[u] # c /\ busy'[u] = busy[u]
        BY <2>1, <2>2, <3>1, <3>3 DEF ContextInv, TypeInv, TypeOK
      <4>2. ctx'[work[u]] = ctx[work[u]]
        BY <2>6, <3>1, <4>1
      <4> QED BY <3>1, <4>1, <4>2 DEF ContentInv
    <3> QED BY <3>2, <3>3
  <2> QED BY <1>4, <2>1, <2>8, <2>10 DEF ContentInv, BlockFrom
<1>9. CASE MovesOnly
  BY <1>1, <1>2, <1>5, <1>6, <1>9, MovesOnlyUnchanged
<1>10. CASE OutputOne \/ SetKill \/ IoDrainOne \/ IoWriteOne
  BY <1>1, <1>2, <1>5, <1>6, <1>10 DEF OutputOne, SetKill, IoDrainOne, IoWriteOne
<1>11. ASSUME NEW t \in Threads,
              \/ WorkerSleep(t) \/ WorkerStart(t) \/ WorkerComplete(t)
              \/ WorkerSignal(t) \/ SpuriousWakeupWorker(t)
       PROVE  ContentInv'
  <2>1. UNCHANGED <<offset, bytes_to_read, block_number, pending_job_requests,
                    work, busy, ctx, processed_blocks>>
    BY <1>11 DEF WorkerSleep, WorkerStart, WorkerComplete, WorkerSignal,
                 SpuriousWakeupWorker
  <2> QED BY <1>1, <1>2, <1>5, <1>6, <2>1
<1> QED BY <1>2, <1>5, <1>6, <1>7, <1>8, <1>9, <1>10, <1>11, StepCases

-----------------------------------------------------------------------------
(* The output                                                               *)

\* Moving the head of the second queue to the end of the first leaves what
\* the two hold, one after the other, as it was.
LEMMA MoveHead ==
    ASSUME NEW S, NEW s \in Seq(S), NEW t \in Seq(S), t # << >>
    PROVE  Append(s, Head(t)) \o Tail(t) = s \o t
<1> DEFINE a == Append(s, Head(t))
           b == Tail(t)
<1>1. /\ Head(t) \in S /\ b \in Seq(S) /\ Len(b) = Len(t) - 1
      /\ \A i \in 1 .. Len(b) : b[i] = t[i + 1]
      /\ Len(t) \in Nat \ {0} /\ Len(s) \in Nat /\ Head(t) = t[1]
  BY HeadTailProperties, LenProperties, EmptySeq
<1>2. /\ a \in Seq(S) /\ Len(a) = Len(s) + 1
      /\ \A i \in 1 .. Len(s) : a[i] = s[i]
      /\ a[Len(s) + 1] = t[1]
  BY <1>1, AppendProperties
<1> HIDE DEF a, b
<1>3. /\ a \o b \in Seq(S) /\ Len(a \o b) = Len(s) + Len(t)
      /\ \A i \in 1 .. Len(s) + Len(t) :
            (a \o b)[i] = IF i <= Len(s) + 1 THEN a[i] ELSE b[i - (Len(s) + 1)]
  <2>1. /\ a \o b \in Seq(S) /\ Len(a \o b) = Len(a) + Len(b)
        /\ \A i \in 1 .. Len(a) + Len(b) :
              (a \o b)[i] = IF i <= Len(a) THEN a[i] ELSE b[i - Len(a)]
    BY <1>1, <1>2, ConcatProperties
  <2>2. Len(a) + Len(b) = Len(s) + Len(t)
    BY <1>1, <1>2
  <2> QED BY <1>2, <2>1, <2>2
<1>4. /\ s \o t \in Seq(S) /\ Len(s \o t) = Len(s) + Len(t)
      /\ \A i \in 1 .. Len(s) + Len(t) :
            (s \o t)[i] = IF i <= Len(s) THEN s[i] ELSE t[i - Len(s)]
  BY <1>1, ConcatProperties
<1>5. \A i \in 1 .. Len(s) + Len(t) : (a \o b)[i] = (s \o t)[i]
  <2> TAKE i \in 1 .. Len(s) + Len(t)
  <2>1. CASE i <= Len(s)
    BY <1>1, <1>2, <1>3, <1>4, <2>1
  <2>2. CASE ~(i <= Len(s)) /\ i <= Len(s) + 1
    <3>1. i = Len(s) + 1
      BY <1>1, <2>2
    <3> QED BY <1>1, <1>2, <1>3, <1>4, <3>1
  <2>3. CASE ~(i <= Len(s) + 1)
    <3>1. i - (Len(s) + 1) \in 1 .. Len(b)
      BY <1>1, <2>3
    <3>2. b[i - (Len(s) + 1)] = t[i - Len(s)]
      BY <1>1, <3>1
    <3> QED BY <1>1, <1>3, <1>4, <2>3, <3>2
  <2>4. i <= Len(s) \/ ~(i <= Len(s))
    OBVIOUS
  <2>5. i <= Len(s) + 1 \/ ~(i <= Len(s) + 1)
    OBVIOUS
  <2> QED BY <2>1, <2>2, <2>3, <2>4, <2>5
<1>6. a \o b = s \o t
  BY <1>3, <1>4, <1>5, SeqEqual
<1> QED BY <1>6 DEF a, b

\* Appending to the last queue appends to what they all hold.
LEMMA ConcatAppend ==
    ASSUME NEW S, NEW s \in Seq(S), NEW t \in Seq(S), NEW e \in S
    PROVE  s \o Append(t, e) = Append(s \o t, e)
<1>1. Append(t, e) = t \o <<e>> /\ <<e>> \in Seq(S) /\ s \o t \in Seq(S)
  BY AppendIsConcat, ConcatProperties
<1>2. s \o (t \o <<e>>) = (s \o t) \o <<e>>
  BY <1>1, ConcatAssociative
<1> QED BY <1>1, <1>2, AppendIsConcat

\* The blocks before block n, compressed, in order.
Prefix(n) == [i \in 1 .. n - 1 |-> Compressed(i)]

LEMMA PrefixAppend ==
    ASSUME NEW n \in Nat \ {0}, NEW S, Prefix(n) \in Seq(S), Compressed(n) \in S
    PROVE  Append(Prefix(n), Compressed(n)) = Prefix(n + 1)
<1> DEFINE a == Append(Prefix(n), Compressed(n))
<1>1. DOMAIN Prefix(n) = 1 .. n - 1 /\ Len(Prefix(n)) = n - 1
  BY LenProperties DEF Prefix
<1>2. /\ a \in [1 .. n -> S] /\ DOMAIN a = 1 .. n
      /\ \A i \in 1 .. n - 1 : a[i] = Compressed(i)
      /\ a[n] = Compressed(n)
  <2>1. /\ a \in Seq(S) /\ Len(a) = n
        /\ \A i \in 1 .. n - 1 : a[i] = Prefix(n)[i]
        /\ a[n] = Compressed(n)
    BY <1>1, AppendProperties
  <2> HIDE DEF a
  <2> QED BY <2>1, LenProperties DEF Prefix
<1> HIDE DEF a
<1>3. a = [i \in 1 .. n |-> Compressed(i)]
  BY <1>2
<1>4. Prefix(n + 1) = [i \in 1 .. n |-> Compressed(i)]
  BY DEF Prefix
<1> QED BY <1>3, <1>4 DEF a

LEMMA OutputInductive ==
    ASSUME TypeInv, ThreadInv, ContextInv, ContentInv, WrittenInOrder, [Next]_vars
    PROVE  WrittenInOrder'
<1> DEFINE S == Seq(Pieces)
<1>1. written \in Seq(S) /\ q \in Seq(S) /\ output_queue \in Seq(S)
  BY DEF TypeInv, TypeOK
<1>2. ASSUME UNCHANGED <<written, q, output_queue, next_block_to_output>>
      PROVE  WrittenInOrder'
  BY <1>2 DEF WrittenInOrder, Compressed, BlockPiece, BlockFrom
<1>3. CASE OutputOne
  <2>1. PICK b \in processed_blocks :
           /\ b.index = next_block_to_output
           /\ output_queue' = Append(output_queue, b.data)
    BY <1>3 DEF OutputOne
  <2>2. /\ b.data = Compressed(next_block_to_output) /\ b.data \in S
        /\ next_block_to_output \in Nat \ {0}
    BY <2>1 DEF ContentInv, TypeInv, TypeOK
  <2>3. /\ UNCHANGED <<written, q>>
        /\ next_block_to_output' = next_block_to_output + 1
    BY <1>3 DEF OutputOne, output
  <2>4. written \o q \in Seq(S) /\ written \o q \o output_queue \in Seq(S)
    BY <1>1, ConcatProperties
  <2>5. written \o q \o output_queue = Prefix(next_block_to_output)
    BY DEF WrittenInOrder, Prefix
  <2>6. written' \o q' \o output_queue' = Append(written \o q \o output_queue, b.data)
    <3> DEFINE w == written \o q
    <3>1. /\ w \in Seq(S) /\ output_queue \in Seq(S) /\ b.data \in S
          /\ output_queue' = Append(output_queue, b.data)
      BY <1>1, <2>1, <2>2, <2>4
    <3>2. written' \o q' = w
      BY <2>3
    <3> HIDE DEF w, S
    <3>3. w \o Append(output_queue, b.data) = Append(w \o output_queue, b.data)
      BY <3>1, ConcatAppend
    <3>4. (written' \o q') \o output_queue' = Append(w \o output_queue, b.data)
      BY <3>1, <3>2, <3>3
    <3> QED BY <3>4 DEF w
  <2>7. Append(Prefix(next_block_to_output), Compressed(next_block_to_output))
          = Prefix(next_block_to_output + 1)
    BY <2>2, <2>4, <2>5, PrefixAppend
  <2>8. written' \o q' \o output_queue' = Prefix(next_block_to_output')
    BY <2>2, <2>3, <2>5, <2>6, <2>7
  <2> QED BY <2>8 DEF WrittenInOrder, Prefix, Compressed, BlockPiece, BlockFrom
<1>4. CASE IoDrainOne
  <2>1. /\ output_queue # << >> /\ q' = Append(q, Head(output_queue))
        /\ output_queue' = Tail(output_queue)
        /\ UNCHANGED <<written, next_block_to_output>>
    BY <1>4 DEF IoDrainOne, order
  <2>2. q' \o output_queue' = q \o output_queue
    BY <1>1, <2>1, MoveHead
  <2>3. q' \in Seq(S) /\ output_queue' \in Seq(S)
    BY <1>1, <2>1, AppendRange, TailRange
  <2> HIDE DEF S
  <2>4. (written \o q) \o output_queue = written \o (q \o output_queue)
    BY <1>1, ConcatAssociative
  <2>5. (written \o q') \o output_queue' = written \o (q' \o output_queue')
    <3> DEFINE a == q'
               b == output_queue'
    <3>1. a \in Seq(S) /\ b \in Seq(S) /\ written \in Seq(S)
      BY <1>1, <2>3
    <3> HIDE DEF a, b
    <3>2. (written \o a) \o b = written \o (a \o b)
      BY <3>1, ConcatAssociative
    <3> QED BY <3>2 DEF a, b
  <2>6. written' \o q' \o output_queue' = written \o q \o output_queue
    BY <2>1, <2>2, <2>4, <2>5
  <2> QED BY <2>1, <2>6 DEF WrittenInOrder, Compressed, BlockPiece, BlockFrom
<1>5. CASE IoWriteOne
  <2>1. /\ q # << >> /\ written' = Append(written, Head(q)) /\ q' = Tail(q)
        /\ UNCHANGED <<output_queue, next_block_to_output>>
    BY <1>5 DEF IoWriteOne, order
  <2>2. written' \o q' = written \o q
    BY <1>1, <2>1, MoveHead
  <2> QED BY <2>1, <2>2 DEF WrittenInOrder, Compressed, BlockPiece, BlockFrom
<1>6. CASE MovesOnly
  BY <1>2, <1>6, MovesOnlyUnchanged DEF order
<1>7. CASE DispatchInitial \/ HandOff \/ CollectAndGrab \/ CollectAndShutdown \/ SetKill
  BY <1>2, <1>7 DEF DispatchInitial, HandOff, CollectAndGrab, CollectAndShutdown, SetKill,
                    order, output
<1>8. ASSUME NEW t \in Threads,
             \/ WorkerSleep(t) \/ WorkerStart(t) \/ WorkerFinish(t)
             \/ WorkerComplete(t) \/ WorkerSignal(t) \/ SpuriousWakeupWorker(t)
      PROVE  WrittenInOrder'
  BY <1>2, <1>8 DEF WorkerSleep, WorkerStart, WorkerFinish, WorkerComplete, WorkerSignal,
                    SpuriousWakeupWorker, order, output
<1> QED BY <1>3, <1>4, <1>5, <1>6, <1>7, <1>8, StepCases

LEMMA InitWritten == Init => WrittenInOrder
<1> SUFFICES ASSUME Init PROVE WrittenInOrder
  OBVIOUS
<1>1. written \o q \o output_queue = << >>
  BY ConcatEmptySeq, EmptySeq DEF Init
<1>2. [i \in 1 .. next_block_to_output - 1 |-> Compressed(i)] = << >>
  BY DEF Init
<1> QED BY <1>1, <1>2 DEF WrittenInOrder

\* The file always holds the first blocks of the input, compressed, in order,
\* and the queues to it the blocks that follow.
THEOREM OutputCorrect == Spec => []WrittenInOrder
<1> DEFINE IInv == TypeInv /\ ThreadInv /\ ContextInv /\ ContentInv /\ WrittenInOrder
<1>1. Init => IInv
  BY InitTypes, InitThreads, InitContexts, InitContent, InitWritten
<1>2. IInv /\ [Next]_vars => IInv'
  BY TypeInvInductive, ThreadInvInductive, ContextInvInductive, ContentInvInductive,
     OutputInductive
<1> QED BY <1>1, <1>2, PTL DEF Spec

-----------------------------------------------------------------------------
(* Where every block is: no block is lost between main and the workers, and *)
(* what is still missing when main leaves its loop.  On top of that,        *)
(* ParallelDeflate implements BlockStream.                                  *)

AtWorkThreads == {t \in Threads : AtWork(t)}

\* The number of the block each thread at work was given, and of each block
\* that waits for a worker.
Working == [t \in AtWorkThreads |-> ctx[work[t]].block_number]
Waiting == [i \in 1 .. Len(pending_job_requests) |->
              ctx[pending_job_requests[i]].block_number]

\* The number of the first block no worker was given.
Oldest == block_number - Len(pending_job_requests)

\* A block waits, in order, and then, before it is passed on, is at work or
\* in the sorted list: in one of the two, once.
PlacesInv ==
    /\ \A i \in 1 .. Len(pending_job_requests) : Waiting[i] = Oldest + i - 1
    /\ \A t \in AtWorkThreads : Working[t] \in next_block_to_output .. Oldest - 1
    /\ \A t, u \in AtWorkThreads : Working[t] = Working[u] => t = u
    /\ \A b \in processed_blocks :
          /\ b.index \in next_block_to_output .. Oldest - 1
          /\ \A t \in AtWorkThreads : Working[t] # b.index
    /\ \A b, o \in processed_blocks : b.index = o.index => b = o
    /\ \A n \in next_block_to_output .. Oldest - 1 :
          \/ \E t \in AtWorkThreads : Working[t] = n
          \/ \E b \in processed_blocks : b.index = n

\* How many there are of each.  Jobs and threads at work share the contexts, one
\* of which shutdown retires.
CountInv ==
    /\ IsFiniteSet(processed_blocks)
    /\ Len(pending_job_requests) + Cardinality(AtWorkThreads)
         + Cardinality(processed_blocks) + next_block_to_output = block_number
    /\ Len(pending_job_requests) + Cardinality(AtWorkThreads) + shutdown <= NumThreads
    /\ shutdown = 1 => bytes_to_read = 0
    /\ mpc = "start" =>
          shutdown = 0 /\ processed_blocks = {} /\ next_block_to_output = 1

\* Main leaves its loop when every thread is free and nothing is left to pass on.
LeftInv ==
    mpc \in {"kill", "signal", "join", "done"} =>
        shutdown = 1 /\ AtWorkThreads = {} /\ processed_blocks = {}

BaseInv == TypeInv /\ ThreadInv /\ ContextInv

LEMMA BaseInvInductive ==
    ASSUME BaseInv, [Next]_vars
    PROVE  BaseInv'
BY TypeInvInductive, ThreadInvInductive, ContextInvInductive DEF BaseInv

-----------------------------------------------------------------------------
(* Where each block is                                                      *)

\* The contexts in use are contexts.
LEMMA ContextsInUse ==
    ASSUME TypeInv
    PROVE  /\ \A i \in 1 .. Len(pending_job_requests) :
                 /\ pending_job_requests[i] \in Contexts
                 /\ pending_job_requests[i] \in Range(pending_job_requests)
           /\ \A t \in AtWorkThreads : t \in Threads /\ work[t] \in Contexts
           /\ Len(pending_job_requests) \in Nat /\ Oldest \in Int
           /\ block_number \in Nat \ {0} /\ next_block_to_output \in Nat \ {0}
           /\ \A b \in processed_blocks : b.index \in Nat
<1>1. pending_job_requests \in Seq(Contexts)
  BY DEF TypeInv, TypeOK
<1>2. /\ DOMAIN pending_job_requests = 1 .. Len(pending_job_requests)
      /\ Len(pending_job_requests) \in Nat
  BY <1>1, LenProperties
<1>3. \A i \in 1 .. Len(pending_job_requests) :
         /\ pending_job_requests[i] \in Contexts
         /\ pending_job_requests[i] \in Range(pending_job_requests)
  BY <1>1, <1>2, ElementOfSeq DEF Range
<1>4. \A t \in AtWorkThreads : t \in Threads /\ work[t] \in Contexts
  BY DEF AtWorkThreads, TypeInv, WorkTyped
<1>5. /\ block_number \in Nat \ {0} /\ next_block_to_output \in Nat \ {0}
      /\ \A b \in processed_blocks : b.index \in Nat
  BY DEF TypeInv, TypeOK
<1> QED BY <1>2, <1>3, <1>4, <1>5 DEF Oldest

\* The counts are natural numbers, so no block from Oldest on was passed on.
LEMMA CountsNatural ==
    ASSUME TypeInv, CountInv
    PROVE  /\ IsFiniteSet(AtWorkThreads) /\ Cardinality(AtWorkThreads) \in Nat
           /\ Cardinality(processed_blocks) \in Nat
           /\ Oldest >= next_block_to_output
<1>1. IsFiniteSet(Threads)
  BY FS_Interval, NumThreadsAssumption DEF Threads
<1>2. IsFiniteSet(AtWorkThreads)
  BY <1>1, FS_Subset DEF AtWorkThreads
<1>3. Cardinality(AtWorkThreads) \in Nat /\ Cardinality(processed_blocks) \in Nat
  BY <1>2, FS_CardinalityType DEF CountInv
<1> QED BY <1>2, <1>3, ContextsInUse DEF CountInv, Oldest

\* A block just read goes to the end of the line, and no other block moves.
LEMMA GrabAndDispatch ==
    ASSUME BaseInv, PlacesInv, NEW c \in Contexts,
           c \notin Range(pending_job_requests),
           grab_another_block(c), dispatch(c)
    PROVE  /\ block_number' = block_number + 1
           /\ Len(pending_job_requests') = Len(pending_job_requests) + 1
           /\ Oldest' = Oldest
           /\ \A i \in 1 .. Len(pending_job_requests') : Waiting'[i] = Oldest + i - 1
           /\ \A d \in Contexts \ {c} : ctx'[d] = ctx[d]
<1> DEFINE new == [CleanContext(ctx[c]) EXCEPT !.block_number = block_number,
                     !.from = offset, !.size = ReadSize, !.last_block = IsLastRead]
           len == Len(pending_job_requests)
<1>1. ctx' = [ctx EXCEPT ![c] = new] /\ block_number' = block_number + 1
  BY DEF grab_another_block
<1>2. new.block_number = block_number
  BY DEF BaseInv, TypeInv, TypeOK, ContextRecords, CleanContext
<1> HIDE DEF new
<1>3. ctx'[c].block_number = block_number /\ \A d \in Contexts \ {c} : ctx'[d] = ctx[d]
  BY <1>1, <1>2 DEF BaseInv, TypeInv, TypeOK
<1>4. /\ len \in Nat /\ block_number \in Nat /\ Oldest \in Int
      /\ \A i \in 1 .. len : pending_job_requests[i] \in Contexts \ {c}
  BY ContextsInUse DEF BaseInv
<1>5. /\ Len(pending_job_requests') = len + 1
      /\ \A i \in 1 .. len : pending_job_requests'[i] = pending_job_requests[i]
      /\ pending_job_requests'[len + 1] = c
  BY AppendProperties DEF dispatch, BaseInv, TypeInv, TypeOK
<1>6. Oldest' = Oldest /\ Oldest + len = block_number
  BY <1>1, <1>4, <1>5 DEF Oldest
<1>7. \A i \in 1 .. len : ctx'[pending_job_requests'[i]].block_number = Oldest + i - 1
  BY <1>3, <1>4, <1>5 DEF PlacesInv, Waiting
<1>8. ctx'[pending_job_requests'[len + 1]].block_number = Oldest + (len + 1) - 1
  BY <1>3, <1>4, <1>5, <1>6
<1>9. \A i \in 1 .. len + 1 :
         ctx'[pending_job_requests'[i]].block_number = Oldest + i - 1
  <2> TAKE i \in 1 .. len + 1
  <2>1. i \in 1 .. len \/ i = len + 1
    BY <1>4
  <2> QED BY <1>7, <1>8, <2>1
<1> QED BY <1>1, <1>3, <1>5, <1>6, <1>9 DEF Waiting

LEMMA InitPlaces == Init => PlacesInv /\ CountInv /\ LeftInv
<1> SUFFICES ASSUME Init PROVE PlacesInv /\ CountInv /\ LeftInv
  OBVIOUS
<1>1. AtWorkThreads = {}
  <2>1. Range(completed_threads) = {}
    BY EmptySeq, LenProperties DEF Init, Range
  <2> QED BY <2>1 DEF Init, AtWorkThreads, AtWork
<1>2. Len(pending_job_requests) = 0 /\ block_number = 1 /\ next_block_to_output = 1
  BY DEF Init
<1>3. processed_blocks = {} /\ shutdown = 0 /\ mpc = "start"
  BY DEF Init
<1>4. PlacesInv
  BY <1>1, <1>2, <1>3 DEF PlacesInv, Oldest
<1>5. CountInv
  BY <1>1, <1>2, <1>3, FS_EmptySet, NumThreadsAssumption DEF CountInv
<1> QED BY <1>3, <1>4, <1>5 DEF LeftInv

\* Steps that move no job, no work and no block leave every block where it is.
LEMMA PlacesUnchanged ==
    ASSUME TypeInv, AtWorkUnchanged,
           UNCHANGED <<pending_job_requests, work, block_number>>,
           \A c \in Contexts : ctx'[c].block_number = ctx[c].block_number
    PROVE  UNCHANGED <<AtWorkThreads, Working, Waiting, Oldest>>
<1>1. AtWorkThreads' = AtWorkThreads
  BY DEF AtWorkThreads, AtWorkUnchanged
<1>2. Working' = Working
  BY <1>1, ContextsInUse DEF Working
<1>3. Waiting' = Waiting
  BY ContextsInUse DEF Waiting
<1> QED BY <1>1, <1>2, <1>3 DEF Oldest

\* A hand-off: the first block in line goes to a free thread.
LEMMA HandOffPlaces ==
    ASSUME BaseInv, PlacesInv, HandOff
    PROVE  \E t \in Threads \ AtWorkThreads :
              /\ AtWorkThreads' = AtWorkThreads \cup {t}
              /\ Working'[t] = Oldest /\ busy'[t] = 1
              /\ \A u \in AtWorkThreads : Working'[u] = Working[u] /\ busy'[u] = busy[u]
              /\ Oldest' = Oldest + 1
              /\ \A i \in 1 .. Len(pending_job_requests') :
                    Waiting'[i] = Oldest' + i - 1
              /\ Len(pending_job_requests') = Len(pending_job_requests) - 1
<1> DEFINE t == Head(free_threads)
           c == Head(pending_job_requests)
<1>0. TypeInv /\ ThreadInv /\ ContextInv
  BY DEF BaseInv
<1>1. /\ t \in Threads \ AtWorkThreads
      /\ AtWorkThreads' = AtWorkThreads \cup {t}
  BY <1>0, AtWorkHandOff DEF AtWorkThreads
<1>2. /\ work' = [work EXCEPT ![t] = c] /\ UNCHANGED <<ctx, block_number>>
      /\ pending_job_requests' = Tail(pending_job_requests)
      /\ pending_job_requests # << >>
  BY DEF HandOff, CanHandOff, input
<1>3. /\ c = pending_job_requests[1] /\ Len(pending_job_requests) \in Nat \ {0}
      /\ Len(pending_job_requests') = Len(pending_job_requests) - 1
      /\ \A i \in 1 .. Len(pending_job_requests') :
            pending_job_requests'[i] = pending_job_requests[i + 1]
  BY <1>0, <1>2, HeadTailProperties, LenProperties, EmptySeq DEF TypeInv, TypeOK
<1>4. /\ Oldest' = Oldest + 1 /\ Oldest \in Int
      /\ ctx[c].block_number = Oldest
  BY <1>0, <1>2, <1>3, ContextsInUse DEF Oldest, PlacesInv, Waiting
<1>5. \A i \in 1 .. Len(pending_job_requests') : Waiting'[i] = Oldest' + i - 1
  <2> TAKE i \in 1 .. Len(pending_job_requests')
  <2>1. i + 1 \in 1 .. Len(pending_job_requests)
    BY <1>3
  <2>2. Waiting'[i] = Waiting[i + 1]
    BY <1>2, <1>3, <2>1 DEF Waiting
  <2>3. Waiting[i + 1] = Oldest + (i + 1) - 1
    BY <2>1 DEF PlacesInv
  <2> QED BY <1>3, <1>4, <2>2, <2>3
<1> HIDE DEF t, c
<1>6. Working'[t] = Oldest
  BY <1>0, <1>1, <1>2, <1>4 DEF Working, TypeInv, TypeOK
<1>7. \A u \in AtWorkThreads : Working'[u] = Working[u]
  BY <1>0, <1>1, <1>2, ContextsInUse DEF Working, TypeInv, TypeOK
<1>8. busy'[t] = 1 /\ \A u \in AtWorkThreads : busy'[u] = busy[u]
  <2>1. busy' = [busy EXCEPT ![t] = 1]
    BY DEF HandOff, t
  <2> QED BY <1>0, <1>1, <2>1, ContextsInUse DEF TypeInv, TypeOK
<1> QED BY <1>1, <1>3, <1>4, <1>5, <1>6, <1>7, <1>8

\* Collecting a thread moves its block to the sorted list.
LEMMA CollectPlaces ==
    ASSUME BaseInv, PlacesInv, CollectAndGrab \/ CollectAndShutdown
    PROVE  \E t \in AtWorkThreads, b \in [index : Nat, data : Seq(Pieces)] :
              /\ b.index = Working[t] /\ busy[t] = 0 /\ UNCHANGED busy
              /\ AtWorkThreads' = AtWorkThreads \ {t}
              /\ \A u \in AtWorkThreads \ {t} : Working'[u] = Working[u]
              /\ processed_blocks' = processed_blocks \cup {b}
              /\ Oldest' = Oldest
              /\ \A i \in 1 .. Len(pending_job_requests') :
                    Waiting'[i] = Oldest + i - 1
<1> DEFINE t == Head(completed_threads)
           b == [index |-> ctx[work[t]].block_number, data |-> ctx[work[t]].output]
<1>0. TypeInv /\ ThreadInv /\ ContextInv
  BY DEF BaseInv
<1>1. /\ t \in AtWorkThreads /\ t \in Threads /\ AtWork(t) /\ busy[t] = 0
      /\ AtWorkThreads' = AtWorkThreads \ {t}
  BY <1>0, AtWorkCollect DEF AtWorkThreads
<1>2. processed_blocks' = processed_blocks \cup {b} /\ UNCHANGED <<work, busy>>
  BY DEF CollectAndGrab, CollectAndShutdown, TakeCompleted, slots
<1>3. work[t] \in Contexts
  BY <1>0, <1>1, ContextsInUse
<1>4. b \in [index : Nat, data : Seq(Pieces)] /\ b.index = Working[t]
  <2>1. ctx[work[t]] \in ContextRecords
    BY <1>0, <1>3 DEF TypeInv, TypeOK
  <2> QED BY <1>1, <2>1 DEF ContextRecords, Working
<1> HIDE DEF b
<1>5. /\ Oldest' = Oldest
      /\ \A i \in 1 .. Len(pending_job_requests') : Waiting'[i] = Oldest + i - 1
      /\ \A d \in Contexts \ {work[t]} : ctx'[d] = ctx[d]
  <2>1. CASE CollectAndGrab
    <3>1. grab_another_block(work[t]) /\ dispatch(work[t])
      BY <2>1 DEF CollectAndGrab
    <3>2. work[t] \notin Range(pending_job_requests)
      BY <1>0, <1>1 DEF ContextInv
    <3> HIDE DEF t
    <3> QED BY <1>3, <3>1, <3>2, GrabAndDispatch
  <2>2. CASE CollectAndShutdown
    <3>1. UNCHANGED <<ctx, pending_job_requests, block_number>>
      BY <2>2 DEF CollectAndShutdown, input
    <3> QED BY <3>1 DEF Oldest, Waiting, PlacesInv
  <2> QED BY <2>1, <2>2
<1> HIDE DEF t
<1>6. \A u \in AtWorkThreads \ {t} : Working'[u] = Working[u]
  <2>1. \A u \in AtWorkThreads \ {t} : work[u] \in Contexts \ {work[t]}
    BY <1>0, <1>1, ContextsInUse DEF ContextInv, AtWorkThreads
  <2> QED BY <1>1, <1>2, <1>5, <2>1 DEF Working
<1> QED BY <1>1, <1>2, <1>4, <1>5, <1>6

\* The first blocks wait in line while no thread is at work.
LEMMA DispatchInitialPlaces ==
    ASSUME BaseInv, PlacesInv, [Next]_vars, DispatchInitial
    PROVE  /\ AtWorkThreads = {} /\ AtWorkThreads' = {}
           /\ block_number' = block_number + 1 /\ block_number <= NumThreads
           /\ Len(pending_job_requests') = Len(pending_job_requests) + 1
           /\ Oldest' = Oldest
           /\ \A i \in 1 .. Len(pending_job_requests') : Waiting'[i] = Oldest + i - 1
<1>0. TypeInv /\ ThreadInv /\ ContextInv
  BY DEF BaseInv
<1>1. /\ mpc = "start" /\ grab_another_block(block_number) /\ dispatch(block_number)
      /\ block_number <= NumThreads /\ block_number \in Nat \ {0}
  BY <1>0 DEF DispatchInitial, TypeInv, TypeOK
<1>2. block_number \in Contexts
  BY <1>1, NumThreadsAssumption DEF Contexts
<1>3. block_number \notin Range(pending_job_requests) /\ AtWorkThreads = {}
  BY <1>0, <1>1 DEF ContextInv, AtWorkThreads
<1>4. AtWorkThreads' = {}
  <2>1. ~HandOff /\ ~CollectAndGrab /\ ~CollectAndShutdown
    BY <1>1 DEF HandOff, CollectAndGrab, CollectAndShutdown
  <2> QED BY <1>0, <1>3, <2>1, AtWorkOtherwise DEF AtWorkUnchanged, AtWorkThreads
<1> QED BY <1>1, <1>2, <1>3, <1>4, GrabAndDispatch

LEMMA PlacesInvInductive ==
    ASSUME BaseInv, PlacesInv, CountInv, [Next]_vars
    PROVE  PlacesInv'
<1> USE DEF input, order, jobs, slots
<1>0. TypeInv /\ ThreadInv /\ ContextInv
  BY DEF BaseInv
<1>1. /\ Oldest \in Int /\ next_block_to_output \in Nat /\ Oldest >= next_block_to_output
      /\ \A b \in processed_blocks : b.index \in Nat
  BY <1>0, ContextsInUse, CountsNatural
<1>2. ASSUME ~HandOff, ~CollectAndGrab, ~CollectAndShutdown,
             UNCHANGED <<pending_job_requests, work, next_block_to_output,
                         processed_blocks, block_number>>,
             \A c \in Contexts : ctx'[c].block_number = ctx[c].block_number
      PROVE  PlacesInv'
  <2>1. UNCHANGED <<AtWorkThreads, Working, Waiting, Oldest>>
    BY <1>0, <1>2, AtWorkOtherwise, PlacesUnchanged
  <2> QED BY <1>2, <2>1 DEF PlacesInv
<1>3. CASE HandOff
  <2>1. UNCHANGED <<next_block_to_output, processed_blocks>>
    BY <1>3 DEF HandOff
  <2>2. PICK t \in Threads \ AtWorkThreads :
           /\ AtWorkThreads' = AtWorkThreads \cup {t}
           /\ Working'[t] = Oldest
           /\ \A u \in AtWorkThreads : Working'[u] = Working[u]
           /\ Oldest' = Oldest + 1
           /\ \A i \in 1 .. Len(pending_job_requests') : Waiting'[i] = Oldest' + i - 1
    BY <1>3, HandOffPlaces
  <2>3. \A n \in next_block_to_output .. Oldest' - 1 :
           n = Oldest \/ n \in next_block_to_output .. Oldest - 1
    BY <1>1, <2>2
  <2> QED BY <1>1, <2>1, <2>2, <2>3 DEF PlacesInv
<1>4. CASE CollectAndGrab \/ CollectAndShutdown
  <2>1. UNCHANGED next_block_to_output
    BY <1>4 DEF CollectAndGrab, CollectAndShutdown
  <2>2. PICK t \in AtWorkThreads, b \in [index : Nat, data : Seq(Pieces)] :
           /\ b.index = Working[t]
           /\ AtWorkThreads' = AtWorkThreads \ {t}
           /\ \A u \in AtWorkThreads \ {t} : Working'[u] = Working[u]
           /\ processed_blocks' = processed_blocks \cup {b}
           /\ Oldest' = Oldest
           /\ \A i \in 1 .. Len(pending_job_requests') : Waiting'[i] = Oldest + i - 1
    BY <1>4, CollectPlaces
  <2> QED BY <2>1, <2>2 DEF PlacesInv
<1>5. CASE DispatchInitial
  <2>1. UNCHANGED <<next_block_to_output, processed_blocks>>
    BY <1>5 DEF DispatchInitial
  <2> QED BY <1>5, <2>1, DispatchInitialPlaces DEF PlacesInv
<1>6. CASE OutputOne
  <2>1. PICK b \in processed_blocks :
           b.index = next_block_to_output /\ processed_blocks' = processed_blocks \ {b}
    BY <1>6 DEF OutputOne
  <2>2. /\ next_block_to_output' = next_block_to_output + 1
        /\ UNCHANGED <<pending_job_requests, work, block_number, ctx>>
    BY <1>6 DEF OutputOne
  <2>3. ~HandOff /\ ~CollectAndGrab /\ ~CollectAndShutdown
    BY <1>6 DEF OutputOne, HandOff, CollectAndGrab, CollectAndShutdown
  <2>4. UNCHANGED <<AtWorkThreads, Working, Waiting, Oldest>>
    BY <1>0, <2>2, <2>3, AtWorkOtherwise, PlacesUnchanged
  <2>5. \A n \in next_block_to_output .. Oldest - 1 :
           n # next_block_to_output => n \in next_block_to_output' .. Oldest - 1
    BY <1>1, <2>2
  <2>6. \A n \in next_block_to_output' .. Oldest - 1 :
           n # next_block_to_output /\ n \in next_block_to_output .. Oldest - 1
    BY <1>1, <2>2
  <2>7. \A n \in next_block_to_output' .. Oldest' - 1 :
           \/ \E t \in AtWorkThreads' : Working'[t] = n
           \/ \E o \in processed_blocks' : o.index = n
    BY <2>1, <2>4, <2>6 DEF PlacesInv
  <2>8. \A o \in processed_blocks' :
           /\ o.index \in next_block_to_output' .. Oldest' - 1
           /\ \A t \in AtWorkThreads' : Working'[t] # o.index
    BY <2>1, <2>4, <2>5 DEF PlacesInv
  <2>9. \A t \in AtWorkThreads' : Working'[t] \in next_block_to_output' .. Oldest' - 1
    BY <2>1, <2>4, <2>5 DEF PlacesInv
  <2> QED BY <2>1, <2>2, <2>4, <2>7, <2>8, <2>9 DEF PlacesInv
<1>7. CASE MovesOnly
  BY <1>2, <1>3, <1>4, <1>7, MovesOnlyUnchanged
<1>8. CASE SetKill \/ IoDrainOne \/ IoWriteOne
  BY <1>2, <1>3, <1>4, <1>8 DEF SetKill, IoDrainOne, IoWriteOne
<1>9. ASSUME NEW t \in Threads,
             \/ WorkerSleep(t) \/ WorkerStart(t) \/ WorkerFinish(t)
             \/ WorkerComplete(t) \/ WorkerSignal(t) \/ SpuriousWakeupWorker(t)
      PROVE  PlacesInv'
  <2>1. UNCHANGED <<pending_job_requests, work, next_block_to_output,
                    processed_blocks, block_number>>
    BY <1>9 DEF WorkerSleep, WorkerStart, WorkerFinish, WorkerComplete, WorkerSignal,
                SpuriousWakeupWorker
  <2>2. \A c \in Contexts : ctx'[c].block_number = ctx[c].block_number
    <3>1. CASE WorkerFinish(t)
      BY <1>0, <3>1 DEF WorkerFinish, deflate_work, TypeInv, TypeOK, ContextRecords
    <3>2. CASE UNCHANGED ctx
      BY <3>2
    <3> QED BY <1>9, <3>1, <3>2 DEF WorkerSleep, WorkerStart, WorkerComplete,
                                    WorkerSignal, SpuriousWakeupWorker
  <2> QED BY <1>2, <1>3, <1>4, <2>1, <2>2
<1> QED BY <1>3, <1>4, <1>5, <1>6, <1>7, <1>8, <1>9, StepCases

-----------------------------------------------------------------------------
(* How many there are                                                       *)

LEMMA CountInvInductive ==
    ASSUME BaseInv, PlacesInv, CountInv, [Next]_vars
    PROVE  CountInv'
<1> USE DEF input, order, jobs, slots
<1>0. TypeInv /\ ThreadInv /\ ContextInv
  BY DEF BaseInv
<1>1. /\ IsFiniteSet(AtWorkThreads) /\ Cardinality(AtWorkThreads) \in Nat
      /\ IsFiniteSet(processed_blocks) /\ Cardinality(processed_blocks) \in Nat
      /\ Len(pending_job_requests) \in Nat
      /\ block_number \in Nat /\ next_block_to_output \in Nat /\ NumThreads \in Nat
      /\ shutdown \in {0, 1} /\ bytes_to_read \in Nat
  BY <1>0, ContextsInUse, CountsNatural, NumThreadsAssumption
     DEF CountInv, TypeInv, TypeOK
<1>2. ASSUME ~HandOff, ~CollectAndGrab, ~CollectAndShutdown,
             UNCHANGED <<pending_job_requests, next_block_to_output, processed_blocks,
                         block_number, shutdown, bytes_to_read>>,
             mpc' = "start" => mpc = "start"
      PROVE  CountInv'
  <2>1. AtWorkThreads' = AtWorkThreads
    BY <1>0, <1>2, AtWorkOtherwise DEF AtWorkUnchanged, AtWorkThreads
  <2> QED BY <1>2, <2>1 DEF CountInv
<1>3. CASE HandOff
  <2>1. /\ UNCHANGED <<next_block_to_output, processed_blocks, block_number,
                       shutdown, bytes_to_read>>
        /\ mpc' # "start"
    BY <1>3 DEF HandOff
  <2>2. PICK t \in Threads \ AtWorkThreads :
           /\ AtWorkThreads' = AtWorkThreads \cup {t}
           /\ Len(pending_job_requests') = Len(pending_job_requests) - 1
    BY <1>3, HandOffPlaces
  <2>3. Cardinality(AtWorkThreads') = Cardinality(AtWorkThreads) + 1
    BY <1>1, <2>2, FS_AddElement
  <2>4. Len(pending_job_requests') + Cardinality(AtWorkThreads')
          = Len(pending_job_requests) + Cardinality(AtWorkThreads)
    BY <1>1, <2>2, <2>3
  <2> QED BY <2>1, <2>4 DEF CountInv
<1>4. ASSUME CollectAndGrab \/ CollectAndShutdown
      PROVE  /\ Cardinality(AtWorkThreads') = Cardinality(AtWorkThreads) - 1
             /\ Cardinality(processed_blocks') = Cardinality(processed_blocks) + 1
             /\ IsFiniteSet(processed_blocks')
             /\ UNCHANGED next_block_to_output /\ mpc' # "start"
  <2>1. PICK t \in AtWorkThreads, b \in [index : Nat, data : Seq(Pieces)] :
           /\ b.index = Working[t]
           /\ AtWorkThreads' = AtWorkThreads \ {t}
           /\ processed_blocks' = processed_blocks \cup {b}
    BY <1>4, CollectPlaces
  <2>2. b \notin processed_blocks
    BY <2>1 DEF PlacesInv
  <2>3. Cardinality(AtWorkThreads') = Cardinality(AtWorkThreads) - 1
    BY <1>1, <2>1, FS_RemoveElement
  <2>4. /\ IsFiniteSet(processed_blocks')
        /\ Cardinality(processed_blocks') = Cardinality(processed_blocks) + 1
    BY <1>1, <2>1, <2>2, FS_AddElement
  <2>5. UNCHANGED next_block_to_output /\ mpc' # "start"
    BY <1>4 DEF CollectAndGrab, CollectAndShutdown
  <2> QED BY <2>3, <2>4, <2>5
<1>5. CASE CollectAndGrab
  <2> DEFINE t == Head(completed_threads)
  <2>1. /\ bytes_to_read # 0 /\ UNCHANGED shutdown
        /\ grab_another_block(work[t]) /\ dispatch(work[t])
    BY <1>5 DEF CollectAndGrab
  <2>2. work[t] \in Contexts /\ work[t] \notin Range(pending_job_requests)
    BY <1>0, <1>5, AtWorkCollect DEF ContextInv, TypeInv, WorkTyped
  <2> HIDE DEF t
  <2>3. /\ block_number' = block_number + 1
        /\ Len(pending_job_requests') = Len(pending_job_requests) + 1
    BY <2>1, <2>2, GrabAndDispatch
  <2>4. shutdown = 0
    BY <1>1, <2>1 DEF CountInv
  <2> QED BY <1>1, <1>4, <1>5, <2>1, <2>3, <2>4 DEF CountInv
<1>6. CASE CollectAndShutdown
  <2>1. /\ bytes_to_read = 0 /\ shutdown' = 1
        /\ UNCHANGED <<bytes_to_read, block_number, pending_job_requests>>
    BY <1>6 DEF CollectAndShutdown
  <2>2. Len(pending_job_requests') + Cardinality(AtWorkThreads')
          + Cardinality(processed_blocks') + next_block_to_output' = block_number'
    BY <1>1, <1>4, <1>6, <2>1 DEF CountInv
  <2>3. Len(pending_job_requests') + Cardinality(AtWorkThreads') + shutdown' <= NumThreads
    BY <1>1, <1>4, <1>6, <2>1 DEF CountInv
  <2> QED BY <1>4, <1>6, <2>1, <2>2, <2>3 DEF CountInv
<1>7. CASE DispatchInitial
  <2>1. /\ mpc = "start"
        /\ UNCHANGED <<next_block_to_output, processed_blocks, shutdown>>
    BY <1>7 DEF DispatchInitial
  <2>2. /\ AtWorkThreads = {} /\ AtWorkThreads' = {}
        /\ block_number' = block_number + 1 /\ block_number <= NumThreads
        /\ Len(pending_job_requests') = Len(pending_job_requests) + 1
    BY <1>7, DispatchInitialPlaces
  <2>3. Cardinality(AtWorkThreads) = 0 /\ Cardinality(processed_blocks) = 0
    BY <2>1, <2>2, FS_EmptySet DEF CountInv
  <2> QED BY <1>1, <2>1, <2>2, <2>3 DEF CountInv
<1>8. CASE OutputOne
  <2>1. PICK b \in processed_blocks : processed_blocks' = processed_blocks \ {b}
    BY <1>8 DEF OutputOne
  <2>2. /\ next_block_to_output' = next_block_to_output + 1
        /\ UNCHANGED <<pending_job_requests, block_number, shutdown, bytes_to_read>>
        /\ mpc' # "start"
    BY <1>8 DEF OutputOne
  <2>3. AtWorkThreads' = AtWorkThreads
    <3>1. ~HandOff /\ ~CollectAndGrab /\ ~CollectAndShutdown
      BY <1>8 DEF OutputOne, HandOff, CollectAndGrab, CollectAndShutdown
    <3> QED BY <1>0, <3>1, AtWorkOtherwise DEF AtWorkUnchanged, AtWorkThreads
  <2>4. /\ IsFiniteSet(processed_blocks')
        /\ Cardinality(processed_blocks') = Cardinality(processed_blocks) - 1
    BY <1>1, <2>1, FS_RemoveElement
  <2>5. Len(pending_job_requests') + Cardinality(AtWorkThreads')
          + Cardinality(processed_blocks') + next_block_to_output' = block_number'
    <3>1. /\ next_block_to_output' = next_block_to_output + 1
          /\ block_number' = block_number
          /\ Len(pending_job_requests') = Len(pending_job_requests)
      BY <2>2
    <3>2. Len(pending_job_requests) + Cardinality(AtWorkThreads)
            + Cardinality(processed_blocks) + next_block_to_output = block_number
      BY DEF CountInv
    <3>3. \A l, a, p, n \in Nat : l + a + (p - 1) + (n + 1) = l + a + p + n
      OBVIOUS
    <3>4. Len(pending_job_requests) + Cardinality(AtWorkThreads)
            + (Cardinality(processed_blocks) - 1) + (next_block_to_output + 1)
            = block_number
      BY <1>1, <3>2, <3>3
    <3> QED BY <2>3, <2>4, <3>1, <3>4
  <2>6. Len(pending_job_requests') + Cardinality(AtWorkThreads') + shutdown' <= NumThreads
    <3>1. /\ Len(pending_job_requests') = Len(pending_job_requests)
          /\ shutdown' = shutdown
      BY <2>2
    <3> QED BY <2>3, <3>1 DEF CountInv
  <2>7. shutdown' = 1 => bytes_to_read' = 0
    BY <2>2 DEF CountInv
  <2> QED BY <2>2, <2>4, <2>5, <2>6, <2>7 DEF CountInv
<1>9. CASE MovesOnly
  BY <1>2, <1>3, <1>5, <1>6, <1>9, MovesOnlyUnchanged
<1>10. CASE SetKill \/ IoDrainOne \/ IoWriteOne
  BY <1>2, <1>3, <1>5, <1>6, <1>10 DEF SetKill, IoDrainOne, IoWriteOne
<1>11. ASSUME NEW t \in Threads,
              \/ WorkerSleep(t) \/ WorkerStart(t) \/ WorkerFinish(t)
              \/ WorkerComplete(t) \/ WorkerSignal(t) \/ SpuriousWakeupWorker(t)
       PROVE  CountInv'
  <2>1. /\ UNCHANGED <<pending_job_requests, next_block_to_output, processed_blocks,
                       block_number, shutdown, bytes_to_read>>
        /\ mpc' = "start" => mpc = "start"
    BY <1>11 DEF WorkerSleep, WorkerStart, WorkerFinish, WorkerComplete, WorkerSignal,
                 SpuriousWakeupWorker
  <2> QED BY <1>2, <1>3, <1>5, <1>6, <2>1
<1> QED BY <1>3, <1>5, <1>6, <1>7, <1>8, <1>9, <1>10, <1>11, StepCases

-----------------------------------------------------------------------------
(* The end of the loop                                                      *)

\* When free_threads holds NumThreads ids, it holds all of them.
LEMMA AllFree ==
    ASSUME TypeInv, ThreadInv, Len(free_threads) = NumThreads
    PROVE  AtWorkThreads = {}
<1>1. /\ free_threads \in [1 .. NumThreads -> Threads]
      /\ DOMAIN free_threads = 1 .. NumThreads
  BY LenProperties DEF TypeInv, TypeOK
<1>2. free_threads \in Injection(1 .. NumThreads, Threads)
  BY <1>1 DEF ThreadInv, ThreadsAccountedFor, IsInjective, Injection
<1>3. /\ IsFiniteSet(1 .. NumThreads) /\ Cardinality(1 .. NumThreads) = NumThreads
      /\ IsFiniteSet(Threads) /\ Cardinality(Threads) = NumThreads
  BY FS_Interval, NumThreadsAssumption DEF Threads
<1>4. free_threads \in Surjection(1 .. NumThreads, Threads)
  BY <1>2, <1>3, FS_Injection
<1>5. \A t \in Threads : t \in Range(free_threads)
  BY <1>1, <1>4 DEF Surjection, Range
<1> QED BY <1>5 DEF ThreadInv, ThreadsAccountedFor, AtWorkThreads

\* With no thread at work the first block of the sorted list is the next to
\* pass on.
LEMMA NothingSorted ==
    ASSUME TypeInv, PlacesInv, AtWorkThreads = {},
           ~ \E b \in processed_blocks : IsHead(b) /\ b.index = next_block_to_output
    PROVE  processed_blocks = {}
<1> SUFFICES ASSUME NEW o \in processed_blocks PROVE FALSE
  OBVIOUS
<1>1. /\ Oldest \in Int /\ next_block_to_output \in Nat
      /\ \A b \in processed_blocks : b.index \in Nat
  BY ContextsInUse
<1>2. next_block_to_output \in next_block_to_output .. Oldest - 1
  BY <1>1 DEF PlacesInv
<1>3. PICK b \in processed_blocks : b.index = next_block_to_output
  BY <1>2 DEF PlacesInv
<1>4. \A p \in processed_blocks : b.index <= p.index
  BY <1>1, <1>3 DEF PlacesInv
<1> QED BY <1>3, <1>4 DEF IsHead

LEMMA LeftInvInductive ==
    ASSUME BaseInv, PlacesInv, CountInv, LeftInv, [Next]_vars
    PROVE  LeftInv'
<1> USE DEF order, jobs, slots
<1> DEFINE Left == mpc \in {"kill", "signal", "join", "done"}
<1>0. TypeInv /\ ThreadInv /\ ContextInv
  BY DEF BaseInv
<1>1. CASE OutputDone
  <2> SUFFICES ASSUME Left' PROVE LeftInv'
    BY DEF LeftInv
  <2>1. /\ shutdown = 1 /\ Len(free_threads) = NumThreads
        /\ ~ \E b \in processed_blocks : IsHead(b) /\ b.index = next_block_to_output
    BY <1>1 DEF OutputDone, LoopExit
  <2>2. AtWorkThreads = {} /\ processed_blocks = {}
    BY <1>0, <2>1, AllFree, NothingSorted
  <2>3. ~HandOff /\ ~CollectAndGrab /\ ~CollectAndShutdown
    BY <1>1 DEF OutputDone, HandOff, CollectAndGrab, CollectAndShutdown
  <2>4. AtWorkThreads' = AtWorkThreads
    BY <1>0, <2>3, AtWorkOtherwise DEF AtWorkUnchanged, AtWorkThreads
  <2>5. UNCHANGED <<shutdown, processed_blocks>>
    BY <1>1 DEF OutputDone
  <2> QED BY <2>1, <2>2, <2>4, <2>5 DEF LeftInv
<1>2. CASE ~OutputDone /\ Left'
  <2>1. Left
    <3>1. CASE MovesOnly
      BY <1>2, <3>1 DEF MovesOnly, InitialDispatched, Check, Sleep, HandOffDone,
         CollectDone, SignalKill, Join, IoTestQueue, IoTestKill, IoSleep, IoExitTest,
         IoDrained, IoWritten, IoGoto, SpuriousWakeupMain, SpuriousWakeupIo, Abort, vars
    <3>2. CASE DispatchInitial \/ HandOff \/ CollectAndGrab \/ CollectAndShutdown
               \/ OutputOne \/ SetKill \/ IoDrainOne \/ IoWriteOne
      BY <1>2, <3>2 DEF DispatchInitial, HandOff, CollectAndGrab, CollectAndShutdown,
         OutputOne, SetKill, IoDrainOne, IoWriteOne
    <3>3. ASSUME NEW t \in Threads,
                 \/ WorkerSleep(t) \/ WorkerStart(t) \/ WorkerFinish(t)
                 \/ WorkerComplete(t) \/ WorkerSignal(t) \/ SpuriousWakeupWorker(t)
          PROVE  Left
      BY <1>2, <3>3 DEF WorkerSleep, WorkerStart, WorkerFinish, WorkerComplete,
         WorkerSignal, SpuriousWakeupWorker
    <3> QED BY <3>1, <3>2, <3>3, StepCases
  <2>2. /\ ~DispatchInitial /\ ~HandOff /\ ~CollectAndGrab /\ ~CollectAndShutdown
        /\ ~OutputOne
    BY <2>1 DEF DispatchInitial, HandOff, CollectAndGrab, CollectAndShutdown, OutputOne
  <2>3. AtWorkThreads' = AtWorkThreads
    BY <1>0, <2>2, AtWorkOtherwise DEF AtWorkUnchanged, AtWorkThreads
  <2>4. UNCHANGED <<shutdown, processed_blocks>>
    <3>1. CASE MovesOnly
      BY <3>1, MovesOnlyUnchanged
    <3>2. CASE SetKill \/ IoDrainOne \/ IoWriteOne
      BY <3>2 DEF SetKill, IoDrainOne, IoWriteOne
    <3>3. ASSUME NEW t \in Threads,
                 \/ WorkerSleep(t) \/ WorkerStart(t) \/ WorkerFinish(t)
                 \/ WorkerComplete(t) \/ WorkerSignal(t) \/ SpuriousWakeupWorker(t)
          PROVE  UNCHANGED <<shutdown, processed_blocks>>
      BY <3>3 DEF WorkerSleep, WorkerStart, WorkerFinish, WorkerComplete,
         WorkerSignal, SpuriousWakeupWorker
    <3> QED BY <2>2, <3>1, <3>2, <3>3, StepCases
  <2> QED BY <2>1, <2>3, <2>4 DEF LeftInv
<1> QED BY <1>1, <1>2 DEF LeftInv

-----------------------------------------------------------------------------
(* The theorems                                                             *)

IInv == BaseInv /\ PlacesInv /\ CountInv /\ LeftInv

LEMMA IInvInvariant == Spec => []IInv
<1>1. Init => IInv
  BY InitTypes, InitThreads, InitContexts, InitPlaces DEF IInv, BaseInv
<1>2. IInv /\ [Next]_vars => IInv'
  BY BaseInvInductive, PlacesInvInductive, CountInvInductive, LeftInvInductive DEF IInv
<1> QED BY <1>1, <1>2, PTL DEF Spec

\* The blocks that wait are those from Oldest on.
LEMMA WaitingBlocks ==
    ASSUME TypeInv, PlacesInv
    PROVE  {ctx[c].block_number : c \in Range(pending_job_requests)}
              = Oldest .. block_number - 1
<1> DEFINE len == Len(pending_job_requests)
<1>1. len \in Nat /\ block_number \in Nat /\ Oldest = block_number - len
  BY ContextsInUse DEF Oldest
<1>2. DOMAIN pending_job_requests = 1 .. len
  BY LenProperties DEF TypeInv, TypeOK
<1>3. \A i \in 1 .. len : ctx[pending_job_requests[i]].block_number = Oldest + i - 1
  BY DEF PlacesInv, Waiting
<1>4. \A c \in Range(pending_job_requests) :
         \E i \in 1 .. len : ctx[c].block_number = Oldest + i - 1
  BY <1>2, <1>3 DEF Range
<1>5. \A n \in Oldest .. block_number - 1 :
         \E c \in Range(pending_job_requests) : ctx[c].block_number = n
  <2> TAKE n \in Oldest .. block_number - 1
  <2> DEFINE i == n - Oldest + 1
  <2>1. i \in 1 .. len /\ Oldest + i - 1 = n
    BY <1>1
  <2> HIDE DEF i
  <2>2. ctx[pending_job_requests[i]].block_number = n
    BY <1>3, <2>1
  <2> QED BY <2>1, <2>2, ContextsInUse
<1>6. \A i \in 1 .. len : Oldest + i - 1 \in Oldest .. block_number - 1
  BY <1>1
<1>7. \A c \in Range(pending_job_requests) :
         ctx[c].block_number \in Oldest .. block_number - 1
  BY <1>4, <1>6
<1> QED BY <1>5, <1>7, Zenon

\* No block is lost or compressed twice between the queue of jobs, the workers,
\* the sorted list and the io thread.
THEOREM BlocksNeverLost == Spec => []BlocksConserved
<1>1. ASSUME IInv PROVE BlocksConserved
  <2>1. TypeInv /\ PlacesInv /\ CountInv
    BY <1>1 DEF IInv, BaseInv
  <2>2. /\ Oldest \in Int /\ next_block_to_output \in Nat \ {0} /\ block_number \in Nat
        /\ next_block_to_output <= Oldest /\ Oldest <= block_number
    BY <2>1, ContextsInUse, CountsNatural DEF Oldest
  <2> DEFINE atWork == {ctx[work[t]].block_number : t \in {u \in Threads : AtWork(u)}}
             sorted == {b.index : b \in processed_blocks}
  <2>3. atWork \cup sorted = next_block_to_output .. Oldest - 1
    <3>1. atWork = {Working[t] : t \in AtWorkThreads}
      BY DEF Working, AtWorkThreads
    <3> QED BY <2>1, <3>1 DEF PlacesInv
  <2> HIDE DEF atWork, sorted
  <2>4. (Oldest .. block_number - 1) \cup (next_block_to_output .. Oldest - 1)
           \cup (1 .. next_block_to_output - 1) = 1 .. block_number - 1
    BY <2>2
  <2>5. {ctx[c].block_number : c \in Range(pending_job_requests)}
           \cup atWork \cup sorted \cup (1 .. next_block_to_output - 1)
           = 1 .. block_number - 1
    BY <2>1, <2>3, <2>4, WaitingBlocks
  <2>6. Len(pending_job_requests) + Cardinality({t \in Threads : AtWork(t)})
          + Cardinality(processed_blocks) + next_block_to_output = block_number
    BY <2>1 DEF CountInv, AtWorkThreads
  <2> QED BY <2>5, <2>6 DEF BlocksConserved, atWork, sorted
<1> QED BY <1>1, IInvInvariant, PTL

\* What is missing when main leaves its loop is jobs no worker was given, fewer than
\* there are threads, although everything was read: with one thread, nothing.
THEOREM ExitCorrect == Spec => []ExitLeavesOnlyUnstarted
<1>1. ASSUME IInv PROVE ExitLeavesOnlyUnstarted
  <2> SUFFICES ASSUME mpc \in {"kill", "signal", "join", "done"}
               PROVE  /\ bytes_to_read = 0
                      /\ {ctx[c].block_number : c \in Range(pending_job_requests)}
                            = next_block_to_output .. block_number - 1
                      /\ Len(pending_job_requests) < NumThreads
    BY DEF ExitLeavesOnlyUnstarted
  <2>1. TypeInv /\ PlacesInv /\ CountInv
    BY <1>1 DEF IInv, BaseInv
  <2>2. shutdown = 1 /\ AtWorkThreads = {} /\ processed_blocks = {}
    BY <1>1 DEF IInv, LeftInv
  <2>3. Cardinality(AtWorkThreads) = 0 /\ Cardinality(processed_blocks) = 0
    BY <2>2, FS_EmptySet
  <2>4. /\ Len(pending_job_requests) + next_block_to_output = block_number
        /\ Len(pending_job_requests) + 1 <= NumThreads /\ bytes_to_read = 0
    BY <2>1, <2>2, <2>3, ContextsInUse DEF CountInv
  <2>5. Oldest = next_block_to_output
    BY <2>1, <2>4, ContextsInUse DEF Oldest
  <2>6. Len(pending_job_requests) < NumThreads
    BY <2>1, <2>4, ContextsInUse, NumThreadsAssumption
  <2> QED BY <2>1, <2>4, <2>5, <2>6, WaitingBlocks
<1> QED BY <1>1, IInvInvariant, PTL

-----------------------------------------------------------------------------
(* The refinement of BlockStream                                           *)

\* The blocks that were given to a worker and that no worker still works on.
Finished == {n \in 1 .. Oldest - 1 :
                \A t \in AtWorkThreads : busy[t] = 1 => Working[t] # n}

\* Nothing is read once the input is exhausted.
ReadInv == block_number - 1 <= BlockCount

RInv == IInv /\ ContentInv /\ WrittenInOrder /\ ReadInv

-----------------------------------------------------------------------------
(* How many blocks there are                                                *)

LEMMA Monotone ==
    ASSUME NEW a \in Nat, NEW b \in Nat, NEW c \in Nat, a <= b
    PROVE  a * c <= b * c
OBVIOUS

\* BlockCount blocks of ChunkSize bytes are enough for the input, and a block that
\* begins inside the input is one of them.
LEMMA BlocksEnough ==
    /\ BlockCount \in Nat
    /\ \A n \in Nat \ {0} : BlockFrom(n) < FileSize => n <= BlockCount
<1> DEFINE a == FileSize + ChunkSize - 1
           k == a \div ChunkSize
<1>1. a \in Nat /\ ChunkSize \in Nat \ {0}
  BY FileSizeAssumption, ChunkSizeAssumption
<1>2. /\ k \in Nat
      /\ ChunkSize * k <= a /\ a < ChunkSize * k + ChunkSize
  <2> HIDE DEF a
  <2> QED BY <1>1
<1> HIDE DEF k
<1>3. FileSize <= k * ChunkSize
  BY <1>1, <1>2, FileSizeAssumption
<1>4. ASSUME NEW n \in Nat \ {0}, BlockFrom(n) < FileSize
      PROVE  n <= k
  <2> SUFFICES ASSUME k <= n - 1 PROVE FALSE
    BY <1>2
  <2>1. k * ChunkSize <= (n - 1) * ChunkSize
    BY <1>1, <1>2, Monotone
  <2> QED BY <1>1, <1>2, <1>3, <1>4, <2>1, FileSizeAssumption DEF BlockFrom
<1> QED BY <1>2, <1>4 DEF BlockCount, k

-----------------------------------------------------------------------------
(* The mapping                                                              *)

\* What BlockStream sees as compressed.
LEMMA CompressedIsFinished ==
    RInv => (1 .. block_number - 1) \ Uncompressed = Finished
<1> SUFFICES ASSUME RInv PROVE (1 .. block_number - 1) \ Uncompressed = Finished
  OBVIOUS
<1>1. TypeInv /\ PlacesInv
  BY DEF RInv, IInv, BaseInv
<1>2. /\ Oldest \in Int /\ block_number \in Nat /\ Oldest <= block_number
      /\ \A t \in AtWorkThreads : t \in Threads
  BY <1>1, ContextsInUse DEF Oldest
<1>3. {ctx[work[t]].block_number : t \in {u \in Threads : busy[u] = 1}}
        = {Working[t] : t \in {u \in AtWorkThreads : busy[u] = 1}}
  BY DEF Working, AtWorkThreads, AtWork
<1>4. Uncompressed = (Oldest .. block_number - 1)
        \cup {Working[t] : t \in {u \in AtWorkThreads : busy[u] = 1}}
  BY <1>1, <1>3, WaitingBlocks DEF Uncompressed
<1>5. \A n \in 1 .. block_number - 1 :
         n \in 1 .. Oldest - 1 <=> n \notin Oldest .. block_number - 1
  BY <1>2
<1>6. 1 .. Oldest - 1 \subseteq 1 .. block_number - 1
  BY <1>2
<1> QED BY <1>4, <1>5, <1>6 DEF Finished

\* Steps that neither take, nor finish, nor write a block.
LEMMA Stutter ==
    ASSUME RInv, RInv', UNCHANGED <<block_number, written, Finished>>
    PROVE  UNCHANGED Stream!streamVars
<1>1. (1 .. block_number - 1) \ Uncompressed = Finished
  BY CompressedIsFinished
<1>2. ((1 .. block_number - 1) \ Uncompressed = Finished)'
  BY CompressedIsFinished, PTL
<1> QED BY <1>1, <1>2 DEF Stream!streamVars

\* Steps that take a block.
LEMMA Takes ==
    ASSUME RInv, RInv', block_number' = block_number + 1, UNCHANGED <<written, Finished>>
    PROVE  Stream!Take
<1>1. (1 .. block_number - 1) \ Uncompressed = Finished
  BY CompressedIsFinished
<1>2. ((1 .. block_number - 1) \ Uncompressed = Finished)'
  BY CompressedIsFinished, PTL
<1>3. /\ block_number \in Nat /\ BlockCount \in Nat
      /\ block_number - 1 < BlockCount
  <2>1. block_number' - 1 <= BlockCount
    BY DEF RInv, ReadInv, BlockCount
  <2> QED BY <2>1, BlocksEnough DEF RInv, IInv, BaseInv, TypeInv, TypeOK
<1>4. Len([i \in 1 .. BlockCount |-> Compressed(i)]) = BlockCount
  BY <1>3
<1> QED BY <1>1, <1>2, <1>3, <1>4 DEF Stream!Take

\* Steps that read no block read too much.
LEMMA ReadInvInductive ==
    ASSUME RInv, [Next]_vars
    PROVE  ReadInv'
<1> USE DEF input
<1>1. block_number \in Nat \ {0} /\ bytes_to_read \in Nat
  BY DEF RInv, IInv, BaseInv, TypeInv, TypeOK
<1>2. ASSUME bytes_to_read > 0, block_number' = block_number + 1
      PROVE  ReadInv'
  <2>1. BlockFrom(block_number) < FileSize
    <3>1. /\ offset = BlockFrom(block_number) /\ offset + bytes_to_read = FileSize
          /\ offset \in Nat
      BY <1>2 DEF RInv, ContentInv, IInv, BaseInv, TypeInv, TypeOK
    <3> QED BY <1>1, <1>2, <3>1, FileSizeAssumption
  <2>2. block_number <= BlockCount
    BY <1>1, <2>1, BlocksEnough
  <2> QED BY <1>1, <1>2, <2>2 DEF ReadInv, BlockCount
<1>3. ASSUME UNCHANGED block_number
      PROVE  ReadInv'
  BY <1>3 DEF RInv, ReadInv, BlockCount
<1>4. CASE DispatchInitial \/ CollectAndGrab
  BY <1>1, <1>2, <1>4 DEF DispatchInitial, CollectAndGrab, grab_another_block
<1>5. CASE MovesOnly
  BY <1>3, <1>5, MovesOnlyUnchanged
<1>6. CASE HandOff \/ CollectAndShutdown \/ OutputOne \/ SetKill \/ IoDrainOne \/ IoWriteOne
  BY <1>3, <1>6 DEF HandOff, CollectAndShutdown, OutputOne, SetKill, IoDrainOne, IoWriteOne
<1>7. ASSUME NEW t \in Threads,
             \/ WorkerSleep(t) \/ WorkerStart(t) \/ WorkerFinish(t)
             \/ WorkerComplete(t) \/ WorkerSignal(t) \/ SpuriousWakeupWorker(t)
      PROVE  ReadInv'
  BY <1>3, <1>7 DEF WorkerSleep, WorkerStart, WorkerFinish, WorkerComplete,
                    WorkerSignal, SpuriousWakeupWorker
<1> QED BY <1>4, <1>5, <1>6, <1>7, StepCases

LEMMA RInvInvariant == Spec => []RInv
<1>1. Init => ContentInv /\ WrittenInOrder /\ ReadInv
  BY InitContent, InitWritten, BlocksEnough DEF Init, ReadInv
<1>2. RInv /\ [Next]_vars /\ IInv' => RInv'
  BY ContentInvInductive, OutputInductive, ReadInvInductive DEF RInv, IInv, BaseInv
<1>3. Init /\ IInv => RInv
  BY <1>1 DEF RInv
<1> QED BY <1>2, <1>3, IInvInvariant, PTL DEF Spec

-----------------------------------------------------------------------------
(* The steps                                                                *)

\* Steps that neither read, hand off, finish nor collect a block finish none.
LEMMA FinishedUnchanged ==
    ASSUME TypeInv, AtWorkUnchanged,
           UNCHANGED <<pending_job_requests, work, block_number, ctx>>,
           \A t \in AtWorkThreads : busy'[t] = busy[t]
    PROVE  UNCHANGED Finished
BY PlacesUnchanged DEF Finished

\* A worker that finishes adds its block, and no other.
LEMMA Finishes ==
    ASSUME RInv, RInv', NEW t \in Threads, WorkerFinish(t)
    PROVE  \E n \in 1 .. BlockCount : Stream!Compress(n)
<1> USE DEF input, order, jobs, slots, output
<1>0. TypeInv /\ ThreadInv /\ PlacesInv /\ CountInv
  BY DEF RInv, IInv, BaseInv
<1>1. /\ wpc[t] = "working" /\ busy' = [busy EXCEPT ![t] = 0]
      /\ UNCHANGED <<pending_job_requests, work, block_number, written>>
  BY DEF WorkerFinish
<1>2. busy[t] = 1 /\ t \in AtWorkThreads
  BY <1>0, <1>1 DEF ThreadInv, WorkersMarked, AtWorkThreads, AtWork
<1>3. UNCHANGED <<AtWorkThreads, Working, Oldest>>
  <2>1. \A c \in Contexts : ctx'[c].block_number = ctx[c].block_number
    BY <1>0 DEF WorkerFinish, deflate_work, TypeInv, TypeOK, ContextRecords
  <2>2. AtWorkUnchanged
    <3>1. UNCHANGED completed_threads /\ wpc' = [wpc EXCEPT ![t] = "finished"]
      BY DEF WorkerFinish
    <3> QED BY <1>0, <1>1, <1>2, <3>1 DEF AtWorkUnchanged, AtWork, TypeInv, TypeOK
  <2> QED BY <1>0, <1>1, <2>1, <2>2, PlacesUnchanged
<1>4. /\ Working[t] \in 1 .. Oldest - 1
      /\ Oldest \in Int /\ Oldest <= block_number /\ block_number \in Nat
  <2>1. /\ Working[t] \in next_block_to_output .. Oldest - 1
        /\ next_block_to_output \in Nat \ {0} /\ Oldest \in Int
        /\ Len(pending_job_requests) \in Nat /\ block_number \in Nat
    BY <1>0, <1>2, ContextsInUse DEF PlacesInv
  <2> QED BY <2>1 DEF Oldest
<1>5. Working[t] \notin Finished
  BY <1>2 DEF Finished
<1>6. Finished' = Finished \cup {Working[t]}
  <2>1. \A u \in AtWorkThreads : busy'[u] = 1 <=> busy[u] = 1 /\ u # t
    BY <1>0, <1>1, ContextsInUse DEF TypeInv, TypeOK
  <2>2. \A u \in AtWorkThreads : Working[u] = Working[t] => u = t
    BY <1>0, <1>2 DEF PlacesInv
  <2> QED BY <1>2, <1>3, <1>4, <2>1, <2>2 DEF Finished
<1>7. Working[t] \in 1 .. block_number - 1 /\ Working[t] \in 1 .. BlockCount
  BY <1>4, BlocksEnough DEF RInv, ReadInv
<1>8. (1 .. block_number - 1) \ Uncompressed = Finished
  BY CompressedIsFinished
<1>9. ((1 .. block_number - 1) \ Uncompressed = Finished)'
  BY CompressedIsFinished, PTL
<1> QED BY <1>1, <1>5, <1>6, <1>7, <1>8, <1>9 DEF Stream!Compress

\* What the io thread writes is the next block, and it was finished.
LEMMA Emits ==
    ASSUME RInv, RInv', IoWriteOne
    PROVE  Stream!Emit
<1> USE DEF input, order, jobs, slots, output
<1> DEFINE n == Len(written) + 1
<1>0. TypeInv /\ PlacesInv /\ CountInv
  BY DEF RInv, IInv, BaseInv
<1>1. /\ q # << >> /\ written' = Append(written, Head(q))
      /\ UNCHANGED <<block_number, ctx, pending_job_requests, work, busy,
                     completed_threads, wpc>>
  BY DEF IoWriteOne
<1>2. UNCHANGED Finished
  <2>1. AtWorkUnchanged
    BY <1>1 DEF AtWorkUnchanged, AtWork
  <2> QED BY <1>0, <1>1, <2>1, FinishedUnchanged
<1>3. /\ written \in Seq(Seq(Pieces)) /\ q \in Seq(Seq(Pieces))
      /\ output_queue \in Seq(Seq(Pieces))
      /\ next_block_to_output \in Nat \ {0}
  BY <1>0 DEF TypeInv, TypeOK
<1>4. n \in 1 .. next_block_to_output - 1 /\ Head(q) = Compressed(n)
  <2>1. /\ Len(written) \in Nat /\ Len(q) \in Nat \ {0} /\ Len(output_queue) \in Nat
        /\ Head(q) = q[1]
    BY <1>1, <1>3, LenProperties, EmptySeq
  <2> DEFINE all == written \o q \o output_queue
  <2>2. Len(all) = Len(written) + Len(q) + Len(output_queue) /\ all[n] = q[1]
    BY <1>3, <2>1, ConcatProperties
  <2>3. all = [i \in 1 .. next_block_to_output - 1 |-> Compressed(i)]
    BY DEF RInv, WrittenInOrder
  <2> HIDE DEF all
  <2>4. Len(all) = next_block_to_output - 1
    BY <1>3, <2>3
  <2>5. n \in 1 .. next_block_to_output - 1
    BY <1>3, <2>1, <2>2, <2>4
  <2> QED BY <2>1, <2>2, <2>3, <2>5
<1>5. n \in Finished /\ n \in 1 .. BlockCount
  <2>1. /\ next_block_to_output <= Oldest /\ Oldest <= block_number
        /\ Oldest \in Int /\ block_number \in Nat
    BY <1>0, CountsNatural, ContextsInUse DEF Oldest
  <2>2. n \in 1 .. Oldest - 1 /\ n \in 1 .. BlockCount
    BY <1>3, <1>4, <2>1, BlocksEnough DEF RInv, ReadInv
  <2>3. \A t \in AtWorkThreads : Working[t] # n
    BY <1>0, <1>3, <1>4, <2>1 DEF PlacesInv
  <2> QED BY <2>2, <2>3 DEF Finished
<1>6. (1 .. block_number - 1) \ Uncompressed = Finished
  BY CompressedIsFinished
<1>7. ((1 .. block_number - 1) \ Uncompressed = Finished)'
  BY CompressedIsFinished, PTL
<1> HIDE DEF n
<1>8. [i \in 1 .. BlockCount |-> Compressed(i)][n] = Head(q)
  BY <1>4, <1>5
<1> QED BY <1>1, <1>2, <1>5, <1>6, <1>7, <1>8 DEF Stream!Emit, n

\* Every step is a step of BlockStream or changes nothing BlockStream sees.
LEMMA StepRefines ==
    ASSUME RInv, RInv', [Next]_vars
    PROVE  [Stream!Next]_(Stream!streamVars)
<1> USE DEF input, order, jobs, slots, output
<1>0. TypeInv /\ ThreadInv /\ ContextInv /\ PlacesInv /\ CountInv /\ BaseInv
  BY DEF RInv, IInv, BaseInv
<1>1. ASSUME UNCHANGED <<block_number, written, Finished>>
      PROVE  [Stream!Next]_(Stream!streamVars)
  BY <1>1, Stutter
<1>2. ASSUME block_number' = block_number + 1, UNCHANGED <<written, Finished>>
      PROVE  Stream!Next
  BY <1>2, Takes DEF Stream!Next
<1>3. ASSUME ~HandOff, ~CollectAndGrab, ~CollectAndShutdown,
             UNCHANGED <<pending_job_requests, work, block_number, ctx, busy, written>>
      PROVE  [Stream!Next]_(Stream!streamVars)
  <2>1. UNCHANGED Finished
    BY <1>0, <1>3, AtWorkOtherwise, FinishedUnchanged
  <2> QED BY <1>1, <1>3, <2>1
<1>4. CASE HandOff
  <2>1. PICK t \in Threads \ AtWorkThreads :
           /\ AtWorkThreads' = AtWorkThreads \cup {t}
           /\ Working'[t] = Oldest /\ busy'[t] = 1
           /\ \A u \in AtWorkThreads : Working'[u] = Working[u] /\ busy'[u] = busy[u]
           /\ Oldest' = Oldest + 1
    BY <1>0, <1>4, HandOffPlaces
  <2>2. Oldest \in Int
    BY <1>0, ContextsInUse
  <2>3. \A n : n \in 1 .. Oldest' - 1 /\ n # Oldest <=> n \in 1 .. Oldest - 1
    BY <2>1, <2>2
  <2>4. Finished' = Finished
    BY <2>1, <2>3 DEF Finished
  <2>5. UNCHANGED <<block_number, written>>
    BY <1>4 DEF HandOff
  <2> QED BY <1>1, <2>4, <2>5
<1>5. ASSUME CollectAndGrab \/ CollectAndShutdown
      PROVE  UNCHANGED Finished
  <2>1. PICK t \in AtWorkThreads, b \in [index : Nat, data : Seq(Pieces)] :
           /\ busy[t] = 0 /\ UNCHANGED busy
           /\ AtWorkThreads' = AtWorkThreads \ {t}
           /\ \A u \in AtWorkThreads \ {t} : Working'[u] = Working[u]
           /\ Oldest' = Oldest
    BY <1>0, <1>5, CollectPlaces
  <2> QED BY <2>1 DEF Finished
<1>6. CASE CollectAndGrab
  BY <1>2, <1>5, <1>6 DEF CollectAndGrab, grab_another_block
<1>7. CASE CollectAndShutdown
  <2>1. UNCHANGED <<block_number, written>>
    BY <1>7 DEF CollectAndShutdown
  <2> QED BY <1>1, <1>5, <1>7, <2>1
<1>8. CASE DispatchInitial
  <2>1. /\ AtWorkThreads = {} /\ AtWorkThreads' = {}
        /\ Oldest' = Oldest /\ block_number' = block_number + 1
    BY <1>0, <1>8, DispatchInitialPlaces
  <2>2. UNCHANGED written
    BY <1>8 DEF DispatchInitial
  <2> QED BY <1>2, <2>1, <2>2 DEF Finished
<1>9. CASE IoWriteOne
  BY <1>9, Emits DEF Stream!Next
<1>10. CASE MovesOnly
  <2>1. UNCHANGED <<pending_job_requests, work, block_number, ctx, busy, written>>
    BY <1>10, MovesOnlyUnchanged
  <2> QED BY <1>3, <1>4, <1>6, <1>7, <2>1
<1>11. CASE OutputOne \/ SetKill \/ IoDrainOne
  <2>1. UNCHANGED <<pending_job_requests, work, block_number, ctx, busy, written>>
    BY <1>11 DEF OutputOne, SetKill, IoDrainOne
  <2> QED BY <1>3, <1>4, <1>6, <1>7, <2>1
<1>12. ASSUME NEW t \in Threads, WorkerFinish(t)
       PROVE  Stream!Next
  <2>1. BlockCount \in Nat
    BY BlocksEnough
  <2> QED BY <1>12, <2>1, Finishes DEF Stream!Next
<1>13. ASSUME NEW t \in Threads,
              \/ WorkerSleep(t) \/ WorkerStart(t)
              \/ WorkerComplete(t) \/ WorkerSignal(t) \/ SpuriousWakeupWorker(t)
       PROVE  [Stream!Next]_(Stream!streamVars)
  <2>1. UNCHANGED <<pending_job_requests, work, block_number, ctx, busy, written>>
    BY <1>13 DEF WorkerSleep, WorkerStart, WorkerComplete, WorkerSignal,
                 SpuriousWakeupWorker
  <2> QED BY <1>3, <1>4, <1>6, <1>7, <2>1
<1> QED BY <1>4, <1>6, <1>7, <1>8, <1>9, <1>10, <1>11, <1>12, <1>13, StepCases

-----------------------------------------------------------------------------
(* The theorem                                                              *)

\* Main, the workers and the io thread together are a stream of blocks: whatever
\* the interleaving, each block is taken once, compressed once, and written after
\* its compression and after every block before it.
THEOREM Implements == Spec => ImplementsBlockStream
<1>1. Init => Stream!Init
  <2> SUFFICES ASSUME Init PROVE Stream!Init
    OBVIOUS
  <2>1. block_number - 1 = 0 /\ written = << >>
    BY DEF Init
  <2>2. 1 .. block_number - 1 = {}
    BY <2>1
  <2> QED BY <2>1, <2>2 DEF Stream!Init
<1>2. RInv /\ RInv' /\ [Next]_vars => [Stream!Next]_(Stream!streamVars)
  BY StepRefines
<1> QED BY <1>1, <1>2, RInvInvariant, PTL
       DEF Spec, ImplementsBlockStream, Stream!Spec
=============================================================================
