----------------------------- MODULE SharedQueue -----------------------------
(***************************************************************************)
(* The queue of threads.c, a linked list with a first and a last node, as  *)
(* the threads of pgzip share it: producers enqueue their objects, each    *)
(* under its lock, and one consumer empties the queue under a lock.        *)
(*                                                                         *)
(* completed_threads is such a queue, the workers enqueue and main         *)
(* dequeues, all under completed_threads_lock; output_queue is another,    *)
(* main enqueues under output_block_lock and the io thread dequeues under  *)
(* output_fd_lock.                                                         *)
(*                                                                         *)
(* A step reads or writes one field that another thread may see.  Memory   *)
(* is sequentially consistent.  malloc returns any free node, with         *)
(* anything in its next field, which enqueue sets last of all.  The size   *)
(* field is left out: only that of free_threads, which main alone uses, is *)
(* ever read.                                                              *)
(***************************************************************************)
EXTENDS Integers, Sequences, FiniteSets, SequencesExt

CONSTANTS
    Producers,
    Consumer,
    LockOf,      \* the lock each of them takes
    Objects,     \* how many objects a producer enqueues
    Nodes,       \* the memory, in queue_nodes
    NULL,
    Nobody,      \* has a free lock
    Nothing      \* is in a field that was never written

ASSUME ConsumerAssumption == Consumer \notin Producers
ASSUME LockOfAssumption == DOMAIN LockOf = Producers \cup {Consumer}
ASSUME ObjectsAssumption == Objects \in Nat
\* There is a node for each object: malloc does not fail.
ASSUME NodesAssumption ==
    /\ IsFiniteSet(Producers) /\ IsFiniteSet(Nodes)
    /\ Cardinality(Nodes) >= Objects * Cardinality(Producers)

Threads == Producers \cup {Consumer}
ObjectSet == Producers \X (1 .. Objects)

ASSUME NullAssumption == NULL \notin Nodes /\ Nobody \notin Threads /\ Nothing \notin ObjectSet

VARIABLES
    first, last,       \* the queue
    next, object,      \* the fields of the nodes
    allocated,         \* the nodes in use
    owner,             \* of each lock
    pc,
    node, count,       \* a producer's new node, and how many it has enqueued
    temp, pointer,     \* the locals of dequeue
    entered, taken,    \* history: the objects in the order they went in and out
    crashed            \* a NULL pointer was followed or a node freed twice

memory == <<next, object, allocated>>
queue == <<first, last>>
locals == <<node, count, temp, pointer>>
history == <<entered, taken>>
vars == <<memory, queue, locals, history, owner, pc, crashed>>

Init ==
    /\ first = NULL /\ last = NULL
    /\ next = [n \in Nodes |-> NULL] /\ object = [n \in Nodes |-> Nothing]
    /\ allocated = {}
    /\ owner = [l \in {LockOf[t] : t \in Threads} |-> Nobody]
    /\ pc = [t \in Threads |-> IF t = Consumer THEN "poll" ELSE "lock"]
    /\ node = [p \in Producers |-> NULL] /\ count = [p \in Producers |-> 0]
    /\ temp = NULL /\ pointer = Nothing
    /\ entered = << >> /\ taken = << >>
    /\ crashed = FALSE

At(t, label) == ~crashed /\ pc[t] = label
Goto(t, label) == pc' = [pc EXCEPT ![t] = label]

Crash == crashed' = TRUE /\ UNCHANGED <<memory, queue, locals, history, owner, pc>>

Lock(t, label) ==
    /\ At(t, "lock")
    /\ owner[LockOf[t]] = Nobody
    /\ owner' = [owner EXCEPT ![LockOf[t]] = t]
    /\ Goto(t, label)
    /\ UNCHANGED <<memory, queue, locals, history, crashed>>

Unlock(t, label) ==
    /\ owner' = [owner EXCEPT ![LockOf[t]] = Nobody]
    /\ Goto(t, label)

-----------------------------------------------------------------------------
(* enqueue, by a producer p                                                 *)

\* Mutated: the worker does not take the lock.
ProducerLockNot(p) ==
    /\ count[p] < Objects /\ At(p, "lock")
    /\ Goto(p, "malloc")
    /\ UNCHANGED <<memory, queue, locals, history, owner, crashed>>

\* Main may enqueue several blocks before it unlocks; as its lock keeps nobody
\* out, a lock for each is the same.
ProducerLock(p) == count[p] < Objects /\ Lock(p, "malloc")

Malloc(p) ==
    /\ At(p, "malloc")
    /\ \E n \in Nodes \ allocated :
         /\ allocated' = allocated \cup {n}
         /\ node' = [node EXCEPT ![p] = n]
         /\ object' = [object EXCEPT ![n] = <<p, count[p] + 1>>]
         /\ \E garbage \in Nodes \cup {NULL} : next' = [next EXCEPT ![n] = garbage]
    /\ Goto(p, "testFirst")
    /\ UNCHANGED <<queue, count, temp, pointer, history, owner, crashed>>

\* The test q->first == NULL && q->last == NULL.
TestFirst(p) ==
    /\ At(p, "testFirst")
    /\ Goto(p, IF first = NULL THEN "testLast" ELSE "linkNext")
    /\ UNCHANGED <<memory, queue, locals, history, owner, crashed>>

TestLast(p) ==
    /\ At(p, "testLast")
    /\ Goto(p, IF last = NULL THEN "setFirst" ELSE "linkNext")
    /\ UNCHANGED <<memory, queue, locals, history, owner, crashed>>

SetFirst(p) ==
    /\ At(p, "setFirst")
    /\ first' = node[p]
    /\ Goto(p, "setLast")
    /\ UNCHANGED <<memory, last, locals, history, owner, crashed>>

LinkNext(p) ==
    /\ At(p, "linkNext")
    /\ IF last = NULL THEN Crash
       ELSE /\ next' = [next EXCEPT ![last] = node[p]]
            /\ Goto(p, "setLast")
            /\ UNCHANGED <<object, allocated, queue, locals, history, owner, crashed>>

SetLast(p) ==
    /\ At(p, "setLast")
    /\ last' = node[p]
    /\ Goto(p, "setNext")
    /\ UNCHANGED <<memory, first, locals, history, owner, crashed>>

\* Mutated: the last node keeps what malloc left in its next field.
TerminatedNot(p) == UNCHANGED next

Terminated(p) == next' = [next EXCEPT ![node[p]] = NULL]

\* node->next = NULL, then the caller unlocks.
SetNext(p) ==
    /\ At(p, "setNext")
    /\ Terminated(p)
    /\ entered' = Append(entered, <<p, count[p] + 1>>)
    /\ count' = [count EXCEPT ![p] = @ + 1]
    /\ Unlock(p, "lock")
    /\ UNCHANGED <<object, allocated, queue, node, temp, pointer, taken, crashed>>

enqueue(p) ==
    \/ ProducerLock(p) \/ Malloc(p) \/ TestFirst(p) \/ TestLast(p)
    \/ SetFirst(p) \/ LinkNext(p) \/ SetLast(p) \/ SetNext(p)

-----------------------------------------------------------------------------
(* The consumer: main at deflate.c:312-352, the io thread at 220-235        *)

\* The first test of queue_empty.  Main makes it without the lock; the io thread
\* holds a lock then that nobody else takes, and waits while the queue is empty.
Poll ==
    /\ At(Consumer, "poll")
    /\ first # NULL
    /\ Goto(Consumer, "lock")
    /\ UNCHANGED <<memory, queue, locals, history, owner, crashed>>

\* while(!queue_empty(...)) dequeue(...), and unlock.
TestEmpty ==
    /\ At(Consumer, "testEmpty")
    /\ IF first = NULL
       THEN Unlock(Consumer, "poll") ELSE Goto(Consumer, "object") /\ UNCHANGED owner
    /\ UNCHANGED <<memory, queue, locals, history, crashed>>

\* pointer = q->first->object, temp = q->first; no other thread makes first NULL.
ReadObject ==
    /\ At(Consumer, "object")
    /\ pointer' = object[first] /\ temp' = first
    /\ Goto(Consumer, "compare")
    /\ UNCHANGED <<memory, queue, node, count, history, owner, crashed>>

Compare ==
    /\ At(Consumer, "compare")
    /\ Goto(Consumer, IF first = last THEN "clearFirst" ELSE "advance")
    /\ UNCHANGED <<memory, queue, locals, history, owner, crashed>>

ClearFirst ==
    /\ At(Consumer, "clearFirst")
    /\ first' = NULL
    /\ Goto(Consumer, "clearLast")
    /\ UNCHANGED <<memory, last, locals, history, owner, crashed>>

\* Mutated: last is left pointing to the node that is about to be freed.
ClearLastNot ==
    /\ At(Consumer, "clearLast")
    /\ Goto(Consumer, "free")
    /\ UNCHANGED <<memory, queue, locals, history, owner, crashed>>

ClearLast ==
    /\ At(Consumer, "clearLast")
    /\ last' = NULL
    /\ Goto(Consumer, "free")
    /\ UNCHANGED <<memory, first, locals, history, owner, crashed>>

\* Mutated: the nodes between the first and the last are skipped.
AdvanceToLast ==
    /\ At(Consumer, "advance")
    /\ first' = last
    /\ Goto(Consumer, "free")
    /\ UNCHANGED <<memory, last, locals, history, owner, crashed>>

\* A producer that has set first, or not yet the next field of the last node,
\* may be met here: first becomes whatever the next field holds.
Advance ==
    /\ At(Consumer, "advance")
    /\ first' = next[first]
    /\ Goto(Consumer, "free")
    /\ UNCHANGED <<memory, last, locals, history, owner, crashed>>

Free ==
    /\ At(Consumer, "free")
    /\ IF temp \notin allocated THEN Crash
       ELSE /\ allocated' = allocated \ {temp}
            /\ taken' = Append(taken, pointer)
            /\ Goto(Consumer, "testEmpty")
            /\ UNCHANGED <<next, object, queue, locals, entered, owner, crashed>>

Collect ==
    \/ Lock(Consumer, "testEmpty") \/ TestEmpty \/ ReadObject \/ Compare
    \/ ClearFirst \/ ClearLast \/ Advance \/ Free

dequeue == Poll \/ Collect

\* Every object has been enqueued and the consumer waits, or the program crashed.
AtRest ==
    /\ \A p \in Producers : count[p] = Objects
    /\ pc[Consumer] = "poll" /\ first = NULL
Ended == (crashed \/ AtRest) /\ UNCHANGED vars

Next == (\E p \in Producers : enqueue(p)) \/ dequeue \/ Ended

Spec == Init /\ [][Next]_vars

\* Every thread that can run does, but nothing promises that the consumer looks
\* at the queue again: main may sleep for ever at deflate.c:287, as the signal of
\* threads.c:293 can be lost (ParallelDeflate), and the io thread may exit.
Fairness ==
    /\ \A p \in Producers : WF_vars(enqueue(p))
    /\ WF_vars(Collect)
FairSpec == Spec /\ Fairness

-----------------------------------------------------------------------------
(* Properties                                                               *)

Waiting == Len(entered) - Len(taken)

\* While no thread holds the lock the list is whole: it leads from first to last
\* through allocated nodes that hold, in order, what was enqueued and not yet
\* dequeued, and ends there; no other node is in use.
ListIntact ==
    (\A l \in DOMAIN owner : owner[l] = Nobody) /\ ~crashed =>
        \E chain \in Bijection(1 .. Waiting, allocated) :
            /\ first = IF Waiting = 0 THEN NULL ELSE chain[1]
            /\ last = IF Waiting = 0 THEN NULL ELSE chain[Waiting]
            /\ \A i \in 1 .. Waiting :
                 /\ object[chain[i]] = entered[Len(taken) + i]
                 /\ next[chain[i]] = IF i = Waiting THEN NULL ELSE chain[i + 1]

\* What comes out is what went in, in that order.
TakenInOrder == IsPrefix(taken, entered)

\* No NULL pointer is followed and no node freed twice.
NeverCrashes == ~crashed

\* The consumer that sees the queue empty has got everything, once all is in.
NothingLost == AtRest => taken = entered

\* What is enqueued is dequeued, or the consumer never looks at a queue again
\* that then shows it has something: no object stays behind a queue that looks
\* empty, and a consumer that does look gets through and takes all there is.
StaysOnlyUnseen ==
    \/ <>(Len(taken) = Objects * Cardinality(Producers))
    \/ <>[](pc[Consumer] = "poll" /\ first # NULL)
=============================================================================
