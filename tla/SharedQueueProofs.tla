-------------------------- MODULE SharedQueueProofs --------------------------
(***************************************************************************)
(* Theorems about SharedQueue: when all its threads take the same lock, as *)
(* they do around completed_threads, the queue hands over in order         *)
(* whatever the number of producers and of objects, and no access follows  *)
(* a NULL pointer.                                                         *)
(***************************************************************************)
EXTENDS SharedQueue, TLAPS, SequenceTheorems

OneLock == \A t \in Threads : LockOf[t] = LockOf[Consumer]
L == LockOf[Consumer]

Linking == {"testFirst", "testLast", "setFirst", "linkNext", "setLast", "setNext"}
Adding == Linking \cup {"malloc"}
Removing == {"testEmpty", "object", "compare", "clearFirst", "clearLast", "advance", "free"}
Inside(t) == pc[t] \in Adding \cup Removing

Items == Producers \X Nat
Values == Items \cup {Nothing}

TypeInv ==
    /\ next \in [Nodes -> Nodes \cup {NULL}] /\ object \in [Nodes -> Values]
    /\ node \in [Producers -> Nodes \cup {NULL}] /\ count \in [Producers -> Nat]
    /\ entered \in Seq(Items) /\ taken \in Seq(Values) /\ pointer \in Values

\* Who is inside has the lock.
LockInv ==
    /\ DOMAIN owner = {L} /\ owner[L] \in Threads \cup {Nobody} /\ DOMAIN pc = Threads
    /\ \A p \in Producers : pc[p] \in Adding \cup {"lock"}
    /\ pc[Consumer] \in Removing \cup {"poll", "lock"}
    /\ \A t \in Threads : Inside(t) <=> owner[L] = t

\* f gives the node of each object that was ever enqueued.  Those in the queue
\* are numbered from Lo to Hi, and their nodes from first to last are linked.
Lo == Len(taken) + 1
Hi == Len(entered)
Chained(f) == /\ \A j \in Lo .. Hi : f[j] \in Nodes /\ object[f[j]] = entered[j]
              /\ \A i, j \in Lo .. Hi : f[i] = f[j] => i = j
              /\ \A j \in Lo .. Hi - 1 : next[f[j]] = f[j + 1]
NodesTo(f, h) == {f[j] : j \in Lo .. h}
Ends(f) == /\ first = IF Lo <= Hi THEN f[Lo] ELSE NULL
           /\ last = IF Lo <= Hi THEN f[Hi] ELSE NULL
Closed(f) == Lo <= Hi => next[f[Hi]] = NULL

\* While p adds the node it has allocated, the node is next in f.
New(f, p) ==
    /\ node[p] \in Nodes /\ object[node[p]] = <<p, count[p] + 1>>
    /\ f[Hi + 1] = node[p] /\ node[p] \notin NodesTo(f, Hi)
    /\ allocated = NodesTo(f, Hi + 1)
ProducerAt(f, p) ==
    /\ pc[p] = "malloc" => Ends(f) /\ allocated = NodesTo(f, Hi)
    /\ pc[p] \in Linking => New(f, p)
    /\ pc[p] \in {"testFirst", "testLast", "setFirst", "linkNext"} => Ends(f)
    /\ pc[p] \in {"testLast", "setFirst"} => Lo > Hi
    /\ pc[p] = "linkNext" => Lo <= Hi
    /\ pc[p] \in {"setLast", "setNext"} =>
         first = f[Lo] /\ (Lo <= Hi => next[f[Hi]] = f[Hi + 1])
    /\ pc[p] = "setNext" => last = f[Hi + 1]

\* What the consumer has done to the first node.
ConsumerAt(f) ==
    LET at == pc[Consumer]
    IN /\ at \in Removing => allocated = NodesTo(f, Hi)
       /\ at \in {"testEmpty", "object", "compare", "clearFirst", "advance"} => Ends(f)
       /\ at \in Removing \ {"testEmpty"} => Lo <= Hi
       /\ at \in Removing \ {"testEmpty", "object"} => temp = f[Lo] /\ pointer = entered[Lo]
       /\ at \in {"clearFirst", "clearLast"} => Lo = Hi
       /\ at = "advance" => Lo < Hi
       /\ at = "clearLast" => first = NULL
       /\ at = "free" => /\ first = IF Lo < Hi THEN f[Lo + 1] ELSE NULL
                         /\ last = IF Lo < Hi THEN f[Hi] ELSE NULL

Shape(f) ==
    /\ Chained(f)
    /\ owner[L] = Nobody => Ends(f) /\ Closed(f) /\ allocated = NodesTo(f, Hi)
    /\ \A p \in Producers : ProducerAt(f, p)
    /\ ConsumerAt(f)

Nodal == [Nat -> Nodes \cup {NULL}]
QueueInv ==
    /\ ~crashed
    /\ Lo <= Hi + 1
    /\ \A j \in 1 .. Len(taken) : taken[j] = entered[j]
    /\ \E f \in Nodal : Shape(f)

\* Only who has something to enqueue is inside.
AddingInv == \A p \in Producers : pc[p] \in Adding => count[p] < Objects

Inv == TypeInv /\ LockInv /\ QueueInv /\ AddingInv

-----------------------------------------------------------------------------
(* The lock                                                                 *)

LEMMA Alone ==
    ASSUME LockInv, NEW t \in Threads, Inside(t)
    PROVE  owner[L] = t /\ owner[L] # Nobody /\ \A u \in Threads : u # t => ~Inside(u)
  BY NullAssumption DEF LockInv

LEMMA LockStep ==
    ASSUME OneLock, LockInv, [Next]_vars
    PROVE  LockInv'
  <1> USE DEF LockInv, Inside, Adding, Linking, Removing
  <1>1. Consumer \in Threads /\ Producers \subseteq Threads /\ Consumer \notin Producers /\ Nobody \notin Threads
    BY ConsumerAssumption, NullAssumption DEF Threads
  <1>2. \A t \in Threads : LockOf[t] = L
    BY DEF OneLock, L
  <1>3. ASSUME NEW t \in Threads, NEW label, NEW o, Goto(t, label), DOMAIN owner' = {L}, owner'[L] = o,
               t \in Producers => label \in Adding \cup {"lock"},
               t = Consumer => label \in Removing \cup {"poll", "lock"},
               IF label \in Adding \cup Removing THEN o = t ELSE o = Nobody,
               \A u \in Threads \ {t} : ~Inside(u)
        PROVE  LockInv'
    <2>1. /\ DOMAIN pc' = Threads /\ pc'[t] = label
          /\ \A u \in Threads \ {t} : pc'[u] = pc[u]
      BY <1>3 DEF Goto
    <2>2. \A u \in Threads : Inside(u)' <=> owner'[L] = u
      BY <1>1, <1>3, <2>1
    <2>3. \A p \in Producers : pc'[p] \in Adding \cup {"lock"}
      BY <1>1, <1>3, <2>1
    <2>4. pc'[Consumer] \in Removing \cup {"poll", "lock"}
      BY <1>1, <1>3, <2>1
    <2> QED BY <1>3, <2>1, <2>2, <2>3, <2>4 DEF L
  <1>4. ASSUME NEW t \in Threads, NEW label, t \in Producers => label = "malloc",
               t = Consumer => label = "testEmpty", Lock(t, label)
        PROVE  LockInv'
    <2>1. Goto(t, label) /\ DOMAIN owner' = {L} /\ owner'[L] = t /\ owner[L] = Nobody
      BY <1>2, <1>4 DEF Lock
    <2>2. \A u \in Threads : ~Inside(u)
      BY <1>1, <2>1
    <2>3. label \in {"malloc", "testEmpty"}
      BY <1>4 DEF Threads
    <2> QED BY <1>3, <1>4, <2>1, <2>2, <2>3
  <1>5. ASSUME NEW t \in Threads, NEW label, Inside(t), t \in Producers => label = "lock",
               t = Consumer => label = "poll", Unlock(t, label)
        PROVE  LockInv'
    <2>1. Goto(t, label) /\ DOMAIN owner' = {L} /\ owner'[L] = Nobody
      BY <1>2, <1>5 DEF Unlock
    <2>2. label \in {"lock", "poll"}
      BY <1>5 DEF Threads
    <2> QED BY <1>3, <1>5, <2>1, <2>2, Alone
  <1>6. ASSUME NEW t \in Threads, NEW label, Inside(t), t \in Producers => label \in Adding,
               t = Consumer => label \in Removing, Goto(t, label), owner' = owner
        PROVE  LockInv'
    <2>1. owner'[L] = t /\ DOMAIN owner' = {L}
      BY <1>6
    <2>2. label \in Adding \cup Removing
      BY <1>6 DEF Threads
    <2> QED BY <1>3, <1>6, <2>1, <2>2, Alone
  <1>7. ASSUME UNCHANGED <<owner, pc>>
        PROVE  LockInv'
    BY <1>7
  <1>8. ASSUME NEW p \in Producers, enqueue(p)
        PROVE  LockInv'
    <2>1. CASE ProducerLock(p)
      BY <1>1, <1>4, <2>1 DEF ProducerLock
    <2>2. CASE Malloc(p)
      BY <1>1, <1>6, <2>2 DEF Malloc, At
    <2>3. CASE TestFirst(p) \/ TestLast(p) \/ SetFirst(p) \/ SetLast(p)
      <3>1. pc[p] \in Adding /\ owner' = owner /\ \E label \in Adding : Goto(p, label)
        BY <2>3 DEF TestFirst, TestLast, SetFirst, SetLast, At
      <3> QED BY <1>1, <1>6, <3>1
    <2>4. CASE LinkNext(p)
      <3>1. pc[p] \in Adding /\ (UNCHANGED <<owner, pc>> \/ (owner' = owner /\ Goto(p, "setLast")))
        BY <2>4 DEF LinkNext, At, Crash
      <3> QED BY <1>1, <1>6, <1>7, <3>1
    <2>5. CASE SetNext(p)
      BY <1>1, <1>5, <2>5 DEF SetNext, At
    <2> QED BY <1>8, <2>1, <2>2, <2>3, <2>4, <2>5 DEF enqueue
  <1>9. CASE dequeue
    <2>1. CASE Poll
      BY <1>1, <2>1 DEF Poll, At, Goto
    <2>2. CASE Lock(Consumer, "testEmpty")
      BY <1>1, <1>4, <2>2
    <2>3. CASE TestEmpty
      <3>1. /\ pc[Consumer] = "testEmpty"
            /\ Unlock(Consumer, "poll") \/ (owner' = owner /\ Goto(Consumer, "object"))
        BY <2>3 DEF TestEmpty, At
      <3> QED BY <1>1, <1>5, <1>6, <3>1
    <2>4. CASE ReadObject \/ Compare \/ ClearFirst \/ ClearLast \/ Advance
      <3>1. /\ pc[Consumer] \in Removing /\ owner' = owner
            /\ \E label \in Removing : Goto(Consumer, label)
        BY <2>4 DEF ReadObject, Compare, ClearFirst, ClearLast, Advance, At
      <3> QED BY <1>1, <1>6, <3>1
    <2>5. CASE Free
      <3>1. /\ pc[Consumer] = "free"
            /\ UNCHANGED <<owner, pc>> \/ (owner' = owner /\ Goto(Consumer, "testEmpty"))
        BY <2>5 DEF Free, At, Crash
      <3> QED BY <1>1, <1>6, <1>7, <3>1
    <2> QED BY <1>9, <2>1, <2>2, <2>3, <2>4, <2>5 DEF dequeue, Collect
  <1>10. CASE Ended \/ UNCHANGED vars
    BY <1>7, <1>10 DEF Ended, vars
  <1> QED BY <1>8, <1>9, <1>10 DEF Next

-----------------------------------------------------------------------------
(* The list                                                                 *)

\* A step keeps types as long as the first node is one when it is read.
LEMMA TypeStep ==
    ASSUME TypeInv, LockInv, QueueInv, [Next]_vars
    PROVE  TypeInv'
  <1> USE DEF TypeInv
  <1>1. CASE UNCHANGED <<memory, queue, locals, history>>
    BY <1>1 DEF memory, locals, history, queue
  <1>2. ASSUME NEW p \in Producers, enqueue(p)
        PROVE  TypeInv'
    <2>1. CASE ProducerLock(p) \/ TestFirst(p) \/ TestLast(p)
      BY <1>1, <2>1 DEF ProducerLock, Lock, TestFirst, TestLast, memory, locals, history, queue
    <2>2. CASE Malloc(p)
      <3>1. PICK n \in Nodes, garbage \in Nodes \cup {NULL} :
                /\ node' = [node EXCEPT ![p] = n] /\ next' = [next EXCEPT ![n] = garbage]
                /\ object' = [object EXCEPT ![n] = <<p, count[p] + 1>>]
                /\ UNCHANGED <<count, entered, taken, pointer>>
        BY <2>2 DEF Malloc, history
      <3>2. <<p, count[p] + 1>> \in Values
        BY DEF Items, Values
      <3> QED BY <3>1, <3>2
    <2>3. CASE SetFirst(p) \/ SetLast(p)
      BY <2>3 DEF SetFirst, SetLast, memory, locals, history
    <2>4. CASE LinkNext(p)
      BY <2>4 DEF LinkNext, Crash, memory, locals, history, queue
    <2>5. CASE SetNext(p)
      <3>1. <<p, count[p] + 1>> \in Items
        BY DEF Items
      <3>2. Append(entered, <<p, count[p] + 1>>) \in Seq(Items)
        BY <3>1, AppendProperties
      <3>3. /\ entered' = Append(entered, <<p, count[p] + 1>>)
            /\ UNCHANGED <<object, node, taken, pointer>>
            /\ next' = [next EXCEPT ![node[p]] = NULL] /\ count' = [count EXCEPT ![p] = @ + 1]
        BY <2>5 DEF SetNext, Terminated
      <3>4. next' \in [Nodes -> Nodes \cup {NULL}]
        BY <3>3
      <3>5. count[p] + 1 \in Nat
        OBVIOUS
      <3>6. count' \in [Producers -> Nat]
        BY <3>3, <3>5
      <3> QED BY <3>2, <3>3, <3>4, <3>6
    <2> QED BY <1>2, <2>1, <2>2, <2>3, <2>4, <2>5 DEF enqueue
  <1>3. CASE dequeue
    <2>1. CASE Poll \/ Lock(Consumer, "testEmpty") \/ TestEmpty \/ Compare
      BY <1>1, <2>1 DEF Poll, Lock, TestEmpty, Compare
    <2>2. CASE ReadObject
      <3>1. pc[Consumer] = "object"
        BY <2>2 DEF ReadObject, At
      <3>2. first \in Nodes
        <4>1. PICK f \in Nodal : Shape(f)
          BY DEF QueueInv
        <4>2. Lo <= Hi /\ Ends(f)
          BY <3>1, <4>1 DEF Shape, ConsumerAt, Removing
        <4>3. Lo \in Lo .. Hi
          BY <4>2, LenProperties DEF Lo, Hi
        <4> QED BY <4>1, <4>2, <4>3 DEF Shape, Chained, Ends
      <3> QED BY <2>2, <3>2 DEF ReadObject, memory, history
    <2>3. CASE ClearFirst \/ ClearLast \/ Advance
      BY <2>3 DEF ClearFirst, ClearLast, Advance, memory, locals, history
    <2>4. CASE Free
      <3>1. Append(taken, pointer) \in Seq(Values)
        BY AppendProperties
      <3> QED BY <1>1, <2>4, <3>1 DEF Free, Crash, locals
    <2> QED BY <1>3, <2>1, <2>2, <2>3, <2>4 DEF dequeue, Collect
  <1>4. CASE Ended \/ UNCHANGED vars
    BY <1>1, <1>4 DEF Ended, vars
  <1> QED BY <1>2, <1>3, <1>4 DEF Next

LEMMA AddingStep ==
    ASSUME TypeInv, LockInv, AddingInv, [Next]_vars
    PROVE  AddingInv'
  <1> USE DEF AddingInv
  <1>1. CASE UNCHANGED <<pc, count>>
    BY <1>1
  <1>2. ASSUME NEW p \in Producers, enqueue(p)
        PROVE  AddingInv'
    <2>1. \/ UNCHANGED <<pc, count>>
          \/ count' = count /\ count[p] < Objects /\ \E label : pc' = [pc EXCEPT ![p] = label]
          \/ count' = [count EXCEPT ![p] = @ + 1] /\ pc' = [pc EXCEPT ![p] = "lock"]
      <3>1. CASE ProducerLock(p)
        BY <3>1 DEF ProducerLock, Lock, Goto, locals
      <3>2. CASE Malloc(p) \/ TestFirst(p) \/ TestLast(p) \/ SetFirst(p) \/ LinkNext(p) \/ SetLast(p)
        <4>1. pc[p] \in Adding
          BY <3>2 DEF Malloc, TestFirst, TestLast, SetFirst, LinkNext, SetLast, At, Adding, Linking
        <4> QED BY <3>2, <4>1 DEF Malloc, TestFirst, TestLast, SetFirst, LinkNext, SetLast, Goto, Crash,
                                 locals
      <3>3. CASE SetNext(p)
        BY <3>3 DEF SetNext, Unlock, Goto
      <3> QED BY <1>2, <3>1, <3>2, <3>3 DEF enqueue
    <2>2. \A q \in Producers : q # p => pc'[q] = pc[q] /\ count'[q] = count[q]
      BY <2>1 DEF TypeInv, LockInv, Threads
    <2>3. pc'[p] \in Adding => count'[p] < Objects
      BY <2>1 DEF TypeInv, LockInv, Threads, Adding, Linking
    <2> QED BY <2>2, <2>3
  <1>3. CASE dequeue
    <2>1. count' = count /\ (pc' = pc \/ \E label : pc' = [pc EXCEPT ![Consumer] = label])
      BY <1>3 DEF dequeue, Collect, Poll, Lock, TestEmpty, ReadObject, Compare, ClearFirst, ClearLast, Advance, Free,
                  Goto, Unlock, Crash, locals
    <2>2. \A q \in Producers : pc'[q] = pc[q]
      BY <2>1, ConsumerAssumption DEF LockInv, Threads
    <2> QED BY <2>1, <2>2
  <1>4. CASE Ended \/ UNCHANGED vars
    BY <1>1, <1>4 DEF Ended, vars, locals
  <1> QED BY <1>2, <1>3, <1>4 DEF Next

LEMMA QueueStep ==
    ASSUME OneLock, Inv, LockInv', [Next]_vars
    PROVE  QueueInv'
  <1> USE DEF Inv
  <1>1. /\ Consumer \in Threads /\ Producers \subseteq Threads /\ Consumer \notin Producers
        /\ Nobody \notin Threads /\ NULL \notin Nodes
    BY ConsumerAssumption, NullAssumption DEF Threads
  <1>2. Len(taken) \in Nat /\ Len(entered) \in Nat /\ Lo \in Nat /\ Hi \in Nat /\ Lo <= Hi + 1
    BY LenProperties DEF TypeInv, QueueInv, Lo, Hi
  <1>3. PICK f \in Nodal : Shape(f)
    BY DEF QueueInv
  \* What a state has to show, by who is inside.
  <1>4. ASSUME NEW p \in Producers, Inside(p)', NEW g \in Nodal, Chained(g)', ProducerAt(g, p)'
        PROVE  Shape(g)'
    <2>1. \A t \in Threads : t # p => ~Inside(t)'
      BY <1>1, <1>4 DEF LockInv
    <2>2. owner'[L] # Nobody
      BY <1>1, <1>4 DEF LockInv, L
    <2>3. ConsumerAt(g)'
      BY <1>1, <2>1 DEF Inside, ConsumerAt, Adding, Removing
    <2>4. \A q \in Producers : ProducerAt(g, q)'
      BY <1>1, <1>4, <2>1 DEF Inside, ProducerAt, Adding, Linking
    <2> QED BY <1>4, <2>2, <2>3, <2>4 DEF Shape, L
  <1>5. ASSUME Inside(Consumer)', NEW g \in Nodal, Chained(g)', ConsumerAt(g)'
        PROVE  Shape(g)'
    <2>1. \A t \in Threads : t # Consumer => ~Inside(t)'
      BY <1>1, <1>5 DEF LockInv
    <2>2. owner'[L] # Nobody
      BY <1>1, <1>5 DEF LockInv, L
    <2>3. \A q \in Producers : ProducerAt(g, q)'
      BY <1>1, <2>1 DEF Inside, ProducerAt, Adding, Linking
    <2> QED BY <1>5, <2>2, <2>3 DEF Shape, L
  <1>6. ASSUME owner'[L] = Nobody, NEW g \in Nodal, Chained(g)', Ends(g)', Closed(g)',
               (allocated = NodesTo(g, Hi))'
        PROVE  Shape(g)'
    <2>1. \A t \in Threads : ~Inside(t)'
      BY <1>1, <1>6 DEF LockInv, L
    <2>2. \A q \in Producers : ProducerAt(g, q)'
      BY <1>1, <2>1 DEF Inside, ProducerAt, Adding, Linking
    <2>3. ConsumerAt(g)'
      BY <1>1, <2>1 DEF Inside, ConsumerAt, Adding, Removing
    <2> QED BY <1>6, <2>2, <2>3 DEF Shape, L
  <1>7. CASE Ended \/ UNCHANGED vars
    <2>1. UNCHANGED vars
      BY <1>7 DEF Ended
    <2>2. Lo' = Lo /\ Hi' = Hi /\ crashed' = crashed /\ UNCHANGED <<taken, entered>>
      BY <2>1 DEF vars, history, Lo, Hi
    <2>3. Shape(f)'
      BY <1>3, <2>1, <2>2 DEF vars, memory, queue, locals, history, Shape, Chained, Ends, Closed, NodesTo,
                               ProducerAt, New, ConsumerAt
    <2> QED BY <2>2, <2>3 DEF QueueInv
  \* Steps that neither enqueue nor dequeue.
  <1>8. ASSUME UNCHANGED <<entered, taken, crashed>>, NEW g \in Nodal, Shape(g)'
        PROVE  QueueInv'
    <2>1. Lo' = Lo /\ Hi' = Hi
      BY <1>8 DEF Lo, Hi
    <2> QED BY <1>8, <2>1 DEF QueueInv
  <1>9. ASSUME UNCHANGED <<entered, taken, next, object>>
        PROVE  /\ Lo' = Lo /\ Hi' = Hi /\ Chained(f)'
               /\ \A h \in Int : NodesTo(f, h)' = NodesTo(f, h)
    <2>1. Lo' = Lo /\ Hi' = Hi
      BY <1>9 DEF Lo, Hi
    <2> QED BY <1>3, <1>9, <2>1 DEF Shape, Chained, NodesTo
  <1>10. ASSUME NEW p \in Producers, enqueue(p)
         PROVE  QueueInv'
    <2>1. CASE ProducerLock(p)
      <3>1. /\ owner[L] = Nobody /\ pc'[p] = "malloc"
            /\ UNCHANGED <<memory, queue, locals, history, crashed>>
        BY <1>1, <2>1 DEF ProducerLock, Lock, Goto, LockInv, OneLock, L
      <3>2. Ends(f) /\ allocated = NodesTo(f, Hi)
        BY <1>3, <3>1 DEF Shape
      <3>3. Ends(f)' /\ (allocated = NodesTo(f, Hi))' /\ Chained(f)'
        BY <1>2, <1>9, <3>1, <3>2 DEF Ends, memory, queue, history
      <3>4. Inside(p)' /\ ProducerAt(f, p)'
        BY <3>1, <3>3 DEF ProducerAt, Inside, Adding, Linking
      <3> QED BY <1>4, <1>8, <3>1, <3>3, <3>4 DEF history
    <2>2. CASE Malloc(p)
      <3>1. PICK n \in Nodes \ allocated, garbage \in Nodes \cup {NULL} :
                /\ node' = [node EXCEPT ![p] = n] /\ next' = [next EXCEPT ![n] = garbage]
                /\ object' = [object EXCEPT ![n] = <<p, count[p] + 1>>]
                /\ allocated' = allocated \cup {n}
        BY <2>2 DEF Malloc
      <3>2. /\ pc[p] = "malloc" /\ pc'[p] = "testFirst"
            /\ UNCHANGED <<first, last, count, entered, taken, crashed>>
        BY <1>1, <2>2 DEF Malloc, At, Goto, LockInv, queue, history
      <3>3. Ends(f) /\ allocated = NodesTo(f, Hi) /\ Chained(f)
        BY <1>3, <3>2 DEF Shape, ProducerAt
      <3>4. Lo' = Lo /\ Hi' = Hi
        BY <3>2 DEF Lo, Hi
      <3>5. PICK g \in Nodal : /\ g[Hi + 1] = n
                              /\ \A j \in Lo .. Hi : g[j] = f[j] /\ g[j] # n
        <4> DEFINE h == [f EXCEPT ![Hi + 1] = n]
        <4>1. h \in Nodal /\ h[Hi + 1] = n /\ \A j \in Lo .. Hi : h[j] = f[j] /\ h[j] # n
          BY <1>2, <3>1, <3>3 DEF Nodal, NodesTo
        <4> QED BY <4>1
      <3>6. Chained(g)'
        <4>1. \A j \in Lo .. Hi : g[j] \in Nodes /\ object'[g[j]] = entered[j]
          BY <3>1, <3>3, <3>5 DEF Chained, TypeInv
        <4>2. \A i, j \in Lo .. Hi : g[i] = g[j] => i = j
          BY <3>3, <3>5 DEF Chained
        <4>3. \A j \in Lo .. Hi - 1 : next'[g[j]] = g[j + 1]
          <5> SUFFICES ASSUME NEW j \in Lo .. Hi - 1 PROVE next'[g[j]] = g[j + 1]
            OBVIOUS
          <5>1. j \in Lo .. Hi /\ j + 1 \in Lo .. Hi
            BY <1>2
          <5>2. next'[g[j]] = next[f[j]]
            BY <3>1, <3>5, <5>1 DEF TypeInv
          <5> QED BY <3>3, <3>5, <5>1, <5>2 DEF Chained
        <4> QED BY <3>2, <3>4, <4>1, <4>2, <4>3 DEF Chained
      <3>7. Ends(g)'
        <4>1. Lo <= Hi => Lo \in Lo .. Hi /\ Hi \in Lo .. Hi
          BY <1>2
        <4> QED BY <3>2, <3>3, <3>4, <3>5, <4>1 DEF Ends
      <3>8. New(g, p)'
        <4>1. node'[p] = n /\ object'[n] = <<p, count[p] + 1>>
          BY <3>1 DEF TypeInv
        <4>2. n \notin NodesTo(g, Hi)
          BY <3>5 DEF NodesTo
        <4>3. NodesTo(g, Hi + 1) = NodesTo(f, Hi) \cup {n}
          BY <1>2, <3>5 DEF NodesTo
        <4>4. NodesTo(g, Hi)' = NodesTo(g, Hi) /\ NodesTo(g, Hi + 1)' = NodesTo(g, Hi + 1)
          BY <3>4 DEF NodesTo
        <4> QED BY <3>1, <3>2, <3>3, <3>4, <3>5, <4>1, <4>2, <4>3, <4>4 DEF New
      <3>9. Inside(p)' /\ ProducerAt(g, p)'
        BY <3>2, <3>7, <3>8 DEF ProducerAt, Inside, Adding, Linking
      <3> QED BY <1>4, <1>8, <3>2, <3>5, <3>6, <3>9
    \* From here on the new node is in place.
    <2>3. ASSUME pc[p] \in Linking, pc'[p] \in Linking, UNCHANGED <<locals, history, crashed, object, allocated>>,
                 \A j \in Lo .. Hi - 1 : next'[f[j]] = next[f[j]],
                 /\ pc'[p] \in {"testFirst", "testLast", "setFirst", "linkNext"} => UNCHANGED <<queue, next>>
                 /\ pc'[p] \in {"testLast", "setFirst"} => Lo > Hi
                 /\ pc'[p] = "linkNext" => Lo <= Hi
                 /\ pc'[p] \in {"setLast", "setNext"} =>
                      first' = f[Lo] /\ (Lo <= Hi => next'[f[Hi]] = f[Hi + 1])
                 /\ pc'[p] = "setNext" => last' = f[Hi + 1],
                 Ends(f) \/ pc'[p] \in {"setLast", "setNext"}
          PROVE  QueueInv'
      <3>1. Lo' = Lo /\ Hi' = Hi
        BY <2>3 DEF Lo, Hi, history
      <3>2. Chained(f)'
        BY <1>3, <2>3, <3>1 DEF Shape, Chained, history
      <3>3. New(f, p)'
        BY <1>3, <2>3, <3>1 DEF Shape, ProducerAt, New, NodesTo, locals
      <3>4. Ends(f) /\ UNCHANGED queue => Ends(f)'
        BY <3>1 DEF Ends, queue
      <3>5. ProducerAt(f, p)' /\ Inside(p)'
        BY <2>3, <3>1, <3>3, <3>4 DEF ProducerAt, Inside, Adding, Linking
      <3> QED BY <1>3, <1>4, <1>8, <2>3, <3>2, <3>5 DEF history
    <2>4. pc[p] \in Linking => ProducerAt(f, p) /\ New(f, p) /\ DOMAIN pc = Threads
      BY <1>3 DEF Shape, ProducerAt, LockInv
    <2>5. Lo <= Hi => Lo \in Lo .. Hi /\ Hi \in Lo .. Hi /\ f[Lo] # NULL /\ f[Hi] # NULL
      BY <1>1, <1>2, <1>3 DEF Shape, Chained
    <2>6. CASE TestFirst(p)
      <3>1. /\ pc[p] = "testFirst" /\ pc' = [pc EXCEPT ![p] = IF first = NULL THEN "testLast" ELSE "linkNext"]
            /\ UNCHANGED <<memory, queue, locals, history, crashed>>
        BY <2>6 DEF TestFirst, At, Goto
      <3>2. /\ pc'[p] = IF first = NULL THEN "testLast" ELSE "linkNext"
            /\ Ends(f)
        BY <1>1, <2>4, <3>1 DEF Linking, ProducerAt
      <3>3. first = NULL => Lo > Hi
        BY <1>2, <2>5, <3>2 DEF Ends
      <3>4. first # NULL => Lo <= Hi
        BY <1>2, <3>2 DEF Ends
      <3> QED BY <2>3, <3>1, <3>2, <3>3, <3>4 DEF memory, Linking
    <2>7. CASE TestLast(p)
      <3>1. /\ pc[p] = "testLast" /\ pc' = [pc EXCEPT ![p] = IF last = NULL THEN "setFirst" ELSE "linkNext"]
            /\ UNCHANGED <<memory, queue, locals, history, crashed>>
        BY <2>7 DEF TestLast, At, Goto
      <3>2. Ends(f) /\ Lo > Hi
        BY <2>4, <3>1 DEF Linking, ProducerAt
      <3>3. last = NULL
        BY <1>2, <3>2 DEF Ends
      <3>4. pc'[p] = "setFirst"
        BY <1>1, <2>4, <3>1, <3>3 DEF Linking
      <3> QED BY <2>3, <3>1, <3>2, <3>4 DEF memory, Linking
    <2>8. CASE SetFirst(p)
      <3>1. /\ pc[p] = "setFirst" /\ pc' = [pc EXCEPT ![p] = "setLast"] /\ first' = node[p]
            /\ UNCHANGED <<memory, locals, history, crashed>>
        BY <2>8 DEF SetFirst, At, Goto
      <3>2. Lo > Hi /\ f[Hi + 1] = node[p] /\ pc'[p] = "setLast"
        BY <1>1, <2>4, <3>1 DEF Linking, ProducerAt, New
      <3>3. Hi + 1 = Lo
        BY <1>2, <3>2
      <3>4. ~(Lo <= Hi)
        BY <1>2, <3>2
      <3> QED BY <2>3, <3>1, <3>2, <3>3, <3>4 DEF memory, Linking
    <2>9. CASE LinkNext(p)
      <3>1. pc[p] = "linkNext"
        BY <2>9 DEF LinkNext, At
      <3>2. Ends(f) /\ Lo <= Hi /\ last = f[Hi] /\ first = f[Lo] /\ f[Hi] \in Nodes
        BY <1>3, <2>4, <2>5, <3>1 DEF Linking, ProducerAt, Ends, Shape, Chained
      <3>3. /\ next' = [next EXCEPT ![last] = node[p]] /\ pc' = [pc EXCEPT ![p] = "setLast"]
            /\ UNCHANGED <<object, allocated, queue, locals, history, crashed>>
        BY <2>5, <2>9, <3>2 DEF LinkNext, Goto
      <3>4. pc'[p] = "setLast" /\ f[Hi + 1] = node[p]
        BY <1>1, <2>4, <3>1, <3>3 DEF Linking, New
      <3>5. \A j \in Lo .. Hi - 1 : j \in Lo .. Hi /\ j # Hi
        BY <1>2
      <3>6. \A j \in Lo .. Hi - 1 : f[j] # f[Hi] /\ f[j] \in Nodes
        BY <1>3, <2>5, <3>2, <3>5 DEF Shape, Chained
      <3>7. \A j \in Lo .. Hi - 1 : next'[f[j]] = next[f[j]]
        BY <3>2, <3>3, <3>6 DEF TypeInv
      <3>8. next'[f[Hi]] = f[Hi + 1]
        BY <3>2, <3>3, <3>4 DEF TypeInv
      <3>9. first' = f[Lo]
        BY <3>2, <3>3 DEF queue
      <3> QED BY <2>3, <3>1, <3>3, <3>4, <3>7, <3>8, <3>9 DEF Linking
    <2>10. CASE SetLast(p)
      <3>1. /\ pc[p] = "setLast" /\ pc' = [pc EXCEPT ![p] = "setNext"] /\ last' = node[p]
            /\ UNCHANGED <<memory, first, locals, history, crashed>>
        BY <2>10 DEF SetLast, At, Goto
      <3>2. /\ f[Hi + 1] = node[p] /\ pc'[p] = "setNext"
            /\ first = f[Lo] /\ (Lo <= Hi => next[f[Hi]] = f[Hi + 1])
        BY <1>1, <2>4, <3>1 DEF Linking, ProducerAt, New
      <3> QED BY <2>3, <3>1, <3>2 DEF memory, Linking
    <2>11. CASE SetNext(p)
      <3>1. /\ pc[p] = "setNext" /\ entered' = Append(entered, <<p, count[p] + 1>>)
            /\ next' = [next EXCEPT ![node[p]] = NULL] /\ owner'[L] = Nobody
            /\ UNCHANGED <<object, allocated, queue, taken, crashed>>
        <4>1. LockOf[p] = L /\ L \in DOMAIN owner
          BY <1>1 DEF OneLock, L, LockInv
        <4> QED BY <2>11, <4>1 DEF SetNext, Terminated, At, Unlock
      <3>2. /\ node[p] \in Nodes /\ object[node[p]] = <<p, count[p] + 1>> /\ f[Hi + 1] = node[p]
            /\ node[p] \notin NodesTo(f, Hi) /\ allocated = NodesTo(f, Hi + 1)
            /\ first = f[Lo] /\ (Lo <= Hi => next[f[Hi]] = f[Hi + 1]) /\ last = f[Hi + 1]
        BY <2>4, <3>1 DEF Linking, ProducerAt, New
      <3>3. /\ Lo' = Lo /\ Hi' = Hi + 1 /\ entered'[Hi + 1] = <<p, count[p] + 1>>
            /\ \A j \in 1 .. Hi : entered'[j] = entered[j]
        <4>1. <<p, count[p] + 1>> \in Items
          BY DEF Items, TypeInv
        <4> QED BY <3>1, <4>1, AppendProperties DEF Lo, Hi, TypeInv
      <3>4. Chained(f)'
        <4>1. \A j \in Lo .. Hi + 1 : j \in Lo .. Hi \/ j = Hi + 1
          BY <1>2
        <4>2. \A j \in Lo .. Hi : f[j] # node[p]
          BY <3>2 DEF NodesTo
        <4>3. \A j \in Lo .. Hi + 1 : f[j] \in Nodes /\ object'[f[j]] = entered'[j]
          <5>1. \A j \in Lo .. Hi : j \in 1 .. Hi
            BY <1>2 DEF Lo
          <5> QED BY <1>3, <3>1, <3>2, <3>3, <4>1, <5>1 DEF Shape, Chained
        <4>4. \A i, j \in Lo .. Hi + 1 : f[i] = f[j] => i = j
          BY <1>3, <3>2, <4>1, <4>2 DEF Shape, Chained
        <4>5. \A j \in Lo .. Hi : next'[f[j]] = f[j + 1]
          <5> SUFFICES ASSUME NEW j \in Lo .. Hi PROVE next'[f[j]] = f[j + 1]
            OBVIOUS
          <5>1. f[j] \in Nodes /\ f[j] # node[p]
            BY <1>3, <4>2 DEF Shape, Chained
          <5>2. next'[f[j]] = next[f[j]]
            BY <3>1, <5>1 DEF TypeInv
          <5>3. j \in Lo .. Hi - 1 \/ (j = Hi /\ Lo <= Hi)
            BY <1>2
          <5> QED BY <1>3, <3>2, <5>2, <5>3 DEF Shape, Chained
        <4>6. Lo' .. Hi' = Lo .. Hi + 1 /\ Lo' .. Hi' - 1 = Lo .. Hi
          BY <1>2, <3>3
        <4>7. \A i, j \in Lo' .. Hi' : f[i] = f[j] => i = j
          BY <4>4, <4>6
        <4> QED BY <4>3, <4>5, <4>6, <4>7 DEF Chained
      <3>5. Ends(f)'
        BY <1>2, <3>1, <3>2, <3>3 DEF Ends, queue
      <3>6. (allocated = NodesTo(f, Hi))'
        BY <3>1, <3>2, <3>3 DEF NodesTo
      <3>7. Shape(f)'
        <4>1. Closed(f)'
          BY <3>1, <3>2, <3>3 DEF Closed, TypeInv
        <4> QED BY <1>3, <1>6, <3>1, <3>4, <3>5, <3>6, <4>1
      <3>8. \A j \in 1 .. Len(taken) : j \in 1 .. Hi
        BY <1>2 DEF Lo
      <3>9. \A j \in 1 .. Len(taken) : taken'[j] = entered'[j]
        BY <3>1, <3>3, <3>8 DEF QueueInv
      <3>10. Lo' <= Hi' + 1
        BY <1>2, <3>3
      <3> QED BY <1>3, <3>1, <3>7, <3>9, <3>10 DEF QueueInv
    <2> QED BY <1>10, <2>1, <2>2, <2>6, <2>7, <2>8, <2>9, <2>10, <2>11 DEF enqueue
  <1>11. CASE dequeue
    <2>1. pc[Consumer] \in Removing => ConsumerAt(f) /\ allocated = NodesTo(f, Hi)
      BY <1>3 DEF Shape, ConsumerAt
    <2>2. Lo <= Hi => Lo \in Lo .. Hi /\ Hi \in Lo .. Hi /\ f[Lo] \in Nodes /\ f[Lo] # NULL /\ f[Hi] # NULL
      BY <1>1, <1>2, <1>3 DEF Shape, Chained
    \* The steps that leave the nodes alone.
    <2>3. ASSUME UNCHANGED <<memory, history, crashed>>, Inside(Consumer)', ConsumerAt(f)'
          PROVE  QueueInv'
      BY <1>3, <1>5, <1>8, <1>9, <2>3 DEF memory, history
    <2>4. ASSUME UNCHANGED <<memory, history, crashed>>, pc' = [pc EXCEPT ![Consumer] = pc'[Consumer]],
                 allocated = NodesTo(f, Hi)
          PROVE  /\ Lo' = Lo /\ Hi' = Hi /\ (allocated = NodesTo(f, Hi))'
                 /\ Ends(f) /\ UNCHANGED queue => Ends(f)'
      BY <1>2, <1>9, <2>4 DEF memory, history, Ends, queue
    <2>5. CASE Poll
      <3>1. pc[Consumer] = "poll" /\ UNCHANGED <<memory, queue, locals, history, owner, crashed>>
        BY <2>5 DEF Poll, At
      <3>2. pc' = [pc EXCEPT ![Consumer] = "lock"]
        BY <2>5 DEF Poll, Goto
      <3>3. \A p \in Producers : pc'[p] = pc[p]
        BY <1>1, <3>2 DEF LockInv
      <3>4. pc'[Consumer] = "lock"
        BY <1>1, <3>2 DEF LockInv
      <3>5. Lo' = Lo /\ Hi' = Hi /\ Chained(f)' /\ NodesTo(f, Hi)' = NodesTo(f, Hi)
            /\ NodesTo(f, Hi + 1)' = NodesTo(f, Hi + 1)
        BY <1>2, <1>9, <3>1 DEF memory, history
      <3>6. Ends(f)' = Ends(f) /\ \A p \in Producers : New(f, p)' = New(f, p)
        BY <1>2, <3>1, <3>5 DEF Ends, New, queue, memory, locals
      <3>7. \A p \in Producers : ProducerAt(f, p)'
        <4> SUFFICES ASSUME NEW p \in Producers PROVE ProducerAt(f, p)'
          OBVIOUS
        <4>1. ProducerAt(f, p) /\ pc'[p] = pc[p]
          BY <1>3, <3>3 DEF Shape
        <4> QED BY <3>1, <3>5, <3>6, <4>1 DEF ProducerAt, queue, memory
      <3>8. ConsumerAt(f)'
        BY <3>4 DEF ConsumerAt, Removing
      <3>9. (owner[L] = Nobody => Ends(f) /\ Closed(f) /\ allocated = NodesTo(f, Hi))'
        BY <1>3, <3>1, <3>5, <3>6 DEF Shape, Closed, memory, L
      <3>10. Shape(f)'
        BY <3>5, <3>7, <3>8, <3>9 DEF Shape
      <3> QED BY <1>3, <1>8, <3>1, <3>10 DEF history
    <2>6. CASE Lock(Consumer, "testEmpty")
      <3>1. /\ owner[L] = Nobody /\ pc' = [pc EXCEPT ![Consumer] = "testEmpty"]
            /\ UNCHANGED <<memory, queue, locals, history, crashed>>
        BY <2>6 DEF Lock, Goto, L
      <3>2. pc'[Consumer] = "testEmpty" /\ Ends(f) /\ allocated = NodesTo(f, Hi)
        BY <1>1, <1>3, <3>1 DEF Shape, LockInv
      <3> QED BY <2>3, <2>4, <3>1, <3>2 DEF ConsumerAt, Removing, Inside
    <2>7. CASE TestEmpty
      <3>1. pc[Consumer] = "testEmpty" /\ UNCHANGED <<memory, queue, locals, history, crashed>>
        BY <2>7 DEF TestEmpty, At
      <3>2. Ends(f) /\ allocated = NodesTo(f, Hi)
        BY <2>1, <3>1 DEF ConsumerAt, Removing
      <3>3. CASE first = NULL
        <4>1. owner'[L] = Nobody
          BY <1>1, <2>7, <3>3 DEF TestEmpty, Unlock, LockInv, L
        <4>2. Ends(f)' /\ (allocated = NodesTo(f, Hi))' /\ Chained(f)'
          BY <1>2, <1>9, <3>1, <3>2 DEF memory, history, Ends, queue
        <4>3. Closed(f)'
          BY <1>9, <2>2, <3>1, <3>2, <3>3 DEF Closed, Ends, memory, history
        <4> QED BY <1>3, <1>6, <1>8, <3>1, <4>1, <4>2, <4>3 DEF history
      <3>4. CASE first # NULL
        <4>1. pc' = [pc EXCEPT ![Consumer] = "object"] /\ Lo <= Hi
          BY <1>2, <2>7, <3>2, <3>4 DEF TestEmpty, Goto, Ends
        <4>2. pc'[Consumer] = "object"
          BY <1>1, <4>1 DEF LockInv
        <4> QED BY <2>3, <2>4, <3>1, <3>2, <4>1, <4>2 DEF ConsumerAt, Removing, Inside
      <3> QED BY <3>3, <3>4
    <2>8. CASE ReadObject
      <3>1. /\ pc[Consumer] = "object" /\ pc' = [pc EXCEPT ![Consumer] = "compare"]
            /\ pointer' = object[first] /\ temp' = first /\ UNCHANGED <<memory, queue, history, crashed>>
        BY <2>8 DEF ReadObject, At, Goto
      <3>2. Ends(f) /\ Lo <= Hi /\ allocated = NodesTo(f, Hi)
        BY <2>1, <3>1 DEF ConsumerAt, Removing
      <3>3. temp' = f[Lo] /\ pointer' = entered[Lo] /\ pc'[Consumer] = "compare"
        BY <1>1, <1>3, <2>2, <3>1, <3>2 DEF Ends, Shape, Chained, LockInv
      <3>4. entered' = entered
        BY <3>1 DEF history
      <3> QED BY <2>3, <2>4, <3>1, <3>2, <3>3, <3>4 DEF ConsumerAt, Removing, Inside
    <2>9. CASE Compare
      <3>1. /\ pc[Consumer] = "compare"
            /\ pc' = [pc EXCEPT ![Consumer] = IF first = last THEN "clearFirst" ELSE "advance"]
            /\ UNCHANGED <<memory, queue, locals, history, crashed>>
        BY <2>9 DEF Compare, At, Goto
      <3>2. Ends(f) /\ Lo <= Hi /\ allocated = NodesTo(f, Hi) /\ temp = f[Lo] /\ pointer = entered[Lo]
        BY <2>1, <3>1 DEF ConsumerAt, Removing
      <3>3. first = last <=> Lo = Hi
        BY <1>2, <1>3, <2>2, <3>2 DEF Ends, Shape, Chained
      <3>4. /\ pc'[Consumer] = IF Lo = Hi THEN "clearFirst" ELSE "advance"
            /\ Lo # Hi => Lo < Hi
        BY <1>1, <1>2, <3>1, <3>2, <3>3 DEF LockInv
      <3>5. UNCHANGED <<entered, temp, pointer>>
        BY <3>1 DEF history, locals
      <3>6. Lo' = Lo /\ Hi' = Hi /\ (allocated = NodesTo(f, Hi))' /\ Ends(f)'
        BY <2>4, <3>1, <3>2, <3>4
      <3> QED BY <2>3, <3>1, <3>2, <3>4, <3>5, <3>6 DEF ConsumerAt, Removing, Inside
    <2>10. CASE ClearFirst
      <3>1. /\ pc[Consumer] = "clearFirst" /\ pc' = [pc EXCEPT ![Consumer] = "clearLast"]
            /\ first' = NULL /\ UNCHANGED <<memory, locals, history, crashed>>
        BY <2>10 DEF ClearFirst, At, Goto
      <3>2. Lo = Hi /\ allocated = NodesTo(f, Hi) /\ temp = f[Lo] /\ pointer = entered[Lo]
        BY <2>1, <3>1 DEF ConsumerAt, Removing
      <3>3. pc'[Consumer] = "clearLast" /\ UNCHANGED <<entered, temp, pointer>>
        BY <1>1, <3>1 DEF LockInv, history, locals
      <3>4. Lo' = Lo /\ Hi' = Hi /\ (allocated = NodesTo(f, Hi))'
        BY <2>4, <3>1, <3>2, <3>3
      <3> QED BY <1>2, <2>3, <3>1, <3>2, <3>3, <3>4 DEF ConsumerAt, Removing, Inside
    <2>11. CASE ClearLast
      <3>1. /\ pc[Consumer] = "clearLast" /\ pc' = [pc EXCEPT ![Consumer] = "free"]
            /\ last' = NULL /\ UNCHANGED <<first, memory, locals, history, crashed>>
        BY <2>11 DEF ClearLast, At, Goto
      <3>2. Lo = Hi /\ first = NULL /\ allocated = NodesTo(f, Hi) /\ temp = f[Lo] /\ pointer = entered[Lo]
        BY <2>1, <3>1 DEF ConsumerAt, Removing
      <3>3. pc'[Consumer] = "free" /\ UNCHANGED <<entered, temp, pointer>>
        BY <1>1, <3>1 DEF LockInv, history, locals
      <3>4. Lo' = Lo /\ Hi' = Hi /\ (allocated = NodesTo(f, Hi))'
        BY <2>4, <3>1, <3>2, <3>3
      <3> QED BY <1>2, <2>3, <3>1, <3>2, <3>3, <3>4 DEF ConsumerAt, Removing, Inside
    <2>12. CASE Advance
      <3>1. /\ pc[Consumer] = "advance" /\ pc' = [pc EXCEPT ![Consumer] = "free"]
            /\ first' = next[first] /\ UNCHANGED <<last, memory, locals, history, crashed>>
        BY <2>12 DEF Advance, At, Goto
      <3>2. Lo < Hi /\ Ends(f) /\ allocated = NodesTo(f, Hi) /\ temp = f[Lo] /\ pointer = entered[Lo]
        BY <2>1, <3>1 DEF ConsumerAt, Removing
      <3>3. pc'[Consumer] = "free" /\ UNCHANGED <<entered, temp, pointer>>
        BY <1>1, <3>1 DEF LockInv, history, locals
      <3>4. Lo' = Lo /\ Hi' = Hi /\ (allocated = NodesTo(f, Hi))'
        BY <2>4, <3>1, <3>2, <3>3
      <3>5. first = f[Lo] /\ last = f[Hi]
        BY <1>2, <3>2 DEF Ends
      <3>6. first' = f[Lo + 1] /\ last' = f[Hi]
        <4>1. Lo \in Lo .. Hi - 1
          BY <1>2, <3>2
        <4> QED BY <1>3, <3>1, <3>5, <4>1 DEF Shape, Chained
      <3> QED BY <1>2, <2>3, <3>1, <3>2, <3>3, <3>4, <3>6 DEF ConsumerAt, Removing, Inside
    <2>13. CASE Free
      <3>1. pc[Consumer] = "free"
        BY <2>13 DEF Free, At
      <3>2. /\ Lo <= Hi /\ allocated = NodesTo(f, Hi) /\ temp = f[Lo] /\ pointer = entered[Lo]
            /\ first = (IF Lo < Hi THEN f[Lo + 1] ELSE NULL) /\ last = (IF Lo < Hi THEN f[Hi] ELSE NULL)
        BY <2>1, <3>1 DEF ConsumerAt, Removing
      <3>3. temp \in allocated
        BY <2>2, <3>2 DEF NodesTo
      <3>4. /\ allocated' = allocated \ {temp} /\ taken' = Append(taken, pointer)
            /\ pc' = [pc EXCEPT ![Consumer] = "testEmpty"]
            /\ UNCHANGED <<next, object, queue, entered, crashed>>
        BY <2>13, <3>3 DEF Free, Goto
      <3>5. /\ Lo' = Lo + 1 /\ Hi' = Hi /\ Len(taken') = Lo /\ taken'[Lo] = entered[Lo]
            /\ \A j \in 1 .. Len(taken) : taken'[j] = taken[j]
        BY <3>2, <3>4, AppendProperties DEF Lo, Hi, TypeInv
      <3>6. \A j \in Lo + 1 .. Hi : j \in Lo .. Hi /\ j # Lo
        BY <1>2
      <3>7. Chained(f)'
        <4>1. \A j \in Lo + 1 .. Hi - 1 : j \in Lo .. Hi - 1
          BY <1>2
        <4> QED BY <1>3, <3>4, <3>5, <3>6, <4>1 DEF Shape, Chained
      <3>8. (allocated = NodesTo(f, Hi))'
        <4>1. \A j \in Lo + 1 .. Hi : f[j] # f[Lo]
          BY <1>3, <2>2, <3>2, <3>6 DEF Shape, Chained
        <4>2. \A j \in Lo .. Hi : j = Lo \/ j \in Lo + 1 .. Hi
          BY <1>2
        <4>3. allocated' = {f[j] : j \in Lo + 1 .. Hi}
          BY <3>2, <3>4, <3>6, <4>1, <4>2 DEF NodesTo
        <4> QED BY <3>5, <4>3 DEF NodesTo
      <3>9. Ends(f)' /\ pc'[Consumer] = "testEmpty"
        BY <1>1, <1>2, <3>2, <3>4, <3>5 DEF Ends, queue, LockInv
      <3>10. ConsumerAt(f)' /\ Inside(Consumer)'
        BY <3>8, <3>9 DEF ConsumerAt, Inside, Removing
      <3>11. Shape(f)'
        BY <1>3, <1>5, <3>7, <3>10
      <3>12. \A j \in 1 .. Len(taken') : taken'[j] = entered'[j]
        <4>1. \A j \in 1 .. Lo : j \in 1 .. Len(taken) \/ j = Lo
          BY <1>2 DEF Lo
        <4> QED BY <3>4, <3>5, <4>1 DEF QueueInv
      <3>13. Lo' <= Hi' + 1
        BY <1>2, <3>2, <3>5
      <3> QED BY <1>3, <3>4, <3>11, <3>12, <3>13 DEF QueueInv
    <2> QED BY <1>11, <2>5, <2>6, <2>7, <2>8, <2>9, <2>10, <2>11, <2>12, <2>13 DEF dequeue, Collect
  <1> QED BY <1>7, <1>10, <1>11 DEF Next

-----------------------------------------------------------------------------
(* The theorems                                                             *)

LEMMA InvInit ==
    ASSUME OneLock, Init
    PROVE  Inv
  <1>1. TypeInv
    BY DEF Init, TypeInv, Values, Items
  <1>2. LockInv
    <2>1. {LockOf[t] : t \in Threads} = {L}
      BY DEF OneLock, L, Threads
    <2>2. DOMAIN owner = {L} /\ owner[L] = Nobody
      BY <2>1 DEF Init
    <2>3. \A t \in Threads : pc[t] \in {"poll", "lock"} /\ (t \in Producers => pc[t] = "lock")
      BY ConsumerAssumption DEF Init, Threads
    <2>4. DOMAIN pc = Threads /\ Consumer \in Threads /\ Producers \subseteq Threads
      BY DEF Init, Threads
    <2> QED BY <2>2, <2>3, <2>4, NullAssumption DEF LockInv, Inside, Adding, Linking, Removing
  <1>3. QueueInv
    <2>1. Lo = 1 /\ Hi = 0 /\ Len(taken) = 0
      BY DEF Init, Lo, Hi
    <2> DEFINE f == [j \in Nat |-> NULL]
    <2>2. f \in Nodal
      BY DEF Nodal
    <2> HIDE DEF f
    <2>3. Chained(f) /\ Ends(f) /\ Closed(f) /\ allocated = NodesTo(f, Hi)
      BY <2>1 DEF Init, Chained, Ends, Closed, NodesTo
    <2>4. \A p \in Producers : ProducerAt(f, p)
      BY ConsumerAssumption DEF Init, Threads, ProducerAt, Linking
    <2>5. ConsumerAt(f)
      BY DEF Init, Threads, ConsumerAt, Removing
    <2>6. Shape(f)
      BY <2>3, <2>4, <2>5 DEF Shape
    <2> QED BY <2>1, <2>2, <2>6 DEF Init, QueueInv
  <1>4. AddingInv
    BY ConsumerAssumption DEF Init, AddingInv, Threads, Adding, Linking
  <1> QED BY <1>1, <1>2, <1>3, <1>4 DEF Inv

LEMMA InvAlways ==
    ASSUME OneLock
    PROVE  Spec => []Inv
  <1>1. Init => Inv
    BY InvInit
  <1>2. Inv /\ [Next]_vars => Inv'
    BY LockStep, TypeStep, QueueStep, AddingStep DEF Inv
  <1> QED BY <1>1, <1>2, PTL DEF Spec

\* Under one lock, as around completed_threads (deflate.c:312-325), no thread
\* follows a NULL pointer in enqueue or dequeue and no node is freed twice.
THEOREM NoCrash ==
    ASSUME OneLock
    PROVE  Spec => []NeverCrashes
  <1>1. Inv => NeverCrashes
    BY DEF Inv, QueueInv, NeverCrashes
  <1> QED BY <1>1, InvAlways, PTL

\* Under one lock, objects come out as they went in, whatever the number of
\* workers: dequeue never repeats, skips or swaps one.
THEOREM OrderKept ==
    ASSUME OneLock
    PROVE  Spec => []TakenInOrder
  <1>1. Inv => TakenInOrder
    <2> SUFFICES ASSUME Inv PROVE TakenInOrder
      OBVIOUS
    <2> USE DEF Inv
    <2>1. /\ Len(taken) \in Nat /\ Len(entered) \in Nat /\ Len(taken) <= Len(entered)
          /\ taken \in Seq(Values) /\ entered \in Seq(Items)
      BY LenProperties DEF TypeInv, QueueInv, Lo, Hi
    <2>2. SubSeq(taken, 1, Len(taken)) = SubSeq(entered, 1, Len(taken))
      BY <2>1, SubSeqProperties DEF QueueInv
    <2> QED BY <2>1, <2>2 DEF TakenInOrder, IsPrefix
  <1> QED BY <1>1, InvAlways, PTL

\* Under one lock, once all is enqueued and the consumer finds the queue empty,
\* it has received everything.
THEOREM AllReceived ==
    ASSUME OneLock
    PROVE  Spec => []NothingLost
  <1>1. Inv => NothingLost
    <2> SUFFICES ASSUME Inv, AtRest PROVE taken = entered
      BY DEF NothingLost
    <2> USE DEF Inv
    <2>1. \A t \in Threads : ~Inside(t)
      BY ConsumerAssumption DEF AtRest, AddingInv, LockInv, TypeInv, Inside, Threads, Removing, Adding,
                                Linking
    <2>2. owner[L] = Nobody /\ first = NULL
      BY <2>1 DEF LockInv, AtRest
    <2>3. PICK f \in Nodal : Shape(f)
      BY DEF QueueInv
    <2>4. Len(taken) \in Nat /\ Len(entered) \in Nat /\ taken \in Seq(Values) /\ entered \in Seq(Items)
      BY LenProperties DEF TypeInv
    <2>5. ~(Lo <= Hi)
      <3>1. Lo <= Hi => first = f[Lo] /\ f[Lo] \in Nodes
        BY <2>2, <2>3, <2>4 DEF Shape, Ends, Chained, Lo, Hi
      <3> QED BY <2>2, <3>1, NullAssumption
    <2>6. Len(taken) = Len(entered)
      BY <2>4, <2>5 DEF QueueInv, Lo, Hi
    <2>7. \A j \in 1 .. Len(taken) : taken[j] = entered[j]
      BY DEF QueueInv
    <2> QED BY <2>4, <2>6, <2>7, SeqEqual
  <1> QED BY <1>1, InvAlways, PTL

\* Under one lock, whenever nobody holds it the list of nodes is whole, ends in
\* NULL, and holds what waits in the queue and no other node in use, whatever the
\* number of workers and however main and they alternate: no node leaks.
THEOREM ListKept ==
    ASSUME OneLock
    PROVE  Spec => []ListIntact
  <1>1. Inv => ListIntact
    <2> SUFFICES ASSUME Inv, \A l \in DOMAIN owner : owner[l] = Nobody
                 PROVE  \E c \in Bijection(1 .. Waiting, allocated) :
                            /\ first = IF Waiting = 0 THEN NULL ELSE c[1]
                            /\ last = IF Waiting = 0 THEN NULL ELSE c[Waiting]
                            /\ \A i \in 1 .. Waiting :
                                 /\ object[c[i]] = entered[Len(taken) + i]
                                 /\ next[c[i]] = IF i = Waiting THEN NULL ELSE c[i + 1]
      BY DEF ListIntact
    <2> USE DEF Inv
    <2>1. owner[L] = Nobody
      BY DEF LockInv
    <2>2. PICK f \in Nodal : Shape(f)
      BY DEF QueueInv
    <2>3. Chained(f) /\ Ends(f) /\ Closed(f) /\ allocated = NodesTo(f, Hi)
      BY <2>1, <2>2 DEF Shape
    <2>4. /\ Len(taken) \in Nat /\ Len(entered) \in Nat /\ Len(taken) <= Len(entered)
          /\ Lo = Len(taken) + 1 /\ Hi = Len(taken) + Waiting /\ Waiting \in Nat
      BY LenProperties DEF TypeInv, QueueInv, Lo, Hi, Waiting
    <2>5. \A i \in 1 .. Waiting : Len(taken) + i \in Lo .. Hi
      BY <2>4
    <2> DEFINE c == [i \in 1 .. Waiting |-> f[Len(taken) + i]]
    <2>6. c \in Bijection(1 .. Waiting, allocated)
      <3>1. c \in [1 .. Waiting -> allocated]
        BY <2>3, <2>5 DEF NodesTo
      <3>2. \A i, j \in 1 .. Waiting : c[i] = c[j] => i = j
        <4> SUFFICES ASSUME NEW i \in 1 .. Waiting, NEW j \in 1 .. Waiting, c[i] = c[j] PROVE i = j
          OBVIOUS
        <4>1. Len(taken) + i = Len(taken) + j
          BY <2>3, <2>5 DEF Chained
        <4> QED BY <2>4, <4>1
      <3>3. \A n \in allocated : \E i \in 1 .. Waiting : c[i] = n
        <4> SUFFICES ASSUME NEW n \in allocated PROVE \E i \in 1 .. Waiting : c[i] = n
          OBVIOUS
        <4>1. PICK j \in Lo .. Hi : n = f[j]
          BY <2>3 DEF NodesTo
        <4>2. j - Len(taken) \in 1 .. Waiting /\ Len(taken) + (j - Len(taken)) = j
          BY <2>4
        <4> QED BY <4>1, <4>2
      <3> QED BY <3>1, <3>2, <3>3 DEF Bijection, Injection, Surjection, IsInjective
    <2>7. \A i \in 1 .. Waiting : object[c[i]] = entered[Len(taken) + i]
      BY <2>3, <2>5 DEF Chained
    <2>8. \A i \in 1 .. Waiting : next[c[i]] = IF i = Waiting THEN NULL ELSE c[i + 1]
      <3> SUFFICES ASSUME NEW i \in 1 .. Waiting
                   PROVE  next[c[i]] = IF i = Waiting THEN NULL ELSE c[i + 1]
        OBVIOUS
      <3>1. CASE i = Waiting
        <4>1. c[i] = f[Hi] /\ Lo <= Hi
          BY <2>4, <3>1
        <4> QED BY <2>3, <3>1, <4>1 DEF Closed
      <3>2. CASE i # Waiting
        <4>1. Len(taken) + i \in Lo .. Hi - 1 /\ i + 1 \in 1 .. Waiting
              /\ Len(taken) + i + 1 = Len(taken) + (i + 1)
          BY <2>4, <3>2
        <4> QED BY <2>3, <3>2, <4>1 DEF Chained
      <3> QED BY <3>1, <3>2
    <2>9. first = IF Waiting = 0 THEN NULL ELSE c[1]
      <3>1. Waiting # 0 => 1 \in 1 .. Waiting /\ Lo <= Hi
        BY <2>4
      <3>2. Waiting = 0 => ~(Lo <= Hi)
        BY <2>4
      <3> QED BY <2>3, <2>4, <3>1, <3>2 DEF Ends
    <2>10. last = IF Waiting = 0 THEN NULL ELSE c[Waiting]
      <3>1. Waiting # 0 => Waiting \in 1 .. Waiting /\ Lo <= Hi
        BY <2>4
      <3>2. Waiting = 0 => ~(Lo <= Hi)
        BY <2>4
      <3> QED BY <2>3, <2>4, <3>1, <3>2 DEF Ends
    <2> HIDE DEF c
    <2> QED BY <2>6, <2>7, <2>8, <2>9, <2>10
  <1> QED BY <1>1, InvAlways, PTL

=============================================================================
