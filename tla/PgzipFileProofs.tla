--------------------------- MODULE PgzipFileProofs ---------------------------
(***************************************************************************)
(* Theorems about PgzipFile: a vector always holds what is in it, a file   *)
(* pgzip has not made is touched only when that was asked for, and the     *)
(* file pgzip returns from is header, blocks in order, trailer.            *)
(***************************************************************************)
EXTENDS PgzipFile, SequenceTheorems, WellFoundedInduction, TLAPS

-----------------------------------------------------------------------------
(* Numbers                                                                 *)

\* A set of natural numbers has a least element.
LEMMA Least ==
    ASSUME NEW T, T \subseteq Nat, T # {}
    PROVE  \E n \in T : \A m \in T : n <= m
  <1> DEFINE R == {ss \in Nat \X Nat : ss[1] < ss[2]}
  <1>1. IsWellFoundedOn(R, Nat)
    BY NatLessThanWellFounded DEF OpToRel
  <1>2. \A n, m \in Nat : m < n => <<m, n>> \in R
    OBVIOUS
  <1> HIDE DEF R
  <1>3. PICK n \in T : \A m \in T : ~(<<m, n>> \in R)
    BY <1>1, WFMin
  <1>4. \A m \in T : n \in Nat /\ m \in Nat /\ ~(m < n)
    BY <1>2, <1>3
  <1>5. \A x, y \in Nat : ~(y < x) => x <= y
    OBVIOUS
  <1>6. \A m \in T : n <= m
    BY <1>4, <1>5
  <1> QED BY <1>6

-----------------------------------------------------------------------------

(* Handing over and waiting: the steps of main and the io thread that move *)
(* blocks, or that only wait and wake.                                     *)

HandOver ==
    \/ Enqueue \/ Enqueued \/ Check \/ Sleep \/ SetKill \/ SignalKill \/ Join
    \/ QueueTorn \/ SpuriousWakeup \/ Io

\* What these steps leave alone, and where they lead.
LEMMA HandOverKeeps ==
    ASSUME HandOver
    PROVE  /\ UNCHANGED <<argv, i, block_chunk_size, number_of_threads,
                          canOverwriteOldOutput, responseBuf, insize, out, ifile_size,
                          bytes_to_read, crc, vec, ctx, reading, block_number, shutdown,
                          lost, short>>
           /\ IoRuns
           /\ InLoop' => InLoop
           /\ \/ pc' = pc
              \/ /\ pc \in {"loop", "enqueue", "tosleep", "asleep", "kill", "signal", "join"}
                 /\ pc' \in {"loop", "enqueue", "tosleep", "asleep", "signal", "join",
                            "trailer", "crashed"}
  <1> USE DEF options, files, sizes, pool, output, queues, InLoop, IoRuns
  <1>1. CASE Enqueue
    BY <1>1 DEF Enqueue
  <1>2. CASE Enqueued \/ Check \/ Sleep
    BY <1>2 DEF Enqueued, Check, Sleep
  <1>3. CASE SetKill \/ SignalKill \/ Join
    BY <1>3 DEF SetKill, SignalKill, Join
  <1>4. CASE QueueTorn
    BY <1>4 DEF QueueTorn
  <1>5. CASE SpuriousWakeup
    BY <1>5 DEF SpuriousWakeup, IoGoto
  <1>6. CASE Io
    <2>1. CASE IoTest \/ IoSleep \/ IoWritten
      BY <2>1 DEF IoTest, IoSleep, IoWritten, IoGoto
    <2>2. CASE IoTake \/ IoWrite
      BY <2>2 DEF IoTake, IoWrite
    <2> QED BY <1>6, <2>1, <2>2 DEF Io
  <1> QED BY <1>1, <1>2, <1>3, <1>4, <1>5, <1>6 DEF HandOver

-----------------------------------------------------------------------------

Arguments == [word : STRING, num : Nat \cup {-1}]
Vectors == [total : 0 .. UIntMax - 1, occupied : Nat]
Stages == {"free", "read", "asked", "compress", "done"}
Jobs == [stage : Stages, block : Nat, size : Int, flushes : 0 .. MaxFlushes]

\* The types that matter, and that every flush of the block in a context counts
\* for at most OUTBUFSIZ bytes.
VectorInv ==
    /\ argv \in Seq([word : STRING, num : Nat \cup {-1}])
    /\ \A k \in DOMAIN argv : argv[k].num < UIntMax
    /\ i \in Nat \ {0}
    /\ block_chunk_size \in 0 .. UIntMax - 1
    /\ number_of_threads \in Nat /\ insize \in Int
    /\ bytes_to_read \in Int /\ block_number \in Nat \ {0}
    /\ vec \in [DOMAIN ctx -> Vectors]
    /\ ctx \in [DOMAIN ctx -> Jobs]
    /\ \A c \in DOMAIN ctx : /\ vec[c].occupied <= vec[c].total
                             /\ vec[c].occupied <= OUTBUFSIZ * ctx[c].flushes
    /\ InLoop => DOMAIN ctx = 1 .. number_of_threads
    /\ pc = "read" => reading.who \in DOMAIN ctx

-----------------------------------------------------------------------------
(* memcpy_safe                                                              *)

\* A number below the modulus is its own remainder.
LEMMA SmallMod ==
    ASSUME NEW x \in Nat, NEW m \in Nat, x < m
    PROVE  x % m = x
  BY SMT

\* An append of n bytes leaves the vector large enough, as long as what it holds
\* afterwards is less than half of what an unsigned int can count.
LEMMA AppendFits ==
    ASSUME NEW v \in Vectors, NEW n \in Nat,
           v.occupied <= v.total, 2 * (v.occupied + n) < UIntMax, UIntMax \in Nat
    PROVE  /\ memcpy_safe(v, n) \in Vectors
           /\ memcpy_safe(v, n).occupied = v.occupied + n
           /\ memcpy_safe(v, n).occupied <= memcpy_safe(v, n).total
  <1> DEFINE w == memcpy_safe(v, n)
  <1>1. v.total \in 0 .. UIntMax - 1 /\ v.occupied \in Nat
    BY DEF Vectors
  <1>2. CASE n <= v.total - v.occupied
    <2>1. w = [total |-> v.total, occupied |-> v.occupied + n]
      BY <1>1, <1>2 DEF memcpy_safe
    <2> QED BY <1>1, <1>2, <2>1 DEF Vectors
  <1>3. CASE n > v.total - v.occupied /\ n + v.occupied > 2 * v.total
    <2>1. (2 * (v.occupied + n)) % UIntMax = 2 * (v.occupied + n)
      BY <1>1, SmallMod
    <2>2. w = [total |-> 2 * (v.occupied + n), occupied |-> v.occupied + n]
      BY <1>1, <1>3, <2>1 DEF memcpy_safe, Grown
    <2> QED BY <1>1, <2>2 DEF Vectors
  <1>4. CASE n > v.total - v.occupied /\ ~(n + v.occupied > 2 * v.total)
    <2>1. 2 * v.total < UIntMax
      BY <1>1, <1>4
    <2>2. (2 * v.total) % UIntMax = 2 * v.total
      BY <1>1, <2>1, SmallMod
    <2>3. w = [total |-> 2 * v.total, occupied |-> v.occupied + n]
      BY <1>1, <1>4, <2>2 DEF memcpy_safe, Grown
    <2> QED BY <1>1, <1>4, <2>1, <2>3 DEF Vectors
  <1> QED BY <1>1, <1>2, <1>3, <1>4

-----------------------------------------------------------------------------
(* The vectors                                                              *)

LEMMA VectorInit == Init => VectorInv
  <1> SUFFICES ASSUME Init PROVE VectorInv
    OBVIOUS
  <1>1. PICK s \in Scenes : argv = s.argv
    BY DEF Init
  <1>2. /\ argv \in Seq([word : STRING, num : Nat \cup {-1}])
        /\ \A k \in DOMAIN argv : argv[k].num < UIntMax
    BY <1>1, SceneAssumption
  <1>3. /\ i = 1 /\ block_chunk_size = DefaultChunk /\ bytes_to_read = 0
        /\ block_number = 1 /\ vec = << >> /\ ctx = << >> /\ insize \in Int
        /\ number_of_threads = NumCPU /\ pc = "parse"
    BY SceneAssumption DEF Init
  <1>4. DefaultChunk \in 0 .. UIntMax - 1
    BY SizesAssumption, UIntAssumption, ChunkAssumption
  <1>5. DOMAIN ctx = {}
    BY <1>3
  <1>6. vec \in [DOMAIN ctx -> Vectors] /\ ctx \in [DOMAIN ctx -> Jobs]
    BY <1>3, <1>5
  <1> QED BY <1>2, <1>3, <1>4, <1>5, <1>6, SizesAssumption DEF VectorInv, InLoop

\* A number read from an argument fits the variable it is for.
LEMMA ScannedFits ==
    ASSUME VectorInv, NEW k \in DOMAIN argv, NEW old \in 0 .. UIntMax - 1
    PROVE  Scanned(old, k) \in 0 .. UIntMax - 1
  <1>1. argv \in Seq(Arguments)
    BY DEF VectorInv, Arguments
  <1>2. argv[k] \in Arguments
    BY <1>1
  <1>3. argv[k].num \in Nat \cup {-1} /\ argv[k].num < UIntMax
    BY <1>2 DEF VectorInv, Arguments
  <1> QED BY <1>3, UIntAssumption DEF Scanned

\* The next argument is one of argv.
LEMMA ParseKeeps ==
    ASSUME VectorInv, ParseArgument
    PROVE  /\ i' \in Nat \ {0} /\ block_chunk_size' \in 0 .. UIntMax - 1
           /\ number_of_threads' \in Nat
  <1>1. i \in DOMAIN argv /\ AfterB \in {i, i + 1} /\ AfterT \in {AfterB, AfterB + 1}
    BY DEF ParseArgument, VectorInv, AfterB, AfterT
  <1>2. AfterT \in DOMAIN argv /\ AfterB \in DOMAIN argv
    BY <1>1 DEF ParseArgument, VectorInv
  <1>3. i' \in Nat \ {0}
    BY <1>1 DEF ParseArgument, VectorInv
  <1>4. block_chunk_size' \in 0 .. UIntMax - 1
    BY <1>2, ScannedFits DEF ParseArgument, VectorInv
  <1>5. Scanned(number_of_threads, AfterT) \in Nat
    <2>1. argv \in Seq(Arguments)
      BY DEF VectorInv, Arguments
    <2>2. argv[AfterT] \in Arguments
      BY <1>2, <2>1
    <2> QED BY <2>2 DEF Arguments, Scanned, VectorInv
  <1>6. number_of_threads' \in Nat
    BY <1>5 DEF ParseArgument, VectorInv
  <1> QED BY <1>3, <1>4, <1>6

\* A context that takes a block has an empty vector.
LEMMA GrabKeeps ==
    ASSUME VectorInv, NEW c \in DOMAIN ctx, NEW next,
           InLoop, grab_another_block(c, next),
           UNCHANGED <<argv, i, block_chunk_size, number_of_threads, insize, bytes_to_read>>
    PROVE  VectorInv'
  <1> DEFINE v == IF ctx[c].block = 0 THEN init_vector(block_chunk_size)
                  ELSE [vec[c] EXCEPT !.occupied = 0]
             j == [stage |-> "read", block |-> block_number, size |-> ReadSize,
                   flushes |-> 0]
  <1>1. vec' = [vec EXCEPT ![c] = v] /\ ctx' = [ctx EXCEPT ![c] = j]
    BY DEF grab_another_block
  <1>2. vec[c] \in Vectors
    BY DEF VectorInv
  <1>3. v \in Vectors /\ v.occupied = 0
    <2>1. CASE ctx[c].block = 0
      <3>1. v = [total |-> block_chunk_size, occupied |-> 0]
        BY <2>1 DEF init_vector
      <3> QED BY <3>1 DEF Vectors, VectorInv
    <2>2. CASE ctx[c].block # 0
      <3>1. v = [total |-> vec[c].total, occupied |-> 0]
        BY <1>2, <2>2 DEF Vectors
      <3> QED BY <1>2, <3>1 DEF Vectors
    <2> QED BY <2>1, <2>2
  <1>4. ReadSize \in Int
    BY UIntAssumption DEF ReadSize, VectorInv
  <1>5. j \in Jobs
    <2>1. block_number \in Nat /\ 0 \in 0 .. MaxFlushes
      BY SizesAssumption DEF VectorInv
    <2> QED BY <1>4, <2>1 DEF Jobs, Stages
  <1> HIDE DEF v, j
  <1>6. vec' \in [DOMAIN ctx -> Vectors] /\ ctx' \in [DOMAIN ctx -> Jobs]
    BY <1>1, <1>3, <1>5 DEF VectorInv
  <1>7. DOMAIN ctx' = DOMAIN ctx
    BY <1>6
  <1>8. ASSUME NEW d \in DOMAIN ctx
        PROVE  vec'[d].occupied <= vec'[d].total
               /\ vec'[d].occupied <= OUTBUFSIZ * ctx'[d].flushes
    <2>1. CASE d = c
      <3>1. vec'[d] = v /\ ctx'[d] = j
        BY <1>1, <2>1 DEF VectorInv
      <3>2. v.total \in Nat /\ v.occupied = 0 /\ OUTBUFSIZ * j.flushes = 0
        BY <1>3, UIntAssumption, SizesAssumption DEF Vectors, j
      <3> QED BY <3>1, <3>2
    <2>2. CASE d # c
      <3>1. vec'[d] = vec[d] /\ ctx'[d] = ctx[d]
        BY <1>1, <2>2 DEF VectorInv
      <3> QED BY <3>1 DEF VectorInv
    <2> QED BY <2>1, <2>2
  <1>9. block_number' \in Nat \ {0} /\ pc' = "read" /\ reading'.who = c
    BY DEF grab_another_block, VectorInv
  <1> QED BY <1>6, <1>7, <1>8, <1>9 DEF VectorInv, InLoop

\* A change of a stage changes nothing that VectorInv speaks of.
LEMMA StageKeeps ==
    ASSUME VectorInv, NEW c \in DOMAIN ctx, NEW st \in Stages,
           ctx' = [ctx EXCEPT ![c].stage = st], vec' = vec
    PROVE  /\ vec' \in [DOMAIN ctx' -> Vectors] /\ ctx' \in [DOMAIN ctx' -> Jobs]
           /\ \A d \in DOMAIN ctx' : /\ vec'[d].occupied <= vec'[d].total
                                     /\ vec'[d].occupied <= OUTBUFSIZ * ctx'[d].flushes
           /\ DOMAIN ctx' = DOMAIN ctx
  <1>1. ctx[c] \in Jobs /\ ctx \in [DOMAIN ctx -> Jobs]
    BY DEF VectorInv
  <1>2. [ctx[c] EXCEPT !.stage = st] \in Jobs
    BY <1>1 DEF Jobs
  <1>3. ctx' \in [DOMAIN ctx -> Jobs]
    BY <1>1, <1>2
  <1>4. DOMAIN ctx' = DOMAIN ctx
    BY <1>3
  <1>5. \A d \in DOMAIN ctx : ctx'[d].flushes = ctx[d].flushes
    BY <1>1 DEF Jobs
  <1> QED BY <1>3, <1>4, <1>5 DEF VectorInv

\* An append of outbuf, within the number of flushes of a block.
LEMMA FlushKeeps ==
    ASSUME VectorInv, NEW c \in DOMAIN ctx, flush_outbuf(c)
    PROVE  VectorInv'
  <1>1. PICK n \in {1, OUTBUFSIZ} : vec' = [vec EXCEPT ![c] = memcpy_safe(@, n)]
    BY DEF flush_outbuf
  <1>2. ctx' = [ctx EXCEPT ![c].flushes = @ + 1] /\ ctx[c].flushes < MaxFlushes
    BY DEF flush_outbuf
  <1>3. /\ UNCHANGED <<argv, i, block_chunk_size, number_of_threads, insize,
                       bytes_to_read, block_number, pc, reading>>
    BY DEF flush_outbuf, options, sizes, files
  <1>4. /\ vec[c] \in Vectors /\ ctx[c] \in Jobs
        /\ vec[c].occupied <= vec[c].total /\ vec[c].occupied <= OUTBUFSIZ * ctx[c].flushes
    BY DEF VectorInv
  <1>5. /\ vec[c].occupied \in Nat /\ vec[c].total \in Nat /\ ctx[c].flushes \in Nat
        /\ OUTBUFSIZ \in Nat /\ OUTBUFSIZ >= 1 /\ MaxFlushes \in Nat /\ UIntMax \in Nat
        /\ n \in Nat /\ n <= OUTBUFSIZ
    BY <1>4, SizesAssumption, UIntAssumption DEF Vectors, Jobs
  <1>6. OUTBUFSIZ * (ctx[c].flushes + 1) = OUTBUFSIZ * ctx[c].flushes + OUTBUFSIZ
    BY <1>5
  <1>7. OUTBUFSIZ * (ctx[c].flushes + 1) <= OUTBUFSIZ * MaxFlushes
    BY <1>2, <1>5
  <1>8. /\ vec[c].occupied + n <= OUTBUFSIZ * (ctx[c].flushes + 1)
        /\ 2 * (vec[c].occupied + n) < UIntMax
    <2>1. vec[c].occupied + n <= OUTBUFSIZ * ctx[c].flushes + OUTBUFSIZ
      BY <1>4, <1>5
    <2>2. 2 * (OUTBUFSIZ * MaxFlushes) < UIntMax
      BY <1>5, UIntAssumption
    <2> QED BY <1>5, <1>6, <1>7, <2>1, <2>2
  <1>9. /\ memcpy_safe(vec[c], n) \in Vectors
        /\ memcpy_safe(vec[c], n).occupied = vec[c].occupied + n
        /\ memcpy_safe(vec[c], n).occupied <= memcpy_safe(vec[c], n).total
    BY <1>4, <1>5, <1>8, AppendFits
  <1>10. [ctx[c] EXCEPT !.flushes = @ + 1] \in Jobs
    BY <1>2, <1>4, <1>5 DEF Jobs
  <1>11. vec' \in [DOMAIN ctx -> Vectors] /\ ctx' \in [DOMAIN ctx -> Jobs]
    BY <1>1, <1>2, <1>9, <1>10 DEF VectorInv
  <1>12. DOMAIN ctx' = DOMAIN ctx
    BY <1>11
  <1>13. ASSUME NEW d \in DOMAIN ctx
         PROVE  vec'[d].occupied <= vec'[d].total
                /\ vec'[d].occupied <= OUTBUFSIZ * ctx'[d].flushes
    <2>1. CASE d = c
      <3>1. vec'[c] = memcpy_safe(vec[c], n)
        BY <1>1 DEF VectorInv
      <3>2. ctx'[c].flushes = ctx[c].flushes + 1
        BY <1>2, <1>4 DEF Jobs, VectorInv
      <3> QED BY <2>1, <3>1, <3>2, <1>8, <1>9
    <2>2. CASE d # c
      <3>1. vec'[d] = vec[d] /\ ctx'[d] = ctx[d]
        BY <1>1, <1>2, <2>2 DEF VectorInv
      <3> QED BY <3>1 DEF VectorInv
    <2> QED BY <2>1, <2>2
  <1> QED BY <1>3, <1>11, <1>12, <1>13 DEF VectorInv, InLoop

\* Every step keeps the invariant.
LEMMA VectorStep ==
    ASSUME VectorInv, [Next]_vars
    PROVE  VectorInv'
  <1> DEFINE Kept == <<argv, i, block_chunk_size, number_of_threads, insize,
                       bytes_to_read, block_number, vec, ctx>>
  <1>1. CASE ParseArgument
    <2>1. UNCHANGED <<argv, vec, ctx, insize, bytes_to_read, block_number, pc, reading>>
      BY <1>1 DEF ParseArgument, files, sizes, pool
    <2>2. ~InLoop'
      BY <1>1 DEF ParseArgument, InLoop
    <2> QED BY <1>1, <2>1, <2>2, ParseKeeps DEF VectorInv, InLoop
  <1>2. CASE \/ ParseMissing \/ ParseDecompress \/ Probe \/ Ask \/ RemoveOld
             \/ OpenInput \/ CreateOutput \/ CheckOutput \/ WriteTrailer
             \/ LeaveLoop \/ IoFails
    <2>1. UNCHANGED Kept
      BY <1>2 DEF ParseMissing, ParseDecompress, Probe, Ask, RemoveOld, OpenInput,
                  CreateOutput, CheckOutput, WriteTrailer, LeaveLoop, IoFails,
                  options, files, sizes, pool
    <2>2. ~InLoop'
      BY <1>2 DEF ParseMissing, ParseDecompress, Probe, Ask, RemoveOld, OpenInput,
                  CreateOutput, CheckOutput, WriteTrailer, LeaveLoop, IoFails, InLoop
    <2> QED BY <2>1, <2>2 DEF VectorInv, InLoop
  <1>3. CASE StatInput
    <2>1. UNCHANGED <<argv, i, block_chunk_size, number_of_threads, insize,
                      block_number, vec, ctx>>
      BY <1>3 DEF StatInput, options, files, pool
    <2>2. bytes_to_read' \in Int
      BY <1>3 DEF StatInput, VectorInv
    <2>3. ~InLoop'
      BY <1>3 DEF StatInput, InLoop
    <2> QED BY <2>1, <2>2, <2>3 DEF VectorInv, InLoop
  <1>4. CASE WriteHeader
    <2>1. UNCHANGED <<argv, i, block_chunk_size, number_of_threads, insize,
                      bytes_to_read, block_number>>
      BY <1>4 DEF WriteHeader, options, files, sizes
    <2>2. /\ vec' = [c \in 1 .. number_of_threads |-> NoVector]
          /\ ctx' = [c \in 1 .. number_of_threads |-> Idle]
          /\ pc' # "read"
      BY <1>4 DEF WriteHeader
    <2>3. NoVector \in Vectors
      BY UIntAssumption, SizesAssumption DEF NoVector, Vectors
    <2>4. Idle \in Jobs
      BY SizesAssumption DEF Idle, Jobs, Stages
    <2>5. NoVector.occupied = 0 /\ NoVector.total = 0 /\ OUTBUFSIZ * Idle.flushes = 0
      BY SizesAssumption DEF NoVector, Idle
    <2>6. DOMAIN ctx' = 1 .. number_of_threads
      BY <2>2
    <2>7. \A c \in DOMAIN ctx' : vec'[c] = NoVector /\ ctx'[c] = Idle
      BY <2>2, <2>6
    <2>8. vec' \in [DOMAIN ctx' -> Vectors] /\ ctx' \in [DOMAIN ctx' -> Jobs]
      BY <2>2, <2>3, <2>4, <2>6
    <2>9. \A c \in DOMAIN ctx' : /\ vec'[c].occupied <= vec'[c].total
                                 /\ vec'[c].occupied <= OUTBUFSIZ * ctx'[c].flushes
      BY <2>5, <2>7
    <2> QED BY <2>1, <2>2, <2>6, <2>8, <2>9 DEF VectorInv
  <1>5. CASE First
    <2>1. UNCHANGED <<argv, i, block_chunk_size, number_of_threads, insize, bytes_to_read>>
      BY <1>5 DEF First, options, files, sizes
    <2>2. CASE block_number <= number_of_threads /\ bytes_to_read > 0
      <3>1. grab_another_block(block_number, "first") /\ InLoop
        BY <1>5, <2>2 DEF First, InLoop
      <3>2. block_number \in DOMAIN ctx
        BY <2>2, <3>1 DEF VectorInv
      <3> QED BY <2>1, <3>1, <3>2, GrabKeeps
    <2>3. CASE ~(block_number <= number_of_threads /\ bytes_to_read > 0)
      <3>1. UNCHANGED Kept /\ InLoop /\ pc' = "loop"
        BY <1>5, <2>1, <2>3 DEF First, pool, InLoop
      <3> QED BY <3>1 DEF VectorInv
    <2> QED BY <2>2, <2>3
  <1>6. CASE ReadSome
    <2>1. UNCHANGED <<Kept, pc>> /\ reading'.who = reading.who
      <3>1. reading' = [reading EXCEPT !.left = reading'.left]
        BY <1>6 DEF ReadSome
      <3> QED BY <1>6, <3>1 DEF ReadSome, options, files
    <2> QED BY <2>1 DEF VectorInv, InLoop
  <1>7. CASE BlockRead
    <2> DEFINE c == reading.who
    <2>1. /\ UNCHANGED <<argv, i, block_chunk_size, number_of_threads, insize,
                         block_number, vec>>
          /\ ctx' = [ctx EXCEPT ![c].stage = "asked"]
          /\ bytes_to_read' = bytes_to_read - ctx[c].size
          /\ InLoop /\ c \in DOMAIN ctx
      BY <1>7 DEF BlockRead, options, files, VectorInv, InLoop
    <2>2. ctx[c] \in Jobs
      BY <2>1 DEF VectorInv
    <2>3. bytes_to_read' \in Int
      BY <2>1, <2>2 DEF VectorInv, Jobs
    <2>5. /\ vec' \in [DOMAIN ctx' -> Vectors] /\ ctx' \in [DOMAIN ctx' -> Jobs]
          /\ \A d \in DOMAIN ctx' : /\ vec'[d].occupied <= vec'[d].total
                                    /\ vec'[d].occupied <= OUTBUFSIZ * ctx'[d].flushes
          /\ DOMAIN ctx' = DOMAIN ctx
      BY <2>1, StageKeeps DEF Stages
    <2>6. InLoop' => DOMAIN ctx' = 1 .. number_of_threads'
      BY <2>1, <2>5 DEF VectorInv
    <2>7. reading'.who \in DOMAIN ctx'
      BY <1>7, <2>1, <2>5 DEF BlockRead
    <2> QED BY <2>1, <2>3, <2>5, <2>6, <2>7 DEF VectorInv
  <1>8. ASSUME NEW c \in DOMAIN ctx, WorkerStart(c) \/ WorkerFinish(c)
        PROVE  VectorInv'
    <2>1. /\ UNCHANGED <<argv, i, block_chunk_size, number_of_threads, insize, bytes_to_read,
                         block_number, vec, reading>>
          /\ InLoop /\ (pc' = "read" => pc = "read")
      BY <1>8 DEF WorkerStart, WorkerFinish, options, files, sizes
    <2>2. PICK st \in Stages : ctx' = [ctx EXCEPT ![c].stage = st]
      BY <1>8 DEF WorkerStart, WorkerFinish, SetStage, Stages
    <2>3. /\ vec' \in [DOMAIN ctx' -> Vectors] /\ ctx' \in [DOMAIN ctx' -> Jobs]
          /\ \A d \in DOMAIN ctx' : /\ vec'[d].occupied <= vec'[d].total
                                    /\ vec'[d].occupied <= OUTBUFSIZ * ctx'[d].flushes
          /\ DOMAIN ctx' = DOMAIN ctx
      BY <2>1, <2>2, StageKeeps
    <2> QED BY <2>1, <2>3 DEF VectorInv, InLoop
  <1>9. ASSUME NEW c \in DOMAIN ctx, Collect(c)
        PROVE  VectorInv'
    <2>1. /\ UNCHANGED <<argv, i, block_chunk_size, number_of_threads, insize, bytes_to_read>>
          /\ InLoop /\ pc = "loop"
      BY <1>9 DEF Collect, options, files, sizes, InLoop
    <2>2. CASE grab_another_block(c, "loop")
      BY <2>1, <2>2, GrabKeeps
    <2>3. CASE ~grab_another_block(c, "loop")
      <3>1. ctx' = [ctx EXCEPT ![c].stage = "free"]
            /\ UNCHANGED <<vec, block_number, reading, pc>>
        BY <1>9, <2>3 DEF Collect
      <3>2. /\ vec' \in [DOMAIN ctx' -> Vectors] /\ ctx' \in [DOMAIN ctx' -> Jobs]
            /\ \A d \in DOMAIN ctx' : /\ vec'[d].occupied <= vec'[d].total
                                      /\ vec'[d].occupied <= OUTBUFSIZ * ctx'[d].flushes
            /\ DOMAIN ctx' = DOMAIN ctx
        BY <3>1, StageKeeps DEF Stages
      <3> QED BY <2>1, <3>1, <3>2 DEF VectorInv, InLoop
    <2> QED BY <2>2, <2>3
  <1>10. ASSUME NEW c \in DOMAIN ctx, flush_outbuf(c)
         PROVE  VectorInv'
    BY <1>10, FlushKeeps
  <1>11. CASE HandOver
    <2>1. /\ UNCHANGED <<Kept, reading>> /\ (InLoop' => InLoop)
          /\ pc' = "read" => pc = "read"
      BY <1>11, HandOverKeeps
    <2> QED BY <2>1 DEF VectorInv
  <1>12. CASE Other
    <2>1. UNCHANGED <<argv, i, block_chunk_size, number_of_threads, bytes_to_read,
                      block_number, vec, ctx, pc, reading>>
      BY <1>12 DEF Other, CreateForeign, RemoveForeign, ShortenInput, options, sizes, pool
    <2>2. insize' \in Int
      BY <1>12 DEF Other, CreateForeign, RemoveForeign, ShortenInput, VectorInv
    <2> QED BY <2>1, <2>2 DEF VectorInv, InLoop
  <1>13. CASE UNCHANGED vars
    <2>1. UNCHANGED <<Kept, pc, reading>>
      BY <1>13 DEF vars, options, files, sizes, pool
    <2> QED BY <2>1 DEF VectorInv, InLoop
  <1> QED BY <1>1, <1>2, <1>3, <1>4, <1>5, <1>6, <1>7, <1>8, <1>9, <1>10, <1>11, <1>12,
             <1>13 DEF Next, Program, Main, Workers, HandOver

\* Whatever the blocks and the number of threads, an append stays inside its
\* vector: memcpy_safe of threads.c:23-41 never writes behind what it allocated.
THEOREM VectorsCorrect == Spec => []VectorsHold
  <1>1. VectorInv => VectorsHold
    BY DEF VectorInv, VectorsHold
  <1> QED BY <1>1, VectorInit, VectorStep, PTL DEF Spec

-----------------------------------------------------------------------------
(* The output path                                                          *)

\* Main removes the old file only when it was told to.
ConsentInv ==
    /\ i \in Nat \ {0}
    /\ canOverwriteOldOutput => \E k \in DOMAIN argv : argv[k].word = "-f"
    /\ pc = "remove" => canOverwriteOldOutput \/ responseBuf \in {"y", "unread"}
    /\ reading.next \in {"first", "loop"}

LEMMA ConsentInit == Init => ConsentInv
BY DEF Init, ConsentInv

LEMMA ConsentStep ==
    ASSUME VectorInv, ConsentInv, [Next]_vars
    PROVE  ConsentInv'
  <1> DEFINE Same == <<argv, i, canOverwriteOldOutput>>
  <1>1. CASE ParseArgument
    <2>1. i \in DOMAIN argv /\ i' \in Nat \ {0} /\ argv' = argv /\ pc' = "parse"
          /\ reading' = reading
      BY <1>1, ParseKeeps DEF ParseArgument, VectorInv, pool
    <2>2. canOverwriteOldOutput' = (canOverwriteOldOutput \/ argv[i].word = "-f")
      BY <1>1 DEF ParseArgument
    <2> QED BY <2>1, <2>2, Zenon DEF ConsentInv
  <1>2. CASE Probe
    <2>1. UNCHANGED <<Same, responseBuf, reading>>
      BY <1>2 DEF Probe, options, pool
    <2>2. pc' = "remove" => canOverwriteOldOutput
      BY <1>2 DEF Probe
    <2> QED BY <2>1, <2>2 DEF ConsentInv
  <1>3. CASE Ask
    <2>1. UNCHANGED <<Same, reading>> /\ (pc' = "remove" => responseBuf' \in {"y", "unread"})
      BY <1>3 DEF Ask, options, pool
    <2> QED BY <2>1 DEF ConsentInv
  <1>4. CASE \/ ParseMissing \/ ParseDecompress \/ RemoveOld \/ StatInput \/ OpenInput
             \/ CreateOutput \/ CheckOutput \/ WriteHeader
             \/ LeaveLoop \/ WriteTrailer \/ IoFails
    <2>1. UNCHANGED <<Same, reading>>
      BY <1>4 DEF ParseMissing, ParseDecompress, RemoveOld, StatInput, OpenInput,
                  CreateOutput, CheckOutput, WriteHeader, LeaveLoop,
                  WriteTrailer, IoFails, options, pool
    <2>2. pc' # "remove"
      BY <1>4 DEF ParseMissing, ParseDecompress, RemoveOld, StatInput, OpenInput,
                  CreateOutput, CheckOutput, WriteHeader, LeaveLoop,
                  WriteTrailer, IoFails
    <2> QED BY <2>1, <2>2 DEF ConsentInv
  <1>5. CASE First
    <2>1. UNCHANGED Same /\ pc' # "remove"
      BY <1>5 DEF First, grab_another_block, options
    <2>2. reading' = reading \/ reading'.next = "first"
      BY <1>5 DEF First, grab_another_block, pool
    <2> QED BY <2>1, <2>2 DEF ConsentInv
  <1>6. CASE ReadSome
    <2>1. UNCHANGED Same /\ pc' = "read"
      BY <1>6 DEF ReadSome, options
    <2>2. reading'.next = reading.next
      BY <1>6 DEF ReadSome
    <2> QED BY <2>1, <2>2 DEF ConsentInv
  <1>7. CASE BlockRead
    <2>1. UNCHANGED <<Same, reading>> /\ pc' = reading.next
      BY <1>7 DEF BlockRead, options
    <2> QED BY <2>1 DEF ConsentInv
  <1>8. ASSUME NEW c \in DOMAIN ctx,
               WorkerStart(c) \/ flush_outbuf(c) \/ WorkerFinish(c)
        PROVE  ConsentInv'
    <2>1. UNCHANGED <<Same, reading, responseBuf>> /\ (pc' = "remove" => pc = "remove")
      BY <1>8 DEF WorkerStart, flush_outbuf, WorkerFinish, options
    <2> QED BY <2>1 DEF ConsentInv
  <1>9. ASSUME NEW c \in DOMAIN ctx, Collect(c)
        PROVE  ConsentInv'
    <2>1. UNCHANGED Same /\ pc' # "remove"
      BY <1>9 DEF Collect, grab_another_block, options
    <2>2. reading' = reading \/ reading'.next = "loop"
      BY <1>9 DEF Collect, grab_another_block
    <2> QED BY <2>1, <2>2 DEF ConsentInv
  <1>10. CASE Other \/ UNCHANGED vars
    <2>1. UNCHANGED <<Same, reading, responseBuf, pc>>
      BY <1>10 DEF Other, CreateForeign, RemoveForeign, ShortenInput, vars, options, pool
    <2> QED BY <2>1 DEF ConsentInv
  <1>11. CASE HandOver
    <2>1. UNCHANGED <<Same, reading, responseBuf>> /\ (pc' = "remove" => pc = "remove")
      BY <1>11, HandOverKeeps
    <2> QED BY <2>1 DEF ConsentInv
  <1> QED BY <1>1, <1>2, <1>3, <1>4, <1>5, <1>6, <1>7, <1>8, <1>9, <1>10, <1>11
          DEF Next, Program, Main, Workers, HandOver

\* A step that breaks the promise is none that the program takes.
LEMMA TouchesOnlyWhenAsked ==
    ASSUME ConsentInv, [Next]_vars
    PROVE  Program /\ out \in {"old", "foreign"} /\ out' # out
             => \/ \E k \in DOMAIN argv : argv[k].word = "-f"
                \/ responseBuf \in {"y", "unread"}
  <1> SUFFICES ASSUME Program, out \in {"old", "foreign"}, out' # out
               PROVE  \/ \E k \in DOMAIN argv : argv[k].word = "-f"
                      \/ responseBuf \in {"y", "unread"}
    OBVIOUS
  <1>1. CASE RemoveOld
    BY <1>1 DEF RemoveOld, ConsentInv
  <1>2. CASE CreateOutput
    BY <1>2 DEF CreateOutput, MayCreate
  <1>3. CASE \/ ParseArgument \/ ParseMissing \/ ParseDecompress \/ Probe \/ Ask
             \/ StatInput \/ OpenInput \/ CheckOutput \/ WriteHeader \/ First
             \/ ReadSome \/ BlockRead \/ LeaveLoop \/ WriteTrailer
    BY <1>3 DEF ParseArgument, ParseMissing, ParseDecompress, Probe, Ask, StatInput,
                OpenInput, CheckOutput, WriteHeader, First, ReadSome, BlockRead,
                LeaveLoop, WriteTrailer, files
  <1>4. ASSUME NEW c \in DOMAIN ctx,
               WorkerStart(c) \/ flush_outbuf(c) \/ WorkerFinish(c) \/ Collect(c)
        PROVE  FALSE
    BY <1>4 DEF WorkerStart, flush_outbuf, WorkerFinish, Collect, files
  <1>5. CASE HandOver
    BY <1>5, HandOverKeeps
  <1> QED BY <1>1, <1>2, <1>3, <1>4, <1>5 DEF Program, Main, Workers, HandOver

\* Whatever the command line, the answer and the other process, pgzip changes a
\* file it has not made only if -f was given or the question not answered with no.
THEOREM OverwriteCorrect == Spec => OverwritesOnlyWhenAsked
  <1>1. VectorInv /\ ConsentInv /\ [Next]_vars
        => [Program /\ out \in {"old", "foreign"} /\ out' # out
             => \/ \E k \in DOMAIN argv : argv[k].word = "-f"
                \/ responseBuf \in {"y", "unread"}]_vars
    BY TouchesOnlyWhenAsked
  <1> QED BY <1>1, VectorInit, VectorStep, ConsentInit, ConsentStep,
             PTL DEF Spec, OverwritesOnlyWhenAsked

-----------------------------------------------------------------------------
(* The sorted list                                                          *)

Parts == [part : {"header", "block", "trailer"}, number : Nat, size : Int]
Nodes == [index : Nat, data : Parts]
Sorted(list) == \A k, l \in DOMAIN list : k < l => list[k].index < list[l].index
HasNode(list, x) == \E k \in DOMAIN list : list[k] = x
Listed(list, n) == \E k \in DOMAIN list : list[k].index = n

\* The place of a new index: behind all smaller ones.
LEMMA PlaceFacts ==
    ASSUME NEW list \in Seq(Nodes), Sorted(list), NEW n \in Nat, ~Listed(list, n)
    PROVE  LET p == Place(list, n)
           IN  /\ p \in 1 .. Len(list) + 1
               /\ \A k \in DOMAIN list : k < p => list[k].index < n
               /\ \A k \in DOMAIN list : k >= p => n < list[k].index
  <1> DEFINE p == Place(list, n)
             T == {k \in DOMAIN list : n < list[k].index}
  <1>1. /\ DOMAIN list = 1 .. Len(list) /\ Len(list) \in Nat
        /\ \A k \in DOMAIN list : list[k].index \in Nat /\ list[k].index # n
    <2>1. DOMAIN list = 1 .. Len(list) /\ Len(list) \in Nat
          /\ \A k \in DOMAIN list : list[k] \in Nodes
      OBVIOUS
    <2>2. \A k \in DOMAIN list : list[k].index \in Nat
      BY <2>1 DEF Nodes
    <2> QED BY <2>1, <2>2 DEF Listed
  <1>2. CASE T = {}
    <2>1. p = Len(list) + 1
      BY <1>2 DEF Place
    <2>2. \A k \in DOMAIN list : list[k].index < n
      BY <1>1, <1>2
    <2>3. \A k \in DOMAIN list : ~(k >= Len(list) + 1)
      BY <1>1
    <2> HIDE DEF p
    <2> QED BY <1>1, <2>1, <2>2, <2>3 DEF p
  <1>3. CASE T # {}
    <2>1. PICK m \in T : \A k \in T : m <= k
      <3>1. T \subseteq Nat
        BY <1>1
      <3> QED BY <1>3, <3>1, Least
    <2>2. m \in DOMAIN list /\ n < list[m].index
      OBVIOUS
    <2>3. ASSUME NEW l \in 1 .. m - 1 PROVE list[l].index <= n
      <3>1. l \in DOMAIN list /\ l < m /\ m \in Nat
        BY <1>1, <2>2
      <3>2. l \notin T
        BY <1>1, <2>1, <3>1
      <3> QED BY <1>1, <3>1, <3>2
    <2>4. \E k \in DOMAIN list : n < list[k].index
      BY <2>2
    <2>5. p \in DOMAIN list /\ n < list[p].index /\ \A l \in 1 .. p - 1 : list[l].index <= n
      BY <2>2, <2>3, <2>4 DEF Place
    <2> HIDE DEF p
    <2>6. ASSUME NEW k \in DOMAIN list, k < p PROVE list[k].index < n
      <3>1. k \in 1 .. p - 1
        BY <1>1, <2>5, <2>6
      <3> QED BY <1>1, <2>5, <3>1
    <2>7. ASSUME NEW k \in DOMAIN list, k >= p PROVE n < list[k].index
      <3>1. CASE k = p
        BY <2>5, <3>1
      <3>2. CASE k # p
        <4>1. p < k
          BY <1>1, <2>5, <2>7, <3>2
        <4>2. list[p].index < list[k].index
          BY <2>5, <4>1 DEF Sorted
        <4> QED BY <1>1, <2>5, <4>2
      <3> QED BY <3>1, <3>2
    <2>8. p \in 1 .. Len(list) + 1
      BY <1>1, <2>5
    <2> QED BY <2>6, <2>7, <2>8 DEF p
  <1> QED BY <1>2, <1>3

LEMMA InsertAtFacts ==
    ASSUME NEW S, NEW s \in Seq(S), NEW e \in S, NEW p \in 1 .. Len(s) + 1
    PROVE  /\ InsertAt(s, p, e) \in Seq(S) /\ Len(InsertAt(s, p, e)) = Len(s) + 1
           /\ \A k \in 1 .. Len(s) + 1 :
                InsertAt(s, p, e)[k] = IF k < p THEN s[k] ELSE IF k = p THEN e ELSE s[k - 1]
  <1> DEFINE a == SubSeq(s, 1, p - 1)
             b == SubSeq(s, p, Len(s))
             c == a \o <<e>>
  <1>1. a \in Seq(S) /\ Len(a) = p - 1 /\ \A k \in 1 .. p - 1 : a[k] = s[k]
    OBVIOUS
  <1>2. b \in Seq(S) /\ Len(b) = Len(s) - p + 1 /\ \A k \in 1 .. Len(s) - p + 1 : b[k] = s[p + k - 1]
    OBVIOUS
  <1> HIDE DEF a, b
  <1>3. c \in Seq(S) /\ Len(c) = p /\ \A k \in 1 .. p : c[k] = IF k < p THEN s[k] ELSE e
    BY <1>1
  <1> HIDE DEF c
  <1> DEFINE z == c \o b
  <1>4. /\ z \in Seq(S) /\ Len(z) = Len(c) + Len(b)
        /\ \A k \in 1 .. Len(c) + Len(b) : z[k] = IF k <= Len(c) THEN c[k] ELSE b[k - Len(c)]
    BY <1>2, <1>3, ConcatProperties
  <1>5. InsertAt(s, p, e) = z
    BY DEF InsertAt, a, b, c
  <1> HIDE DEF z
  <1>6. Len(c) = p /\ Len(c) + Len(b) = Len(s) + 1
    BY <1>2, <1>3
  <1>7. ASSUME NEW k \in 1 .. Len(s) + 1
        PROVE  z[k] = IF k < p THEN s[k] ELSE IF k = p THEN e ELSE s[k - 1]
    <2>1. z[k] = IF k <= p THEN c[k] ELSE b[k - p]
      BY <1>4, <1>6
    <2>2. CASE k <= p
      <3>1. z[k] = c[k] /\ k \in 1 .. p
        BY <2>1, <2>2
      <3> QED BY <1>3, <2>2, <3>1
    <2>3. CASE k > p
      <3>1. k - p \in 1 .. Len(s) - p + 1 /\ p + (k - p) - 1 = k - 1
        BY <2>3
      <3>2. b[k - p] = s[k - 1]
        BY <1>2, <3>1
      <3>3. ~(k <= p) /\ ~(k < p) /\ k # p
        BY <2>3
      <3> QED BY <2>1, <3>2, <3>3
    <2> QED BY <2>2, <2>3
  <1> QED BY <1>4, <1>5, <1>6, <1>7

\* insert_into_sorted_linked_list puts the node in and leaves the list sorted.
LEMMA InsertFacts ==
    ASSUME NEW list \in Seq(Nodes), Sorted(list), NEW n \in Nat, NEW d \in Parts, ~Listed(list, n)
    PROVE  /\ insert(list, n, d) \in Seq(Nodes) /\ Sorted(insert(list, n, d))
           /\ \A x : HasNode(insert(list, n, d), x) <=> x = Node(n, d) \/ HasNode(list, x)
  <1> DEFINE new == insert(list, n, d)
             p == Place(list, n)
             e == Node(n, d)
  <1>1. /\ p \in 1 .. Len(list) + 1
        /\ \A k \in DOMAIN list : k < p => list[k].index < n
        /\ \A k \in DOMAIN list : k >= p => n < list[k].index
    BY PlaceFacts
  <1>2. e \in Nodes /\ e.index = n
    BY DEF Node, Nodes
  <1>3. new = InsertAt(list, p, e)
    BY DEF insert
  <1> HIDE DEF new, p, e
  <1>4. /\ new \in Seq(Nodes) /\ Len(new) = Len(list) + 1
        /\ \A k \in 1 .. Len(list) + 1 :
             new[k] = IF k < p THEN list[k] ELSE IF k = p THEN e ELSE list[k - 1]
    <2>1. /\ InsertAt(list, p, e) \in Seq(Nodes) /\ Len(InsertAt(list, p, e)) = Len(list) + 1
          /\ \A k \in 1 .. Len(list) + 1 :
               InsertAt(list, p, e)[k]
                 = IF k < p THEN list[k] ELSE IF k = p THEN e ELSE list[k - 1]
      BY <1>1, <1>2, InsertAtFacts
    <2> QED BY <1>3, <2>1
  <1>5. DOMAIN new = 1 .. Len(list) + 1 /\ DOMAIN list = 1 .. Len(list) /\ Len(list) \in Nat
    BY <1>4
  <1>6. \A k \in DOMAIN list : list[k].index \in Nat
    <2>1. \A k \in DOMAIN list : list[k] \in Nodes
      OBVIOUS
    <2> QED BY <2>1 DEF Nodes
  <1>7. Sorted(new)
    <2> SUFFICES ASSUME NEW k \in DOMAIN new, NEW l \in DOMAIN new, k < l
                 PROVE  new[k].index < new[l].index
      BY DEF Sorted
    <2>1. CASE l < p
      <3>1. k \in DOMAIN list /\ l \in DOMAIN list /\ new[k] = list[k] /\ new[l] = list[l]
        BY <1>1, <1>4, <1>5, <2>1
      <3> QED BY <3>1 DEF Sorted
    <2>2. CASE l = p
      <3>1. k \in DOMAIN list /\ k < p /\ new[k] = list[k] /\ new[l] = e
        BY <1>1, <1>4, <1>5, <2>2
      <3> QED BY <1>1, <1>2, <3>1
    <2>3. CASE l > p
      <3>1. l - 1 \in DOMAIN list /\ l - 1 >= p /\ new[l] = list[l - 1]
        BY <1>1, <1>4, <1>5, <2>3
      <3>2. n < list[l - 1].index
        BY <1>1, <3>1
      <3>3. CASE k < p
        <4>1. k \in DOMAIN list /\ k < l - 1 /\ new[k] = list[k]
          BY <1>1, <1>4, <1>5, <2>3, <3>3
        <4> QED BY <3>1, <4>1 DEF Sorted
      <3>4. CASE k = p
        BY <1>2, <1>4, <1>5, <3>1, <3>2, <3>4
      <3>5. CASE k > p
        <4>1. k - 1 \in DOMAIN list /\ k - 1 < l - 1 /\ new[k] = list[k - 1]
          BY <1>1, <1>4, <1>5, <2>3, <3>5
        <4> QED BY <3>1, <4>1 DEF Sorted
      <3> QED BY <1>1, <1>5, <3>3, <3>4, <3>5
    <2> QED BY <1>1, <1>5, <2>1, <2>2, <2>3
  <1>8. ASSUME NEW x PROVE HasNode(new, x) <=> x = e \/ HasNode(list, x)
    <2>1. ASSUME NEW k \in DOMAIN new PROVE new[k] = e \/ HasNode(list, new[k])
      <3>1. CASE k < p
        <4>1. k \in DOMAIN list /\ new[k] = list[k]
          BY <1>1, <1>4, <1>5, <3>1
        <4> QED BY <4>1 DEF HasNode
      <3>2. CASE k = p
        BY <1>4, <1>5, <3>2
      <3>3. CASE k > p
        <4>1. k - 1 \in DOMAIN list /\ new[k] = list[k - 1]
          BY <1>1, <1>4, <1>5, <3>3
        <4> QED BY <4>1 DEF HasNode
      <3> QED BY <1>1, <1>5, <3>1, <3>2, <3>3
    <2>2. HasNode(new, e)
      <3>1. p \in DOMAIN new /\ new[p] = e
        BY <1>1, <1>4, <1>5
      <3> QED BY <3>1 DEF HasNode
    <2>3. ASSUME NEW k \in DOMAIN list PROVE HasNode(new, list[k])
      <3>1. CASE k < p
        <4>1. k \in DOMAIN new /\ new[k] = list[k]
          BY <1>1, <1>4, <1>5, <3>1
        <4> QED BY <4>1 DEF HasNode
      <3>2. CASE k >= p
        <4>1. k + 1 \in DOMAIN new /\ ~(k + 1 < p) /\ k + 1 # p /\ k + 1 - 1 = k
          BY <1>1, <1>5, <3>2
        <4>2. new[k + 1] = list[k]
          BY <1>4, <1>5, <4>1
        <4> QED BY <4>1, <4>2 DEF HasNode
      <3> QED BY <1>1, <1>5, <3>1, <3>2
    <2> QED BY <2>1, <2>2, <2>3 DEF HasNode
  <1> QED BY <1>4, <1>7, <1>8 DEF new, e

\* The same, as the loop needs it: what is in the list afterwards, and of which
\* indices.
LEMMA InsertListed ==
    ASSUME NEW list \in Seq(Nodes), Sorted(list), NEW n \in Nat, NEW d \in Parts, ~Listed(list, n)
    PROVE  LET new == insert(list, n, d)
           IN  /\ new \in Seq(Nodes) /\ Sorted(new)
               /\ \A k \in DOMAIN new :
                    new[k] = Node(n, d) \/ \E l \in DOMAIN list : new[k] = list[l]
               /\ \A m : Listed(new, m) <=> m = n \/ Listed(list, m)
  <1> DEFINE new == insert(list, n, d)
  <1>1. /\ new \in Seq(Nodes) /\ Sorted(new)
        /\ \A x : HasNode(new, x) <=> x = Node(n, d) \/ HasNode(list, x)
    BY InsertFacts
  <1>2. Node(n, d).index = n
    BY DEF Node
  <1> HIDE DEF new
  <1>3. ASSUME NEW k \in DOMAIN new
        PROVE  new[k] = Node(n, d) \/ \E l \in DOMAIN list : new[k] = list[l]
    <2>1. HasNode(new, new[k])
      BY DEF HasNode
    <2> QED BY <1>1, <2>1 DEF HasNode
  <1>4. ASSUME NEW m PROVE Listed(new, m) <=> m = n \/ Listed(list, m)
    <2>1. ASSUME Listed(new, m) PROVE m = n \/ Listed(list, m)
      <3>1. PICK k \in DOMAIN new : new[k].index = m
        BY <2>1 DEF Listed
      <3> QED BY <1>2, <1>3, <3>1 DEF Listed
    <2>2. ASSUME m = n \/ Listed(list, m) PROVE Listed(new, m)
      <3>1. CASE m = n
        <4>1. HasNode(new, Node(n, d))
          BY <1>1
        <4> QED BY <1>2, <3>1, <4>1 DEF HasNode, Listed
      <3>2. CASE Listed(list, m)
        <4>1. PICK k \in DOMAIN list : list[k].index = m
          BY <3>2 DEF Listed
        <4>2. HasNode(list, list[k])
          BY DEF HasNode
        <4>3. HasNode(new, list[k])
          BY <1>1, <4>2
        <4> QED BY <4>1, <4>3 DEF HasNode, Listed
      <3> QED BY <2>2, <3>1, <3>2
    <2> QED BY <2>1, <2>2
  <1> QED BY <1>1, <1>3, <1>4 DEF new

\* pop_top takes the least index off the list.
LEMMA PopListed ==
    ASSUME NEW list \in Seq(Nodes), Sorted(list), list # << >>
    PROVE  LET new == pop_top(list)
           IN  /\ new \in Seq(Nodes) /\ Sorted(new)
               /\ \A k \in DOMAIN new : \E l \in DOMAIN list : new[k] = list[l]
               /\ \A k \in DOMAIN new : Head(list).index < new[k].index
               /\ \A m : m # Head(list).index => (Listed(new, m) <=> Listed(list, m))
  <1> DEFINE new == pop_top(list)
  <1>1. /\ new \in Seq(Nodes) /\ Len(new) = Len(list) - 1 /\ Len(list) \in Nat \ {0}
        /\ \A k \in 1 .. Len(list) - 1 : new[k] = list[k + 1]
        /\ Head(list) = list[1]
    BY DEF pop_top
  <1> HIDE DEF new
  <1>2. DOMAIN new = 1 .. Len(list) - 1 /\ DOMAIN list = 1 .. Len(list)
    BY <1>1
  <1>3. ASSUME NEW k \in DOMAIN new
        PROVE  k + 1 \in DOMAIN list /\ 1 \in DOMAIN list /\ 1 < k + 1 /\ new[k] = list[k + 1]
    BY <1>1, <1>2
  <1>4. Sorted(new)
    <2> SUFFICES ASSUME NEW k \in DOMAIN new, NEW l \in DOMAIN new, k < l
                 PROVE  new[k].index < new[l].index
      BY DEF Sorted
    <2>1. k + 1 < l + 1
      BY <1>2
    <2> QED BY <1>3, <2>1 DEF Sorted
  <1>5. \A k \in DOMAIN new : \E l \in DOMAIN list : new[k] = list[l]
    BY <1>3
  <1>6. \A k \in DOMAIN new : Head(list).index < new[k].index
    BY <1>1, <1>3 DEF Sorted
  <1>7. ASSUME NEW m, m # Head(list).index PROVE Listed(new, m) <=> Listed(list, m)
    <2>1. ASSUME Listed(list, m) PROVE Listed(new, m)
      <3>1. PICK k \in DOMAIN list : list[k].index = m
        BY <2>1 DEF Listed
      <3>2. k # 1
        BY <1>1, <1>7, <3>1
      <3>3. k - 1 \in 1 .. Len(list) - 1 /\ (k - 1) + 1 = k
        BY <1>1, <1>2, <3>2
      <3>4. k - 1 \in DOMAIN new /\ new[k - 1] = list[k]
        BY <1>1, <1>2, <3>3
      <3> QED BY <3>1, <3>4 DEF Listed
    <2> QED BY <1>5, <2>1 DEF Listed
  <1> QED BY <1>1, <1>4, <1>5, <1>6, <1>7 DEF new

-----------------------------------------------------------------------------
(* The frame: what is where while the loop runs                             *)

Begun == IoRuns \/ pc = "trailer"
Busy(c) == ctx[c].stage # "free"

\* Block n of an input of so many bytes, and its node in the list.
SizeOf(n, size, chunk) == IF size - (n - 1) * chunk > chunk THEN chunk
                          ELSE size - (n - 1) * chunk
BlockPart(n, size, chunk) == Part("block", n, SizeOf(n, size, chunk))

FrameTypes ==
    /\ insize \in Nat \cup {-1} /\ ifile_size \in Nat
    /\ crc \in Seq(Nat) /\ next_block_to_output \in Nat \ {0}
    /\ processed_blocks \in Seq(Nodes) /\ text \in Seq(Parts)
    /\ q \in Seq(Parts) /\ output_queue \in Seq(Parts)

\* What has left the sorted list: in the file, with the io thread, on its way there.
Sent == (text \o q) \o output_queue

\* The io thread holds blocks of its own only while it writes, and main waits for
\* its end.
IoInv == (io # "write" => q = << >>) /\ (pc = "trailer" => io = "done")

\* Before the loop nothing has been read or written.
EarlyInv ==
    Running /\ ~Begun =>
        /\ text = << >> /\ output_queue = << >> /\ q = << >>
        /\ processed_blocks = << >> /\ crc = << >> /\ ~shutdown
        /\ block_number = 1 /\ next_block_to_output = 1
        /\ pc \in {"open", "create", "check", "header"} => bytes_to_read = ifile_size

\* Every block but the last has taken a whole chunk off the input.
SizeInv ==
    Begun =>
        /\ bytes_to_read >= 0
        /\ Len(crc) = IF pc = "read" THEN block_number - 2 ELSE block_number - 1
        /\ bytes_to_read > 0 => ifile_size = bytes_to_read + Len(crc) * block_chunk_size
        /\ bytes_to_read = 0 =>
             \/ Len(crc) = 0
             \/ ifile_size - (Len(crc) - 1) * block_chunk_size \in 1 .. block_chunk_size
        /\ pc = "read" => /\ bytes_to_read > 0
                          /\ ctx[reading.who].stage = "read"
                          /\ ctx[reading.who].block = block_number - 1
        /\ shutdown => bytes_to_read = 0 /\ block_number > 1

\* The list is sorted and holds blocks that are not written yet.
ListInv ==
    Begun =>
        /\ next_block_to_output <= block_number
        /\ Sorted(processed_blocks)
        /\ \A k \in DOMAIN processed_blocks :
             LET n == processed_blocks[k].index
             IN  /\ n \in next_block_to_output .. block_number - 1
                 /\ processed_blocks[k] = Node(n, BlockPart(n, ifile_size, block_chunk_size))

\* A context that is busy has a block of its own, that is not in the list.
JobInv ==
    Begun =>
        /\ \A c \in DOMAIN ctx :
             Busy(c) => /\ ctx[c].block \in next_block_to_output .. block_number - 1
                        /\ ctx[c].size = SizeOf(ctx[c].block, ifile_size, block_chunk_size)
                        /\ ~Listed(processed_blocks, ctx[c].block)
        /\ \A c, d \in DOMAIN ctx :
             Busy(c) /\ Busy(d) /\ ctx[c].block = ctx[d].block => c = d

\* Every block that was read and not written is in one of those places.
PlaceInv ==
    Begun => \A n \in next_block_to_output .. block_number - 1 :
                \/ Listed(processed_blocks, n)
                \/ \E c \in DOMAIN ctx : Busy(c) /\ ctx[c].block = n

\* The first blocks go to the contexts in their order.
FirstInv ==
    pc = "first" \/ (pc = "read" /\ reading.next = "first") =>
        \A c \in DOMAIN ctx : c >= block_number => ~Busy(c)

\* The loop is left when every block was given to the io thread.
DoneInv ==
    pc \in {"kill", "signal", "join", "trailer"} =>
                      /\ bytes_to_read = 0 /\ block_number > 1
                      /\ ~lost => next_block_to_output = block_number

TextInv ==
    Begun /\ ~short /\ ~torn =>
        /\ Len(text) >= 1 /\ Len(Sent) = next_block_to_output /\ Sent[1] = Header
        /\ \A n \in 1 .. Len(Sent) - 1 :
             Sent[n + 1] = BlockPart(n, ifile_size, block_chunk_size)

FrameInv == /\ FrameTypes /\ EarlyInv /\ SizeInv /\ ListInv /\ JobInv /\ PlaceInv
            /\ FirstInv /\ DoneInv /\ IoInv /\ TextInv /\ Framed

LEMMA FrameInit == Init => FrameInv
  <1> SUFFICES ASSUME Init PROVE FrameInv
    OBVIOUS
  <1>1. /\ pc = "parse" /\ text = << >> /\ processed_blocks = << >> /\ crc = << >>
        /\ shutdown = FALSE /\ block_number = 1 /\ next_block_to_output = 1
        /\ ifile_size = 0 /\ q = << >> /\ output_queue = << >>
    BY DEF Init
  <1>2. insize \in Nat \cup {-1}
    BY SceneAssumption DEF Init
  <1> QED BY <1>1, <1>2 DEF FrameInv, FrameTypes, EarlyInv, SizeInv, ListInv, JobInv, PlaceInv,
                           FirstInv, DoneInv, IoInv, TextInv, Framed, Begun, IoRuns, InLoop,
                           Running

\* Until the header nothing that matters happens but that the size is asked for.
LEMMA EarlyStep ==
    ASSUME FrameInv,
           \/ ParseArgument \/ ParseMissing \/ ParseDecompress \/ Probe \/ Ask \/ RemoveOld
           \/ StatInput \/ OpenInput \/ CreateOutput \/ CheckOutput
    PROVE  FrameInv'
  <1> USE DEF ParseArgument, ParseMissing, ParseDecompress, Probe, Ask, RemoveOld,
              StatInput, OpenInput, CreateOutput, CheckOutput
  <1>1. /\ UNCHANGED <<insize, crc, next_block_to_output, processed_blocks, text,
                       block_number, shutdown, q, output_queue, io>>
    BY DEF files, pool, output, queues, sizes
  <1>2. Running /\ ~Begun
    BY DEF Running, Begun, IoRuns, InLoop
  <1>3. ~(pc' \in {"first", "read", "loop", "enqueue", "tosleep", "asleep", "kill", "signal",
                   "join", "trailer"})
    <2>1. CASE Probe
      <3>1. pc' \in {"stat", "remove", "ask"}
        BY <2>1
      <3> QED BY <3>1
    <2>2. CASE ParseArgument
      BY <2>2
    <2> QED BY <2>1, <2>2
  <1>4. /\ ifile_size' \in Nat
        /\ pc' \in {"open", "create", "check", "header"} => bytes_to_read' = ifile_size'
    <2>1. CASE StatInput
      BY <2>1 DEF FrameInv, FrameTypes
    <2>2. CASE Probe
      <3>1. pc' \in {"stat", "remove", "ask"}
        BY <2>2
      <3> QED BY <2>2, <3>1 DEF FrameInv, FrameTypes, sizes
    <2>3. CASE ParseArgument \/ ParseMissing \/ ParseDecompress \/ Ask \/ RemoveOld
      BY <2>3 DEF FrameInv, FrameTypes, sizes
    <2>4. CASE OpenInput \/ CreateOutput \/ CheckOutput
      <3>1. pc \in {"open", "create", "check"}
        BY <2>4
      <3> QED BY <1>2, <2>4, <3>1 DEF FrameInv, FrameTypes, EarlyInv, sizes
    <2> QED BY <2>1, <2>2, <2>3, <2>4
  <1>5. /\ text = << >> /\ processed_blocks = << >> /\ crc = << >> /\ ~shutdown
        /\ block_number = 1 /\ next_block_to_output = 1
        /\ q = << >> /\ output_queue = << >>
    BY <1>2 DEF FrameInv, EarlyInv
  <1> QED BY <1>1, <1>3, <1>4, <1>5
          DEF FrameInv, FrameTypes, EarlyInv, SizeInv, ListInv, JobInv, PlaceInv, FirstInv,
              DoneInv, IoInv, TextInv, Framed, Begun, IoRuns, InLoop

\* The header is written before the first block is read.
LEMMA HeaderStep ==
    ASSUME VectorInv, FrameInv, WriteHeader
    PROVE  FrameInv'
  <1>1. /\ UNCHANGED <<insize, ifile_size, bytes_to_read, crc, next_block_to_output,
                       processed_blocks, block_number, shutdown, block_chunk_size>>
        /\ pc' \in {"first", "crashed"} /\ pc = "header"
        /\ text' = <<Header>> \/ (short' = TRUE /\ text' = text)
        /\ ctx' = [c \in 1 .. number_of_threads |-> Idle]
        /\ UNCHANGED <<q, output_queue>>
    BY DEF WriteHeader, files, sizes, options, queues
  <1>2. /\ text = << >> /\ q = << >> /\ output_queue = << >> /\ processed_blocks = << >> /\ crc = << >> /\ ~shutdown
        /\ block_number = 1 /\ next_block_to_output = 1 /\ bytes_to_read = ifile_size
        /\ ifile_size \in Nat
    BY <1>1 DEF FrameInv, EarlyInv, FrameTypes, Running, Begun, IoRuns, InLoop
  <1>3. DOMAIN ctx' = 1 .. number_of_threads /\ \A c \in DOMAIN ctx' : ctx'[c].stage = "free"
    BY <1>1 DEF Idle
  <1>4. Header \in Parts
    BY DEF Header, Part, Parts
  <1>5. FrameTypes'
    <2>1. text' \in Seq(Parts)
      <3>1. <<Header>> \in Seq(Parts) /\ << >> \in Seq(Parts)
        BY <1>4
      <3> QED BY <1>1, <1>2, <3>1
    <2> QED BY <1>1, <2>1 DEF FrameInv, FrameTypes
  <1>6. /\ Len(crc') = 0 /\ DOMAIN processed_blocks' = {}
        /\ Len(crc) * block_chunk_size = 0
    BY <1>1, <1>2, UIntAssumption DEF VectorInv
  <1>7. SizeInv'
    BY <1>1, <1>2, <1>6 DEF SizeInv
  <1>8. EarlyInv'
    BY <1>1 DEF EarlyInv, Begun, IoRuns, InLoop, Running
  <1>9. ListInv'
    BY <1>1, <1>2, <1>6 DEF ListInv, Sorted
  <1>10. JobInv' /\ PlaceInv' /\ FirstInv' /\ DoneInv' /\ IoInv' /\ Framed'
    BY <1>1, <1>2, <1>3 DEF JobInv, PlaceInv, FirstInv, DoneInv, IoInv, Framed, Busy
  <1>11. TextInv'
    <2>1. CASE text' = <<Header>>
      <3>1. Sent' = <<Header>>
        BY <1>1, <1>2, <1>4, <2>1, ConcatEmptySeq DEF Sent
      <3>2. Header' = Header
        BY <1>1 DEF Header
      <3> QED BY <1>1, <1>2, <2>1, <3>1, <3>2 DEF TextInv
    <2>2. CASE short' = TRUE
      BY <2>2 DEF TextInv
    <2> QED BY <1>1, <2>1, <2>2
  <1> QED BY <1>5, <1>7, <1>9, <1>10, <1>11, <1>8 DEF FrameInv

\* The other process does not touch what the frame is made of, and neither does a
\* read or write that fails.
LEMMA OtherStep ==
    ASSUME FrameInv, Other \/ IoFails \/ UNCHANGED vars
    PROVE  FrameInv'
  <1>1. UNCHANGED <<block_chunk_size, ifile_size, bytes_to_read, crc, ctx, reading,
                    block_number, next_block_to_output, processed_blocks, shutdown, lost,
                    text, short, q, output_queue, torn, io>>
    BY DEF Other, CreateForeign, RemoveForeign, ShortenInput, IoFails, vars, options, sizes,
           pool, output, queues
  <1>2. insize' \in Nat \cup {-1}
    <2>1. insize' = insize \/ (insize > 0 /\ insize' = insize - 1)
      BY DEF Other, CreateForeign, RemoveForeign, ShortenInput, IoFails, vars, files
    <2> QED BY <2>1 DEF FrameInv, FrameTypes
  <1>3. FrameTypes'
    BY <1>1, <1>2 DEF FrameInv, FrameTypes
  <1>4. pc' = pc \/ pc' = "exited"
    BY DEF Other, CreateForeign, RemoveForeign, ShortenInput, IoFails, vars
  <1>5. CASE pc' = pc
    BY <1>1, <1>3, <1>5
       DEF FrameInv, EarlyInv, SizeInv, ListInv, JobInv, PlaceInv, FirstInv, DoneInv, IoInv,
           TextInv, Sent, Framed, Begun, IoRuns, InLoop, Running, Busy, Trailer
  <1>6. CASE pc' = "exited"
    BY <1>1, <1>3, <1>6
       DEF FrameInv, EarlyInv, SizeInv, ListInv, JobInv, PlaceInv, FirstInv, DoneInv, IoInv,
           TextInv, Framed, Begun, IoRuns, InLoop, Running
  <1> QED BY <1>4, <1>5, <1>6

\* A change of the stage of a context that stays busy moves no block.
LEMMA StageMovesNothing ==
    ASSUME Begun, JobInv, PlaceInv, NEW c \in DOMAIN ctx, Busy(c),
           UNCHANGED <<block_chunk_size, ifile_size, block_number, next_block_to_output,
                       processed_blocks>>,
           DOMAIN ctx' = DOMAIN ctx, ctx'[c].stage # "free",
           ctx'[c].block = ctx[c].block, ctx'[c].size = ctx[c].size,
           \A d \in DOMAIN ctx \ {c} : ctx'[d] = ctx[d]
    PROVE  JobInv' /\ PlaceInv' /\ \A d \in DOMAIN ctx : ctx'[d].stage # "free" <=> Busy(d)
  <1>1. \A d \in DOMAIN ctx : /\ ctx'[d].stage # "free" <=> ctx[d].stage # "free"
                              /\ ctx'[d].block = ctx[d].block /\ ctx'[d].size = ctx[d].size
    BY DEF Busy
  <1>2. JobInv'
    BY <1>1 DEF JobInv, Busy
  <1>3. PlaceInv'
    BY <1>1 DEF PlaceInv, Busy
  <1> QED BY <1>1, <1>2, <1>3 DEF Busy

\* What a step of EXCEPT on one context changes.
LEMMA StageOf ==
    ASSUME VectorInv, NEW c \in DOMAIN ctx, NEW st \in Stages,
           ctx' = [ctx EXCEPT ![c].stage = st]
    PROVE  /\ DOMAIN ctx' = DOMAIN ctx /\ ctx'[c].stage = st
           /\ ctx'[c].block = ctx[c].block /\ ctx'[c].size = ctx[c].size
           /\ \A d \in DOMAIN ctx \ {c} : ctx'[d] = ctx[d]
  <1>1. ctx[c] \in Jobs /\ ctx \in [DOMAIN ctx -> Jobs]
    BY DEF VectorInv
  <1>2. ctx' = [ctx EXCEPT ![c] = [ctx[c] EXCEPT !.stage = st]]
    OBVIOUS
  <1> QED BY <1>1, <1>2 DEF Jobs

\* A worker compresses the block of its context.
LEMMA WorkerStep ==
    ASSUME VectorInv, FrameInv, NEW c \in DOMAIN ctx,
           WorkerStart(c) \/ flush_outbuf(c) \/ WorkerFinish(c)
    PROVE  FrameInv'
  <1>1. /\ UNCHANGED <<block_chunk_size, insize, ifile_size, bytes_to_read, crc, reading,
                       block_number, next_block_to_output, processed_blocks, shutdown, lost,
                       text, short, q, output_queue, torn, io>>
        /\ InLoop /\ ctx[c].stage \in {"asked", "compress"}
        /\ pc' = pc \/ (pc = "asleep" /\ pc' = "loop")
    BY DEF WorkerStart, flush_outbuf, WorkerFinish, SetStage, options, files, sizes, output,
           queues
  <1>2. /\ DOMAIN ctx' = DOMAIN ctx /\ ctx'[c].stage # "free"
        /\ ctx'[c].block = ctx[c].block /\ ctx'[c].size = ctx[c].size
        /\ \A d \in DOMAIN ctx \ {c} : ctx'[d] = ctx[d]
    <2>1. CASE WorkerStart(c)
      <3>1. ctx' = [ctx EXCEPT ![c].stage = "compress"]
        BY <2>1 DEF WorkerStart, SetStage
      <3> QED BY <3>1, StageOf DEF Stages
    <2>2. CASE WorkerFinish(c)
      <3>1. ctx' = [ctx EXCEPT ![c].stage = "done"]
        BY <2>2 DEF WorkerFinish, SetStage
      <3> QED BY <3>1, StageOf DEF Stages
    <2>3. CASE flush_outbuf(c)
      <3>1. ctx' = [ctx EXCEPT ![c] = [ctx[c] EXCEPT !.flushes = @ + 1]]
        BY <2>3 DEF flush_outbuf
      <3>2. ctx[c] \in Jobs /\ ctx \in [DOMAIN ctx -> Jobs]
        BY DEF VectorInv
      <3> QED BY <1>1, <3>1, <3>2 DEF Jobs
    <2> QED BY <2>1, <2>2, <2>3
  <1>3. Begun /\ Begun' /\ Busy(c)
    BY <1>1 DEF Begun, IoRuns, InLoop, Busy
  <1>4. JobInv' /\ PlaceInv' /\ \A d \in DOMAIN ctx : ctx'[d].stage # "free" <=> Busy(d)
    BY <1>1, <1>2, <1>3, StageMovesNothing DEF FrameInv
  <1>5. FirstInv'
    BY <1>1, <1>2, <1>4 DEF FrameInv, FirstInv, Busy
  <1>6. pc = "read" => ctx'[reading.who] = ctx[reading.who]
    <2> SUFFICES ASSUME pc = "read" PROVE ctx'[reading.who] = ctx[reading.who]
      OBVIOUS
    <2>1. reading.who \in DOMAIN ctx /\ ctx[reading.who].stage = "read"
      BY <1>3 DEF VectorInv, FrameInv, SizeInv
    <2> QED BY <1>1, <1>2, <2>1
  <1>7. SizeInv'
    BY <1>1, <1>3, <1>6 DEF FrameInv, SizeInv
  <1>8. FrameTypes' /\ EarlyInv' /\ ListInv' /\ DoneInv' /\ IoInv' /\ TextInv' /\ Framed'
    BY <1>1, <1>3 DEF FrameInv, FrameTypes, EarlyInv, ListInv, DoneInv, IoInv, TextInv, Sent,
                      Framed, InLoop
  <1> QED BY <1>4, <1>5, <1>7, <1>8 DEF FrameInv

\* Part of a block is read.
LEMMA ReadSomeStep ==
    ASSUME FrameInv, ReadSome
    PROVE  FrameInv'
  <1>1. /\ UNCHANGED <<block_chunk_size, insize, ifile_size, bytes_to_read, crc, ctx,
                       block_number, next_block_to_output, processed_blocks, shutdown, lost,
                       text, short, q, output_queue, torn, io, pc>>
        /\ pc = "read"
    BY DEF ReadSome, options, files, output, queues
  <1>2. reading'.who = reading.who /\ reading'.next = reading.next
    BY DEF ReadSome
  <1>3. FrameTypes' /\ EarlyInv' /\ ListInv' /\ JobInv' /\ PlaceInv' /\ DoneInv' /\ IoInv'
        /\ TextInv' /\ Framed'
    BY <1>1 DEF FrameInv, FrameTypes, EarlyInv, ListInv, JobInv, PlaceInv, DoneInv, IoInv,
                TextInv, Sent, Framed, Begun, IoRuns, InLoop, Busy
  <1>4. FirstInv' /\ SizeInv'
    BY <1>1, <1>2 DEF FrameInv, FirstInv, SizeInv, Begun, IoRuns, InLoop, Busy
  <1> QED BY <1>3, <1>4 DEF FrameInv

\* A block comes off what is left to read: a whole chunk, or all of it.
LEMMA ChunkOff ==
    ASSUME NEW left \in Nat, left > 0, NEW chunk \in Nat, NEW size \in Nat, NEW r \in Nat,
           size = left + r * chunk
    PROVE  LET taken == SizeOf(r + 1, size, chunk)
           IN  /\ taken = IF left > chunk THEN chunk ELSE left
               /\ left - taken >= 0
               /\ left - taken > 0 => size = (left - taken) + (r + 1) * chunk
               /\ left - taken = 0 => size - ((r + 1) - 1) * chunk \in 1 .. chunk
  <1>1. (r + 1) - 1 = r /\ (r + 1) * chunk = r * chunk + chunk /\ r * chunk \in Nat
    OBVIOUS
  <1>2. size - ((r + 1) - 1) * chunk = left
    BY <1>1
  <1>3. SizeOf(r + 1, size, chunk) = IF left > chunk THEN chunk ELSE left
    BY <1>2 DEF SizeOf
  <1>4. left = chunk \/ left < chunk \/ left > chunk
    OBVIOUS
  <1> QED BY <1>1, <1>2, <1>3, <1>4

\* The block is read, and its context asked to compress it.
LEMMA BlockReadStep ==
    ASSUME VectorInv, ConsentInv, FrameInv, BlockRead
    PROVE  FrameInv'
  <1> DEFINE c == reading.who
  <1>1. /\ UNCHANGED <<block_chunk_size, insize, ifile_size, reading, block_number,
                       next_block_to_output, processed_blocks, shutdown, lost, text, short,
                       q, output_queue, torn, io>>
        /\ pc = "read" /\ pc' = reading.next
        /\ crc' = Append(crc, ctx[c].block)
        /\ bytes_to_read' = bytes_to_read - ctx[c].size
        /\ ctx' = [ctx EXCEPT ![c].stage = "asked"]
    BY DEF BlockRead, updcrc, options, files, output, queues
  <1>2. pc' \in {"first", "loop"} /\ Begun /\ Begun'
    BY <1>1 DEF ConsentInv, Begun, IoRuns, InLoop
  <1>3. c \in DOMAIN ctx /\ ctx[c].stage = "read" /\ ctx[c].block = block_number - 1
    BY <1>1, <1>2 DEF VectorInv, FrameInv, SizeInv
  <1> HIDE DEF c
  <1>4. /\ DOMAIN ctx' = DOMAIN ctx /\ ctx'[c].stage = "asked"
        /\ ctx'[c].block = ctx[c].block /\ ctx'[c].size = ctx[c].size
        /\ \A d \in DOMAIN ctx \ {c} : ctx'[d] = ctx[d]
    BY <1>1, <1>3, StageOf DEF Stages
  <1>5. Busy(c)
    BY <1>3 DEF Busy
  <1>6. JobInv' /\ PlaceInv' /\ \A d \in DOMAIN ctx : ctx'[d].stage # "free" <=> Busy(d)
    BY <1>1, <1>2, <1>3, <1>4, <1>5, StageMovesNothing DEF FrameInv
  <1>7. FirstInv'
    <2> SUFFICES ASSUME pc' = "first", NEW d \in DOMAIN ctx, d >= block_number
                 PROVE  ctx'[d].stage = "free"
      BY <1>1, <1>2, <1>4 DEF FirstInv, Busy
    <2>1. ~Busy(d)
      BY <1>1 DEF FrameInv, FirstInv
    <2> QED BY <1>6, <2>1
  <1>8. FrameTypes'
    <2>1. ctx[c].block \in Nat
      BY <1>3 DEF VectorInv, Jobs
    <2>2. crc' \in Seq(Nat)
      BY <1>1, <2>1 DEF FrameInv, FrameTypes
    <2> QED BY <1>1, <2>2 DEF FrameInv, FrameTypes
  <1>9. SizeInv'
    <2> DEFINE r == Len(crc)
               taken == SizeOf(r + 1, ifile_size, block_chunk_size)
    <2>1. /\ bytes_to_read \in Int /\ block_number \in Nat /\ block_chunk_size \in Nat
          /\ r \in Nat /\ ifile_size \in Nat /\ crc \in Seq(Nat)
      BY UIntAssumption DEF VectorInv, FrameInv, FrameTypes
    <2>2. /\ bytes_to_read > 0 /\ r = block_number - 2
          /\ ifile_size = bytes_to_read + r * block_chunk_size
          /\ ~shutdown
      BY <1>1, <1>2, <2>1 DEF FrameInv, SizeInv
    <2>3. ctx[c].block = r + 1
      BY <1>3, <2>1, <2>2
    <2>4. ctx[c].size = taken
      BY <1>2, <1>3, <1>5, <2>3 DEF FrameInv, JobInv
    <2> HIDE DEF taken
    <2>5. /\ bytes_to_read - taken >= 0
          /\ bytes_to_read - taken > 0
               => ifile_size = (bytes_to_read - taken) + (r + 1) * block_chunk_size
          /\ bytes_to_read - taken = 0
               => ifile_size - ((r + 1) - 1) * block_chunk_size \in 1 .. block_chunk_size
      <3>1. bytes_to_read \in Nat
        BY <2>1, <2>2
      <3> QED BY <2>1, <2>2, <3>1, ChunkOff DEF taken
    <2>6. Len(crc') = r + 1 /\ r + 1 = block_number - 1
      <3>1. ctx[c].block \in Nat
        BY <2>1, <2>3
      <3>2. Len(crc') = Len(crc) + 1
        BY <1>1, <2>1, <3>1
      <3> QED BY <2>1, <2>2, <3>2
    <2>7. bytes_to_read' = bytes_to_read - taken
      BY <1>1, <2>4
    <2> HIDE DEF r
    <2> QED BY <1>1, <1>2, <2>2, <2>5, <2>6, <2>7 DEF SizeInv
  <1>10. EarlyInv' /\ ListInv' /\ DoneInv' /\ IoInv' /\ TextInv' /\ Framed'
    BY <1>1, <1>2 DEF FrameInv, EarlyInv, ListInv, DoneInv, IoInv, TextInv, Sent, Framed
  <1> QED BY <1>6, <1>7, <1>8, <1>9, <1>10 DEF FrameInv

\* The size of the next block is what the chunks before it leave.
LEMMA NextSize ==
    ASSUME VectorInv, FrameInv, pc \in {"first", "loop"}, bytes_to_read # 0
    PROVE  /\ bytes_to_read > 0 /\ block_number \in Nat /\ Len(crc) = block_number - 1
           /\ ReadSize = SizeOf(block_number, ifile_size, block_chunk_size)
  <1> DEFINE r == Len(crc)
  <1>1. /\ bytes_to_read \in Int /\ block_number \in Nat /\ block_chunk_size \in Nat
        /\ r \in Nat /\ ifile_size \in Nat
    BY UIntAssumption DEF VectorInv, FrameInv, FrameTypes
  <1>2. /\ bytes_to_read > 0 /\ r = block_number - 1
        /\ ifile_size = bytes_to_read + r * block_chunk_size
    BY <1>1 DEF FrameInv, SizeInv, Begun, IoRuns, InLoop
  <1> HIDE DEF r
  <1>3. bytes_to_read \in Nat /\ block_number = r + 1
    BY <1>1, <1>2
  <1>4. SizeOf(r + 1, ifile_size, block_chunk_size) = ReadSize
    BY <1>1, <1>2, <1>3, ChunkOff DEF ReadSize
  <1> QED BY <1>1, <1>2, <1>3, <1>4 DEF r

\* A context takes the next block.
LEMMA GrabJob ==
    ASSUME VectorInv, FrameInv, pc \in {"first", "loop"}, bytes_to_read # 0,
           NEW c \in DOMAIN ctx, NEW next, grab_another_block(c, next),
           UNCHANGED <<block_chunk_size, ifile_size, bytes_to_read, crc, shutdown>>
    PROVE  /\ DOMAIN ctx' = DOMAIN ctx /\ ctx'[c].stage = "read"
           /\ ctx'[c].block = block_number
           /\ ctx'[c].size = SizeOf(block_number, ifile_size, block_chunk_size)
           /\ \A d \in DOMAIN ctx \ {c} : ctx'[d] = ctx[d]
           /\ SizeInv' /\ EarlyInv' /\ DoneInv'
  <1> DEFINE j == [stage |-> "read", block |-> block_number, size |-> ReadSize, flushes |-> 0]
  <1>1. /\ ctx' = [ctx EXCEPT ![c] = j] /\ block_number' = block_number + 1
        /\ reading'.who = c /\ pc' = "read"
    BY DEF grab_another_block
  <1>2. ctx \in [DOMAIN ctx -> Jobs]
    BY DEF VectorInv
  <1>3. /\ j.stage = "read" /\ j.block = block_number
        /\ j.size = SizeOf(block_number, ifile_size, block_chunk_size)
    BY NextSize
  <1> HIDE DEF j
  <1>4. DOMAIN ctx' = DOMAIN ctx /\ ctx'[c] = j /\ \A d \in DOMAIN ctx \ {c} : ctx'[d] = ctx[d]
    BY <1>1, <1>2
  <1>5. /\ bytes_to_read > 0 /\ block_number \in Nat /\ Len(crc) = block_number - 1
        /\ bytes_to_read \in Int
    BY NextSize DEF VectorInv
  <1>6. SizeInv'
    <2>1. /\ ifile_size = bytes_to_read + Len(crc) * block_chunk_size /\ ~shutdown
      BY <1>5 DEF FrameInv, SizeInv, Begun, IoRuns, InLoop
    <2>2. Len(crc) = (block_number + 1) - 2 /\ block_number = (block_number + 1) - 1
          /\ bytes_to_read >= 0 /\ bytes_to_read # 0
      BY <1>5
    <2> QED BY <1>1, <1>3, <1>4, <1>5, <2>1, <2>2 DEF SizeInv
  <1>7. EarlyInv' /\ DoneInv'
    BY <1>1 DEF EarlyInv, DoneInv, Begun, IoRuns, InLoop
  <1> QED BY <1>3, <1>4, <1>6, <1>7

\* The first blocks.
LEMMA FirstStep ==
    ASSUME VectorInv, FrameInv, First
    PROVE  FrameInv'
  <1>1. /\ UNCHANGED <<block_chunk_size, insize, ifile_size, bytes_to_read, crc,
                       next_block_to_output, processed_blocks, shutdown, lost, text, short,
                       q, output_queue, torn, io>>
        /\ pc = "first" /\ Begun
    BY DEF First, pool, options, files, sizes, output, queues, Begun, IoRuns, InLoop
  <1>2. FrameTypes'
    BY <1>1 DEF FrameInv, FrameTypes
  <1>3. CASE ~(block_number <= number_of_threads /\ bytes_to_read > 0)
    <2>1. UNCHANGED <<ctx, reading, block_number>> /\ pc' = "loop"
      BY <1>3 DEF First, pool
    <2> QED BY <1>1, <1>2, <2>1
            DEF FrameInv, EarlyInv, SizeInv, ListInv, JobInv, PlaceInv, FirstInv, DoneInv,
                IoInv, TextInv, Sent, Framed, Begun, IoRuns, InLoop, Busy
  <1>4. CASE block_number <= number_of_threads /\ bytes_to_read > 0
    <2> DEFINE c == block_number
    <2>1. grab_another_block(c, "first")
      BY <1>4 DEF First
    <2>2. c \in DOMAIN ctx /\ bytes_to_read # 0 /\ block_number \in Nat /\ ~Busy(c)
      <3>1. c \in DOMAIN ctx /\ bytes_to_read # 0 /\ block_number \in Nat
        BY <1>1, <1>4 DEF VectorInv, InLoop
      <3> QED BY <1>1, <3>1 DEF FrameInv, FirstInv
    <2>3. block_number' = block_number + 1 /\ pc' = "read"
      BY <2>1 DEF grab_another_block
    <2> HIDE DEF c
    <2>4. /\ DOMAIN ctx' = DOMAIN ctx /\ ctx'[c].stage = "read"
          /\ ctx'[c].block = block_number
          /\ ctx'[c].size = SizeOf(block_number, ifile_size, block_chunk_size)
          /\ \A d \in DOMAIN ctx \ {c} : ctx'[d] = ctx[d]
          /\ SizeInv' /\ EarlyInv' /\ DoneInv'
      BY <1>1, <2>1, <2>2, GrabJob
    <2>5. next_block_to_output \in Nat /\ next_block_to_output <= block_number
      BY <1>1 DEF FrameInv, FrameTypes, ListInv
    <2>6. ListInv' /\ ~Listed(processed_blocks, block_number)
      <3>1. \A k \in DOMAIN processed_blocks :
               processed_blocks[k].index \in next_block_to_output .. block_number - 1
        BY <1>1 DEF FrameInv, ListInv
      <3>2. \A n \in next_block_to_output .. block_number - 1 :
               n \in next_block_to_output .. (block_number + 1) - 1 /\ n # block_number
        BY <2>2, <2>5
      <3>3. ~Listed(processed_blocks, block_number)
        BY <3>1, <3>2 DEF Listed
      <3>4. next_block_to_output <= block_number + 1
        BY <2>2, <2>5
      <3>5. ListInv'
        BY <1>1, <2>3, <3>1, <3>2, <3>4 DEF FrameInv, ListInv
      <3> QED BY <3>3, <3>5
    <2>7. JobInv'
      <3>1. ASSUME NEW d \in DOMAIN ctx, ctx'[d].stage # "free"
            PROVE  /\ ctx'[d].block \in next_block_to_output .. (block_number + 1) - 1
                   /\ ctx'[d].size = SizeOf(ctx'[d].block, ifile_size, block_chunk_size)
                   /\ ~Listed(processed_blocks, ctx'[d].block)
        <4>1. CASE d = c
          BY <2>2, <2>4, <2>5, <2>6, <4>1
        <4>2. CASE d # c
          <5>1. ctx'[d] = ctx[d] /\ Busy(d)
            BY <2>4, <3>1, <4>2 DEF Busy
          <5>2. /\ ctx[d].block \in next_block_to_output .. block_number - 1
                /\ ctx[d].size = SizeOf(ctx[d].block, ifile_size, block_chunk_size)
                /\ ~Listed(processed_blocks, ctx[d].block)
            BY <1>1, <5>1 DEF FrameInv, JobInv
          <5> QED BY <2>2, <2>5, <5>1, <5>2
        <4> QED BY <4>1, <4>2
      <3>2. ASSUME NEW d \in DOMAIN ctx, NEW e \in DOMAIN ctx, ctx'[d].stage # "free",
                   ctx'[e].stage # "free", ctx'[d].block = ctx'[e].block
            PROVE  d = e
        <4>1. ASSUME NEW a \in DOMAIN ctx, a # c, ctx'[a].stage # "free"
              PROVE  ctx'[a] = ctx[a] /\ Busy(a) /\ ctx[a].block # block_number
          <5>1. ctx'[a] = ctx[a] /\ Busy(a)
            BY <2>4, <4>1 DEF Busy
          <5>2. ctx[a].block \in next_block_to_output .. block_number - 1
            BY <1>1, <5>1 DEF FrameInv, JobInv
          <5> QED BY <2>2, <2>5, <5>1, <5>2
        <4>2. CASE d = c \/ e = c
          BY <2>4, <3>2, <4>1, <4>2
        <4>3. CASE d # c /\ e # c
          BY <1>1, <3>2, <4>1, <4>3 DEF FrameInv, JobInv
        <4> QED BY <4>2, <4>3
      <3> QED BY <1>1, <2>3, <2>4, <3>1, <3>2 DEF JobInv, Busy
    <2>8. PlaceInv'
      <3>1. ASSUME NEW n \in next_block_to_output .. (block_number + 1) - 1
            PROVE  \/ Listed(processed_blocks, n)
                   \/ \E d \in DOMAIN ctx : ctx'[d].stage # "free" /\ ctx'[d].block = n
        <4>1. CASE n = block_number
          BY <2>2, <2>4, <4>1
        <4>2. CASE n # block_number
          <5>1. n \in next_block_to_output .. block_number - 1
            BY <2>2, <2>5, <4>2
          <5>2. Listed(processed_blocks, n) \/ \E d \in DOMAIN ctx : Busy(d) /\ ctx[d].block = n
            BY <1>1, <5>1 DEF FrameInv, PlaceInv
          <5> QED BY <2>2, <2>4, <5>2 DEF Busy
        <4> QED BY <4>1, <4>2
      <3> QED BY <1>1, <2>3, <2>4, <3>1 DEF PlaceInv, Busy
    <2>9. FirstInv'
      <3> SUFFICES ASSUME NEW d \in DOMAIN ctx, d >= block_number + 1
                   PROVE  ctx'[d].stage = "free"
        BY <2>3, <2>4 DEF FirstInv, Busy
      <3>1. d \in Nat /\ d # c /\ d >= block_number
        BY <1>1, <2>2 DEF VectorInv, InLoop, c
      <3>2. ~Busy(d)
        BY <1>1, <3>1 DEF FrameInv, FirstInv
      <3> QED BY <2>4, <3>1, <3>2 DEF Busy
    <2>10. IoInv' /\ TextInv' /\ Framed'
      BY <1>1, <2>3 DEF FrameInv, IoInv, TextInv, Sent, Framed, Begun
    <2> QED BY <1>2, <2>4, <2>6, <2>7, <2>8, <2>9, <2>10 DEF FrameInv
  <1> QED BY <1>3, <1>4

\* A finished block goes to its place in the list; the context takes the next, if
\* there is one.
LEMMA CollectStep ==
    ASSUME VectorInv, FrameInv, NEW c \in DOMAIN ctx, Collect(c)
    PROVE  FrameInv'
  <1> DEFINE b == ctx[c].block
             d0 == Part("block", b, ctx[c].size)
             list == processed_blocks
             new == insert(list, b, d0)
  <1>1. /\ UNCHANGED <<block_chunk_size, insize, ifile_size, bytes_to_read, crc,
                       next_block_to_output, lost, text, short, q, output_queue, torn, io>>
        /\ pc = "loop" /\ Begun /\ Busy(c) /\ processed_blocks' = new
    BY DEF Collect, options, files, sizes, output, queues, Begun, IoRuns, InLoop, Busy
  <1>2. /\ b \in Nat /\ ctx[c].size \in Int /\ list \in Seq(Nodes)
        /\ next_block_to_output \in Nat /\ next_block_to_output >= 1 /\ block_number \in Nat
    BY DEF VectorInv, Jobs, FrameInv, FrameTypes
  <1>3. /\ b \in next_block_to_output .. block_number - 1
        /\ ctx[c].size = SizeOf(b, ifile_size, block_chunk_size) /\ ~Listed(list, b)
    BY <1>1 DEF FrameInv, JobInv
  <1>4. d0 \in Parts /\ d0 = BlockPart(b, ifile_size, block_chunk_size)
    BY <1>2, <1>3 DEF Part, Parts, BlockPart
  <1>5. /\ next_block_to_output <= block_number /\ Sorted(list)
        /\ \A k \in DOMAIN list :
             /\ list[k].index \in next_block_to_output .. block_number - 1
             /\ list[k] = Node(list[k].index,
                               BlockPart(list[k].index, ifile_size, block_chunk_size))
    BY <1>1 DEF FrameInv, ListInv
  <1> HIDE DEF list
  <1>6. /\ new \in Seq(Nodes) /\ Sorted(new)
        /\ \A k \in DOMAIN new : new[k] = Node(b, d0) \/ \E l \in DOMAIN list : new[k] = list[l]
        /\ \A m : Listed(new, m) <=> m = b \/ Listed(list, m)
    BY <1>2, <1>3, <1>4, <1>5, InsertListed
  <1> HIDE DEF b, d0, new
  <1>7. FrameTypes'
    BY <1>1, <1>6 DEF FrameInv, FrameTypes
  <1>8. Framed'
    <2>1. pc' # "returned"
      BY <1>1 DEF Collect, grab_another_block
    <2> QED BY <2>1 DEF Framed
  \* Either way the blocks of the other contexts stay where they were.
  <1>9. /\ DOMAIN ctx' = DOMAIN ctx /\ \A d \in DOMAIN ctx \ {c} : ctx'[d] = ctx[d]
        /\ block_number' \in {block_number, block_number + 1}
        /\ \/ ctx'[c].stage = "free" /\ block_number' = block_number
           \/ /\ ctx'[c].block = block_number /\ ctx'[c].stage # "free"
              /\ ctx'[c].size = SizeOf(block_number, ifile_size, block_chunk_size)
              /\ block_number' = block_number + 1
        /\ SizeInv' /\ EarlyInv' /\ DoneInv' /\ FirstInv' /\ pc' \in {"loop", "read"}
    <2>1. CASE bytes_to_read # 0
      <3>1. grab_another_block(c, "loop") /\ UNCHANGED shutdown
        BY <2>1 DEF Collect
      <3>2. block_number' = block_number + 1 /\ reading'.next = "loop" /\ pc' = "read"
        BY <3>1 DEF grab_another_block
      <3>3. /\ DOMAIN ctx' = DOMAIN ctx /\ ctx'[c].stage = "read"
            /\ ctx'[c].block = block_number
            /\ ctx'[c].size = SizeOf(block_number, ifile_size, block_chunk_size)
            /\ \A d \in DOMAIN ctx \ {c} : ctx'[d] = ctx[d]
            /\ SizeInv' /\ EarlyInv' /\ DoneInv'
        BY <1>1, <2>1, <3>1, GrabJob
      <3>4. FirstInv'
        BY <3>2 DEF FirstInv
      <3> QED BY <3>2, <3>3, <3>4
    <2>2. CASE bytes_to_read = 0
      <3>1. /\ shutdown' = TRUE /\ ctx' = [ctx EXCEPT ![c].stage = "free"]
            /\ UNCHANGED <<block_number, reading, pc>>
        BY <2>2 DEF Collect, Shutdown
      <3>2. /\ DOMAIN ctx' = DOMAIN ctx /\ ctx'[c].stage = "free"
            /\ \A d \in DOMAIN ctx \ {c} : ctx'[d] = ctx[d]
        BY <3>1, StageOf DEF Stages
      <3>3. block_number > 1
        BY <1>2, <1>3
      <3>4. SizeInv'
        BY <1>1, <2>2, <3>1, <3>3 DEF FrameInv, SizeInv, Begun
      <3>5. EarlyInv' /\ DoneInv' /\ FirstInv'
        BY <1>1, <3>1 DEF EarlyInv, DoneInv, FirstInv, Begun, IoRuns, InLoop
      <3> QED BY <1>1, <3>1, <3>2, <3>4, <3>5
    <2> QED BY <2>1, <2>2
  <1>10. PICK m \in Nat :
           /\ block_number' = m
           /\ \/ ctx'[c].stage = "free" /\ m = block_number
              \/ /\ ctx'[c].block = block_number /\ ctx'[c].stage # "free"
                 /\ ctx'[c].size = SizeOf(block_number, ifile_size, block_chunk_size)
                 /\ m = block_number + 1
    <2>1. block_number + 1 \in Nat
      BY <1>2
    <2> QED BY <1>2, <1>9, <2>1
  <1>11. ASSUME NEW n \in next_block_to_output .. block_number - 1
         PROVE  n \in next_block_to_output .. m - 1 /\ n # block_number
    BY <1>2, <1>10
  <1>12. ListInv'
    <2>1. next_block_to_output <= m
      BY <1>2, <1>5, <1>10
    <2>2. ASSUME NEW k \in DOMAIN new
          PROVE  /\ new[k].index \in next_block_to_output .. m - 1
                 /\ new[k] = Node(new[k].index,
                                  BlockPart(new[k].index, ifile_size, block_chunk_size))
      <3>1. CASE new[k] = Node(b, d0)
        <4>1. new[k].index = b
          BY <3>1 DEF Node
        <4> QED BY <1>3, <1>4, <1>11, <3>1, <4>1
      <3>2. CASE \E l \in DOMAIN list : new[k] = list[l]
        <4>1. PICK l \in DOMAIN list : new[k] = list[l]
          BY <3>2
        <4> QED BY <1>5, <1>11, <4>1
      <3> QED BY <1>6, <3>1, <3>2
    <2> QED BY <1>1, <1>6, <1>10, <2>1, <2>2 DEF ListInv
  <1>13. ASSUME NEW d \in DOMAIN ctx, d # c, ctx'[d].stage # "free"
         PROVE  /\ ctx'[d] = ctx[d] /\ Busy(d) /\ ctx[d].block # b
                /\ ctx[d].block \in next_block_to_output .. block_number - 1
                /\ ctx[d].size = SizeOf(ctx[d].block, ifile_size, block_chunk_size)
                /\ ~Listed(list, ctx[d].block)
    <2>1. ctx'[d] = ctx[d] /\ Busy(d)
      BY <1>9, <1>13 DEF Busy
    <2> QED BY <1>1, <1>13, <2>1 DEF FrameInv, JobInv, b, list
  <1>14. ~Listed(list, block_number) /\ block_number # b
    BY <1>3, <1>5, <1>11 DEF Listed
  <1>15. JobInv'
    <2>1. ASSUME NEW d \in DOMAIN ctx, ctx'[d].stage # "free"
          PROVE  /\ ctx'[d].block \in next_block_to_output .. m - 1
                 /\ ctx'[d].size = SizeOf(ctx'[d].block, ifile_size, block_chunk_size)
                 /\ ~Listed(new, ctx'[d].block)
      <3>1. CASE d = c
        <4>1. /\ ctx'[c].block = block_number /\ m = block_number + 1
              /\ ctx'[c].size = SizeOf(block_number, ifile_size, block_chunk_size)
          BY <1>10, <2>1, <3>1
        <4>2. block_number \in next_block_to_output .. (block_number + 1) - 1
          BY <1>2, <1>5
        <4> QED BY <1>6, <1>14, <3>1, <4>1, <4>2
      <3>2. CASE d # c
        BY <1>6, <1>11, <1>13, <2>1, <3>2
      <3> QED BY <3>1, <3>2
    <2>2. ASSUME NEW d \in DOMAIN ctx, NEW e \in DOMAIN ctx, ctx'[d].stage # "free",
                 ctx'[e].stage # "free", ctx'[d].block = ctx'[e].block
          PROVE  d = e
      <3>1. \A a \in DOMAIN ctx : a # c /\ ctx'[a].stage # "free"
               => ctx'[a] = ctx[a] /\ Busy(a) /\ ctx[a].block # block_number
        BY <1>11, <1>13
      <3>2. CASE d = c \/ e = c
        BY <1>10, <2>2, <3>1, <3>2
      <3>3. CASE d # c /\ e # c
        BY <1>1, <2>2, <3>1, <3>3 DEF FrameInv, JobInv
      <3> QED BY <3>2, <3>3
    <2> QED BY <1>1, <1>9, <1>10, <2>1, <2>2 DEF JobInv, Busy
  <1>16. PlaceInv'
    <2>1. ASSUME NEW n \in next_block_to_output .. m - 1
          PROVE  Listed(new, n) \/ \E d \in DOMAIN ctx : ctx'[d].stage # "free" /\ ctx'[d].block = n
      <3>1. CASE n = block_number
        <4>1. m = block_number + 1
          BY <1>2, <1>10, <3>1
        <4>2. ctx'[c].stage # "free" /\ ctx'[c].block = n
          BY <1>2, <1>10, <3>1, <4>1
        <4> QED BY <4>2
      <3>2. CASE n # block_number
        <4>1. n \in next_block_to_output .. block_number - 1
          BY <1>2, <1>10, <3>2
        <4>2. Listed(list, n) \/ \E d \in DOMAIN ctx : Busy(d) /\ ctx[d].block = n
          BY <1>1, <4>1 DEF FrameInv, PlaceInv, list
        <4>3. CASE Listed(list, n)
          BY <1>6, <4>3
        <4>4. ASSUME NEW d \in DOMAIN ctx, Busy(d), ctx[d].block = n
              PROVE  Listed(new, n)
                     \/ \E e \in DOMAIN ctx : ctx'[e].stage # "free" /\ ctx'[e].block = n
          <5>1. CASE d = c
            BY <1>6, <4>4, <5>1 DEF b
          <5>2. CASE d # c
            BY <1>9, <4>4, <5>2 DEF Busy
          <5> QED BY <5>1, <5>2
        <4> QED BY <4>2, <4>3, <4>4
      <3> QED BY <3>1, <3>2
    <2> QED BY <1>1, <1>9, <1>10, <2>1 DEF PlaceInv, Busy
  <1>17. IoInv' /\ TextInv'
    BY <1>1, <1>9 DEF FrameInv, IoInv, TextInv, Sent
  <1> QED BY <1>7, <1>8, <1>9, <1>12, <1>15, <1>16, <1>17 DEF FrameInv

\* What the io thread does moves blocks towards the file and leaves their order.
LEMMA IoMoves ==
    ASSUME FrameTypes, Io
    PROVE  /\ text' \in Seq(Parts) /\ q' \in Seq(Parts) /\ output_queue' \in Seq(Parts)
           /\ Sent' = Sent /\ Len(text') >= Len(text)
  <1>1. text \in Seq(Parts) /\ q \in Seq(Parts) /\ output_queue \in Seq(Parts)
    BY DEF FrameTypes
  <1>2. CASE IoTest \/ IoSleep \/ IoWritten
    <2>1. UNCHANGED <<text, q, output_queue>>
      BY <1>2 DEF IoTest, IoSleep, IoWritten, IoGoto, queues
    <2> QED BY <1>1, <2>1 DEF Sent
  <1>3. CASE IoTake
    <2>1. text' = text /\ q' = q \o output_queue /\ output_queue' = << >>
      BY <1>3 DEF IoTake
    <2>2. q' \in Seq(Parts) /\ text \o q' \in Seq(Parts)
      BY <1>1, <2>1, ConcatProperties
    <2>3. Sent' = text \o q'
      BY <2>1, <2>2, ConcatEmptySeq DEF Sent
    <2>4. Sent' = Sent
      BY <1>1, <2>1, <2>3, ConcatAssociative DEF Sent
    <2> QED BY <1>1, <2>1, <2>2, <2>4
  <1>4. CASE IoWrite
    <2>1. /\ q # << >> /\ text' = Append(text, Head(q)) /\ q' = Tail(q)
          /\ output_queue' = output_queue
      BY <1>4 DEF IoWrite
    <2>2. Head(q) \in Parts /\ Tail(q) \in Seq(Parts) /\ q = <<Head(q)>> \o Tail(q)
      BY <1>1, <2>1
    <2>3. text' = text \o <<Head(q)>> /\ <<Head(q)>> \in Seq(Parts)
      BY <1>1, <2>1, <2>2, AppendIsConcat
    <2>4. text' \o q' = text \o q
      BY <1>1, <2>1, <2>2, <2>3, ConcatAssociative
    <2> QED BY <1>1, <2>1, <2>2, <2>4 DEF Sent
  <1> QED BY <1>2, <1>3, <1>4 DEF Io

\* The steps that neither give the io thread a block nor take one off the list.
LEMMA WaitStep ==
    ASSUME FrameInv, HandOver, ~Enqueue
    PROVE  FrameInv'
  <1>1. /\ UNCHANGED <<block_chunk_size, insize, ifile_size, bytes_to_read, crc, ctx, reading,
                       block_number, shutdown, lost, short>>
        /\ Begun
        /\ pc' = pc
           \/ /\ pc \in {"loop", "enqueue", "tosleep", "asleep", "kill", "signal", "join"}
              /\ pc' \in {"loop", "enqueue", "tosleep", "asleep", "signal", "join", "trailer",
                         "crashed"}
    BY HandOverKeeps DEF Begun
  <1>2. /\ UNCHANGED <<next_block_to_output, processed_blocks>>
        /\ pc' \in {"kill", "signal", "join", "trailer"}
             => pc \in {"kill", "signal", "join", "trailer"}
        /\ (io' # "write" => q' = << >>) \/ IoWrite
        /\ pc' = "trailer" => io' = "done"
    <2>1. CASE Enqueued \/ Check \/ Sleep \/ SetKill \/ SignalKill \/ Join
      BY <2>1 DEF Enqueued, Check, Sleep, SetKill, SignalKill, Join, pool, output, queues,
                  FrameInv, IoInv
    <2>2. CASE QueueTorn
      BY <2>2 DEF QueueTorn, pool, FrameInv, IoInv
    <2>3. CASE SpuriousWakeup
      BY <2>3 DEF SpuriousWakeup, IoGoto, pool, output, queues, FrameInv, IoInv
    <2>4. CASE Io
      <3>1. pc' = pc /\ IoRuns
        BY <2>4 DEF Io, IoTest, IoSleep, IoTake, IoWrite, IoWritten, IoGoto
      <3>2. pc # "trailer"
        BY <3>1 DEF IoRuns, InLoop
      <3> QED BY <2>4, <3>1, <3>2
              DEF Io, IoTest, IoSleep, IoTake, IoWrite, IoWritten, IoGoto, pool, queues,
                  FrameInv, IoInv
    <2> QED BY <2>1, <2>2, <2>3, <2>4 DEF HandOver
  <1>3. IoInv'
    <2>1. IoWrite => io' = "write" /\ pc' # "trailer"
      BY DEF IoWrite, IoRuns, InLoop
    <2> QED BY <1>2, <2>1 DEF IoInv
  <1>4. /\ text' \in Seq(Parts) /\ q' \in Seq(Parts) /\ output_queue' \in Seq(Parts)
        /\ ~torn' => Sent' = Sent /\ Len(text') >= Len(text) /\ ~torn
    <2> FrameTypes
      BY DEF FrameInv
    <2>1. CASE Enqueued \/ Check \/ Sleep \/ SetKill \/ SignalKill \/ Join \/ SpuriousWakeup
      <3>1. UNCHANGED <<text, q, output_queue, torn>>
        BY <2>1 DEF Enqueued, Check, Sleep, SetKill, SignalKill, Join, SpuriousWakeup, IoGoto,
                    output, queues
      <3> QED BY <3>1 DEF FrameTypes, Sent
    <2>2. CASE QueueTorn
      <3>1. /\ UNCHANGED <<text, q>> /\ torn' = TRUE
            /\ output_queue' \in BoundedSeq(Range(output_queue), Len(output_queue))
        BY <2>2 DEF QueueTorn
      <3>2. Range(output_queue) \subseteq Parts
        BY DEF FrameTypes, Range
      <3>3. PICK m \in 0 .. Len(output_queue) : output_queue' \in [1 .. m -> Range(output_queue)]
        BY <3>1 DEF BoundedSeq, SeqOf
      <3>4. m \in Nat
        BY DEF FrameTypes
      <3>5. output_queue' \in Seq(Parts)
        BY <3>2, <3>3, <3>4
      <3> QED BY <3>1, <3>5 DEF FrameTypes
    <2>3. CASE Io
      <3>1. torn' = torn
        BY <2>3 DEF Io, IoTest, IoSleep, IoTake, IoWrite, IoWritten, IoGoto, queues
      <3> QED BY <2>3, <3>1, IoMoves
    <2> QED BY <2>1, <2>2, <2>3 DEF HandOver
  <1>5. FrameTypes'
    BY <1>1, <1>2, <1>4 DEF FrameInv, FrameTypes
  <1>6. EarlyInv' /\ DoneInv'
    BY <1>1, <1>2 DEF FrameInv, EarlyInv, DoneInv, Begun, IoRuns, InLoop, Running
  <1>7. SizeInv' /\ ListInv' /\ JobInv' /\ PlaceInv'
    BY <1>1, <1>2 DEF FrameInv, SizeInv, ListInv, JobInv, PlaceInv, Busy
  <1>8. FirstInv' /\ Framed'
    BY <1>1 DEF FrameInv, FirstInv, Framed, Begun, IoRuns, InLoop, Busy
  <1>9. TextInv'
    <2> SUFFICES ASSUME Begun', ~short, ~torn'
                 PROVE  /\ Len(text') >= 1 /\ Len(Sent') = next_block_to_output
                        /\ Sent'[1] = Header
                        /\ \A n \in 1 .. Len(Sent') - 1 :
                             Sent'[n + 1] = BlockPart(n, ifile_size, block_chunk_size)
      BY <1>1, <1>2 DEF TextInv, Header
    <2>1. /\ Len(text) >= 1 /\ Len(Sent) = next_block_to_output /\ Sent[1] = Header
          /\ \A n \in 1 .. Len(Sent) - 1 :
               Sent[n + 1] = BlockPart(n, ifile_size, block_chunk_size)
      BY <1>1, <1>4 DEF FrameInv, TextInv
    <2>2. Sent' = Sent /\ Len(text') >= 1
      <3>1. Len(text') \in Nat /\ Len(text) \in Nat
        BY <1>4 DEF FrameInv, FrameTypes
      <3> QED BY <1>4, <2>1, <3>1
    <2> QED BY <2>1, <2>2
  <1> QED BY <1>3, <1>5, <1>6, <1>7, <1>8, <1>9 DEF FrameInv

\* The next block leaves the list for the io thread's queue.
LEMMA EnqueueStep ==
    ASSUME VectorInv, FrameInv, Enqueue
    PROVE  FrameInv'
  <1> DEFINE next == next_block_to_output
             list == processed_blocks
             new == pop_top(list)
  <1>1. /\ UNCHANGED <<block_chunk_size, insize, ifile_size, bytes_to_read, crc, ctx, reading,
                       block_number, shutdown, lost, text, short, q, torn, io>>
        /\ pc = "loop" /\ pc' = "enqueue" /\ Begun /\ processed_blocks' = new
        /\ next_block_to_output' = next + 1
        /\ list # << >> /\ Head(list).index = next
        /\ \/ output_queue' = Append(output_queue, Head(list).data)
           \/ torn /\ output_queue' = output_queue
    BY DEF Enqueue, HeadIsNext, options, files, sizes, Begun, IoRuns, InLoop
  <1>2. /\ next \in Nat \ {0} /\ block_number \in Nat /\ list \in Seq(Nodes)
        /\ text \in Seq(Parts) /\ q \in Seq(Parts) /\ output_queue \in Seq(Parts)
    BY DEF VectorInv, FrameInv, FrameTypes
  <1>3. /\ Sorted(list)
        /\ \A k \in DOMAIN list :
             /\ list[k].index \in next .. block_number - 1
             /\ list[k] = Node(list[k].index,
                               BlockPart(list[k].index, ifile_size, block_chunk_size))
    BY <1>1 DEF FrameInv, ListInv
  <1> HIDE DEF list
  <1>4. /\ new \in Seq(Nodes) /\ Sorted(new)
        /\ \A k \in DOMAIN new : \E l \in DOMAIN list : new[k] = list[l]
        /\ \A k \in DOMAIN new : next < new[k].index
        /\ \A m : m # next => (Listed(new, m) <=> Listed(list, m))
    BY <1>1, <1>2, <1>3, PopListed
  <1>5. /\ 1 \in DOMAIN list /\ Head(list) = list[1] /\ list[1] \in Nodes
    BY <1>1, <1>2
  <1>6. /\ next \in next .. block_number - 1 /\ Listed(list, next)
        /\ Head(list).data = BlockPart(next, ifile_size, block_chunk_size)
        /\ Head(list).data \in Parts
    <2>1. next \in next .. block_number - 1
      BY <1>1, <1>3, <1>5
    <2>2. Listed(list, next)
      BY <1>1, <1>5 DEF Listed
    <2>3. Head(list) = Node(next, BlockPart(next, ifile_size, block_chunk_size))
      BY <1>1, <1>3, <1>5
    <2>4. Head(list).data = BlockPart(next, ifile_size, block_chunk_size)
      BY <2>3 DEF Node
    <2>5. Head(list).data \in Parts
      BY <1>5 DEF Nodes
    <2> QED BY <2>1, <2>2, <2>4, <2>5
  <1> HIDE DEF new
  <1>7. FrameTypes'
    <2>1. output_queue' \in Seq(Parts)
      BY <1>1, <1>2, <1>6
    <2> QED BY <1>1, <1>2, <1>4, <2>1 DEF FrameInv, FrameTypes
  <1>8. SizeInv' /\ EarlyInv' /\ FirstInv' /\ DoneInv' /\ IoInv' /\ Framed'
    BY <1>1 DEF FrameInv, SizeInv, EarlyInv, FirstInv, DoneInv, IoInv, Framed, Begun, IoRuns,
                InLoop
  <1>9. \A n \in next .. block_number - 1 : n # next => n \in next + 1 .. block_number - 1
    BY <1>2
  <1>10. ListInv'
    <2>1. next + 1 <= block_number
      BY <1>2, <1>6
    <2>2. ASSUME NEW k \in DOMAIN new
          PROVE  /\ new[k].index \in next + 1 .. block_number - 1
                 /\ new[k] = Node(new[k].index,
                                  BlockPart(new[k].index, ifile_size, block_chunk_size))
      <3>1. PICK l \in DOMAIN list : new[k] = list[l]
        BY <1>4
      <3>2. new[k].index \in next .. block_number - 1 /\ new[k].index # next
        BY <1>2, <1>3, <1>4, <3>1
      <3> QED BY <1>3, <1>9, <3>1, <3>2
    <2> QED BY <1>1, <1>4, <2>1, <2>2 DEF ListInv
  <1>11. JobInv'
    <2>1. ASSUME NEW c \in DOMAIN ctx, Busy(c)
          PROVE  /\ ctx[c].block \in next + 1 .. block_number - 1
                 /\ ctx[c].size = SizeOf(ctx[c].block, ifile_size, block_chunk_size)
                 /\ ~Listed(new, ctx[c].block)
      <3>1. /\ ctx[c].block \in next .. block_number - 1
            /\ ctx[c].size = SizeOf(ctx[c].block, ifile_size, block_chunk_size)
            /\ ~Listed(list, ctx[c].block)
        BY <1>1, <2>1 DEF FrameInv, JobInv, list
      <3>2. ctx[c].block # next
        BY <1>6, <3>1
      <3> QED BY <1>4, <1>9, <3>1, <3>2
    <2>2. \A c, d \in DOMAIN ctx : Busy(c) /\ Busy(d) /\ ctx[c].block = ctx[d].block => c = d
      BY <1>1 DEF FrameInv, JobInv
    <2> QED BY <1>1, <2>1, <2>2 DEF JobInv, Busy
  <1>12. PlaceInv'
    <2>1. ASSUME NEW n \in next + 1 .. block_number - 1
          PROVE  Listed(new, n) \/ \E c \in DOMAIN ctx : Busy(c) /\ ctx[c].block = n
      <3>1. n \in next .. block_number - 1 /\ n # next
        BY <1>2
      <3>2. Listed(list, n) \/ \E c \in DOMAIN ctx : Busy(c) /\ ctx[c].block = n
        BY <1>1, <3>1 DEF FrameInv, PlaceInv, list
      <3> QED BY <1>4, <3>1, <3>2
    <2> QED BY <1>1, <2>1 DEF PlaceInv, Busy
  <1>13. TextInv'
    <2> SUFFICES ASSUME ~short, ~torn
                 PROVE  /\ Len(Sent') = next + 1 /\ Sent'[1] = Header
                        /\ Len(text) >= 1
                        /\ \A n \in 1 .. Len(Sent') - 1 :
                             Sent'[n + 1] = BlockPart(n, ifile_size, block_chunk_size)
      BY <1>1 DEF TextInv, Header
    <2>1. /\ Len(Sent) = next /\ Sent[1] = Header /\ Len(text) >= 1
          /\ \A n \in 1 .. next - 1 :
               Sent[n + 1] = BlockPart(n, ifile_size, block_chunk_size)
      BY <1>1 DEF FrameInv, TextInv
    <2>2. /\ Len(Sent') = next + 1 /\ Sent'[next + 1] = Head(list).data
          /\ \A k \in 1 .. next : Sent'[k] = Sent[k]
      <3>1. output_queue' = Append(output_queue, Head(list).data)
        BY <1>1
      <3>2. Sent \in Seq(Parts) /\ text \o q \in Seq(Parts)
        BY <1>2, ConcatProperties DEF Sent
      <3>3. Sent' = Append(Sent, Head(list).data)
        <4>1. output_queue' = output_queue \o <<Head(list).data>>
              /\ <<Head(list).data>> \in Seq(Parts)
          BY <1>2, <1>6, <3>1, AppendIsConcat
        <4>2. Sent' = Sent \o <<Head(list).data>>
          BY <1>1, <1>2, <3>2, <4>1, ConcatAssociative DEF Sent
        <4> QED BY <1>6, <3>2, <4>2, AppendIsConcat
      <3> HIDE DEF list
      <3> QED BY <1>6, <2>1, <3>2, <3>3
    <2>3. ASSUME NEW n \in 1 .. Len(Sent') - 1
          PROVE  Sent'[n + 1] = BlockPart(n, ifile_size, block_chunk_size)
      <3>1. n \in 1 .. next
        BY <1>2, <2>2
      <3>2. CASE n = next
        BY <1>6, <2>2, <3>2
      <3>3. CASE n # next
        <4>1. n \in 1 .. next - 1 /\ n + 1 \in 1 .. next
          BY <1>2, <3>1, <3>3
        <4> QED BY <2>1, <2>2, <4>1
      <3> QED BY <3>2, <3>3
    <2>4. Sent'[1] = Header
      BY <1>2, <2>1, <2>2
    <2> QED BY <2>1, <2>2, <2>3, <2>4
  <1> QED BY <1>7, <1>8, <1>10, <1>11, <1>12, <1>13 DEF FrameInv

\* When no job is left and the list does not go on, the io thread has every block.
LEMMA LeaveLoopStep ==
    ASSUME VectorInv, FrameInv, LeaveLoop
    PROVE  FrameInv'
  <1>1. /\ UNCHANGED <<block_chunk_size, insize, ifile_size, bytes_to_read, crc, ctx, reading,
                       block_number, next_block_to_output, processed_blocks, shutdown, text,
                       short, q, output_queue, torn, io>>
        /\ pc = "loop" /\ Begun /\ pc' = "kill" /\ Begun' /\ ~HeadIsNext /\ shutdown
        /\ ~lost' => \A c \in DOMAIN ctx : ctx[c].stage = "free"
    BY DEF LeaveLoop, options, files, sizes, output, queues, Begun, IoRuns, InLoop
  <1>2. FrameTypes' /\ EarlyInv' /\ ListInv' /\ JobInv' /\ PlaceInv' /\ FirstInv' /\ IoInv'
        /\ TextInv' /\ Framed'
    BY <1>1 DEF FrameInv, FrameTypes, EarlyInv, ListInv, JobInv, PlaceInv, FirstInv, IoInv,
                TextInv, Sent, Framed, Busy
  <1>3. SizeInv'
    BY <1>1 DEF FrameInv, SizeInv
  <1>4. bytes_to_read = 0 /\ block_number > 1
    BY <1>1 DEF FrameInv, SizeInv
  <1>5. ASSUME ~lost', next_block_to_output # block_number PROVE FALSE
    <2>1. /\ next_block_to_output \in Nat /\ block_number \in Nat
          /\ next_block_to_output <= block_number /\ processed_blocks \in Seq(Nodes)
      BY <1>1 DEF VectorInv, FrameInv, FrameTypes, ListInv
    <2>2. next_block_to_output \in next_block_to_output .. block_number - 1
      BY <1>5, <2>1
    <2>3. Listed(processed_blocks, next_block_to_output)
      BY <1>1, <1>5, <2>2 DEF FrameInv, PlaceInv, Busy
    <2>4. PICK k \in DOMAIN processed_blocks : processed_blocks[k].index = next_block_to_output
      BY <2>3 DEF Listed
    <2>5. /\ k \in Nat /\ k >= 1 /\ 1 \in DOMAIN processed_blocks /\ processed_blocks # << >>
          /\ Head(processed_blocks) = processed_blocks[1]
      BY <2>1, <2>4
    <2>6. processed_blocks[1].index \in next_block_to_output .. block_number - 1
      BY <1>1, <2>5 DEF FrameInv, ListInv
    <2>7. k # 1 => processed_blocks[1].index < next_block_to_output
      <3>1. k # 1 => 1 < k
        BY <2>5
      <3> QED BY <1>1, <2>4, <2>5, <3>1 DEF FrameInv, ListInv, Sorted
    <2>8. processed_blocks[1].index = next_block_to_output
      BY <2>1, <2>4, <2>6, <2>7
    <2> QED BY <1>1, <2>5, <2>8 DEF HeadIsNext
  <1>6. DoneInv'
    BY <1>1, <1>4, <1>5 DEF DoneInv
  <1> QED BY <1>2, <1>3, <1>6 DEF FrameInv

\* Every block before the last is a whole chunk.
LEMMA WholeChunks ==
    ASSUME NEW size \in Nat, NEW chunk \in Nat, NEW n \in Nat, NEW b \in 1 .. n,
           size - (n - 1) * chunk \in 1 .. chunk
    PROVE  SizeOf(b, size, chunk) = IF b < n THEN chunk ELSE size - (n - 1) * chunk
  <1>1. CASE b = n
    BY <1>1 DEF SizeOf
  <1>2. CASE b < n
    <2>1. PICK m \in Nat : n = b + 1 + m
      <3>1. n - b - 1 \in Nat /\ n = b + 1 + (n - b - 1)
        BY <1>2
      <3> QED BY <3>1
    <2>2. m * chunk >= 0 /\ m * chunk \in Nat
      OBVIOUS
    <2>3. (n - 1) * chunk = (b - 1) * chunk + chunk + m * chunk
      BY <2>1
    <2>4. size - (b - 1) * chunk = (size - (n - 1) * chunk) + chunk + m * chunk
      BY <2>2, <2>3
    <2>5. (b - 1) * chunk \in Int /\ (n - 1) * chunk \in Int
      OBVIOUS
    <2>6. size - (b - 1) * chunk > chunk
      BY <2>2, <2>4, <2>5
    <2> QED BY <1>2, <2>6 DEF SizeOf
  <1> QED BY <1>1, <1>2

\* Between header and trailer the file has what was sent after the header, but for
\* what is left in the queue.
LEMMA BetweenFacts ==
    ASSUME NEW S, NEW s \in Seq(S), NEW e \in S, NEW left \in Seq(S), Len(s) >= 1
    PROVE  LET b == SubSeq(Append(s, e), 2, Len(s)) \o left
           IN  /\ Len(b) = Len(s \o left) - 1
               /\ \A n \in 1 .. Len(b) : b[n] = (s \o left)[n + 1]
  <1> DEFINE a == Append(s, e)
             t == SubSeq(a, 2, Len(s))
             b == t \o left
  <1>0. Len(s) = 1 \/ 2 <= Len(s)
    <2>1. \A n \in Nat : n >= 1 => n = 1 \/ 2 <= n
      OBVIOUS
    <2> HIDE DEF b
    <2>2. Len(s) \in Nat /\ Len(s) >= 1
      OBVIOUS
    <2> QED BY <2>1, <2>2
  <1>1. Len(s) \in Nat /\ Len(left) \in Nat
    OBVIOUS
  <1>2. a \in Seq(S) /\ Len(a) = Len(s) + 1 /\ \A k \in 1 .. Len(s) : a[k] = s[k]
    BY AppendProperties
  <1> HIDE DEF a
  <1>3. /\ t \in Seq(S) /\ Len(t) = Len(s) - 1
        /\ \A k \in 1 .. Len(s) - 1 : t[k] = s[k + 1]
    <2>1. \A k \in 2 .. Len(s) : a[k] \in S
      BY <1>1, <1>2
    <2>2. /\ t \in Seq(S) /\ Len(t) = IF 2 <= Len(s) THEN Len(s) - 2 + 1 ELSE 0
          /\ \A k \in 1 .. Len(s) - 2 + 1 : t[k] = a[2 + k - 1]
      BY <1>1, <2>1, SubSeqProperties
    <2>3. ASSUME NEW k \in 1 .. Len(s) - 1 PROVE t[k] = s[k + 1]
      <3>1. k \in 1 .. Len(s) - 2 + 1 /\ 2 + k - 1 = k + 1 /\ k + 1 \in 1 .. Len(s)
        BY <1>1
      <3> QED BY <1>2, <2>2, <3>1
    <2> HIDE DEF t
    <2>4. Len(t) = Len(s) - 1
      <3>1. CASE 2 <= Len(s)
        BY <1>1, <2>2, <3>1
      <3>2. CASE Len(s) = 1
        <4>1. ~(2 <= Len(s)) /\ Len(s) - 1 = 0
          BY <3>2
        <4> QED BY <2>2, <4>1
      <3> QED BY <1>0, <3>1, <3>2
    <2> QED BY <2>2, <2>3, <2>4
  <1> HIDE DEF t
  <1>4. /\ Len(b) = Len(t) + Len(left)
        /\ \A k \in 1 .. Len(t) + Len(left) : b[k] = IF k <= Len(t) THEN t[k] ELSE left[k - Len(t)]
    BY <1>3, ConcatProperties
  <1>5. /\ Len(s \o left) = Len(s) + Len(left)
        /\ \A k \in 1 .. Len(s) + Len(left) :
             (s \o left)[k] = IF k <= Len(s) THEN s[k] ELSE left[k - Len(s)]
    BY ConcatProperties
  <1>6. Len(b) = Len(s \o left) - 1
    BY <1>1, <1>3, <1>4, <1>5
  <1>7. ASSUME NEW n \in 1 .. Len(b) PROVE b[n] = (s \o left)[n + 1]
    <2>1. /\ n \in Nat /\ n \in 1 .. Len(t) + Len(left) /\ n + 1 \in 1 .. Len(s) + Len(left)
          /\ Len(t) + 1 = Len(s) /\ (n <= Len(t) <=> n + 1 <= Len(s))
          /\ n - Len(t) = (n + 1) - Len(s) /\ (n <= Len(t) => n \in 1 .. Len(s) - 1)
      BY <1>1, <1>3, <1>4
    <2>2. b[n] = IF n <= Len(t) THEN t[n] ELSE left[n - Len(t)]
      BY <1>4, <2>1
    <2>3. (s \o left)[n + 1] = IF n + 1 <= Len(s) THEN s[n + 1] ELSE left[(n + 1) - Len(s)]
      BY <1>5, <2>1
    <2>4. CASE n <= Len(t)
      <3>1. t[n] = s[n + 1]
        BY <1>3, <2>1, <2>4
      <3> QED BY <2>1, <2>2, <2>3, <2>4, <3>1
    <2>5. CASE ~(n <= Len(t))
      BY <2>1, <2>2, <2>3, <2>5
    <2> QED BY <2>4, <2>5
  <1> QED BY <1>6, <1>7 DEF a, t

\* With the trailer the file is complete, but for what is left in the queue.
LEMMA TrailerStep ==
    ASSUME VectorInv, FrameInv, WriteTrailer
    PROVE  FrameInv'
  <1> DEFINE n == Len(crc)
             rest == ifile_size - (n - 1) * block_chunk_size
  <1>1. /\ UNCHANGED <<block_chunk_size, insize, ifile_size, crc, next_block_to_output,
                       processed_blocks, lost, q, output_queue, torn, io>>
        /\ pc = "trailer" /\ Begun /\ pc' = "returned"
        /\ (text' = Append(text, Trailer) /\ short' = short) \/ (short' = TRUE /\ text' = text)
    BY DEF WriteTrailer, options, files, sizes, pool, queues, Begun
  <1>2. /\ output_queue \in Seq(Parts) /\ n \in Nat /\ ifile_size \in Nat /\ text \in Seq(Parts) /\ block_number \in Nat
        /\ block_chunk_size \in Nat
    BY UIntAssumption DEF VectorInv, FrameInv, FrameTypes
  <1>3. Trailer = Part("trailer", n, ifile_size) /\ Trailer \in Parts
    BY <1>2 DEF Trailer, Part, Parts
  <1>4. FrameTypes'
    <2>1. text' \in Seq(Parts)
      BY <1>1, <1>2, <1>3
    <2> QED BY <1>1, <2>1 DEF FrameInv, FrameTypes
  <1>5. EarlyInv' /\ SizeInv' /\ ListInv' /\ JobInv' /\ PlaceInv' /\ FirstInv' /\ DoneInv'
        /\ IoInv' /\ TextInv'
    BY <1>1 DEF FrameInv, EarlyInv, SizeInv, ListInv, JobInv, PlaceInv, FirstInv, DoneInv,
                IoInv, TextInv, Begun, IoRuns, InLoop, Running
  <1>6. Framed'
    <2> DEFINE sent == text \o output_queue
               blocks == SubSeq(text', 2, Len(text') - 1) \o output_queue
    <2> SUFFICES ASSUME ~short, ~lost, ~torn, text' = Append(text, Trailer)
                 PROVE  Framed'
      BY <1>1 DEF Framed
    <2>1. /\ Len(sent) = next_block_to_output /\ sent[1] = Header /\ Len(text) >= 1
          /\ \A b \in 1 .. Len(sent) - 1 :
               sent[b + 1] = BlockPart(b, ifile_size, block_chunk_size)
      <3>1. q = << >> /\ text \o q = text
        BY <1>1, <1>2, ConcatEmptySeq DEF FrameInv, IoInv
      <3>2. Sent = sent
        BY <3>1 DEF Sent
      <3> HIDE DEF sent
      <3> QED BY <1>1, <3>2 DEF FrameInv, TextInv
    <2>2. bytes_to_read = 0 /\ block_number > 1 /\ next_block_to_output = block_number
      BY <1>1 DEF FrameInv, DoneInv
    <2>3. n = block_number - 1 /\ n >= 1 /\ Len(sent) = n + 1
      BY <1>1, <1>2, <2>1, <2>2 DEF FrameInv, SizeInv
    <2>4. rest \in 1 .. block_chunk_size
      <3>1. n # 0
        BY <2>3
      <3> QED BY <1>1, <2>2, <3>1 DEF FrameInv, SizeInv
    <2>5. /\ Len(text') = Len(text) + 1 /\ Len(text') - 1 = Len(text)
          /\ text'[Len(text')] = Trailer /\ text'[1] = text[1] /\ Len(text) \in Nat
      BY <1>2, <1>3, <2>1
    <2>6. Len(blocks) = n /\ \A b \in 1 .. n : blocks[b] = sent[b + 1]
      <3>1. /\ Len(blocks) = Len(sent) - 1
            /\ \A b \in 1 .. Len(blocks) : blocks[b] = sent[b + 1]
        BY <1>2, <1>3, <2>1, <2>5, BetweenFacts
      <3> HIDE DEF blocks, sent
      <3> QED BY <1>2, <2>3, <3>1
    <2>7. text[1] = sent[1]
      BY <1>2, <2>1, <2>5, ConcatProperties
    <2> HIDE DEF blocks, sent
    <2>8. ASSUME NEW b \in 1 .. n
          PROVE  blocks[b] = Part("block", b, IF b < n THEN block_chunk_size ELSE rest)
      <3>1. SizeOf(b, ifile_size, block_chunk_size) = IF b < n THEN block_chunk_size ELSE rest
        BY <1>2, <2>4, WholeChunks
      <3>2. b \in 1 .. Len(sent) - 1
        BY <1>2, <2>3
      <3>3. blocks[b] = BlockPart(b, ifile_size, block_chunk_size)
        BY <2>1, <2>6, <3>2
      <3> QED BY <3>1, <3>3 DEF BlockPart
    <2>9. text'[1] = Header /\ Header' = Header
      BY <2>1, <2>5, <2>7 DEF Header
    <2>10. blocks = SubSeq(text', 2, Len(text') - 1) \o output_queue'
      BY <1>1 DEF blocks
    <2> HIDE DEF n
    <2> QED BY <1>1, <1>3, <2>3, <2>4, <2>5, <2>6, <2>8, <2>9, <2>10 DEF Framed
  <1> QED BY <1>4, <1>5, <1>6 DEF FrameInv

LEMMA FrameStep ==
    ASSUME VectorInv, ConsentInv, FrameInv, [Next]_vars
    PROVE  FrameInv'
  <1>1. CASE \/ ParseArgument \/ ParseMissing \/ ParseDecompress \/ Probe \/ Ask \/ RemoveOld
             \/ StatInput \/ OpenInput \/ CreateOutput \/ CheckOutput
    BY <1>1, EarlyStep
  <1>2. CASE \E c \in DOMAIN ctx :
               WorkerStart(c) \/ flush_outbuf(c) \/ WorkerFinish(c) \/ Collect(c)
    BY <1>2, WorkerStep, CollectStep
  <1>3. CASE Other \/ IoFails \/ UNCHANGED vars
    BY <1>3, OtherStep
  <1>4. CASE \/ WriteHeader \/ First \/ ReadSome \/ BlockRead \/ LeaveLoop
             \/ WriteTrailer
    BY <1>4, HeaderStep, FirstStep, ReadSomeStep, BlockReadStep, LeaveLoopStep, TrailerStep
  <1>5. CASE HandOver
    BY <1>5, EnqueueStep, WaitStep
  <1> QED BY <1>1, <1>2, <1>3, <1>4, <1>5 DEF Next, Program, Main, Workers, HandOver

\* Whatever the input, the chunk size, the number of threads, the order in which
\* blocks come back and what the io thread has done by then, a file that pgzip
\* returns from without a short write, a job left or a queue changed by two at
\* once is header, the blocks in order, trailer; the blocks it lacks are the last
\* ones, and still in output_queue (zip.c:61-122, deflate.c:216-258, 355-386).
THEOREM FrameCorrect == Spec => []Framed
  <1>1. FrameInv => Framed
    BY DEF FrameInv
  <1> QED BY <1>1, VectorInit, VectorStep, ConsentInit, ConsentStep, FrameInit, FrameStep,
             PTL DEF Spec
=============================================================================
