# A TLA+ model of pgzip and gzip

This repository holds two programs. `src/pgzip-src/pgzip` is a parallel gzip: it cuts a file
into blocks, compresses them on a pool of threads and writes the results in order.
`src/gzip-src` is gzip 1.3.3 with OpenMP pragmas, the program pgzip was made from and the one
that decompresses. This directory holds TLA+ modules translated from that C code, TLC
configurations that check them on small instances, and proofs, checked by TLAPS, of the
properties that matter most. Line numbers without a path are of files in
`src/pgzip-src/pgzip`; `gzip-src` stands for `src/gzip-src`.

## The system

### pgzip

| part | code | state | operations |
|---|---|---|---|
| command line, files | `gzip.c` | options, paths, descriptors | `main`, `treatfile`, `create_outfile` |
| gzip framing | `zip.c` `zip` | header buffer, `crc`, sizes | write header, run `deflate`, write trailer |
| main loop | `deflate.c` `deflate`, `grab_another_block` | `global_context`: input position, block numbers, `processed_blocks`, `output_queue` | read a block, dispatch, hand to a free thread, collect, put in order, stop |
| workers | `threads.c` `do_work` | `spec_thread`: `busy`, `work`, `thread_lock` | wait, compress, report, signal |
| io thread | `deflate.c` `io_out_function` | its local queue, `kill_output_io_thread` | wait, drain `output_queue`, write, exit |
| containers | `threads.c` vector, queue, sorted list | linked lists, a growing array | enqueue, dequeue, insert, pop, append |
| match finder | `deflate.c` `deflate_work`, `longest_match`, `fill_window`, `lm_init` | window, hash chains | turn a block into literals and matches |
| entropy coder | `trees.c` | Huffman trees, tallies | build trees, choose stored / fixed / dynamic, emit |
| bit output | `bits.c`, `put_byte` of `contexts.h`, `flush_outbuf` | `bi_buf`, `bi_valid`, `outbuf` | `send_bits`, `bi_windup`, `copy_block` |
| checksum | `util.c` `updcrc` | the shift register | fold bytes in |

### gzip

| part | code (`gzip-src`) | state | operations |
|---|---|---|---|
| arguments, files | `gzip.c` | options, names, descriptors, `remove_ofname`, `exit_code` | `treat_file`, `treat_dir`, `create_outfile`, `abort_gzip` |
| compression | `deflate.c`, `match.S` | window, `head`, `prev`, `ins_h` | `lm_init`, `longest_match`, `fill_window`, `deflate_fast`, `deflate` |
| trees | `trees.c`, `bits.c` | frequencies, trees, bit buffer | as in pgzip; here also `scan_tree`, `send_tree`, `compress_block` |
| headers and members | `gzip.c`, `unzip.c`, `util.c` | input buffer, `method`, `part_nb` | `get_method`, `unzip`, `copy`, `input_eof` |
| decoders | `inflate.c`, `unpack.c`, `unlzw.c`, `unlzh.c` | bit buffer, window, tables | one each for deflate, pack, compress and lha |
| arguments' grammar | `getopt.c` | - | library code of the GNU project |
| first copy of pgzip, scripts | `gzip-src/gzip2`, `pgzip-src/*.py` | - | a superseded copy; timing |

gzip is sequential, but not alone: signals and crashes come between any two system calls,
other processes use the same directory, `read` returns less than it is asked for, and the
threads of its OpenMP loops share `ins_h` in `lm_init`, `m` where `fill_window` slides the
chains, and `new` where `build_tree` forces a symbol. A file it reads may be of five
formats, cut off or damaged, and of several members.

### How the parts interact

In pgzip, main (the caller of `deflate()`) alone reads the input and owns block
numbers, the free and pending queues and the sorted list. It hands a job to a worker under
that worker's `thread_lock`; the worker reports through `completed_threads` under
`completed_threads_lock` and signals `pending_job_requests_cond`, on which only main waits,
under `pending_job_requests_lock`, which no worker takes. Ordered output goes to the io
thread through `output_queue`: main appends under `output_block_lock`, the io thread removes
under `output_fd_lock`, so the two locks do not exclude each other. The hard behaviours are
those hand-overs: condition variables, predicates tested under one lock and changed
under another, contexts that are reused as soon as they are collected, and an exit decided
from two of the four places where a block may be.

gzip's `treat_file` picks names, opens, has `get_method` read a header and call a decoder
through `work`, and loops while the input holds members. The decoders share one input buffer
(`inbuf`, `inptr`), and each must leave `inptr` where its data end, although most read ahead.
`remove_ofname` is the only thing a signal handler learns of what `treat_file` is doing.

What makes each part correct: the file must hold every block once, in order, each compressed
from its own bytes; a context must have one user at a time; no signal the program relies on
may be lost; the loop must stop, and only when nothing is left; containers must behave as
the sequences and lists the callers take them for; bits must survive from `send_bits` to the
file. gzip must never be the reason that a document is in no file any more, must say by its
status that it left something undone, must give back what was compressed whatever the size
of its buffers, and must notice damage wherever the format lets it.

## Modules

| module | what it models |
|---|---|
| `ParallelDeflate` | main loop, workers and io thread, as one state machine |
| `BlockStream` | what the pipeline promises: take in order, compress in any order, emit in order |
| `MCParallelDeflate` | what comments and README say of the pipeline, as formulas the runs refute |
| `ParallelDeflateProofs` | theorems about `ParallelDeflate`: types, threads, contexts, the output, where every block is, what is missing at the exit, and that it implements `BlockStream` |
| `SharedQueue` | the linked queue of `threads.c`, access by access, shared by threads |
| `MCSharedQueue` | the two queues of pgzip that threads share, and the locks they use |
| `SharedQueueProofs` | theorems about `SharedQueue` under one lock |
| `MatchFinder` | `deflate_work` on one block: window, hash chains, lazy matching |
| `MCMatchFinder` | blocks to compress, the hash by shift and xor |
| `MatchFinderProofs` | theorems: all five properties of `MatchFinder` |
| `HuffmanTree` | `build_tree`, `gen_bitlen`, `gen_codes` for one tree |
| `MCHuffmanTree` | frequencies, among them a tree of bit lengths whose code is too long |
| `HuffmanTreeProofs` | theorems: all four properties of `HuffmanTree` |
| `BlockOutput` | `flush_block`, `bits.c`, `outbuf`, vectors and the file, bit by bit |
| `MCBlockOutput` | blocks to send, and what README and comments say of the file |
| `BlockOutputProofs` | theorems: all three properties of `BlockOutput` |
| `PgzipFile` | pgzip around the pool: command line, old output, frame, `file_read`, vectors, sorted list, the waits of main and of the io thread and what passes between them |
| `MCPgzipFile` | command lines and files |
| `PgzipFileProofs` | theorems: vectors, overwriting, the sorted list and the frame |
| `GzipFiles` | gzip's `gzip.c`: which names it reads, creates and removes |
| `MCGzipFiles` | file systems and commands |
| `GzipFilesProofs` | theorems: gzip leaves no partial output behind, what it may remove, which names it uses |
| `GzipDeflate` | gzip's `deflate.c`, both loops and both `longest_match` |
| `MCGzipDeflate` | files to compress, the hash by shift and xor |
| `GzipDeflateProofs` | theorems: all four properties of `GzipDeflate` |
| `TreeCoding` | `trees.c` from code lengths to bits: run lengths, bit length tree, codes |
| `GzipIO` | `inbuf` and the window: `fill_inbuf`, `get_byte`, `flush_window`, `updcrc` |
| `Huft` | `huft_build`: from code lengths to linked tables |
| `Inflate`, `Unpack`, `Unlzw`, `Unlzh` | the four decoders, on `GzipIO` |
| `Gunzip` | `get_method`, `unzip`, `copy` and the loop over members, composed with the decoders |
| `MCGunzip` | files in each format, whole, cut, damaged; the encoders of pack, compress and lha |

`ParallelDeflate` is the whole program with the work of a worker reduced to which piece of
the input it compresses. `SharedQueue`, `MatchFinder`, `HuffmanTree`, `BlockOutput` and `PgzipFile` are the
parts it takes for granted. `SharedQueue`
justifies that `enqueue` and `dequeue` of `completed_threads` are single steps there, and
shows that those of `output_queue` are not. `MatchFinder` (bytes to tokens), `HuffmanTree`
(frequencies to codes) and `BlockOutput` (codes to bytes of the file) are the three stages
of `deflate_work`.

### ParallelDeflate

`mpc`, `wpc[t]` and `ipc` say where main, worker t and the io thread are. An action is a
critical section, or unlocked code with at most one read of a variable that another process
writes: `Check` is the test of `deflate.c:286` and `Sleep` the wait of `:287`, with room
between them for a worker's `WorkerComplete` and `WorkerSignal`, because the worker takes
neither lock of main. Mutexes are read off the program counters: a worker holds its
`thread_lock` while `wpc[t]` is `"working"` (hence the guard of `HandOff`), main holds
`completed_threads_lock` while `mpc` is `"collect"` (hence the guard of `WorkerComplete`).
The other locks have one user each.

| action | code |
|---|---|
| `DispatchInitial`, `InitialDispatched` | `deflate.c:266-278` |
| `Check`, `Sleep` | `deflate.c:285-287` |
| `HandOff`, `HandOffDone` | `deflate.c:290-311` |
| `CollectAndGrab`, `CollectAndShutdown`, `CollectDone` | `deflate.c:312-352`, with `grab_another_block` and `dispatch` |
| `OutputOne`, `OutputDone` | `deflate.c:355-379` |
| `SetKill`, `SignalKill`, `Join` | `deflate.c:383-385`, `zip.c:110-121` |
| `WorkerSleep` ... `WorkerSignal` | `threads.c:274-294` |
| `Io...` | `deflate.c:220-257` |
| `SpuriousWakeup...`, `Abort` | `pthread_cond_wait`; a failed `read` or `write`, or a failed `Assert` of a worker, which end in `exit` |

Data. A block is its piece of the input: where it starts, how long it is, whether it is the
last. `deflate_work` appends that piece to the context's output, so an output vector that is
not reset, a context that is read too late or a block that is cut wrongly shows in the file.
What `deflate_work` computes is not in this module. A context is named by the first block it
is allocated for; there are never more than `NumThreads` of them. `offset` is the position
of the input descriptor, which is also what `crc` covers. `busy_threads` is the identity and
`pool->qsize`, `thread_return_queue` and `take_io_action` are never used; they are left out.
The sorted list is a set whose least index is its head. `output_queue` is a sequence here,
each `enqueue` and `dequeue` one step. So what `WrittenInOrder` says is that the order and
the contents are right if the queues behave; it says nothing of the bits, which are the
matter of `BlockOutput`.

### SharedQueue

`pc[t]` is where a thread is in `enqueue`, `dequeue` or `queue_empty`; a step reads or writes
one field that another thread can see. `Lock`, `Unlock` are those of the callers
(`threads.c:288`, `deflate.c:222, 312, 364`), and `LockOf` gives each thread the lock it uses:
one for `completed_threads`, two different ones for `output_queue`. `malloc` returns any
free node with anything in its `next` field, so a node can be reused at once. Memory is
sequentially consistent; where two threads race the real machine may do more. The `size`
field is left out, because only that of `free_threads` is read and only main uses that.

### MatchFinder

The variables are the fields of the thread context and the locals of `deflate_work` and
`longest_match`, by their names. `fill_window` is one turn of the loop around it, `StartTurn`
a turn of the main loop up to the search, `longest_match` one candidate, and then `EmitMatch`
with an `InsertNext` for each string the match covers, `EmitLiteral` or `Defer`; `Finish` is
the flush behind the loop. `pc = "aborted"` is the `error()` of `longest_match`. Memory behind the
window and the bytes a former block left in it are `Stale`. The constants of the C code are
parameters, and so is `UPDATE_HASH`, of which `HashAssumption` says what the rest of the code
relies on: the mask bounds a key, three shifts push the oldest byte out of it
(`H_SHIFT * MIN_MATCH >= HASH_BITS`, the comment of `contexts.h:55-58`), and a key has as many bits as a
byte at least, so that two different bytes make two different keys of one. The runs take the shift and
the xor of the code, and TLC checks the assumption for them. Only level 6, the one pgzip uses, has
a configuration. Whether `ct_tally` flushes early depends on frequencies, so at its probes the model is
free to do either. A history variable, `decoded`, holds what a decoder makes of the tokens.

### HuffmanTree

A step is one turn of a loop. `pc` says which:

| action | code |
|---|---|
| `CountSymbol`, `ForceSymbol`, `HeapFilled` | the first two loops of `build_tree`, `trees.c:360-382` |
| `Heapify`, `pqdownheap` | `trees.c:387`; a turn of the loop of `pqdownheap`, which returns to `after` |
| `pqremove`, `Join`, `Joined` | the `do` loop of `build_tree`: the first node taken, a father made, on or to the end |
| `AssignLength`, `LengthsAssigned` | the first pass of `gen_bitlen` |
| `FixOverflow` | the loop that moves leaves down |
| `Reassign`, `NextLength` | the second pass: the inner and the outer loop |
| `FirstCode`, `AssignCode` | the two loops of `gen_codes` |

As in the code, a field (`fc`) holds a frequency and later a code, another one (`dl`) the
father and later the length: `gen_bitlen` reads the length of a node's father while that of the node is
still overwritten by its father's number. `pqdownheap` keeps the element that goes down in `v` and
stores it at the end; here it is exchanged with its son in each turn, which is the same heap
afterwards. Two history variables are added: `freq`, the frequencies before some were forced and
codes took their place, and `cut`, whether lengths overflowed. `Power2`, `Total` (a sum) and
`Reversed` (`bi_reverse`) are recursive functions, so that the module can be proved about.
Costs are integers, `unsigned long` in the code: a forced symbol takes one off
before anything was counted, which wraps and wraps back. Frequencies fit into the 16 bits of `Freq`
because a block has at most `LIT_BUFSIZE` codes and the end.

### BlockOutput

A block is what `flush_block` decides on: bytes, the codes of either encoding and whether
the bytes are still in the window. A code, a byte and an unsigned short are their bits, the lowest
first, and the shifts and masks of C are functions on those. `FlushRaw`, `FlushStored` and `FlushTrees` are its
branches, `SendCode` sends one code, `CopyByte` copies one byte in the loop of `copy_block`,
`EndBlock` is its end, `FinishChunk` the end of
`deflate_work` together with the writing of the vector and the `bi_init` of the next use. The history
variables hold the bits sent in a context and the bits RFC 1951 asks for. `raw` and `cut`
note the two ways in which the file goes wrong, so that `FileIsStream` can say that there is
no third.

### PgzipFile

| action | code |
|---|---|
| `ParseArgument`, `ParseMissing`, `ParseDecompress`, `Probe`, `Ask`, `RemoveOld` | `main`, `gzip.c:94-152` |
| `StatInput`, `OpenInput`, `CreateOutput`, `CheckOutput` | `treatfile`, `create_outfile` |
| `WriteHeader`, `WriteTrailer` | `zip`, `zip.c:60-122` |
| `ReadSome`, `BlockRead` with `grab_another_block` | `file_read`, `deflate.c:139-183` |
| `First`, `Collect`, `Enqueue`, `Enqueued` | `deflate`, the containers' side |
| `Check`, `Sleep`, `LeaveLoop`, `SetKill`, `SignalKill`, `Join` | `deflate`, where main waits, `deflate.c:285-287, 379-386` |
| `WorkerStart`, `flush_outbuf`, `WorkerFinish` | `deflate_work`, the vector's side, and the signal to main |
| `IoTest`, `IoSleep`, `IoTake`, `IoWrite`, `IoWritten` | `io_out_function`, `deflate.c:215-258` |
| `QueueTorn` | `enqueue` and `dequeue` on `output_queue` at the same time |
| `SpuriousWakeup` | `pthread_cond_wait` |
| `IoFails`, `CreateForeign`, `RemoveForeign`, `ShortenInput` | a failed call; another process, once |

How main hands jobs to the threads is in `ParallelDeflate` and not repeated: a context
comes back in any order, and `LeaveLoop` may leave jobs that were only asked for, which is
what `ExitLeavesOnlyUnstarted`, a theorem there, allows. The waits are repeated, because what
becomes of the file depends on them. `Check` and `Sleep` are two steps, and a `WorkerFinish`
between them wakes nobody; so are `IoTest` and `IoSleep`, and `SignalKill` between them wakes
nobody. A block goes into `output_queue` (`Enqueue`), the io thread takes all that is there
into `q` (`IoTake`) and writes one after the other (`IoWrite`); when `q` is empty and the flag is up it
ends, whatever was queued meanwhile (`IoWritten`). `output_queue` is one sequence as long as
main is not inside `enqueue` (`pc = "enqueue"`) while the io thread is in the loop of `dequeue`;
when it is, `QueueTorn` may leave any short sequence of the blocks that were there, or crash
the program, as `output_queue_race` shows of the linked list. `torn` notes that. The sorted list is a sequence of
nodes. A checksum is the sequence of the blocks it was taken over. Arithmetic on vectors is
modulo `UIntMax`. A `read` returns one byte or all it is asked for; a flush appends 1 or
`OUTBUFSIZ` bytes. `MaxFlushes` and `MaxBlocks` bound the flushes of a block and the blocks,
of which `-b 0` makes infinitely many. The stamp and the name in the header are left out.

`Framed` is about a return of 0 from `zip`. It excepts three things that leave marks in the history: `short`, a
write of header or trailer nobody tests; `lost`, a job left at the exit of the loop; `torn`. It does not
except the io thread that leaves blocks behind (`deflate.c:256`): it says that what is missing from the file
are then exactly the blocks in `output_queue`, which are the last ones, and that the
trailer counts them all the same.

### GzipFiles

`pc` is the place in `treat_file`; an action is the code up to and with the next system call,
so that `Signal`, `Kill` and `Other` (another process creating the name gzip is about to)
come between any two of them.

| action | code (`gzip-src/gzip.c`) |
|---|---|
| `NextArg`, `do_exit`, `treat_stdin` | `main`, `treat_stdin` |
| `ReadDir` | `treat_dir` |
| `get_istat`, `make_ofname`, `OpenInput`, `GetMethod`, `do_list` | `treat_file`, first half |
| `check_ofname`, `UnlinkOld`, `OpenOutput`, `CheckNew` | `create_outfile`, `check_ofname` |
| `Work`, `CloseFiles`, `Cleanup`, `copy_stat`, `UnlinkInput` | `treat_file`, second half |
| `Abort`, `Signal` | `abort_gzip` |

A name is a stem with suffixes of three characters; `Room` is what the file system keeps
behind a stem, and a longer name is cut silently or refused (`opt.silent`). A file is the
document it holds, how often it is compressed, what follows and whether it is whole. A
system call that can fail has a disjunct in which it does. The user's answer is a free
choice in the foreground. `Kill` is SIGKILL or a crash: no handler runs, the files stay.

### GzipDeflate

The variables are the statics of `deflate.c` and the locals of its loops, by their names.

| action | code |
|---|---|
| `lm_init`, `HashFirst` | `lm_init`, before and after its calls of `fill_window` |
| `fill_window` | one turn of the loop around it; `read_buf` may give less than it is asked for |
| `StartTurn` | a turn of `deflate_fast` or `deflate`: `INSERT_STRING`, and whether to search |
| `longest_match` | one candidate of the chain |
| `TakeFound`, `SkipFound`, `FastLiteral` | what `deflate_fast` does with the match it found |
| `TakePrevious`, `LazyLiteral`, `Defer` | what `deflate` does with it and the one before |
| `InsertCovered` | one string of a match; `covered` counts those left |
| `Finish` | the last literal and the last `FLUSH_BLOCK` |

Two races are part of it. The two turns of the OpenMP loop in `lm_init` each read and write
`ins_h`, so `HashFirst` takes any value the threads can leave (`FirstHash`). The threads of
the two loops that slide `head` and `prev` (`deflate.c:545-558`) share `m`, which is declared
in front of them: between `m = head[n]`, the test and `m - WSIZE` another thread may store
its own entry there. So `SlidTo(a, b)` is what becomes of an entry when m was `a` at the test and
`b` at the subtraction, wrapped to the 16 bits of a `Pos`, and `Mixed` gives the entries
that went wrong any such value. `mixed` counts them, and `MaxMixed` is a bound of the runs on
their number in a file; with 0 the slide is the one that was meant, and a proof is for any bound. A compiler
may keep `m` in a register of each thread, and then the program has the race in its source only;
nothing obliges it to. `told` and `wild` are history for the properties: how many bytes the tokens
stand for, and whether a distance below zero was sent, with which `ct_tally` counts in front
of its tables; what that overwrites is not followed.

The C `longest_match` and the assembly one of
`match.S` differ in what they compare, and `asm` says which is linked. `UPDATE_HASH` is a
parameter, and `HashAssumption` what the code relies on: the mask bounds a key, a byte is a
key, and two keys made from anything by the same byte and then another differ if that other byte
does; the runs take the shift and the xor of the code, and TLC checks it for them.
At its probes `ct_tally` is free to flush, as in `MatchFinder`. The statics start as the file
before may have left them (`Stale`). The other history variables are `decoded`, what a decoder makes of the
tokens, and `sent`, how much of what they stand for was flushed.

### TreeCoding and Gunzip

`TreeCoding` is functions only: `scan_tree`, `send_tree`, `build_bl_tree`, `send_all_trees`
and `compress_block`, from lengths of codes to a sequence of bits. `MCGunzip` makes blocks
with it, so `Restores` says that encoder and decoder agree, run lengths and all.

`Gunzip` has one decoder per INSTANCE, with `pc`, the decoder's variables `z` and the input
and output of `GzipIO` in common. `s.inptr` and `s.insize` are those of the code, and a
refill happens where the code calls `fill_inbuf`; `INBUFSIZES` makes it happen inside every
item. `bb` and `bk` are the bits read ahead, and their return at the end of `inflate` is
modelled. Tables are built as in the code: `Huft` with its sub-tables and the
linking through `u[h-1]`, `Unpack` by lengths, `Unlzh` with table and tree, `Unlzw` with
`tab_prefix` and the `posbits` arithmetic on codes of growing width. The checksum is a simple
one: it goes on from that of the bytes before, as the real one does, and notices the damage of the scenes.
Sizes are scaled: `WSIZE` is 8, first-level tables have 1 to 4 bits, and of the `lzw` codes of
`n` bits only `2^(n - SCALE)` exist. In `Unlzw`, `outbuf` is the window, and `read` returns one
byte or as much as fits.

## Runs

| run | instance | shows |
|---|---|---|
| `two_workers` | 2 workers, 7 bytes in chunks of 2: blocks of 2, 2, 2 and 1 | safety, liveness and refinement of `BlockStream` |
| `completed_queue` | 2 workers with 2 objects each, main, 4 nodes | under one lock the list is a queue, and all that goes in comes out |
| `match_finder` | 36 periodic blocks of 2 to 52 bytes, half a window of 16, matches of 3 to 5 | tokens decode to the block, stored buffers hold the right bytes, chains are sound, the one `Assert` that can fail does so at the end only |
| `huffman_tree` | 7 symbols: every choice of frequencies from 0, 1, 2, 3, 5 for five of them, and two Fibonacci trees; lengths up to 3 | complete, prefix-free, costs counted right, and if not cut optimal against every code with lengths up to 4 |
| `block_output` | chunks of up to three blocks and pairs of chunks; bytes of 2 bits, an `outbuf` of 3 | every bit is kept, the file is the stream but for two known ways |
| `pgzip_file` | 13 commands, files of 0 to 3 bytes in up to two blocks, `unsigned int` of 16 values | the file is framed but for what the io thread left, vectors hold, an old file is changed only on request, and what can hang, two lost signals among it |
| `gzip_files` | 23 commands on up to four files | no document is lost at any moment, a clean exit, names, an end |
| `gzip_deflate` | 40 inputs of 0 to 50 bytes, half a window of 16, levels 1, 4 and 9; in two of them one entry is slid wrongly | tokens decode to the input for every first hash, matches are in reach, chains lead to strings with the right third byte, as long as no entry is wrong; blocks are given their own text even then |
| `gunzip` | 666 files in five formats and in zip's, buffers of 3 and 64 bytes | what was compressed comes back, damage is noticed, members follow each other |

In the pipeline the bounds let every context be used twice, the last block be short or exactly full, the
collecting loop take as many threads as there are (two; for more there are the theorems), and the exit be reached with jobs
pending. Four nodes and four objects let a node be freed and used again while two workers
are inside `enqueue`. Blocks of 52 bytes make a window of 32 slide twice, and the lengths 27
and 33 end just inside the first and just inside the second half-window, where lookahead and slide
meet; words of different periods give matches at every distance up to `MAX_DIST` and one
beyond. A limit of 3 bits for five symbols forces cuts, and the Fibonacci trees cuts of
several leaves. With bytes of 2 bits `bi_buf` has 4, so that codes of 1 to 3 bits meet it at
every fill, and an `outbuf` of 3 is crossed by `put_short`. There is no state constraint:
the instances are finite.

In `gunzip` the bounds are those of the scenes: every code of up to three bits for four
symbols, complete or not; runs of equal lengths at the limits of `scan_tree`; the end of a
block at every bit of a byte; matches that overlap themselves and wrap in the window; every
cut of a file of two members and of small ones; two bits flipped, one at a time, in every byte
of two files;
all 32 combinations of header flags. In `gzip_files`, every failing call, answer and crash
is possible at every place, and a command has at most two arguments, so that what the first
leaves behind (`remove_ofname`, `ifd`, `method`) meets the second. In `gzip_deflate` inputs
of 50 bytes slide the window twice; others are made for the hash: strings that differ in the third
byte alone, a start that hashes like what comes later, a long match whose strings `deflate_fast` leaves out. In two more inputs each
entry of `head` and `prev` in turn gets each wrong value the team can store, at the first slide; one is enough for
`RacedSlide.cfg`, and more would only make the tokens worse. In `pgzip_file` two contexts are used at once, one
of them twice where there is one thread, a vector grows by either rule, and up to two blocks wait in `output_queue`: enough for both waits, each with its signal early, in time and
late. Liveness makes it slow; safety with three blocks, on two threads and on three, is `PFThree.cfg`, beside the runs, and
for any number of either what `FrameCorrect` proves. Files of the formats without a checksum
(pack, compress, lha) are excepted from `DamageNoticed` where the code has nothing to notice
by.

Each of the other runs takes a sentence of a comment or of the README and finds a behaviour
of the code that contradicts it.

| run | sentence | what the code does |
|---|---|---|
| `lost_wakeup` | README:30-31 "takes finished work" | a signal lost between test and wait: main sleeps for ever |
| `output_queue_race` | `zip.c:21` "lock to push data from this io thread to the output io thread" | two locks: a node freed twice, or a block lost |
| `chunk_tails` | README:28 "implements true gzip parallelism" | a chunk's last bits are lost, and the next one is not aligned with them |

## Observations

These too are behaviours of the code that its comments do not promise. The properties that
hold say exactly how far each goes; where there is a configuration, TLC shows the behaviour
with it (`tlc -config X.cfg M`).

| sentence | what the code does | shown by |
|---|---|---|
| `contexts.h:207` "the last block number to flush out" | `deflate.c:379`: the loop ends with the last job pending; fewer than `NumThreads` blocks are lost (`ExitCorrect`) | `EarlyExit.cfg`, `MCParallelDeflate` |
| `zip.c:18` "for main io thread to push to output fd" | `deflate.c:256`: the io thread leaves blocks in the queue | `UnwrittenOutput.cfg`, `MCParallelDeflate` |
| `trees.c:254-255` "may overflow in the case of the bit length tree" | `deflate.c:184`: never cut at 7 bits, sent in 3 bits each | `BlLengths.cfg`, `MCHuffmanTree` |
| `trees.c:590-592` "if the zip file can be seeked" | `trees.c:597`: a small incompressible file is written bare under a header that says deflate | `RawFile.cfg`, `MCBlockOutput` |
| `gzip-src/gzip.c:245` "remove output file on error" | `gzip-src/gzip.c:932`: `remove_ofname` outlives a failed member, and a signal during the next file removes a file gzip never wrote | `AbortOther.cfg`, `MCGzipFiles` |
| `gzip-src/gzip.c:763` "Accept "-" as synonym for stdin" | `ifd` is not set to 0, so `gunzip a.gz -` reads from the descriptor of `a.gz`, which is closed | `StdinSecond.cfg`, `MCGzipFiles` |
| `gzip-src/gzip.1:63` "Compressed files can be restored to their original form using gzip -d" | `gzip-src/deflate.c:546`: threads that slide the chains share `m`; a wrong link makes the C `longest_match`, which leaves out the third byte, take for a match what is none (the program must be built so that `m` is in memory) | `RacedSlide.cfg`, `MCGzipDeflate` |
| `gzip-src/deflate.c:397` "insufficient lookahead" | with the C `longest_match`, at fast and at lazy levels, for files that end in the last bytes of the window (65275 to 65535 bytes long) the assertion does not hold | `WindowEnd.cfg`, `MCGzipDeflate` |

The decoders: a file of one byte is passed over in silence by `gzip -cdf`, which should copy
it; a single byte behind a member ends the program with "unexpected end of file", where
`gzip.1:447` speaks of trailing garbage that is detected and warned of; when the first byte behind a member is zero the second is not
looked at. The scenes `PadScenes` and `ShortCats` of `MCGunzip` are those files; they are not
among `MCScenes`.

pgzip's `main`: the old output is removed before the input is known to exist, and
`abort_gzip` exits with status 0; `-b -t 4` sets the threads; an option without its value is
a null pointer to `sscanf`; `header_length` counts one byte less than header, name and
trailer take (`zip.c:65`).

`chunk_tails`, `RawFile.cfg` and `BlLengths.cfg` were also seen in the program built from this
source: of a file of several chunks only the first one comes back, the files `abc` and 3000
random bytes cannot be decompressed, nor can a text of 8191 bytes with the frequencies of
`BlLengths.cfg`.

Other things go wrong in the pipeline, and a property that holds says exactly when. `OnlyLostSignalsHang` excepts two: an empty input, for which nothing is
dispatched and main waits for ever at `deflate.c:287`, so that "Write the crc and
uncompressed size" (`zip.c:110`) is never reached; and the signal of `deflate.c:384`, which
can be lost between the test of `:223` and the wait of `:224`. `FailsOnlyAtEnd` is about a third:
`Assert(strstart <= window_size-MIN_LOOKAHEAD)` of `deflate.c:558` fails for a block that ends
in the last `MIN_LOOKAHEAD` bytes of the window and has repetitions there, because
`fill_window` is no longer called; the program then ends with "insufficient lookahead". Last,
`blocks_read` never stops the reading (`contexts.h:225-227`), nobody signals `more_io_output`
for new output (`zip.c:23`), and `bytes_in` counts each read twice (`contexts.h:195`); these
cost memory, time and nothing.

Fairness: weak fairness of main, of each worker and of the io thread, the least a
preemptive scheduler gives: a thread that can always run does run. Locks are never held for
ever, and a process kept out by one is disabled only finitely often, so weak fairness is
enough. Spurious wakeups and I/O errors are possible and never owed. Under it
`OnlyLostSignalsHang` says that, for a non-empty input, the two lost signals are the only
ways never to end, and that once `shutdown` is set main waits for no worker in vain. In
`SharedQueue` each producer is weakly fair for the same reason, and the consumer is from the
moment it has seen the queue not empty: it finds the lock taken only while a producer that
can run holds it, and no producer comes again after its last object. That it looks at the
queue at all is not promised, as main may sleep for ever at `deflate.c:287`; so
`StaysOnlyUnseen` says that an object stays in the queue only if main never looks again.
`PgzipFile` has weak fairness of main, of the workers together and of the io thread; the workers
need no more, for main takes no step they wait for and each has finitely many until main collects. Torn queues, spurious wakeups, failing
calls and the other process are possible and never owed. `GzipFiles` has weak fairness of the program
as a whole: it is one process, and its system calls return. Signals,
crashes, failing reads and writes and other processes are possible and never owed. So
`Finishes` says that gzip always comes to an end, with `-r` too, although it adds to the
directory it reads; and `OnlyTheseHang` that pgzip does, but for a file that became shorter
while it was read, an empty one, `-b 0`, a torn queue, and the two lost signals. Of each it says how: a block was done
when main had seen none and did not sleep yet, and main sleeps beside a done block from some moment on; or the flag was up
when the io thread had seen it down and did not sleep yet, and the join waits for its sleep. Both are `OnlyLostSignalsHang` seen
from the file, and `lost_wakeup` is the first of them. The other modules are sequential and
make no use of fairness.

## Proofs

The theorems hold for every value of the constants that the assumptions of the modules
allow; what these are is said below, module by module.

| module | theorem | says |
|---|---|---|
| `ParallelDeflateProofs` | `TypeCorrect` | `Spec => []TypeOK` |
| | `ThreadsCorrect` | `Spec => []ThreadsAccountedFor` |
| | `WorkerOwns` | `Spec => WorkerOwnsContext` |
| | `OutputCorrect` | `Spec => []WrittenInOrder` |
| | `BlocksNeverLost` | `Spec => []BlocksConserved` |
| | `ExitCorrect` | `Spec => []ExitLeavesOnlyUnstarted` |
| | `Implements` | `Spec => ImplementsBlockStream` |
| `PgzipFileProofs` | `VectorsCorrect` | `Spec => []VectorsHold`, of `PgzipFile` |
| | `OverwriteCorrect` | `Spec => OverwritesOnlyWhenAsked`, of `PgzipFile` |
| | `FrameCorrect` | `Spec => []Framed`, of `PgzipFile` |
| `SharedQueueProofs` | `NoCrash` | `OneLock` implies `Spec => []NeverCrashes`, of `SharedQueue` |
| | `OrderKept` | `OneLock` implies `Spec => []TakenInOrder` |
| | `AllReceived` | `OneLock` implies `Spec => []NothingLost` |
| | `ListKept` | `OneLock` implies `Spec => []ListIntact` |
| `GzipFilesProofs` | `CleanExitCorrect` | `Spec => []CleanExit`, of `GzipFiles` |
| | `KeptCorrect` | `Spec => []Kept` |
| | `NamesCorrect` | `Spec => []NamesRight` |
| `MatchFinderProofs` | `LosesNothing` | `Spec => []DecodesToInput`, of `MatchFinder` |
| | `StoresTheSame` | `Spec => []StoredBlockIntact` |
| | `SendsWhatDeflateCan` | `Spec => []MatchesInReach` |
| | `ChainsLeadBack` | `Spec => []ChainsSound` |
| | `OnlyFailsAtEnd` | `Spec => []FailsOnlyAtEnd` |
| `GzipDeflateProofs` | `GzipLosesNothing` | `Spec => []DecodesToInput`, of `GzipDeflate` |
| | `TakesWhatDeflateCan` | `Spec => []MatchesInReach` |
| | `ChainsLeadBack` | `Spec => []CandidatesSound` |
| | `GzipStoresTheSame` | `Spec => []BlockTextRight` |
| `HuffmanTreeProofs` | `TypeCorrect` | `Spec => []TypeOK`, of `HuffmanTree` |
| | `CodesComplete` | `Spec => []CodeComplete` |
| | `CodesPrefixFree` | `Spec => []PrefixFree` |
| | `CostsCounted` | `Spec => []CostCounted` |
| | `CodesOptimal` | `Spec => []CodeOptimal` |
| | `Invariance`, `OptimalInvariance` | `Spec => []IInv` and `Spec => []OInv`, the inductive invariants of these |
| `BlockOutputProofs` | `BitsAlwaysKept` | `Spec => []BitsKept`, of `BlockOutput` |
| | `StreamWritten` | `Spec => []FileIsStream` |
| | `LengthRight` | `Spec => []LengthCounted` |

`ParallelDeflateProofs` is about `ParallelDeflate`, for every number of threads, input size and chunk
size, from three assumptions: that `NumThreads` and `ChunkSize` are positive and `FileSize` a
natural number. The inductive invariant is built in layers, each preserved by a step that satisfies those
below it: `TypeInv` (types, and a thread at work has a context: without it the record main
reads through `work` has no type), `ThreadInv` (each thread is free or at work, in one
queue, `busy` says which), `ContextInv` (a context is pending once or belongs to one thread
at work: what makes reuse safe), `ContentInv` (each context describes the block whose number
it carries, `offset` is where the next block begins, and an output is empty until the worker
finishes and the compressed block after) and at last `WrittenInOrder`. `MovesOnly` collects
the steps that move a program counter and nothing else; `StepCases` splits a step into those
and the ones that change data, and each layer has a step for each of them.

Three more layers count the blocks. `PlacesInv` says where each block is: the jobs that
wait are in order the blocks from `Oldest` on, and each block from `next_block_to_output` to
`Oldest - 1` is at work or sorted, in one of the two, once. `BlocksConserved` alone is not
inductive: it does not say that the head of the queue is the oldest block, nor that a block
is in one place only. `CountInv` counts them, and bounds jobs and threads at work together
by the number of contexts, less the one that `shutdown` retires. `LeftInv` says that once
the loop is left no thread is at work and nothing is sorted: when `free_threads` is as long as the pool every
thread is in it (an injection between sets of one size), and then the first block not
passed on would be at the head of the sorted list and would have been passed on. What is
left is in the queue of jobs, and the count bounds it. `ExitCorrect` thus bounds
what `EarlyExit.cfg` shows: it loses fewer than `NumThreads` blocks, the last of the file,
and with one thread none is.

For the refinement, the state is mapped to `BlockStream` as `ImplementsBlockStream` does. Under
the invariants the compressed blocks are `Finished`, those before `Oldest` that no busy
thread has; `Takes`, `Finishes` and `Emits` show that reading, finishing and writing a block
are the steps `Take`, `Compress` and `Emit`, and `StepRefines` that every other step leaves
all three variables alone. `ReadInv`, that no block is read beyond the end of the input,
is what keeps `Take` within `Blocks`; it rests on the arithmetic of `BlocksEnough`.
`BlockStream` promises safety alone: that everything is emitted in the end is false of
this program (the findings).

`PgzipFileProofs` is about `PgzipFile`, for every command line, file and number of threads.
`VectorsHold` is not inductive: `Grown` doubles modulo `UIntMax`, so the proof has to know
that what a vector holds is at most `OUTBUFSIZ` for each flush of its block, and that the
flushes are bounded (`VectorInv`). What it rests on is `UIntAssumption`: a block compresses
to less than half of what an `unsigned int` counts. It holds of the program with chunks
below two gigabytes and is needed: twice a larger size wraps, and `memcpy` would write behind
the array. `AppendFits` is the arithmetic. `ConsentInv` says that the place before `remove` is
only reached with `-f` or an answer; that no other step of the program touches a file that is
not its own is the matter of O_EXCL, and is where `OverwriteCorrect` uses `MayCreate`.

`FrameCorrect` needs to know where each block is while the loop runs. `FrameInv`: a block that was
read and not written is in the sorted list or in a busy context (`PlaceInv`), in only one of them
(`JobInv`), and what is left to read is the input without a whole chunk for each block before
(`SizeInv`). Then the list, sorted (`ListInv`), with no job left and a head that is not the
next block, must be empty: that is `LeaveLoopStep`, and the reason why the loop may stop where it does.
What has left the list is, in order, in the file, with the io thread or in the queue (`Sent`, `TextInv`), as long as the
queue is not torn; the io thread holds nothing of its own when it has ended (`IoInv`), so what main does not
find in the file after `Join` is in the queue.
`InsertListed` and `PopListed` say what `insert_into_sorted_linked_list` and `pop_top` do to any list,
`ChunkOff` and `WholeChunks` are the arithmetic of the chunks. `FirstInv` is about the first
round alone, which hands out contexts by block number: context `block_number` is still free then.

`SharedQueueProofs` is about `SharedQueue`, for any number of producers, objects and nodes, as
long as all threads take the same lock (`OneLock`). So they do around `completed_threads`
(`completed_queue`), but not around `output_queue` (`output_queue_race`), and there the
properties are violated. The invariant numbers the objects in the order they were enqueued:
some `f` gives the node of each, and those from `Lo` to `Hi`, the ones in the queue, are
linked from `first` to `last` (`Chained`, `Ends`). Between two accesses the list is not whole,
so `ProducerAt` and `ConsumerAt` say at each label what is already done; `LockInv` that only one
thread is at such a label; `AddingInv` that it has something to enqueue. `dequeue` leaves `f`
alone and moves `Lo`; `enqueue` changes it at `Hi + 1`.

`GzipFilesProofs` is about `GzipFiles`, for every file system, command, answer, error, signal
and any number of files from another process. `SceneAssumption` gives the types of what the
program starts with. `CleanExit` speaks of the end only; `CleanInv` says what holds on the
way, in five layers. `OutputInv` is the one that matters: a file of this program that is not
whole is the output of the moment, `remove_ofname` is set, `ofname` is its only name, and
the file system does not refuse that name, so that whoever has to give up (a failed member,
`fstat`, `abort_gzip`) finds it. It needs that the file OPEN creates is a new one (O_EXCL), with
one name, that a name which was cut once stays short (`ShortName`), and that the input is another
file (`ifd # ofd`). `CodeInv` ties the status to what was left aside; `OpenInv` follows the
descriptors; `DiskInv` and `NameInv` are types.

`MatchFinderProofs` is about `MatchFinder`, for blocks of any bytes and any length, any size of
the window, any limits and any hash that satisfies `HashAssumption`. None of the five properties
is inductive. What makes them hold is a relation between the window, which moves, and the block,
which does not: `Base` is where the window is in the block, and the invariant says of each
position that is kept (`match_start`, `prev_match`, `block_start`) which parts of the *block* it
makes equal. `fill_window` changes the positions and `Base` together, so that most of it is left
alone by a slide. There are four layers. `WindowInv`: what was read is in the window (`HoldsInput`),
how much lookahead each place of the loop can count on (`ReadAhead`), and that a length to be sent never reaches
behind the block (`LengthInv`). `ChainInv`: heads and links lead back to strings of the same key as
long as they are not overwritten, for the strings inserted so far (`Inserted`, which differs by
place), and `ins_h` is the key of the two bytes before (`KeyBefore`). `MatchInv`: the match that waits and
the one that was just found are repetitions in the block (`Real`). `OutputInv`: `decoded` is a beginning of the
block, `block_start` is where the last flush ended, and the last flush was right.
`ThirdByte` is the place where the comparison `longest_match` leaves out is made up for: equal
keys and two equal bytes give equal third ones, by `HashAssumption`. `Repeats` is about the copy of a
match that overlaps itself. Where an induction would be used (on the length of a match, on the
copy) the argument is by the least counterexample (`Least`), which is what `WFMin` of the library
allows without a predicate as a parameter.

`GzipDeflateProofs` is about `GzipDeflate`, for files of any bytes and length, cut by the reads
in any way, any outcome of the race in `lm_init`, any window, any levels and any row of
`configuration_table` whose chain allows a search when it is quartered, and for both
`longest_match`. What the race on `m` does to the chains is part of the steps the proof goes through. A wrong link
takes away the ground of three of the four theorems, so they are about files in which it spoilt
none (`mixed = 0`, `MixedGrows`); `GzipStoresTheSame` is about all. The invariant is therefore cut so
that what does not need the chains stands alone: `WindowInv`, `WaitingInv` and `OutputInv` (lengths, positions, how much
of the file was told and flushed) hold whatever a link is, and `ChainInv`, `MatchInv` and `DecodedInv` (chains,
waiting matches, what the tokens decode to) as long as `mixed = 0`. `Base` and `Real` mean
the same as in `MatchFinderProofs`; `Ahead` makes up for `lookahead`, which while the strings of a match are
inserted is already what will be left behind it. What differs is the chains. There, the key of
a string is a function of its bytes. Here it is not: the first hash is that of a race, of one byte
perhaps, and `deflate_fast` goes on behind a long match with a hash of two bytes and none before.
So `ChainInv` says that some assignment `K` gives a key to each string inserted, that two
shifts made each key from the last two bytes of its string (whatever was shifted before), and
that heads and links lead back to strings of the same key under `K`. Two strings of the same key whose second
bytes agree then have the same third byte, by `HashAssumption`, which is what `CandidatesSound`
says and what the C `longest_match` needs for a match to be real. `BlockTextRight` and the end of
`DecodesToInput` need that nothing is left when the loops end: `eofile` is set only when all was read.

`BlockOutputProofs` is about `BlockOutput`, for bytes of two bits or more, any `OUTBUFSIZ`, any
chunks of any blocks. `InputAssumption` gives the types of the blocks; its one real condition is that
what is still in the window is shorter than 2^16, which a window of twice `WSIZE` justifies and without which the
length in a stored block would be cut. The invariant has five layers: `TypeInv`; `StageInv`, which says that
bytes are copied only when `bi_buf` is empty, so that they begin on a byte of the output; `KeptInv`, which
is `BitsKept`; `LengthInv`, which adds to what is counted already the codes and bytes that are still to be
sent, for `compressed_len` is set before they are; and `StreamInv`, that the file and the
context together are the stream as long as nothing was sent bare or cut. A padding is
counted from the beginning of the context in `sent` and from the beginning of the stream in `stream`: that they are
the same is because whole bytes were written before (`SameRest`, `PaddedAfter`). `PutByte`,
`PutShort`, `SendBits`, `WindUp` and `CopyBlock` say of each function of `bits.c` which bits it appends, for any
state of the buffers; `CodeFits` and `CodeDivided` are the two cases of `send_bits`, `DivMod` and `BitsOfConcat` the
arithmetic of places in bytes. `BitLength` is a recursive function, and what is left of a sum
after its first code (`LengthOfTail`) would be shown by induction; it is shown by a least
counterexample.

`ListKept` reads `ListIntact` off the same invariant: the bijection from the places in the queue to the
nodes in use is `f`, moved by the number of objects already taken.

For `KeptCorrect` and `NamesCorrect` the invariant also says what happens to the documents, in layers: `InputInv` (between OPEN and the
removal `istat` and the name still belong to the file that was opened), `ResultInv` (an output that is whole holds the
document of the input, from `Work` on), `MarkInv` (what `remove_ofname` points to, and
that the mark of an output given up before is the only way it points elsewhere), `KeepInv` (each document is in a
whole file or excused) and `CompressInv` (names with and without the suffix). Both statements had to be corrected before they could be proved,
which no command of the runs had shown. After `gunzip -f a.z a.gz` the document of `a.z` is gone, for
the second output overwrites the first, with the consent of the user, but of the name `a`, not of `a.z`: `Kept` now
accepts the consent for any file that holds the document. And where the file system cuts names,
the output of one file can be the input of the next: `NamesRight` is about names that are not cut.

`HuffmanTreeProofs` is about `HuffmanTree`, for any number of symbols from three on, any frequencies,
extra bits and lengths in the static tree, and any limit on lengths that leaves room for the symbols
(`Power2[max_length] >= elems`, true of the three trees of pgzip with the limit they have and with the one the tree
of bit lengths should have). None of the properties is inductive, and two invariants are needed.

`IInv` says what each loop has done so far. While the tree is made, each node without a father is at
one place of the queue, each other one at one place of the sorted end, a father before its sons
(`Placed`, `QueueInv`); as each join takes a node away, the root is left when there are as many
fathers as leaves but one (`TreeInv`). While lengths are assigned, a leaf of length b takes
2^(max_length - b) of the space 2^max_length, and a place whose father has a length, but which has none itself,
is open. Then

    2 * Space + Open = 2 * Power2[max_length] + overflow

(`LengthsInv`): a node that is not too long takes half of what its father left open, and one that is
cut takes half a unit too much. At the end nothing is open, so that `overflow` is even, and each turn of the overflow loop,
which takes two off it, gives back one unit of space (`MoveDown` exchanges a leaf of length b and one at the limit for
two of length b + 1); `overflow` ends at zero, and the space is exactly taken. That this loop finds a leaf
to move is because the leaves at the limit alone could not take the whole space, and
that `bl_count[max_length]` does not go below zero because at least half of the overflows are leaves
(`OpenLong`). `ReassignInv` says that the leaves the
second pass has met have the counts of the lengths handed out, and that the rest of the counts is as many leaves as are
left below `h`. So `LengthsMade`: the code is complete. In `gen_codes` a code of length b is an
interval of 2^(MAX_BITS - b) of the codes of `MAX_BITS` bits, and each interval begins where those of
shorter codes and of smaller symbols end (`FirstInv`, `CodesInv`, `HandedOut`); reversed codes that
begin alike have intervals one inside the other (`CodesPrefixFree`). `CostInv` keeps the sums, less one for
each symbol forced.

`OInv` is why the code is optimal. The queue is a heap but for the element that goes down
(`OrderInv`), so that each join takes the two least frequent nodes. `RootsInv`: whatever lengths
the leaves are given, if they satisfy the inequality of Kraft there are lengths for the nodes *without a
father* that satisfy it too and make no longer a text, one bit per occurrence counted for each father.
At first these nodes are the leaves; a join keeps it, for among the
codes that are no longer one has two longest lengths that are equal (`TwoLongest`: a single longest one
leaves space to be shortened, `Shorten`), these can be exchanged with those of the two least frequent
nodes (`Exchange`), and their father takes a length one bit shorter (`JoinRoots`). At the root it says that
no lengths cost less than all fathers together (`BestInv`). `ScanInv` is about the lengths that are
made: each bit given to a node is paid for by a father, who is as frequent as its sons together
(`SonsInv`), so that if nothing was cut the text costs just that. Sums are over functions on the indices:
`TotalChange`, `TotalChange2` and `TotalChange3` say what a changed term does to one, and stand for the inductions.

Model-checked only: liveness and everything that needs `ENABLED`, which TLAPS does not
treat; `Gunzip` with its decoders and `TreeCoding`, whose
algorithms are recursive operators (and `Bitwise`), about which nothing can be proved.

## Not modelled

- `getopt.c`: library code; `GzipFiles` starts from the options and arguments it returns. The
  long options and the environment variable GZIP give the same options.
- The arithmetic of `updcrc`: in `PgzipFile` a checksum is what it was taken over, in
  `GzipIO` a simpler function of the bytes.
- `set_file_type` and `ct_init`'s tables, which are constant; stamp and name in pgzip's
  header; times, owners and modes in `copy_stat`; all messages and the statistics of `-v`.
- `malloc` that fails, in every module but where the code goes on with less.
- `fill_inbuf`, `write_buf`, `warn`, `take_io_action`, `thread_return_queue` and
  `print_sorted_linked_list` of pgzip: never used. `crypt.c`, `lzw.c`: stubs.
- `gzip-src/gzip2`, `quickzip`, `pigz` and the scripts: a superseded copy, other programs,
  timing. `trees.c` and `bits.c` of `gzip-src` but for what `TreeCoding` has: the files of pgzip that `HuffmanTree` and `BlockOutput` are translated
  from are nearly theirs. One thing in them is not, and is modelled nowhere: where `build_tree` forces
  a symbol (`trees.c:658-675`) the statements are sections of a parallel region, and two of them use `new`
  (a third one `stree[new]`) while another sets it; what is written through a `new` that is not set yet may be any memory.
- Levels of pgzip other than 6, which the program never sets.

What the abstraction gives up: `ParallelDeflate`, `MatchFinder`, `HuffmanTree` and
`BlockOutput` are checked apart, so that a disagreement between two stages would only show
where the interface of one is the input of the other (as codes and bits are in `Gunzip`).
Where threads race, memory is taken to be sequentially consistent. `unlzw` and `unlzh`
have no checksum: that a cut file of theirs passes for whole is the format's fault and
excepted from `DamageNoticed`.

## What would come next

1. `OutputQueue`: the pipeline's output side composed with `SharedQueue`.
2. `TreeCoding` and the decoders with functions for their recursive operators, so that lemmas about them can be proved.
3. `Checksum`: `updcrc` by table against the polynomial division, cut into any pieces.
