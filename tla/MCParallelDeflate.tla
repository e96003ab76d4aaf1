-------------------------- MODULE MCParallelDeflate --------------------------
(***************************************************************************)
(* What pgzip's comments and README say of the pipeline of                 *)
(* ParallelDeflate, as formulas; each is refuted by a run of its own.      *)
(***************************************************************************)
EXTENDS ParallelDeflate

\* README:30-31, main "takes finished work": a completed thread is collected.
CompletedTaken == (completed_threads # << >>) ~> (completed_threads = << >> \/ ~Running)

\* contexts.h:207, last_block_number is "the last block number to flush out":
\* when the program exits it has been passed on for output.
LastBlockFlushed == status = "exited" => next_block_to_output = last_block_number + 1

\* zip.c:18, output_queue is there "to push to output fd": when the program
\* exits nothing is left in it.
NothingLeftUnwritten == status = "exited" => output_queue = << >>
=============================================================================
