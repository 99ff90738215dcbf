------------------------------ MODULE MCBlocks ------------------------------
(* A small instance of Blocks: two threads, a handler, three blocks and a ring
   of two. *)
EXTENDS Blocks, TLC

CONSTANTS t1, t2, b1, b2, b3

MCThreads == {t1, t2}
MCBlocks == {b1, b2, b3}
MCPrio == t1 :> 1 @@ t2 :> 1

\* Threads, which queue FIFO, and blocks play equal parts.
MCSymmetry == Permutations(MCThreads) \cup Permutations(MCBlocks)
=============================================================================
