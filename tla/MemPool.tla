------------------------------- MODULE MemPool -------------------------------
(***************************************************************************)
(* The memory pool of rt-thread/src/mempool.c: blocks of one size on a     *)
(* chain, and a list of threads that wait for one.  A freed block goes to  *)
(* the chain and wakes the first of them, who has to come for it.          *)
(***************************************************************************)
EXTENDS SuspendList, FiniteSets

CONSTANTS Blocks, NoBlock

ASSUME PoolAssumption == NoBlock \notin Blocks /\ IsFiniteSet(Blocks)

VARIABLES
    free,        \* block_list: the free blocks, block_free_count of them
    poolAlive    \* FALSE once the pool was detached or deleted

poolVars == <<free, poolAlive>>

\* rt_mp_init links the blocks in the order of their addresses.
PoolInit ==
    /\ free \in {s \in [1..Cardinality(Blocks) -> Blocks] : Distinct(s)}
    /\ poolAlive = TRUE

\* rt_mp_alloc with a block there, to its end.
TakeBlock ==
    /\ free # <<>>
    /\ free' = Tail(free)
    /\ UNCHANGED <<suspVars, poolAlive>>

\* Another round of rt_mp_alloc's loop: the pool is empty.
WaitForBlock(t, timed) ==
    /\ free = <<>>
    /\ SuspendWith(t, "alloc", "FIFO", timed, "EOK")
    /\ UNCHANGED poolVars

\* rt_mp_free
GiveBlock(b) ==
    /\ free' = <<b>> \o free
    /\ WakeFirst("alloc")
    /\ UNCHANGED poolAlive

\* rt_mp_detach and rt_mp_delete.
DetachPool ==
    /\ poolAlive
    /\ ResumeAll({"alloc"}, "ERROR")
    /\ poolAlive' = FALSE
    /\ UNCHANGED free
=============================================================================
