---------------------------- MODULE MCSemaphore ----------------------------
(* Small instances of Semaphore: model values for threads, one priority each. *)
EXTENDS Semaphore, TLC

CONSTANTS t1, t2, t3

MCThreads == {t1, t2, t3}
MCPrio == t1 :> 1 @@ t2 :> 2 @@ t3 :> 2

MCPair == {t1, t2}
MCPairPrio == t1 :> 1 @@ t2 :> 2
=============================================================================
