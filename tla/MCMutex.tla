------------------------------ MODULE MCMutex ------------------------------
(* Small instances of Mutex: three threads of different priorities. *)
EXTENDS Mutex, TLC

CONSTANTS t1, t2, t3, m1, m2

MCThreads == {t1, t2, t3}
MCPrio == t1 :> 1 @@ t2 :> 2 @@ t3 :> 3

MCPair == {t1, t2}
MCPairPrio == t1 :> 1 @@ t2 :> 2

\* No mutex is distinguished from another.
MCSymmetry == Permutations({m1, m2})
=============================================================================
