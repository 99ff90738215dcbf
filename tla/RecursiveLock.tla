---------------------------- MODULE RecursiveLock ----------------------------
(***************************************************************************)
(* What a mutex promises its users: a lock that one thread at a time holds *)
(* and may take again as often as it releases it.  How threads wait, whose *)
(* priority is raised and who is served next does not show here.           *)
(***************************************************************************)
EXTENDS Naturals

CONSTANTS Threads, Mutexes, HoldMax

VARIABLE held    \* thread -> mutex -> takes not yet released

LockInit == held = [t \in Threads |-> [m \in Mutexes |-> 0]]

Lock(t, m) ==
    /\ \A u \in Threads \ {t} : held[u][m] = 0
    /\ held[t][m] < HoldMax
    /\ held' = [held EXCEPT ![t][m] = @ + 1]

Unlock(t, m) ==
    /\ held[t][m] > 0
    /\ held' = [held EXCEPT ![t][m] = @ - 1]

\* A thread that ends by itself gives up whatever it held.  One that is deleted
\* by another thread does not: that is no step of this specification.
Die(t) == held' = [held EXCEPT ![t] = [m \in Mutexes |-> 0]]

LockNext ==
    \E t \in Threads : Die(t) \/ \E m \in Mutexes : Lock(t, m) \/ Unlock(t, m)

LockSpec == LockInit /\ [][LockNext]_held
=============================================================================
