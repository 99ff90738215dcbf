------------------------------ MODULE Deadlines ------------------------------
(***************************************************************************)
(* What the timers of RT-Thread promise, in true time: a timer fires not   *)
(* before its ticks are over; of those on one list the first due fires     *)
(* first, and among equals the one started first; a hard timer fires in    *)
(* the first tick that finds it due.                                       *)
(***************************************************************************)
EXTENDS Integers

CONSTANTS Timers, Soft, Times, Off

VARIABLES
    left,        \* timer -> ticks until it is due, negative when overdue, or Off
    ahead,       \* timer -> timers due at the same time and started before it
    fired        \* the timer that fired in the last step, or Off

Kin(t) == IF t \in Soft THEN Soft ELSE Timers \ Soft
Going(t) == left[t] # Off

\* Nobody stands behind t any more.
Forget(t) == [u \in Timers |-> ahead[u] \ {t}]

DeadlinesInit ==
    /\ left = [t \in Timers |-> Off]
    /\ ahead = [t \in Timers |-> {}]
    /\ fired = Off

Begin(t, d) ==
    /\ left' = [left EXCEPT ![t] = d]
    /\ ahead' = [Forget(t) EXCEPT ![t] = {u \in Kin(t) \ {t} : left[u] = d}]
    /\ fired' = Off

End(t) ==
    /\ left' = [left EXCEPT ![t] = Off]
    /\ ahead' = [Forget(t) EXCEPT ![t] = {}]

Cancel(t) == End(t) /\ fired' = Off

Fire(t) ==
    /\ Going(t) /\ left[t] <= 0
    /\ \A u \in Kin(t) : Going(u) => left[t] <= left[u]
    /\ ahead[t] = {}
    /\ End(t)
    /\ fired' = t

\* A tick: nobody's time stands still.
Elapse ==
    /\ left' = [t \in Timers |-> IF Going(t) THEN left[t] - 1 ELSE Off]
    /\ fired' = Off
    /\ UNCHANGED ahead

\* No hard timer may be overdue when the next one comes.
Pass ==
    /\ \A t \in Timers \ Soft : Going(t) => left[t] >= 0
    /\ Elapse

Other == fired' = Off /\ UNCHANGED <<left, ahead>>

DeadlinesNext ==
    \/ \E t \in Timers : Fire(t) \/ Cancel(t) \/ \E d \in Times : Begin(t, d)
    \/ Pass
    \/ Other

DeadlinesSpec == DeadlinesInit /\ [][DeadlinesNext]_<<left, ahead, fired>>
=============================================================================
