----------------------------- MODULE Semaphore -----------------------------
(***************************************************************************)
(* The counting semaphore of rt-thread/src/ipc.c: rt_sem_take with and     *)
(* without a timeout, rt_sem_release from threads and interrupts,          *)
(* rt_sem_control (reset, limit) and detach, together with everything that *)
(* can end a wait (SuspendList).  Which ready thread runs next is left     *)
(* open: every interleaving of the ready threads is a schedule the         *)
(* priorities and time slices of some application can produce.  Interrupt  *)
(* handlers release at any time, also between the pop of a thread timer    *)
(* and its callback: the tick interrupt has the lowest priority.           *)
(***************************************************************************)
EXTENDS SuspendList, FiniteSets

CONSTANTS
    Flag,        \* how waiters queue: "FIFO" or "PRIO"
    ValueMax,    \* RT_SEM_VALUE_MAX
    InitValue,   \* the value given to rt_sem_init
    Priorities,  \* the priorities threads are given
    InitPrio,    \* thread -> priority when it starts
    BalanceMax   \* bound: releases stop when this many units are out

ASSUME SemaphoreAssumption ==
    /\ IsFiniteSet(Threads)
    /\ Flag \in {"FIFO", "PRIO"}
    /\ ValueMax \in Nat \ {0}
    /\ InitValue \in 0..ValueMax
    /\ Priorities \subseteq Nat
    /\ InitPrio \in [Threads -> Priorities]
    /\ BalanceMax \in Nat

VARIABLES
    value,       \* sem->value
    maxValue,    \* sem->max_value
    alive,       \* FALSE once the semaphore was detached or deleted
    pc,          \* thread -> where it is: see Places
    balance,     \* history: units released and not yet returned by a take
    lost         \* history: those that were given to a thread the tick
                 \* interrupt was about to call back, and so went nowhere

semVars == <<value, maxValue, alive, pc, balance, lost>>
vars == <<suspVars, semVars>>

List == "sem"
waiters == susp[List]

\* Outside, inside rt_sem_take without or with a timeout, deleted.
Places == {"idle", "take", "timedtake", "dead"}
Taking(t) == pc[t] \in {"take", "timedtake"}

\* Threads that were handed a unit and have not returned from rt_sem_take yet.
Granted == {t \in Threads : Taking(t) /\ ~Suspended(t) /\ error[t] = "EOK"}

Init ==
    /\ susp = [l \in {List} |-> <<>>]
    /\ armed = {}
    /\ ttmr = {}
    /\ error = [t \in Threads |-> "EOK"]
    /\ expiring = NoThread
    /\ prio = InitPrio
    /\ value = InitValue
    /\ maxValue = ValueMax
    /\ alive = TRUE
    /\ pc = [t \in Threads |-> "idle"]
    /\ balance = InitValue /\ lost = 0

-----------------------------------------------------------------------------
\* rt_sem_take, a unit is available.
TakeAvailable(t) ==
    /\ ThreadContext /\ alive /\ pc[t] = "idle"
    /\ value > 0
    /\ value' = value - 1
    /\ balance' = balance - 1
    /\ UNCHANGED <<suspVars, maxValue, alive, pc, lost>>

\* rt_sem_take with timeout 0 (rt_sem_trytake) on an empty semaphore.
TryTakeFails(t) ==
    /\ ThreadContext /\ alive /\ pc[t] = "idle"
    /\ value = 0
    /\ UNCHANGED vars

\* rt_sem_take on an empty semaphore, with a timeout or for ever.
TakeBlocks(t, timed) ==
    /\ ThreadContext /\ alive /\ pc[t] = "idle"
    /\ value = 0
    /\ SuspendToList(t, List, Flag, timed)
    /\ pc' = [pc EXCEPT ![t] = IF timed THEN "timedtake" ELSE "take"]
    /\ UNCHANGED <<value, maxValue, alive, balance, lost>>

\* The taker runs again after rt_schedule and returns thread->error.
TakeReturns(t) ==
    /\ ThreadContext /\ Taking(t) /\ ~Suspended(t)
    /\ pc' = [pc EXCEPT ![t] = "idle"]
    /\ balance' = IF error[t] = "EOK" THEN balance - 1 ELSE balance
    /\ UNCHANGED <<suspVars, value, maxValue, alive, lost>>

\* rt_sem_release by a thread or an interrupt handler: somebody waits.  That
\* rt_susp_list_dequeue may fail is not looked at.
ReleaseWakes ==
    /\ alive /\ balance < BalanceMax
    /\ waiters # <<>>
    /\ Dequeue(List, "EOK")
    /\ balance' = balance + 1
    /\ lost' = IF Head(waiters) = expiring /\ Raced(expiring) THEN lost + 1 ELSE lost
    /\ UNCHANGED <<value, maxValue, alive, pc>>

\* Faulty: the limit is not looked at.
ReleasePastLimit ==
    /\ alive /\ balance < BalanceMax
    /\ waiters = <<>>
    /\ value' = value + 1
    /\ balance' = balance + 1
    /\ UNCHANGED <<suspVars, maxValue, alive, pc, lost>>

\* rt_sem_release, nobody waits.
ReleaseCounts ==
    /\ alive /\ balance < BalanceMax
    /\ waiters = <<>>
    /\ value < maxValue
    /\ value' = value + 1
    /\ balance' = balance + 1
    /\ UNCHANGED <<suspVars, maxValue, alive, pc, lost>>

\* rt_sem_release, nobody waits and the limit is reached: -RT_EFULL.
ReleaseFull ==
    /\ alive
    /\ waiters = <<>>
    /\ value >= maxValue
    /\ UNCHANGED vars

\* rt_sem_control(RT_IPC_CMD_RESET): the waiters fail, the value is replaced.
Reset(v) ==
    /\ ThreadContext /\ alive
    /\ ResumeAll({List}, "ERROR")
    /\ value' = v
    /\ balance' = balance + v - value
    /\ UNCHANGED <<maxValue, alive, pc, lost>>

\* rt_sem_control(RT_IPC_CMD_SET_VLIMIT): the limit only.
SetLimit(m) ==
    /\ ThreadContext /\ alive
    /\ IF m < value THEN ResumeAll({List}, "ERROR") ELSE UNCHANGED suspVars
    /\ maxValue' = m
    /\ UNCHANGED <<value, alive, pc, balance, lost>>

\* rt_sem_detach and rt_sem_delete.
Detach ==
    /\ ThreadContext /\ alive
    /\ ResumeAll({List}, "ERROR")
    /\ alive' = FALSE
    /\ UNCHANGED <<value, maxValue, pc, balance, lost>>

\* rt_thread_delete of t; a unit it was handed goes with it.
Delete(t) ==
    /\ pc[t] # "dead"
    /\ ThreadClose(t)
    /\ pc' = [pc EXCEPT ![t] = "dead"]
    /\ balance' = IF t \in Granted THEN balance - 1 ELSE balance
    /\ UNCHANGED <<value, maxValue, alive, lost>>

\* _thread_timeout: whoever was woken since the pop fails all the same.
Expire ==
    /\ ThreadTimeout
    /\ lost' = IF expiring \in Granted THEN lost + 1 ELSE lost
    /\ UNCHANGED <<value, maxValue, alive, pc, balance>>

-----------------------------------------------------------------------------
TakeOps(t) ==
    \/ TakeAvailable(t)
    \/ TryTakeFails(t)
    \/ \E timed \in BOOLEAN : TakeBlocks(t, timed)
    \/ TakeReturns(t)

ControlOps ==
    \/ \E v \in 0..ValueMax : Reset(v)
    \/ \E m \in 1..ValueMax : SetLimit(m)
    \/ Detach

\* What ends a wait without the semaphore's doing.
WaitEvents(t) ==
    \/ TimerPop(t) /\ UNCHANGED semVars
    \/ ThreadResume(t) /\ UNCHANGED semVars
    \/ Delete(t)
    \/ \E p \in Priorities : ChangePriority(t, p) /\ UNCHANGED semVars

Next ==
    \/ \E t \in Threads : TakeOps(t) \/ WaitEvents(t)
    \/ ReleaseWakes \/ ReleaseCounts \/ ReleaseFull
    \/ ControlOps
    \/ Expire

Spec == Init /\ [][Next]_vars

\* Ticks keep coming, so an armed timer is popped sooner or later even if
\* others are handled first; a popped timer is handled in the same interrupt;
\* a ready thread gets the processor (module Scheduler).
Fairness ==
    /\ WF_vars(Expire)
    /\ \A t \in Threads :
        /\ SF_vars(TimerPop(t) /\ UNCHANGED semVars)
        /\ SF_vars(TakeReturns(t))

FairSpec == Spec /\ Fairness

-----------------------------------------------------------------------------
\* Type invariant.
TypeOK ==
    /\ susp \in [{List} -> Seq(Threads)]
    /\ armed \subseteq Threads
    /\ ttmr \subseteq Threads
    /\ error \in [Threads -> Errors]
    /\ expiring \in Threads \cup {NoThread}
    /\ prio \in [Threads -> Priorities]
    /\ value \in 0..ValueMax
    /\ maxValue \in 1..ValueMax
    /\ alive \in BOOLEAN
    /\ pc \in [Threads -> Places]
    /\ balance \in Int /\ lost \in Nat

\* A unit is never left in the semaphore while somebody sleeps for one,
\* whatever timeouts, resets and releases cross each other.
NoSleeperBesideUnit == value > 0 => waiters = <<>>

\* Every unit released is in the semaphore or with exactly one taker that is
\* about to return with it: none is lost to a timeout, a reset or a deletion,
\* none is handed out twice.  The one exception is `lost`: releases by handlers
\* for the very thread the tick interrupt is about to call back.
UnitsConserved == balance = value + Cardinality(Granted) + lost

\* With RT_IPC_FLAG_PRIO the waiters stand in order of priority, and only
\* giving a waiter another priority disturbs it: timeouts, deletions and
\* resumptions in the middle of the list do not.
WaitersByPriority == Flag = "PRIO" => Sorted(waiters, prio)
OrderKept == [][prio' = prio /\ WaitersByPriority => WaitersByPriority']_vars

\* The assertion of _thread_timeout: its thread is still suspended.
TimeoutFindsSuspended == ~ThreadContext => Suspended(expiring)

\* What holds of it: the thread is still inside its take, asleep or woken by a
\* handler since the pop, and never somewhere else.
TimeoutFindsTaker ==
    ~ThreadContext => Taking(expiring) /\ (Suspended(expiring) \/ expiring \in Granted)

\* The three together: an expiry and a release take each other's thread for one
\* that still sleeps only if a handler comes between the pop and the callback;
\* no other unit is lost, doubled or left beside a sleeper.
TakersServed == NoSleeperBesideUnit /\ UnitsConserved /\ TimeoutFindsTaker

\* A take with a timeout always comes back, whoever else is resumed, deleted
\* or served meanwhile.
TimedTakeReturns == \A t \in Threads : pc[t] = "timedtake" ~> pc[t] # "timedtake"
=============================================================================
