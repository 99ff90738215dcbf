----------------------------- MODULE Scheduler -----------------------------
(***************************************************************************)
(* The uniprocessor scheduler of rt-thread/src/scheduler_up.c and          *)
(* scheduler_comm.c with the operations of thread.c that move threads in   *)
(* and out of it: ready queues per priority and the group of non-empty     *)
(* ones, time slices, the scheduler lock, and the window between leaving   *)
(* the lock (or giving a state away) and the call of rt_schedule, in which *)
(* interrupts are enabled and may wake threads and switch by themselves.   *)
(*                                                                         *)
(* Each step is a section that runs with interrupts disabled.  A switch    *)
(* requested by an interrupt takes effect when the interrupt returns; the  *)
(* scheduler's state changes at the request, and so does the model's.      *)
(***************************************************************************)
EXTENDS WaitList, FiniteSets

CONSTANTS
    Threads,
    Idle, Main,   \* the idle thread never blocks; main starts the others
    PrioMax,      \* RT_THREAD_PRIORITY_MAX
    InitPrio,     \* thread -> init_priority
    Slice,        \* thread -> init_tick
    Repriority,   \* TRUE: rt_thread_control changes priorities
    Suspends,     \* TRUE: threads block in rt_thread_suspend and rt_thread_delay,
                  \* not only in the IPC operations
    Ends,         \* TRUE: threads exit and delete one another
    NestMax       \* bound: how deep critical sections nest

Prios == 0..(PrioMax - 1)

ASSUME SchedulerAssumption ==
    /\ IsFiniteSet(Threads)
    /\ Idle \in Threads /\ Main \in Threads
    /\ PrioMax \in Nat \ {0}
    /\ InitPrio \in [Threads -> Prios]
    /\ InitPrio[Main] < InitPrio[Idle]
    /\ Slice \in [Threads -> Nat \ {0}]
    /\ Repriority \in BOOLEAN /\ Suspends \in BOOLEAN /\ Ends \in BOOLEAN
    /\ NestMax \in Nat

VARIABLES
    stat,        \* thread -> the state part of sched_thread_ctx.stat
    yield,       \* threads with RT_THREAD_STAT_YIELD set
    prio,        \* thread -> current_priority
    mask,        \* thread -> number_mask, as the set of its one bits
    ready,       \* rt_thread_priority_table: priority -> queue
    group,       \* rt_thread_ready_priority_group, as the set of its one bits
    current,     \* rt_current_thread
    remaining,   \* thread -> remaining_tick
    nest,        \* rt_scheduler_lock_nest
    owes         \* threads whose next step is to call rt_schedule

vars == <<stat, yield, prio, mask, ready, group, current, remaining, nest, owes>>

Stats == {"INIT", "READY", "RUNNING", "SUSPEND", "CLOSE"}

\* What the functions below compute with.
Now == [stat |-> stat, yield |-> yield, prio |-> prio, mask |-> mask,
        ready |-> ready, group |-> group, current |-> current]

\* (TLC computes s once, as the element of a set.)
Become(s) ==
    \E r \in {s} :
        /\ stat' = r.stat /\ yield' = r.yield /\ prio' = r.prio /\ mask' = r.mask
        /\ ready' = r.ready /\ group' = r.group /\ current' = r.current

\* rt_system_scheduler_start has picked main; idle waits.
Init ==
    /\ stat = [t \in Threads |-> IF t = Main THEN "RUNNING"
                                 ELSE IF t = Idle THEN "READY" ELSE "INIT"]
    /\ yield = {}
    /\ prio = InitPrio
    /\ mask = [t \in Threads |-> IF t \in {Main, Idle} THEN {InitPrio[t]} ELSE {}]
    /\ ready = [p \in Prios |-> IF p = InitPrio[Idle] THEN <<Idle>> ELSE <<>>]
    /\ group = {InitPrio[Idle]}
    /\ current = Main
    /\ remaining = Slice
    /\ nest = 0
    /\ owes = {}

-----------------------------------------------------------------------------
\* rt_sched_remove_thread
RemoveThread(s, t) ==
    LET out == [s EXCEPT !.ready = [p \in Prios |-> Unlink(s.ready[p], t)]]
    IN  IF out.ready[s.prio[t]] = <<>>
        THEN [out EXCEPT !.group = @ \ s.mask[t]]
        ELSE out

\* Faulty: a thread whose time slice is used up is put first again.
InsertThreadFirst(s, t) ==
    IF t = s.current
    THEN [s EXCEPT !.stat[t] = "RUNNING"]
    ELSE [s EXCEPT !.stat[t] = "READY",
                   !.ready[s.prio[t]] = <<t>> \o @,
                   !.group = @ \cup s.mask[t]]

\* rt_sched_insert_thread: first in its queue, or last if it yields.
InsertThread(s, t) ==
    IF t = s.current
    THEN [s EXCEPT !.stat[t] = "RUNNING"]
    ELSE [s EXCEPT !.stat[t] = "READY",
                   !.ready[s.prio[t]] = IF t \in s.yield THEN Append(@, t) ELSE <<t>> \o @,
                   !.group = @ \cup s.mask[t]]

\* The lock apart, rt_schedule: the first thread of the most urgent queue gets
\* the processor unless the current one can run on and is more urgent, or as
\* urgent and not yielding.
Switch(s) ==
    LET me == s.current
        top == Min(s.group)
        runs == s.stat[me] = "RUNNING"
        keeps == runs /\ (s.prio[me] < top \/ (s.prio[me] = top /\ me \notin s.yield))
        to == IF keeps THEN me ELSE Head(s.ready[top])
        left == [s EXCEPT !.current = to]
        queued == IF runs /\ to # me THEN InsertThread(left, me) ELSE left
        calm == IF to # me THEN [queued EXCEPT !.yield = @ \ {me}] ELSE queued
    IN  [RemoveThread(calm, to) EXCEPT !.stat[to] = "RUNNING"]

\* Faulty: the scheduler lock is not looked at.
ScheduleUnlocked(s, n) == IF s.group = {} THEN s ELSE Switch(s)

\* rt_schedule, with the scheduler lock taken n times.
Schedule(s, n) == IF n # 0 \/ s.group = {} THEN s ELSE Switch(s)

\* Faulty: the mask keeps the bit of the old priority.
SetPriorityKeepsMask(s, t, p) ==
    IF s.stat[t] = "READY"
    THEN InsertThread([RemoveThread(s, t) EXCEPT !.prio[t] = p, !.stat[t] = "INIT", !.yield = @ \ {t}], t)
    ELSE [s EXCEPT !.prio[t] = p]

\* rt_sched_thread_change_priority
SetPriority(s, t, p) ==
    IF s.stat[t] = "READY"
    THEN InsertThread([RemoveThread(s, t) EXCEPT !.prio[t] = p, !.mask[t] = {p}, !.stat[t] = "INIT",
                                     !.yield = @ \ {t}], t)
    ELSE [s EXCEPT !.prio[t] = p, !.mask[t] = {p}]

\* rt_sched_thread_yield; the slice is filled up in Yield and Tick.
Flagged(s, t) == [s EXCEPT !.yield = @ \cup {t}]

\* rt_thread_close of a thread that is not closed yet.
Closed(s, t) ==
    LET out == IF s.stat[t] = "INIT" THEN s ELSE RemoveThread(s, t)
    IN  [out EXCEPT !.stat[t] = "CLOSE", !.yield = @ \ {t}]

-----------------------------------------------------------------------------
\* The current thread executes its own code.
Runs == current \notin owes

\* It goes on to call rt_schedule, which does nothing under the lock.
ThenSchedule == owes' = IF nest = 0 THEN owes \cup {current} ELSE owes

\* rt_enter_critical
EnterCritical ==
    /\ Runs /\ nest < NestMax
    /\ nest' = nest + 1
    /\ UNCHANGED <<stat, yield, prio, mask, ready, group, current, remaining, owes>>

\* Faulty: wakeups under the lock are forgotten.
ExitCriticalQuietly ==
    /\ Runs /\ nest > 0
    /\ nest' = nest - 1
    /\ UNCHANGED <<stat, yield, prio, mask, ready, group, current, remaining, owes>>

\* rt_exit_critical up to the call of rt_schedule: interrupts are enabled.
ExitCritical ==
    /\ Runs /\ nest > 0
    /\ nest' = nest - 1
    /\ owes' = IF nest = 1 THEN owes \cup {current} ELSE owes
    /\ UNCHANGED <<stat, yield, prio, mask, ready, group, current, remaining>>

CallSchedule ==
    /\ ~Runs
    /\ Become(Schedule(Now, nest))
    /\ owes' = owes \ {current}
    /\ UNCHANGED <<remaining, nest>>

\* rt_thread_suspend_to_list: the current thread suspends itself.
SuspendedSelf == [RemoveThread(Now, current) EXCEPT !.stat[current] = "SUSPEND"]

\* An IPC operation blocks.  Interrupts stay disabled to the end of its section,
\* which calls rt_schedule: rt_spin_unlock_irqrestore leaves the scheduler lock.
Block ==
    /\ Runs /\ current # Idle /\ stat[current] = "RUNNING" /\ nest = 0
    /\ Become(Schedule(SuspendedSelf, nest))
    /\ UNCHANGED <<remaining, nest, owes>>

\* rt_thread_suspend, also as a part of rt_thread_delay, which encloses it in a
\* critical section: rt_schedule is called later, with interrupts enabled.
SuspendSelf ==
    /\ Suspends
    /\ Runs /\ current # Idle /\ stat[current] = "RUNNING"
    /\ Become(SuspendedSelf)
    /\ ThenSchedule
    /\ UNCHANGED <<remaining, nest>>

\* rt_thread_suspend_to_list under the lock, by a thread that is suspended
\* already and has not left the lock: refused.
SuspendRefused ==
    /\ Runs /\ stat[current] # "RUNNING"
    /\ UNCHANGED vars

\* rt_thread_resume, or _thread_timeout: by a thread or in an interrupt.
Resume(t) ==
    /\ stat[t] = "SUSPEND"
    /\ Become(Schedule(InsertThread(Now, t), nest))
    /\ UNCHANGED <<remaining, nest, owes>>

\* One of several wakeups by the current thread; rt_schedule comes later.
Ready(t) ==
    /\ Runs
    /\ stat[t] = "SUSPEND"
    /\ Become(InsertThread(Now, t))
    /\ ThenSchedule
    /\ UNCHANGED <<remaining, nest>>

\* rt_thread_yield
Yield ==
    /\ Runs /\ stat[current] = "RUNNING"
    /\ remaining' = [remaining EXCEPT ![current] = Slice[current]]
    /\ Become(Schedule(Flagged(Now, current), nest))
    /\ UNCHANGED <<nest, owes>>

\* Faulty: the slice is not filled up for the next turn.
TickForgetsSlice ==
    /\ remaining' = [remaining EXCEPT ![current] = IF @ > 0 THEN @ - 1 ELSE 0]
    /\ Become(IF remaining'[current] = 0 THEN Schedule(Flagged(Now, current), nest) ELSE Now)
    /\ UNCHANGED <<nest, owes>>

\* rt_sched_tick_increase, in the tick interrupt.
Tick ==
    /\ IF remaining[current] > 1
       THEN /\ remaining' = [remaining EXCEPT ![current] = @ - 1]
            /\ Become(Now)
       ELSE /\ remaining' = [remaining EXCEPT ![current] = Slice[current]]
            /\ Become(Schedule(Flagged(Now, current), nest))
    /\ UNCHANGED <<nest, owes>>

\* rt_thread_control(RT_THREAD_CTRL_CHANGE_PRIORITY): rt_schedule is not called.
ChangePriority(t, p) ==
    /\ Repriority /\ Runs /\ t # Idle
    /\ Become(SetPriority(Now, t, p))
    /\ UNCHANGED <<remaining, nest, owes>>

\* rt_thread_startup
Startup(t) ==
    /\ Runs /\ stat[t] = "INIT"
    /\ Become(Schedule(InsertThread([Now EXCEPT !.mask[t] = {prio[t]}, !.stat[t] = "SUSPEND",
                                          !.yield = @ \ {t}], t), nest))
    /\ UNCHANGED <<remaining, nest, owes>>

\* rt_thread_delete and rt_thread_detach of another thread.
Delete(t) ==
    /\ Ends /\ Runs /\ t \notin {current, Idle} /\ stat[t] # "CLOSE"
    /\ Become(Closed(Now, t))
    /\ ThenSchedule
    /\ UNCHANGED <<remaining, nest>>

\* _thread_exit, and a thread that deletes itself.
Exit ==
    /\ Ends /\ Runs /\ current # Idle /\ stat[current] = "RUNNING" /\ nest = 0
    /\ Become(Closed(Now, current))
    /\ ThenSchedule
    /\ UNCHANGED <<remaining, nest>>

-----------------------------------------------------------------------------
Next ==
    \/ EnterCritical \/ ExitCritical \/ CallSchedule
    \/ Block \/ SuspendSelf \/ SuspendRefused \/ Yield \/ Tick \/ Exit
    \/ \E t \in Threads :
        \/ Resume(t) \/ Ready(t) \/ Startup(t) \/ Delete(t)
        \/ \E p \in Prios : ChangePriority(t, p)

Spec == Init /\ [][Next]_vars

\* The tick interrupt comes again and again.
Fairness == []<><<Tick>>_vars

FairSpec == Spec /\ Fairness

-----------------------------------------------------------------------------
\* Type invariant.  No thread is ever left without a time slice.
TypeOK ==
    /\ Now \in [stat : [Threads -> Stats], yield : SUBSET Threads,
                prio : [Threads -> Prios], mask : [Threads -> SUBSET Prios],
                ready : [Prios -> Seq(Threads)], group : SUBSET Prios,
                current : Threads]
    /\ remaining \in [Threads -> Nat \ {0}]
    /\ nest \in 0..NestMax
    /\ owes \in SUBSET Threads

\* The bit map finds exactly the priorities that have a ready thread, however
\* threads are woken, moved and removed: rt_schedule never overlooks a thread
\* and never takes one from an empty queue.
GroupMatchesQueues == \A p \in Prios : p \in group <=> ready[p] # <<>>

\* A thread stands in a ready queue exactly if it is READY, in that of its
\* priority and once; the running thread stands in none.
ReadyIsQueued ==
    \A t \in Threads, p \in Prios :
        /\ Holds(ready[p], t) <=> stat[t] = "READY" /\ prio[t] = p
        /\ Distinct(ready[p])

\* The processor never executes a thread that is suspended or closed, but for
\* the stretch to the rt_schedule it is about to reach or the lock's end.
CurrentCanRun ==
    /\ \A t \in Threads : stat[t] = "RUNNING" => t = current
    /\ stat[current] = "RUNNING" \/ nest > 0 \/ ~Runs

\* Bit map, ready queues, states of threads and the running thread tell the same
\* story, whatever is woken, moved, suspended, locked and closed.
QueuesAgree == GroupMatchesQueues /\ ReadyIsQueued /\ CurrentCanRun

\* No ready thread is more urgent than the running one unless the scheduler is
\* locked or rt_schedule about to be called: no wakeup forgets to reschedule.
HighestRuns ==
    stat[current] = "RUNNING" /\ nest = 0 /\ Runs =>
        \A p \in group : prio[current] <= p

\* Whatever makes a thread ready, ends the running one's turn or unlocks the
\* scheduler also reschedules; only rt_thread_control does not, and a thread it
\* has made more urgent waits.
NoForgottenSwitch ==
    [][HighestRuns => HighestRuns' \/ \E t \in Threads, p \in Prios : ChangePriority(t, p)]_vars

\* Nothing takes the processor from a thread that holds the scheduler lock.
LockKeepsProcessor == [][nest > 0 => current' = current]_vars

\* Among the most urgent threads each gets its turn: threads that go to sleep
\* and come back, ahead of the others, cannot keep one waiting for ever.  Ticks
\* that meet a locked or half suspended thread may end no turn, and who gets a
\* new priority goes last: from some time on, neither happens.
Plain == nest = 0 /\ stat[current] = "RUNNING"

Repositions == \E t \in Threads, p \in Prios : ChangePriority(t, p)

EqualsTakeTurns ==
    <>[]Plain /\ <>[][~Repositions]_vars =>
        \A t \in Threads :
            ~ <>[](stat[t] = "READY" /\ \A u \in Threads : prio[t] <= prio[u])
=============================================================================
