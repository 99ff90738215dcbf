------------------------------ MODULE WorkQueue ------------------------------
(***************************************************************************)
(* The work queue of rt-thread/components/drivers/ipc/workqueue.c.  One    *)
(* worker thread serves a list of pending work and a list of delayed work, *)
(* sleeping in between on a completion with the time to the next delay as  *)
(* timeout.  Work is submitted, delayed, made urgent and cancelled by any  *)
(* thread, interrupt or work function, while it is queued or executes.     *)
(***************************************************************************)
EXTENDS Completion, WaitList, Integers, FiniteSetsExt

CONSTANTS
    Works,
    Cancellers,  \* threads that call rt_workqueue_cancel_work_sync
    Delays,      \* delays in ticks, other than 0
    Ticks,       \* values of rt_tick_t
    MaxLate,     \* bound: ticks the worker may lag behind a delay
    None

Half == (Ticks - 1) \div 2      \* RT_TICK_MAX / 2

\* Delayed work is sorted and found due by differences of ticks, which tells
\* earlier from later if they are less than half the range apart.
ASSUME WorkQueueAssumption ==
    /\ None \notin Works \cup Int
    /\ Ticks \in Nat /\ Half > 1 /\ Delays \subseteq 1..(Half - 1)
    /\ MaxLate \in 0..(Half - 1) /\ \A d \in Delays : MaxLate + d <= Half

VARIABLES
    workList,    \* pending work, next first
    delayed,     \* delayed work as entries [work, timeout], next first
    current,     \* work_current
    phase,       \* where the worker is
    timed,       \* delay_tick is not RT_WAITING_FOREVER
    sem,         \* value of the semaphore that acknowledges executed work
    sleepers,    \* cancellers suspended on it
    pc,          \* canceller -> where it is, or the work it is about to cancel
    clearing,    \* the loop of rt_workqueue_cancel_all_work under way
    step,        \* where it is in its body
    victim,      \* what it is about to cancel: a work, or None for the list's head
    closing,     \* rt_workqueue_destroy is under way
    tick,
    left,        \* history: work -> true ticks until it may execute, None if not asked for
    asked,       \* history: work submitted and since neither executed nor cancelled
    cutOff       \* history: asked work that was linked to a head somebody cancelled

vars == <<compVars, workList, delayed, current, phase, timed, sem, sleepers,
          pc, clearing, step, victim, closing, tick, left, asked, cutOff>>

lists == <<workList, delayed, left, asked, cutOff>>
worker == <<current, phase, timed>>
sync == <<sem, sleepers, pc>>
stages == <<clearing, step, victim, closing>>

Minus(a, b) == (a - b) % Ticks

Init ==
    /\ CompletionInit
    /\ workList = <<>> /\ delayed = <<>>
    /\ current = None /\ phase = "scan" /\ timed = FALSE
    /\ sem = 0 /\ sleepers = <<>>
    /\ pc = [c \in Cancellers |-> "idle"]
    /\ clearing = "no" /\ step = "test" /\ victim = None /\ closing = FALSE
    /\ tick = 0
    /\ left = [w \in Works |-> None]
    /\ asked = {} /\ cutOff = {}

Alive == phase # "dead"

\* Nobody turns to a queue that is being destroyed: its memory is freed next.
InUse == Alive /\ ~closing

\* Threads run unless a tick interrupt or rt_enter_critical keeps them.
ThreadsRun == Alive /\ ThreadContext /\ clearing = "no"

-----------------------------------------------------------------------------
\* rt_list_remove of a work item, from whichever list it is on.
OffWorkList(w) == Unlink(workList, w)
OffDelayed(w) ==
    LET at == {i \in DOMAIN delayed : delayed[i].work = w}
    IN  IF at = {} THEN delayed ELSE RemoveAt(delayed, CHOOSE i \in at : TRUE)

SubmitNow(w) ==
    /\ workList' = Append(OffWorkList(w), w)
    /\ delayed' = OffDelayed(w)
    /\ left' = [left EXCEPT ![w] = 0]

\* Faulty: timeouts are compared as numbers.
InsertByNumber(s, e) ==
    LET notBefore == {i \in DOMAIN s : s[i].timeout >= e.timeout}
    IN  IF notBefore = {} THEN Append(s, e) ELSE InsertAt(s, Min(notBefore), e)

\* The place of delayed work: before the first that is not due earlier.
InsertDelayed(s, e) ==
    LET notBefore == {i \in DOMAIN s : Minus(s[i].timeout, e.timeout) < Half}
    IN  IF notBefore = {} THEN Append(s, e) ELSE InsertAt(s, Min(notBefore), e)

SubmitLater(w, d) ==
    /\ workList' = OffWorkList(w)
    /\ delayed' = InsertDelayed(OffDelayed(w), [work |-> w, timeout |-> (tick + d) % Ticks])
    /\ left' = [left EXCEPT ![w] = d]

\* _workqueue_submit_work
Submit(w, d) ==
    /\ InUse
    /\ IF d = 0 THEN SubmitNow(w) ELSE SubmitLater(w, d)
    /\ asked' = asked \cup {w} /\ cutOff' = cutOff \ {w}
    /\ CompletionDone
    /\ UNCHANGED <<worker, sync, stages, tick>>

\* rt_workqueue_urgent_work
Urgent(w) ==
    /\ InUse
    /\ workList' = <<w>> \o OffWorkList(w)
    /\ delayed' = OffDelayed(w)
    /\ left' = [left EXCEPT ![w] = 0]
    /\ asked' = asked \cup {w} /\ cutOff' = cutOff \ {w}
    /\ CompletionDone
    /\ UNCHANGED <<worker, sync, stages, tick>>

\* _workqueue_cancel_work
Withdraw(w) ==
    /\ workList' = OffWorkList(w)
    /\ delayed' = OffDelayed(w)
    /\ left' = [left EXCEPT ![w] = None]
    /\ asked' = asked \ {w} /\ cutOff' = cutOff \ {w}

\* rt_workqueue_cancel_work; -RT_EBUSY if it executes.
Cancel(w) ==
    /\ InUse
    /\ Withdraw(w)
    /\ UNCHANGED <<compVars, worker, sync, stages, tick>>

-----------------------------------------------------------------------------
\* The delayed work that is due, up to the first that is not.
DueCount ==
    LET notDue == {i \in DOMAIN delayed : Minus(tick, delayed[i].timeout) >= Half}
    IN  IF notDue = {} THEN Len(delayed) ELSE Min(notDue) - 1

Due == [i \in 1..DueCount |-> delayed[i].work]

\* What the history says of work that leaves the delayed list.
Moved(w) == \E i \in DOMAIN Due : Due[i] = w
Waited == [w \in Works |-> IF Moved(w) /\ left[w] < 0 THEN 0 ELSE left[w]]

\* Faulty: the worker sleeps until it is woken, whatever is delayed.
FindNothingForLong ==
    /\ ThreadsRun /\ phase = "scan"
    /\ workList \o Due = <<>>
    /\ phase' = "wait" /\ timed' = FALSE
    /\ UNCHANGED <<compVars, lists, current, sync, stages, tick>>

\* The worker looks for work and finds none.
FindNothing ==
    /\ ThreadsRun /\ phase = "scan"
    /\ workList \o Due = <<>>
    /\ phase' = "wait" /\ timed' = (delayed # <<>>)
    /\ UNCHANGED <<compVars, lists, current, sync, stages, tick>>

\* It moves what is due to the end of the work list and takes the first.
TakeWork ==
    /\ ThreadsRun /\ phase = "scan"
    /\ LET ready == workList \o Due
       IN  /\ ready # <<>>
           /\ workList' = Tail(ready)
           /\ current' = Head(ready)
           /\ left' = [Waited EXCEPT ![Head(ready)] = None]
           /\ asked' = asked \ {Head(ready)}
    /\ delayed' = SubSeq(delayed, DueCount + 1, Len(delayed))
    /\ phase' = "run"
    /\ UNCHANGED <<compVars, timed, sync, stages, tick, cutOff>>

\* rt_completion_wait(&queue->wakeup_completion, delay_tick)
Nap ==
    /\ ThreadsRun /\ phase = "wait"
    /\ \/ WaitFindsDone /\ phase' = "scan"
       \/ WaitSleeps(timed) /\ phase' = "nap"
    /\ UNCHANGED <<lists, current, timed, sync, stages, tick>>

NapEnds ==
    /\ ThreadsRun /\ phase = "nap"
    /\ WaitEnds
    /\ phase' = "scan"
    /\ UNCHANGED <<lists, current, timed, sync, stages, tick>>

\* work_func returns.
WorkReturns ==
    /\ ThreadsRun /\ phase = "run"
    /\ current' = None
    /\ phase' = "ack"
    /\ UNCHANGED <<compVars, lists, timed, sync, stages, tick>>

-----------------------------------------------------------------------------
\* _workqueue_work_completion: the unit is there, or a unit is released until
\* it is.
AckTakes ==
    /\ ThreadsRun /\ phase = "ack" /\ sem > 0
    /\ sem' = sem - 1
    /\ phase' = "scan"
    /\ UNCHANGED <<compVars, lists, current, timed, sleepers, pc, stages, tick>>

AckFails ==
    /\ ThreadsRun /\ phase = "ack" /\ sem = 0
    /\ phase' = "release"
    /\ UNCHANGED <<compVars, lists, current, timed, sync, stages, tick>>

\* Faulty: two units are released.
AckReleasesTwice ==
    /\ ThreadsRun /\ phase = "release"
    /\ sem' = sem + 2
    /\ phase' = "ack"
    /\ UNCHANGED <<compVars, lists, current, timed, sleepers, pc, stages, tick>>

AckReleases ==
    /\ ThreadsRun /\ phase = "release"
    /\ IF sleepers = <<>> THEN sem' = sem + 1 /\ UNCHANGED <<sleepers, pc>>
       ELSE /\ sleepers' = Tail(sleepers)
            /\ pc' = [pc EXCEPT ![Head(sleepers)] = "idle"]
            /\ UNCHANGED sem
    /\ phase' = "ack"
    /\ UNCHANGED <<compVars, lists, current, timed, stages, tick>>

\* rt_workqueue_cancel_work_sync reads work_current without the lock: work that
\* executes is waited for, other work is cancelled.
SyncReads(c, w) ==
    /\ ThreadsRun /\ InUse /\ pc[c] = "idle"
    /\ pc' = [pc EXCEPT ![c] = IF current = w THEN "wait" ELSE w]
    /\ UNCHANGED <<compVars, lists, worker, sem, sleepers, stages, tick>>

SyncCancels(c) ==
    /\ ThreadsRun /\ pc[c] \in Works
    /\ Withdraw(pc[c])
    /\ pc' = [pc EXCEPT ![c] = "idle"]
    /\ UNCHANGED <<compVars, worker, sem, sleepers, stages, tick>>

\* rt_sem_take(&queue->sem, RT_WAITING_FOREVER)
SyncTakes(c) ==
    /\ ThreadsRun /\ pc[c] = "wait"
    /\ IF sem > 0 THEN /\ sem' = sem - 1
                       /\ pc' = [pc EXCEPT ![c] = "idle"]
                       /\ UNCHANGED sleepers
       ELSE /\ sleepers' = Append(sleepers, c)
            /\ pc' = [pc EXCEPT ![c] = "asleep"]
            /\ UNCHANGED sem
    /\ UNCHANGED <<compVars, lists, worker, stages, tick>>

-----------------------------------------------------------------------------
\* rt_workqueue_cancel_all_work: with the scheduler locked, first the pending
\* work, then the delayed.  Only threads are kept out: interrupts submit, delay
\* and cancel between the test of the list, the read of its first entry and the
\* locked cancellation of what was read.
CancelAll(destroy) ==
    /\ ThreadsRun /\ InUse
    /\ clearing' = "pending" /\ closing' = destroy
    /\ UNCHANGED <<compVars, lists, worker, sync, step, victim, tick>>

Clearing(stage) == ThreadContext /\ clearing # "no" /\ step = stage

\* The work on the list the loop is about.
Cleared == IF clearing = "pending" THEN workList
           ELSE [i \in DOMAIN delayed |-> delayed[i].work]

FindsWork ==
    /\ Clearing("test") /\ Cleared # <<>>
    /\ step' = "read"
    /\ UNCHANGED <<compVars, lists, worker, sync, clearing, victim, closing, tick>>

\* rt_list_first_entry: the entry of an empty list is its own head.
ReadsFirst ==
    /\ Clearing("read")
    /\ victim' = IF Cleared = <<>> THEN None ELSE Head(Cleared)
    /\ step' = "cancel"
    /\ UNCHANGED <<compVars, lists, worker, sync, clearing, closing, tick>>

CancelFirst ==
    /\ Clearing("cancel") /\ victim # None
    /\ Withdraw(victim)
    /\ step' = "test" /\ victim' = None
    /\ UNCHANGED <<compVars, worker, sync, clearing, closing, tick>>

\* The head taken for a work: what was submitted meanwhile is cut off from it.
\* The flags of this "work" are the low half of work_current, which names no
\* work then; its field workqueue is in the name of the semaphore.  (That of
\* the delayed list's head is in the links of the semaphore as a kernel object,
\* which no operation here follows.)
CancelHead ==
    /\ Clearing("cancel") /\ victim = None
    /\ cutOff' = cutOff \cup {Cleared[i] : i \in DOMAIN Cleared}
    /\ IF clearing = "pending"
       THEN workList' = <<>> /\ current' = None /\ UNCHANGED delayed
       ELSE delayed' = <<>> /\ UNCHANGED <<workList, current>>
    /\ step' = "test"
    /\ UNCHANGED <<compVars, left, asked, phase, timed, sync, clearing, victim, closing, tick>>

ListCleared ==
    /\ Clearing("test") /\ Cleared = <<>>
    /\ clearing' = IF clearing = "pending" THEN "delayed" ELSE "no"
    /\ UNCHANGED <<compVars, lists, worker, sync, step, victim, closing, tick>>

\* The rest of rt_workqueue_destroy, after the scheduler is unlocked: the worker
\* is deleted, whatever it does, and who sleeps on the semaphore is woken.
Destroy ==
    /\ ThreadsRun /\ closing
    /\ phase' = "dead" /\ closing' = FALSE
    /\ asleep' = FALSE /\ armed' = FALSE
    /\ sleepers' = <<>>
    /\ pc' = [c \in Cancellers |-> IF pc[c] = "asleep" THEN "idle" ELSE pc[c]]
    /\ UNCHANGED <<comp, expiring, lists, current, timed, sem, clearing, step, victim, tick>>

\* Time passes.
LateBy(n) == \E i \in DOMAIN delayed : left[delayed[i].work] <= -n

Tick ==
    /\ Alive /\ ThreadContext
    /\ ~LateBy(MaxLate)
    /\ tick' = (tick + 1) % Ticks
    /\ left' = [w \in Works |-> IF \E i \in DOMAIN delayed : delayed[i].work = w
                                THEN left[w] - 1 ELSE left[w]]
    /\ UNCHANGED <<compVars, workList, delayed, asked, cutOff, worker, sync, stages>>

\* The worker's thread timer goes off; somebody else resumes it.
TimerEvent ==
    /\ Alive
    /\ PopTimer \/ TimeOut
    /\ UNCHANGED <<lists, worker, sync, stages, tick>>

ResumeWorker ==
    /\ ThreadsRun
    /\ ResumeWaiter
    /\ UNCHANGED <<lists, worker, sync, stages, tick>>

WorkerStep ==
    FindNothing \/ TakeWork \/ Nap \/ NapEnds \/ WorkReturns
        \/ AckTakes \/ AckFails \/ AckReleases

Next ==
    \/ \E w \in Works : Urgent(w) \/ Cancel(w) \/ \E d \in Delays \cup {0} : Submit(w, d)
    \/ WorkerStep
    \/ \E c \in Cancellers : SyncCancels(c) \/ SyncTakes(c) \/ \E w \in Works : SyncReads(c, w)
    \/ \E destroy \in BOOLEAN : CancelAll(destroy)
    \/ FindsWork \/ ReadsFirst \/ CancelFirst \/ CancelHead \/ ListCleared \/ Destroy
    \/ Tick \/ TimerEvent \/ ResumeWorker

Spec == Init /\ [][Next]_vars

\* The worker is scheduled when it is ready, the tick goes on, and work
\* functions return.
FairSpec ==
    /\ Spec
    /\ WF_vars(WorkerStep)
    /\ WF_vars(TimerEvent)

-----------------------------------------------------------------------------
\* Type invariant.
TypeOK ==
    /\ CompletionTypeOK
    /\ workList \in Seq(Works)
    /\ delayed \in Seq([work : Works, timeout : 0..(Ticks - 1)])
    /\ current \in Works \cup {None}
    /\ phase \in {"scan", "wait", "nap", "run", "ack", "release", "dead"}
    /\ timed \in BOOLEAN
    /\ sem \in 0..1
    /\ sleepers \in Seq(Cancellers)
    /\ pc \in [Cancellers -> {"idle", "wait", "asleep"} \cup Works]
    /\ clearing \in {"no", "pending", "delayed"} /\ closing \in BOOLEAN
    /\ step \in {"test", "read", "cancel"} /\ victim \in Works \cup {None}
    /\ tick \in 0..(Ticks - 1)
    /\ left \in [Works -> (-MaxLate)..(Half - 1) \cup {None}]
    /\ asked \subseteq Works /\ cutOff \subseteq asked

Queued(w) == {i \in DOMAIN workList : workList[i] = w}
Delayed(w) == {i \in DOMAIN delayed : delayed[i].work = w}

AskedIsQueued ==
    \A w \in Works : Cardinality(Queued(w)) + Cardinality(Delayed(w)) =
        IF w \in asked \ cutOff THEN 1 ELSE 0

\* The worker does not sleep beside pending work, and not without a timer
\* beside delayed work, unless its timer has gone off already.
WorkerIsAwake ==
    asleep /\ ~expiring => workList = <<>> /\ (delayed # <<>> => armed)

\* Every submission is executed once or cancelled, also when it is repeated,
\* delayed, made urgent or cancelled while the work executes or is queued, but
\* for the one that is lost: what an interrupt submits after another emptied
\* the list under rt_workqueue_cancel_all_work, until it is submitted again.
\* And the worker does not sleep over work.
NoWorkForgotten == AskedIsQueued /\ WorkerIsAwake

\* Nothing is queued for execution before its delay is over in true time, and
\* the delayed list is in the order of the delays, across the wrap of the tick.
DelaysKept ==
    /\ \A i \in DOMAIN workList : left[workList[i]] <= 0
    /\ \A i, j \in DOMAIN delayed : i < j => left[delayed[i].work] <= left[delayed[j].work]

\* Work that is pending, or delayed and due, does not wait for ever: the worker
\* executes some work or it is withdrawn, unless all work is being cancelled.
WorkToDo == Alive /\ (workList # <<>> \/ DueCount > 0)
WorkGoesOn == WorkToDo ~> ~WorkToDo \/ current # None \/ clearing # "no"

\* Who cancels work that executes is woken when it is done: it sleeps only
\* while the worker is on its way to wake it.
SyncSleeperIsAwaited ==
    sleepers # <<>> /\ Alive => phase \in {"run", "ack", "release"}
=============================================================================
