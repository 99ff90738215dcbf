------------------------------- MODULE Blocks -------------------------------
(***************************************************************************)
(* A memory pool and a data queue at work together, as in the replay path  *)
(* of components/drivers/audio/dev_audio.c: threads allocate blocks and    *)
(* push them, an interrupt handler or another thread pops and frees them.  *)
(* Who waits for a block, for room or for an item may time out, be resumed *)
(* or deleted; the queue may be reset and the pool detached meanwhile.     *)
(***************************************************************************)
EXTENDS MemPool, DataQueue, FiniteSets

CONSTANTS
    Isr,         \* the interrupt handlers, one at a time
    InitPrio     \* thread -> priority

ASSUME BlocksAssumption ==
    /\ Isr \notin Threads /\ NoItem = NoBlock
    /\ IsFiniteSet(Threads) /\ InitPrio \in [Threads -> Nat]

VARIABLES
    have,        \* thread or handler -> the block it has
    pc,          \* thread -> "idle", the list it waits on, or "dead"
    timed,       \* threads whose wait has a timeout
    lost         \* history: a wakeup met a thread the timeout interrupt had
                 \* already, or was for a thread deleted before it ran

userVars == <<have, pc, timed, lost>>
vars == <<suspVars, poolVars, queueVars, userVars>>

Lists == {"alloc", "push", "pop"}
Actors == Threads \cup {Isr}

Init ==
    /\ susp = [l \in Lists |-> <<>>]
    /\ armed = {} /\ ttmr = {}
    /\ error = [t \in Threads |-> "EOK"]
    /\ expiring = NoThread
    /\ prio = InitPrio
    /\ PoolInit
    /\ RingInit
    /\ have = [a \in Actors |-> NoBlock]
    /\ pc = [t \in Threads |-> "idle"]
    /\ timed = {}
    /\ lost = FALSE

\* Threads run unless a tick interrupt has not called a popped timer back or
\* a reset has locked the scheduler.
ThreadsRun == ThreadContext /\ resetting \in {"no", "cleared", "closing"}
Acts(a) == a # Isr => ThreadsRun /\ pc[a] = "idle"

\* Waiters made ready, or resumed, that have yet to run.
Woken(l) == {t \in Threads : pc[t] = l /\ ~Suspended(t) /\ error[t] = "EOK"}

-----------------------------------------------------------------------------
\* Calls that need not wait.
Alloc(a) ==
    /\ Acts(a) /\ poolAlive /\ have[a] = NoBlock
    /\ TakeBlock
    /\ have' = [have EXCEPT ![a] = Head(free)]
    /\ UNCHANGED <<queueVars, pc, timed, lost>>

Free(a) ==
    /\ Acts(a) /\ poolAlive /\ have[a] # NoBlock
    /\ GiveBlock(have[a])
    /\ have' = [have EXCEPT ![a] = NoBlock]
    /\ lost' = (lost \/ Misses("alloc"))
    /\ UNCHANGED <<queueVars, pc, timed>>

Push(a) ==
    /\ Acts(a) /\ queueAlive /\ have[a] # NoBlock
    /\ PutItem(have[a])
    /\ have' = [have EXCEPT ![a] = NoBlock]
    /\ lost' = (lost \/ Misses("pop"))
    /\ UNCHANGED <<poolVars, pc, timed>>

Pop(a) ==
    /\ Acts(a) /\ queueAlive /\ have[a] = NoBlock
    /\ GetItem
    /\ have' = [have EXCEPT ![a] = FirstItem]
    /\ lost' = (lost \/ (ReachesMark /\ Misses("push")))
    /\ UNCHANGED <<poolVars, pc, timed>>

\* With timeout 0 and nothing there: -RT_ETIMEOUT.
Refused(a) ==
    /\ Acts(a)
    /\ \/ poolAlive /\ free = <<>>
       \/ queueAlive /\ (isFull \/ isEmpty)
    /\ UNCHANGED vars

-----------------------------------------------------------------------------
\* Calls that wait.
Waits(t, l, tm) ==
    \/ l = "alloc" /\ have[t] = NoBlock /\ WaitForBlock(t, tm) /\ UNCHANGED queueVars
    \/ l = "push" /\ have[t] # NoBlock /\ WaitForRoom(t, tm) /\ UNCHANGED poolVars
    \/ l = "pop" /\ have[t] = NoBlock /\ WaitForItem(t, tm) /\ UNCHANGED poolVars

Call(t, l, tm) ==
    /\ ThreadsRun /\ pc[t] = "idle"
    /\ IF l = "alloc" THEN poolAlive ELSE queueAlive
    /\ Waits(t, l, tm)
    /\ pc' = [pc EXCEPT ![t] = l]
    /\ timed' = IF tm THEN timed \cup {t} ELSE timed \ {t}
    /\ UNCHANGED <<have, lost>>

Runs(t) == ThreadsRun /\ pc[t] \in Lists /\ ~Suspended(t)

Returns(t) ==
    /\ pc' = [pc EXCEPT ![t] = "idle"]
    /\ timed' = timed \ {t}

WaitFails(t) ==
    /\ Runs(t) /\ error[t] # "EOK"
    /\ Returns(t)
    /\ UNCHANGED <<suspVars, poolVars, queueVars, have, lost>>

\* Faulty: a woken allocator does not look at the counter again.
AllocResumesUnasked(t) ==
    /\ Runs(t) /\ pc[t] = "alloc" /\ error[t] = "EOK"
    /\ free' = IF free = <<>> THEN <<>> ELSE Tail(free)
    /\ have' = [have EXCEPT ![t] = IF free = <<>> THEN CHOOSE b \in Blocks : TRUE ELSE Head(free)]
    /\ Returns(t)
    /\ UNCHANGED <<suspVars, poolAlive, queueVars, lost>>

AllocResumes(t) ==
    /\ Runs(t) /\ pc[t] = "alloc" /\ error[t] = "EOK"
    /\ TakeBlock
    /\ have' = [have EXCEPT ![t] = Head(free)]
    /\ Returns(t)
    /\ UNCHANGED <<queueVars, lost>>

PushResumes(t) ==
    /\ Runs(t) /\ pc[t] = "push" /\ error[t] = "EOK"
    /\ PutItem(have[t])
    /\ have' = [have EXCEPT ![t] = NoBlock]
    /\ lost' = (lost \/ Misses("pop"))
    /\ Returns(t)
    /\ UNCHANGED poolVars

PopResumes(t) ==
    /\ Runs(t) /\ pc[t] = "pop" /\ error[t] = "EOK"
    /\ GetItem
    /\ have' = [have EXCEPT ![t] = FirstItem]
    /\ lost' = (lost \/ (ReachesMark /\ Misses("push")))
    /\ Returns(t)
    /\ UNCHANGED poolVars

\* Somebody was faster: the wait starts again, in the data queue with the whole
\* timeout.
WaitsAgain(t) ==
    /\ Runs(t) /\ error[t] = "EOK"
    /\ Waits(t, pc[t], t \in timed)
    /\ UNCHANGED <<have, pc, timed, lost>>

\* rt_mp_alloc has used its time up.
TimeIsUp(t) ==
    /\ Runs(t) /\ error[t] = "EOK"
    /\ pc[t] = "alloc" /\ t \in timed /\ free = <<>>
    /\ Returns(t)
    /\ UNCHANGED <<suspVars, poolVars, queueVars, have, lost>>

-----------------------------------------------------------------------------
\* Blocks in the ring are not returned by a reset; who resets the queue of
\* a pool must not need them any more.
Reset ==
    /\ \/ ThreadsRun /\ queueAlive /\ (ClearRing \/ CloseQueue)
       \/ ThreadContext /\ (LockForReset \/ FailWaiter \/ ListFailed)
    /\ UNCHANGED <<poolVars, userVars>>

Detach ==
    /\ ThreadsRun
    /\ DetachPool
    /\ UNCHANGED <<queueVars, userVars>>

\* rt_thread_delete of t.
Delete(t) ==
    /\ ThreadsRun /\ pc[t] # "dead"
    /\ ThreadClose(t)
    /\ lost' = (lost \/ \E l \in Lists : t \in Woken(l))
    /\ pc' = [pc EXCEPT ![t] = "dead"]
    /\ timed' = timed \ {t}
    /\ UNCHANGED <<poolVars, queueVars, have>>

ThreadOps(t) ==
    \/ \E l \in Lists, tm \in BOOLEAN : Call(t, l, tm)
    \/ WaitFails(t) \/ AllocResumes(t) \/ PushResumes(t) \/ PopResumes(t)
    \/ WaitsAgain(t) \/ TimeIsUp(t)
    \/ Delete(t)

WaitEvents ==
    /\ \/ \E t \in Threads : TimerPop(t) \/ (ThreadsRun /\ ThreadResume(t))
       \/ ThreadTimeout
    /\ UNCHANGED <<poolVars, queueVars, userVars>>

Next ==
    \/ \E a \in Actors : Alloc(a) \/ Free(a) \/ Push(a) \/ Pop(a) \/ Refused(a)
    \/ \E t \in Threads : ThreadOps(t)
    \/ Reset \/ Detach \/ WaitEvents

Spec == Init /\ [][Next]_vars

-----------------------------------------------------------------------------
\* The items in the ring, first to last.
Contents == [i \in 1..QueueLen |-> slots[(getIndex + i - 1) % Size]]

InRing(b) == \E i \in DOMAIN Contents : Contents[i] = b
HeldBy(b) == {a \in Actors : have[a] = b}

\* Type invariant.
TypeOK ==
    /\ susp \in [Lists -> Seq(Threads)]
    /\ armed \subseteq Threads /\ ttmr \subseteq Threads
    /\ error \in [Threads -> Errors]
    /\ expiring \in Threads \cup {NoThread}
    /\ free \in Seq(Blocks)
    /\ slots \in [0..(Size - 1) -> Blocks \cup {NoItem}]
    /\ putIndex \in 0..(Size - 1) /\ getIndex \in 0..(Size - 1)
    /\ {isEmpty, isFull, poolAlive, queueAlive, lost} \subseteq BOOLEAN
    /\ resetting \in {"no", "cleared", "closing"} \cup Lists
    /\ have \in [Actors -> Blocks \cup {NoBlock}]
    /\ pc \in [Threads -> Lists \cup {"idle", "dead"}]
    /\ timed \subseteq Threads

\* A block is never in two hands: what is free is in nobody's hands and not in
\* the ring, what is in the ring is there once and nobody's, whatever times out,
\* is outrun or is reset on the way.
BlocksExclusive ==
    /\ Distinct(free) /\ Distinct(Contents)
    /\ \A b \in Blocks :
          /\ Holds(free, b) => ~InRing(b) /\ HeldBy(b) = {}
          /\ InRing(b) => HeldBy(b) = {}
          /\ Cardinality(HeldBy(b)) <= 1

\* The ring with its two flags is a bounded FIFO queue.
Ring == INSTANCE BoundedQueue WITH Items <- Blocks, Capacity <- Size, queue <- Contents
RefinesQueue == Ring!FifoSpec

\* No wakeup is lost between pool and queue: a thread sleeps for a block or an
\* item only if all there is has somebody awake coming for it, and for room only
\* above the low water mark or if all of it is spoken for.  (A wakeup that meets
\* a thread the timeout has already, or that is deleted before it runs, is lost.)
NoSleeperBesideBlock == susp["alloc"] # <<>> => Len(free) <= Cardinality(Woken("alloc"))
NoSleeperBesideItem == susp["pop"] # <<>> => QueueLen <= Cardinality(Woken("pop"))
NoSleeperBelowMark ==
    susp["push"] # <<>> => \/ QueueLen + Cardinality(Woken("push")) > Lwm
                           \/ QueueLen + Cardinality(Woken("push")) >= Size
NobodyForgotten ==
    ~lost => /\ NoSleeperBesideBlock
             /\ resetting \in {"no", "closing"} => NoSleeperBesideItem /\ NoSleeperBelowMark
=============================================================================
