-------------------------------- MODULE Mutex --------------------------------
(***************************************************************************)
(* The recursive mutex of rt-thread/src/ipc.c with priority inheritance    *)
(* and priority ceilings, and what ending a thread does to the mutexes it  *)
(* waits for or owns (thread.c).                                           *)
(*                                                                         *)
(* Every operation runs with the scheduler locked.  The only thing that    *)
(* can happen in the middle is the tick interrupt timing another waiter    *)
(* out, which commutes with the operation; so each operation is one step   *)
(* and an expiry, whose two halves no thread and no mutex operation can    *)
(* separate, is one step too (compare SuspendList).                        *)
(***************************************************************************)
EXTENDS WaitList, FiniteSets

CONSTANTS
    Threads, Mutexes,
    NoThread, NoMutex,  \* RT_NULL
    InitPrio,           \* thread -> init_priority (0 is the most urgent)
    NoPrio,             \* 0xFF, less urgent than every priority
    HoldMax,            \* RT_MUTEX_HOLD_MAX
    Ceilings,           \* values given to rt_mutex_setprioceiling
    Rounds,             \* bound: no priority is passed on along more owners
    WaitsEnd,           \* TRUE: waits time out or are cut short by a resume
    Detaches,           \* TRUE: mutexes are detached
    Deletes             \* TRUE: threads delete one another

ASSUME MutexAssumption ==
    /\ IsFiniteSet(Threads) /\ IsFiniteSet(Mutexes) /\ Threads \cap Mutexes = {}
    /\ NoThread \notin Threads /\ NoMutex \notin Mutexes
    /\ NoPrio \in Nat
    /\ InitPrio \in [Threads -> 0..(NoPrio - 1)]
    /\ HoldMax \in Nat \ {0}
    /\ Ceilings \subseteq 0..(NoPrio - 1)
    /\ Rounds \in Nat
    /\ WaitsEnd \in BOOLEAN /\ Detaches \in BOOLEAN /\ Deletes \in BOOLEAN

\* The bound cuts no chain short while lists are in order: from round to round
\* the priority passed on sinks, or a further thread has it (UpdateOrderly).
ASSUME RoundsAssumption == Rounds >= Cardinality(Threads) * NoPrio

VARIABLES
    owner,       \* mutex -> owner
    hold,        \* mutex -> hold
    mpri,        \* mutex -> priority: that of its most urgent waiter
    ceil,        \* mutex -> ceiling_priority
    waiters,     \* mutex -> its suspend list
    prio,        \* thread -> current_priority
    pending,     \* thread -> pending_object
    taken,       \* thread -> taken_object_list, as a set
    inside,      \* thread -> the mutex it is inside rt_mutex_take of
    gone,        \* the threads closed and the mutexes detached
    held         \* history: thread -> mutex -> takes that returned RT_EOK

mutexVars == <<owner, hold, mpri, ceil, waiters, prio, pending, taken, inside, gone, held>>

\* The fields the operations compute with, as one record: an operation is a
\* composition of the steps below, in the order of the code.
Now == [owner |-> owner, hold |-> hold, mpri |-> mpri, ceil |-> ceil,
        waiters |-> waiters, prio |-> prio, pending |-> pending, taken |-> taken]

MutexStates ==
    [owner : [Mutexes -> Threads \cup {NoThread}],
     hold : [Mutexes -> 0..HoldMax],
     mpri : [Mutexes -> 0..NoPrio],
     ceil : [Mutexes -> 0..NoPrio],
     waiters : [Mutexes -> Seq(Threads)],
     prio : [Threads -> 0..(NoPrio - 1)],
     pending : [Threads -> Mutexes \cup {NoMutex}],
     taken : [Threads -> SUBSET Mutexes]]

Become(s) ==
    /\ owner' = s.owner /\ hold' = s.hold /\ mpri' = s.mpri /\ ceil' = s.ceil
    /\ waiters' = s.waiters /\ prio' = s.prio /\ pending' = s.pending
    /\ taken' = s.taken

MutexInit ==
    /\ owner = [m \in Mutexes |-> NoThread]
    /\ hold = [m \in Mutexes |-> 0]
    /\ mpri = [m \in Mutexes |-> NoPrio]
    /\ ceil = [m \in Mutexes |-> NoPrio]
    /\ waiters = [m \in Mutexes |-> <<>>]
    /\ prio = InitPrio
    /\ pending = [t \in Threads |-> NoMutex]
    /\ taken = [t \in Threads |-> {}]
    /\ inside = [t \in Threads |-> NoMutex]
    /\ gone = {}
    /\ held = [t \in Threads |-> [m \in Mutexes |-> 0]]

-----------------------------------------------------------------------------
\* _mutex_update_priority: the priority of the first waiter.
FirstPriority(s, m) ==
    IF s.waiters[m] = <<>> THEN NoPrio ELSE s.prio[Head(s.waiters[m])]

\* _thread_get_mutex_priority: the most urgent of the thread's own priority
\* and of what its mutexes ask for.
DuePriority(s, t) ==
    Min({InitPrio[t]} \cup {s.mpri[m] : m \in s.taken[t]} \cup {s.ceil[m] : m \in s.taken[t]})

Suspended(s, t) == \E m \in Mutexes : Holds(s.waiters[m], t)

\* One round of the loop of _thread_update_priority, entered with c.thread just
\* changed: it is sorted into the list it waits on anew, and the owner of that
\* mutex follows if its due priority has become another.  A round that finds
\* nobody to follow changes nothing.
Round(c) ==
    LET t == c.thread
        s == c.state
        m == s.pending[t]
        o == s.owner[m]
        sorted == [s EXCEPT !.waiters[m] = Enqueue(Unlink(@, t), t, "PRIO", s.prio)]
        asked == [sorted EXCEPT !.mpri[m] = FirstPriority(sorted, m)]
        due == DuePriority(asked, o)
    IN  IF ~(Suspended(s, t) /\ m # NoMutex) THEN c
        ELSE IF due = asked.prio[o] THEN [thread |-> NoThread, state |-> asked]
        ELSE [thread |-> o, state |-> [asked EXCEPT !.prio[o] = due]]

\* Faulty: the owner a raised thread waits for is not raised in its turn.
UpdatePriorityOfOne(s, t, p) == [s EXCEPT !.prio[t] = p]

\* _thread_update_priority
UpdatePriority(s, t, p) ==
    LET loop[k \in 0..Rounds] ==
            IF k = 0 THEN [thread |-> t, state |-> [s EXCEPT !.prio[t] = p]]
            ELSE Round(loop[k - 1])
    IN  loop[Rounds].state

\* The owner's priority, recomputed when it is not the due one.
Refresh(s, o) ==
    IF DuePriority(s, o) = s.prio[o] THEN s ELSE UpdatePriority(s, o, DuePriority(s, o))

\* Faulty: the thread falls back to its own priority whatever else it owns.
CheckAndForgetOthers(s, t, m) == [s EXCEPT !.prio[t] = InitPrio[t]]

\* _check_and_update_prio, called when m was just taken out of taken[t].
CheckAndUpdate(s, t, m) ==
    IF s.ceil[m] # NoPrio \/ s.prio[t] = s.mpri[m]
    THEN [s EXCEPT !.prio[t] = DuePriority(s, t)]
    ELSE s

\* Thread t stopped waiting for m without getting it: the tail of
\* _rt_mutex_take and rt_mutex_drop_thread.
LeaveWait(s, t, m) ==
    LET o == s.owner[m]
        asked == [s EXCEPT !.mpri[m] = FirstPriority(s, m)]
    IN  IF o # NoThread /\ s.prio[o] = s.prio[t] THEN Refresh(asked, o) ELSE asked

\* The last rt_mutex_release of m by its owner t: the first waiter, if there
\* is one, becomes the owner before it runs.
HandOver(s, t, m) ==
    LET left == [s EXCEPT !.hold[m] = 0, !.taken[t] = @ \ {m}]
        calm == CheckAndUpdate(left, t, m)
    IN  IF calm.waiters[m] = <<>>
        THEN [calm EXCEPT !.owner[m] = NoThread, !.mpri[m] = NoPrio]
        ELSE LET next == Head(calm.waiters[m])
                 served == [calm EXCEPT !.waiters[m] = Tail(@),
                                        !.owner[m] = next,
                                        !.hold[m] = 1,
                                        !.taken[next] = @ \cup {m},
                                        !.pending[next] = NoMutex]
             IN  [served EXCEPT !.mpri[m] = FirstPriority(served, m)]

-----------------------------------------------------------------------------
\* t executes application code and may call the operations below.
Running(t) == t \notin gone /\ inside[t] = NoMutex /\ pending[t] = NoMutex

\* rt_mutex_take of a free mutex.
TakeFree(t, m) ==
    /\ Running(t) /\ m \notin gone
    /\ owner[m] = NoThread
    /\ Become([Now EXCEPT !.owner[m] = t, !.mpri[m] = NoPrio, !.hold[m] = 1,
                          !.prio[t] = IF ceil[m] < @ THEN ceil[m] ELSE @,
                          !.taken[t] = @ \cup {m}])
    /\ held' = [held EXCEPT ![t][m] = @ + 1]
    /\ UNCHANGED <<inside, gone>>

\* Faulty: the limit is not looked at.
TakeAgainPastLimit(t, m) ==
    /\ Running(t) /\ m \notin gone
    /\ owner[m] = t
    /\ Become([Now EXCEPT !.hold[m] = @ + 1])
    /\ held' = [held EXCEPT ![t][m] = @ + 1]
    /\ UNCHANGED <<inside, gone>>

\* rt_mutex_take by the owner.
TakeAgain(t, m) ==
    /\ Running(t) /\ m \notin gone
    /\ owner[m] = t
    /\ hold[m] < HoldMax
    /\ Become([Now EXCEPT !.hold[m] = @ + 1])
    /\ held' = [held EXCEPT ![t][m] = @ + 1]
    /\ UNCHANGED <<inside, gone>>

\* rt_mutex_take that fails at once: the owner is at the limit (-RT_EFULL), or
\* another thread owns the mutex and the timeout is 0.
TakeFails(t, m) ==
    /\ Running(t) /\ m \notin gone
    /\ owner[m] # NoThread
    /\ owner[m] = t => hold[m] = HoldMax
    /\ UNCHANGED mutexVars

\* rt_mutex_take of a mutex another thread owns, up to rt_schedule.
TakeBlocks(t, m) ==
    /\ Running(t) /\ m \notin gone
    /\ owner[m] \notin {t, NoThread}
    /\ LET queued == [Now EXCEPT !.waiters[m] = Enqueue(@, t, "PRIO", prio),
                                 !.pending[t] = m]
           asked == [queued EXCEPT !.mpri[m] = prio[t]]
       IN  Become(IF prio[t] >= mpri[m] THEN queued
                  ELSE IF prio[t] >= prio[owner[m]] THEN asked
                  ELSE UpdatePriority(asked, owner[m], prio[t]))
    /\ inside' = [inside EXCEPT ![t] = m]
    /\ UNCHANGED <<gone, held>>

\* The thread timer expires, or somebody calls rt_thread_resume.
MutexWaitEnds(t) ==
    /\ WaitsEnd
    /\ inside[t] # NoMutex /\ Holds(waiters[inside[t]], t)
    /\ Become([Now EXCEPT !.waiters[inside[t]] = Unlink(@, t)])
    /\ UNCHANGED <<inside, gone, held>>

\* rt_mutex_take after rt_schedule: the mutex was handed over, or the wait is
\* wound up.
TakeReturns(t) ==
    LET m == inside[t]
    IN  /\ t \notin gone
        /\ m # NoMutex /\ ~Suspended(Now, t)
        /\ IF owner[m] = t
           THEN /\ held' = [held EXCEPT ![t][m] = @ + 1]
                /\ Become(Now)
           ELSE /\ Become(LeaveWait(Now, t, m))
                /\ UNCHANGED held
        /\ inside' = [inside EXCEPT ![t] = NoMutex]
        /\ UNCHANGED gone

\* The last assignment of a failed rt_mutex_take, after the mutex is unlocked.
ClearPending(t) ==
    /\ t \notin gone /\ inside[t] = NoMutex /\ pending[t] # NoMutex
    /\ Become([Now EXCEPT !.pending[t] = NoMutex])
    /\ UNCHANGED <<inside, gone, held>>

\* Faulty: one release undoes all takes.
ReleaseAtOnce(t, m) ==
    /\ Running(t) /\ m \notin gone
    /\ owner[m] = t
    /\ Become(HandOver(Now, t, m))
    /\ held' = [held EXCEPT ![t][m] = @ - 1]
    /\ UNCHANGED <<inside, gone>>

\* rt_mutex_release by the owner.
Release(t, m) ==
    /\ Running(t) /\ m \notin gone
    /\ owner[m] = t
    /\ Become(IF hold[m] > 1 THEN [Now EXCEPT !.hold[m] = @ - 1]
              ELSE HandOver(Now, t, m))
    /\ held' = [held EXCEPT ![t][m] = @ - 1]
    /\ UNCHANGED <<inside, gone>>

\* Faulty: anybody may release.
ReleaseForeign(t, m) ==
    /\ Running(t) /\ m \notin gone
    /\ owner[m] \notin {t, NoThread}
    /\ Become(HandOver(Now, owner[m], m))
    /\ UNCHANGED <<inside, gone, held>>

\* rt_mutex_release by a thread that is not the owner: refused.
ReleaseRefused(t, m) ==
    /\ Running(t) /\ m \notin gone
    /\ owner[m] # t
    /\ UNCHANGED mutexVars

\* rt_mutex_setprioceiling
SetCeiling(m, p) ==
    /\ m \notin gone
    /\ LET set == [Now EXCEPT !.ceil[m] = p]
       IN  Become(IF owner[m] = NoThread THEN set ELSE Refresh(set, owner[m]))
    /\ UNCHANGED <<inside, gone, held>>

\* rt_mutex_detach: the waiters fail; the owner field is left as it is.
Detach(m) ==
    /\ Detaches /\ m \notin gone
    /\ LET o == owner[m]
           emptied == [Now EXCEPT !.waiters[m] = <<>>]
       IN  Become(IF o = NoThread THEN emptied
                  ELSE CheckAndUpdate([emptied EXCEPT !.taken[o] = @ \ {m}], o, m))
    /\ gone' = gone \cup {m}
    /\ UNCHANGED <<inside, held>>

\* A thread that ends by itself has released everything.
Forget(t) == held' = [held EXCEPT ![t] = [m \in Mutexes |-> 0]]

\* The mutexes of S in any order: t has taken them in any.
Orders(S) == {q \in [1..Cardinality(S) -> S] : Distinct(q)}

\* What t leaves when it has released those of q one by one.
HandAll(s, t, q) ==
    LET after[k \in 0..Len(q)] == IF k = 0 THEN s ELSE HandOver(after[k - 1], t, q[k])
    IN  after[Len(q)]

\* _thread_exit: t ends by itself and releases what it owns, however often it
\* took it.
Exit(t) ==
    /\ Running(t)
    /\ \E q \in Orders(taken[t]) : Become(HandAll(Now, t, q))
    /\ gone' = gone \cup {t}
    /\ Forget(t)
    /\ UNCHANGED inside

\* rt_thread_delete of t by another thread.  It is taken off the list it waits
\* on; rt_mutex_release of what it owns is refused, as the caller is not the
\* owner, and leaves only hold changed: t is gone and keeps its mutexes.
Delete(t) ==
    /\ Deletes /\ t \notin gone
    /\ LET m == pending[t]
           closed == [Now EXCEPT !.waiters = [n \in Mutexes |-> Unlink(waiters[n], t)]]
           dropped == IF m = NoMutex THEN closed
                      ELSE [LeaveWait(closed, t, m) EXCEPT !.pending[t] = NoMutex]
       IN  Become([dropped EXCEPT !.hold =
                      [n \in Mutexes |-> IF n \in taken[t] THEN 1 ELSE hold[n]]])
    /\ gone' = gone \cup {t}
    /\ UNCHANGED <<inside, held>>

-----------------------------------------------------------------------------
ThreadOps(t) ==
    \/ \E m \in Mutexes :
        \/ TakeFree(t, m) \/ TakeAgain(t, m) \/ TakeFails(t, m) \/ TakeBlocks(t, m)
        \/ Release(t, m) \/ ReleaseRefused(t, m)
    \/ TakeReturns(t)
    \/ ClearPending(t)
    \/ Exit(t)

MutexNext ==
    \/ \E t \in Threads : ThreadOps(t) \/ MutexWaitEnds(t) \/ Delete(t)
    \/ \E m \in Mutexes : Detach(m) \/ \E p \in Ceilings : SetCeiling(m, p)

MutexSpec == MutexInit /\ [][MutexNext]_mutexVars

-----------------------------------------------------------------------------
\* Type invariant.
MutexTypeOK ==
    /\ Now \in MutexStates
    /\ inside \in [Threads -> Mutexes \cup {NoMutex}]
    /\ gone \subseteq Threads \cup Mutexes
    /\ held \in [Threads -> [Mutexes -> 0..HoldMax]]

Live == Mutexes \ gone

\* The mutex refines the lock its users see: at most one thread has it, also
\* across hand-overs, expiries, detaching and the end of threads.
Lock == INSTANCE RecursiveLock
RefinesLock == Lock!LockSpec

\* Three accounts of who has a mutex agree, whatever is handed over, given up,
\* detached or ended.  The owner has to release it exactly as often as its takes
\* succeeded, counting the take that was served and has not returned yet; a
\* thread that is gone owns only what it took and was deleted with; the taken
\* lists and the owner fields tell the same story; and nobody waits for a mutex
\* that is free.
HoldCountsTakes ==
    \A m \in Live : owner[m] \in Threads =>
        LET takes == held[owner[m]][m] + (IF inside[owner[m]] = m THEN 1 ELSE 0)
        IN  takes # 0 /\ (owner[m] \notin gone => hold[m] = takes)

TakenIsOwned == \A m \in Live, t \in Threads : m \in taken[t] <=> owner[m] = t

WaitersHaveOwner == \A m \in Live : waiters[m] # <<>> => owner[m] # NoThread

OwnershipAgrees == HoldCountsTakes /\ TakenIsOwned /\ WaitersHaveOwner

\* No mutex is lost with its owner: a thread that is gone owns none.
GoneOwnNothing == \A m \in Live : owner[m] \notin gone

\* Waiters are served in order of priority even though priorities change
\* while they wait, and no priority is inverted: an owner is at least as urgent
\* as whoever waits for it, along whole chains of owners that wait themselves.
WaitersByPriority == \A m \in Live : Sorted(waiters[m], prio)
OwnerInherits ==
    \A m \in Live : \A i \in DOMAIN waiters[m] :
        owner[m] # NoThread => prio[owner[m]] <= prio[waiters[m][i]]

\* Both hold until the first mutex is detached, which can leave a list out of
\* order: no take, release, ceiling, expiry or end of a thread does.
InheritanceHolds == gone \cap Mutexes = {} => WaitersByPriority /\ OwnerInherits

\* A thread has the priority its own and its mutexes' demands give it, and
\* none is left over when they are gone.
PriorityIsDue == \A t \in Threads \ gone : prio[t] = DuePriority(Now, t)

\* With no ceiling and no mutex detached, takes, hand-overs and releases in any
\* order keep it so; only a thread that gives up waiting, or is deleted while
\* it waits, leaves a priority that is not due.
DueKept ==
    [][/\ PriorityIsDue
       /\ gone \cap Mutexes = {} /\ \A m \in Mutexes : ceil[m] = NoPrio
       => PriorityIsDue' \/ \E t \in Threads : TakeReturns(t) \/ Delete(t)]_mutexVars
=============================================================================
