---------------------------- MODULE SuspendList ----------------------------
(***************************************************************************)
(* How RT-Thread blocks a thread on a kernel object, and the three ways it *)
(* comes back: a waker dequeues it, its thread timer expires, or somebody  *)
(* resumes or deletes it.  Every blocking object (semaphore, event,        *)
(* mailbox, message queue) is built on these fragments; each is the body   *)
(* of one section that runs with interrupts disabled, hence one step.      *)
(*                                                                         *)
(* Expiry takes two steps.  _timer_check runs in the tick interrupt: it    *)
(* pops the timer and clears its ACTIVATED flag under the timer lock, then *)
(* enables interrupts again and only afterwards calls _thread_timeout.  An *)
(* interrupt of higher priority may run in between; threads may not.       *)
(***************************************************************************)
EXTENDS WaitList

CONSTANTS
    Threads,     \* the threads that use the object
    NoThread     \* "no thread timer is being handled"

ASSUME NoThreadAssumption == NoThread \notin Threads

VARIABLES
    susp,        \* list of an object -> sequence of the threads on it
    armed,       \* threads whose thread_timer is ACTIVATED
    ttmr,        \* threads with sched_flag_ttmr_set
    error,       \* thread -> thread->error
    expiring,    \* the thread whose popped timer awaits its timeout_func
    prio         \* thread -> current_priority (0 is the most urgent)

suspVars == <<susp, armed, ttmr, error, expiring, prio>>

Errors == {"EOK", "EINTR", "ERROR", "ETIMEOUT"}

\* rt_sched_thread_is_suspended, for a thread that blocks only on these lists.
Suspended(t) == \E l \in DOMAIN susp : Holds(susp[l], t)

\* Threads run only when no tick interrupt is between its two expiry steps.
ThreadContext == expiring = NoThread

\* rt_timer_stop fails for t: its flag is set, its timer is not active.
Raced(t) == t \in ttmr \ armed

-----------------------------------------------------------------------------
\* rt_thread_suspend_to_list by t itself, which has set its error number to err,
\* followed for a timed wait by rt_timer_start of the thread timer.
SuspendWith(t, l, flag, timed, err) ==
    /\ susp' = [susp EXCEPT ![l] = Enqueue(@, t, flag, prio)]
    /\ armed' = IF timed THEN armed \cup {t} ELSE armed \ {t}
    /\ ttmr' = IF timed THEN ttmr \cup {t} ELSE ttmr \ {t}
    /\ error' = [error EXCEPT ![t] = err]
    /\ UNCHANGED <<expiring, prio>>

\* A wait for a semaphore, event, mailbox or message queue.
SuspendToList(t, l, flag, timed) == SuspendWith(t, l, flag, timed, "EINTR")

\* rt_susp_list_dequeue of a non-empty list.  The timer flag is masked out
\* whether or not the timer could be stopped.
Dequeue(l, err) ==
    LET t == Head(susp[l])
    IN  /\ ttmr' = ttmr \ {t}
        /\ armed' = IF t \in ttmr THEN armed \ {t} ELSE armed
        /\ IF Raced(t)
           THEN UNCHANGED <<susp, error>>
           ELSE /\ susp' = [susp EXCEPT ![l] = Tail(@)]
                /\ error' = [error EXCEPT ![t] = err]
        /\ UNCHANGED <<expiring, prio>>

\* The same of a list that may be empty, and whether the wakeup is lost on a
\* thread that the timeout interrupt has already.
WakeFirst(l) == IF susp[l] = <<>> THEN UNCHANGED suspVars ELSE Dequeue(l, "EOK")
Misses(l) == susp[l] # <<>> /\ Raced(Head(susp[l]))

\* rt_susp_list_resume_all of these lists, called by a thread: no head of
\* theirs is raced then.
ResumeAll(ls, err) ==
    LET woken == {t \in Threads : \E l \in ls : Holds(susp[l], t)}
    IN  /\ susp' = [l \in DOMAIN susp |-> IF l \in ls THEN <<>> ELSE susp[l]]
        /\ ttmr' = ttmr \ woken
        /\ armed' = armed \ woken
        /\ error' = [t \in Threads |-> IF t \in woken THEN err ELSE error[t]]
        /\ UNCHANGED <<expiring, prio>>

-----------------------------------------------------------------------------
\* _timer_check pops the expired timer of t; the callback is still to come.
TimerPop(t) ==
    /\ ThreadContext
    /\ t \in armed
    /\ armed' = armed \ {t}
    /\ expiring' = t
    /\ UNCHANGED <<susp, ttmr, error, prio>>

\* Faulty: the thread is made ready and stays on the list of the object.
ThreadTimeoutStaysLinked ==
    /\ ~ThreadContext
    /\ error' = [error EXCEPT ![expiring] = "ETIMEOUT"]
    /\ expiring' = NoThread
    /\ UNCHANGED <<susp, armed, ttmr, prio>>

\* _thread_timeout, in a build without RT_DEBUGING_ASSERT: whatever happened
\* to the thread since the pop, it is given the timeout and made ready.
ThreadTimeout ==
    /\ ~ThreadContext
    /\ error' = [error EXCEPT ![expiring] = "ETIMEOUT"]
    /\ susp' = [l \in DOMAIN susp |-> Unlink(susp[l], expiring)]
    /\ expiring' = NoThread
    /\ UNCHANGED <<armed, ttmr, prio>>

\* rt_thread_resume of a suspended thread by another thread: the wait is cut
\* short and thread->error keeps the value it had when the wait began.
ThreadResume(t) ==
    /\ ThreadContext
    /\ Suspended(t)
    /\ susp' = [l \in DOMAIN susp |-> Unlink(susp[l], t)]
    /\ ttmr' = ttmr \ {t}
    /\ armed' = armed \ {t}
    /\ UNCHANGED <<error, expiring, prio>>

\* rt_thread_control(RT_THREAD_CTRL_CHANGE_PRIORITY): a suspended thread is
\* not moved in the list it waits on.
ChangePriority(t, p) ==
    /\ ThreadContext
    /\ prio' = [prio EXCEPT ![t] = p]
    /\ UNCHANGED <<susp, armed, ttmr, error, expiring>>

\* rt_thread_close of t by another thread: unlinked from whatever list holds
\* it, and its timer is detached.
ThreadClose(t) ==
    /\ ThreadContext
    /\ susp' = [l \in DOMAIN susp |-> Unlink(susp[l], t)]
    /\ armed' = armed \ {t}
    /\ UNCHANGED <<ttmr, error, expiring, prio>>
=============================================================================
