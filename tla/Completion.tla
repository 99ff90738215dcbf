----------------------------- MODULE Completion -----------------------------
(***************************************************************************)
(* A completion of rt-thread/components/drivers/ipc: one word that says    *)
(* "done" or names the one thread that waits.  A waiter that wakes up does *)
(* not ask why it was woken: it looks whether the word is still as it left *)
(* it.  These are fragments for a module that has one such waiter; each is *)
(* the body of one section under _completion_lock.                         *)
(***************************************************************************)

VARIABLES
    comp,        \* susp_thread_n_flag: "none", "thread" or "done"
    asleep,      \* the waiter is suspended
    armed,       \* its thread_timer is ACTIVATED
    expiring     \* its timer was popped and is not yet called back

compVars == <<comp, asleep, armed, expiring>>

CompletionInit ==
    /\ comp = "none"
    /\ asleep = FALSE /\ armed = FALSE /\ expiring = FALSE

CompletionTypeOK ==
    /\ comp \in {"none", "thread", "done"}
    /\ asleep \in BOOLEAN /\ armed \in BOOLEAN /\ expiring \in BOOLEAN

\* Threads run only when no timer awaits its callback.
ThreadContext == ~expiring

\* Faulty: a done that finds nobody waiting is dropped.
CompletionDoneNeedsWaiter ==
    /\ comp' = IF comp = "none" THEN "none" ELSE "done"
    /\ IF comp = "thread" /\ ~expiring THEN asleep' = FALSE /\ armed' = FALSE
       ELSE UNCHANGED <<asleep, armed>>
    /\ UNCHANGED expiring

\* rt_completion_done: the waiter is resumed, unless the timeout interrupt has
\* it already.  A second done before the wait returns changes nothing.
CompletionDone ==
    /\ comp' = "done"
    /\ IF comp = "thread" /\ ~expiring THEN asleep' = FALSE /\ armed' = FALSE
       ELSE UNCHANGED <<asleep, armed>>
    /\ UNCHANGED expiring

\* rt_completion_wait finds it done.
WaitFindsDone ==
    /\ comp = "done"
    /\ comp' = "none"
    /\ UNCHANGED <<asleep, armed, expiring>>

WaitSleeps(timed) ==
    /\ comp # "done"
    /\ comp' = "thread"
    /\ asleep' = TRUE /\ armed' = timed
    /\ UNCHANGED expiring

\* The waiter runs again.  Done meanwhile, by whomever it was woken: the wait
\* succeeds.  Else it fails.  Either way the word is cleared.
WaitEnds ==
    /\ ~asleep
    /\ comp' = "none"
    /\ UNCHANGED <<asleep, armed, expiring>>

\* _timer_check pops the timer, and then calls _thread_timeout.
PopTimer ==
    /\ ThreadContext /\ armed
    /\ armed' = FALSE /\ expiring' = TRUE
    /\ UNCHANGED <<comp, asleep>>

TimeOut ==
    /\ expiring
    /\ expiring' = FALSE /\ asleep' = FALSE
    /\ UNCHANGED <<comp, armed>>

\* rt_thread_resume of the waiter by another thread.
ResumeWaiter ==
    /\ ThreadContext /\ asleep
    /\ asleep' = FALSE /\ armed' = FALSE
    /\ UNCHANGED comp /\ UNCHANGED expiring
=============================================================================
