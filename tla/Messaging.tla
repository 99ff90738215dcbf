----------------------------- MODULE Messaging -----------------------------
(***************************************************************************)
(* What the mailbox and the message queue of rt-thread/src/ipc.c have in   *)
(* common: two suspend lists, of receivers that found nothing and senders  *)
(* that found no room.  A wakeup promises nothing: by the time the woken   *)
(* thread runs, another may have taken the message or the room, and it     *)
(* waits again with what is left of its timeout.                           *)
(***************************************************************************)
EXTENDS SuspendList, FiniteSets

CONSTANTS
    Flag,        \* how waiters queue: "FIFO" or "PRIO"
    InitPrio,    \* thread -> priority
    Size,        \* messages it holds at most: mb->size, mq->max_msgs
    Messages,    \* the values sent
    NoMessage    \* what was never written

ASSUME MessagingAssumption ==
    /\ IsFiniteSet(Threads)
    /\ Flag \in {"FIFO", "PRIO"}
    /\ InitPrio \in [Threads -> Nat]
    /\ Size \in Nat \ {0}
    /\ NoMessage \notin Messages

VARIABLES
    alive,       \* FALSE once it was detached or deleted
    pc,          \* thread -> where it is
    lost         \* history: a wakeup met a thread the timeout interrupt had
                 \* already, or was for a thread deleted before it ran

Receiving(t) == pc[t] \in {"recv", "timedrecv"}
Sending(t) == pc[t] \in {"send", "timedsend"}
Timed(t) == pc[t] \in {"timedrecv", "timedsend"}

\* Threads whose wakeup is under way: made ready, not yet running.
Woken(t) == ~Suspended(t) /\ error[t] = "EOK"
WokenReceivers == {t \in Threads : Receiving(t) /\ Woken(t)}
WokenSenders == {t \in Threads : Sending(t) /\ Woken(t)}

\* The waiter runs again after rt_schedule, with the result of the wait.
Runs(t) == ThreadContext /\ (Receiving(t) \/ Sending(t)) /\ ~Suspended(t)

\* The first thread of a suspend list is woken, if there is one and the timeout
\* interrupt does not have it already.
WakeOne(l) ==
    IF susp[l] = <<>> THEN UNCHANGED <<suspVars, lost>>
    ELSE Dequeue(l, "EOK") /\ lost' = (lost \/ Raced(Head(susp[l])))
=============================================================================
