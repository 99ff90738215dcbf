------------------------------ MODULE DataQueue ------------------------------
(***************************************************************************)
(* The data queue of rt-thread/components/drivers/ipc/dataqueue.c: a ring  *)
(* of items, told full from empty by two flags, with a list of threads     *)
(* that wait to push and one of threads that wait to pop.  Pushers are     *)
(* woken only when no more than lwm items are left.  Wakers leave          *)
(* thread->error as it is, which is RT_EOK from the start of the wait.     *)
(***************************************************************************)
EXTENDS SuspendList

CONSTANTS
    Size,        \* size
    Lwm,         \* lwm
    NoItem       \* a slot of the ring that was never written

ASSUME QueueAssumption == Size \in Nat \ {0} /\ Lwm \in Nat

VARIABLES
    slots,       \* queue: index -> item
    putIndex, getIndex,
    isEmpty, isFull,
    queueAlive,  \* magic
    resetting    \* the stage of rt_data_queue_reset or _deinit under way, or "no"

ringVars == <<slots, putIndex, getIndex, isEmpty, isFull>>
queueVars == <<ringVars, queueAlive, resetting>>

RingInit ==
    /\ slots = [i \in 0..(Size - 1) |-> NoItem]
    /\ putIndex = 0 /\ getIndex = 0
    /\ isEmpty = TRUE /\ isFull = FALSE
    /\ queueAlive = TRUE
    /\ resetting = "no"

\* Faulty: the index may point one past the ring.
WrappedLate(i) == IF i > Size THEN 0 ELSE i

Wrapped(i) == IF i = Size THEN 0 ELSE i

\* rt_data_queue_len
QueueLen ==
    IF isEmpty THEN 0
    ELSE IF putIndex > getIndex THEN putIndex - getIndex ELSE Size + putIndex - getIndex

\* Faulty: full is noticed one item too late.
PutItemLate(v) ==
    /\ ~isFull
    /\ slots' = [slots EXCEPT ![putIndex] = v]
    /\ putIndex' = Wrapped(putIndex + 1)
    /\ isEmpty' = FALSE
    /\ isFull' = (putIndex = getIndex /\ ~isEmpty)
    /\ WakeFirst("pop")
    /\ UNCHANGED <<getIndex, queueAlive, resetting>>

\* rt_data_queue_push with room in the ring, to its end.
PutItem(v) ==
    /\ ~isFull
    /\ slots' = [slots EXCEPT ![putIndex] = v]
    /\ putIndex' = Wrapped(putIndex + 1)
    /\ isEmpty' = FALSE
    /\ isFull' = (putIndex' = getIndex)
    /\ WakeFirst("pop")
    /\ UNCHANGED <<getIndex, queueAlive, resetting>>

WaitForRoom(t, timed) ==
    /\ isFull
    /\ SuspendWith(t, "push", "FIFO", timed, "EOK")
    /\ UNCHANGED queueVars

\* The item that a pop would get.
FirstItem == slots[getIndex]

\* The queue is down to the low water mark with this pop.
ReachesMark == QueueLen - 1 <= Lwm

\* rt_data_queue_pop of a queue that is not empty, to its end.
GetItem ==
    /\ ~isEmpty
    /\ getIndex' = Wrapped(getIndex + 1)
    /\ isFull' = FALSE
    /\ isEmpty' = (putIndex = getIndex')
    /\ IF ReachesMark THEN WakeFirst("push") ELSE UNCHANGED suspVars
    /\ UNCHANGED <<slots, putIndex, queueAlive, resetting>>

WaitForItem(t, timed) ==
    /\ isEmpty
    /\ SuspendWith(t, "pop", "FIFO", timed, "EOK")
    /\ UNCHANGED queueVars

-----------------------------------------------------------------------------
\* rt_data_queue_reset, called by rt_data_queue_deinit too: the ring is emptied,
\* then the scheduler is locked and the waiters are failed one by one.
ClearRing ==
    /\ resetting = "no"
    /\ putIndex' = 0 /\ getIndex' = 0
    /\ isEmpty' = TRUE /\ isFull' = FALSE
    /\ resetting' = "cleared"
    /\ UNCHANGED <<suspVars, slots, queueAlive>>

LockForReset ==
    /\ resetting = "cleared"
    /\ resetting' = "pop"
    /\ UNCHANGED <<suspVars, ringVars, queueAlive>>

FailWaiter ==
    /\ resetting \in {"pop", "push"} /\ susp[resetting] # <<>>
    /\ Dequeue(resetting, "ERROR")
    /\ UNCHANGED queueVars

\* Faulty: those who wait to push are left asleep.
ListFailedOnce ==
    /\ resetting \in {"pop", "push"} /\ susp[resetting] = <<>>
    /\ resetting' = "no"
    /\ UNCHANGED <<suspVars, ringVars, queueAlive>>

\* After the last the scheduler is unlocked, and the reset ends or its caller
\* rt_data_queue_deinit goes on.
ListFailed ==
    /\ resetting \in {"pop", "push"} /\ susp[resetting] = <<>>
    /\ resetting' \in IF resetting = "pop" THEN {"push"} ELSE {"no", "closing"}
    /\ UNCHANGED <<suspVars, ringVars, queueAlive>>

CloseQueue ==
    /\ resetting = "closing"
    /\ queueAlive' = FALSE
    /\ resetting' = "no"
    /\ UNCHANGED <<suspVars, ringVars>>
=============================================================================
