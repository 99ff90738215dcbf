---------------------------- MODULE MessageQueue ----------------------------
(***************************************************************************)
(* The message queue of rt-thread/src/ipc.c: a pool of slots linked into   *)
(* the queue or into the free list.  A message is copied into and out of   *)
(* its slot with interrupts enabled: meanwhile the slot is on neither list *)
(* and belongs to the thread that copies, others send and receive around   *)
(* it, and the queue may be reset.  An interrupt handler copies without    *)
(* any thread running in between; its send or receive is one step.         *)
(***************************************************************************)
EXTENDS Messaging

CONSTANTS
    Slots,       \* the max_msgs message slots of the pool
    Null         \* RT_NULL

ASSUME MessageQueueAssumption ==
    IsFiniteSet(Slots) /\ Cardinality(Slots) = Size /\ Null \notin Slots

VARIABLES
    content,     \* slot -> message
    next,        \* slot -> its next pointer
    qhead, qtail, qfree,   \* msg_queue_head, msg_queue_tail, msg_queue_free
    entry,       \* messages in the queue
    slot,        \* thread -> the slot it copies to or from
    message      \* thread -> the message it sends

listVars == <<next, qhead, qtail, qfree, entry>>
mqVars == <<content, listVars, alive, pc, slot, message, lost>>
vars == <<suspVars, mqVars>>

Places == {"idle", "recv", "timedrecv", "send", "timedsend",
           "copying", "copyingfirst", "reading", "dead"}

Copying(t) == pc[t] \in {"copying", "copyingfirst", "reading"}

\* The slots on a list, following at most n pointers from s.
Walk[n \in 0..Cardinality(Slots)] ==
    [s \in Slots \cup {Null} |->
        IF n = 0 \/ s = Null THEN <<>> ELSE <<s>> \o Walk[n - 1][next[s]]]

Queued == Walk[Cardinality(Slots)][qhead]
Free == Walk[Cardinality(Slots)][qfree]

\* rt_mq_init links every slot into the free list.
FreeOrder == SetToSeq(Slots)
Init ==
    /\ susp = [l \in {"recv", "send"} |-> <<>>]
    /\ armed = {} /\ ttmr = {}
    /\ error = [t \in Threads |-> "EOK"]
    /\ expiring = NoThread
    /\ prio = InitPrio
    /\ content = [s \in Slots |-> NoMessage]
    /\ next = [s \in Slots |->
                  LET i == CHOOSE i \in DOMAIN FreeOrder : FreeOrder[i] = s
                  IN  IF i = Len(FreeOrder) THEN Null ELSE FreeOrder[i + 1]]
    /\ qhead = Null /\ qtail = Null /\ qfree = FreeOrder[1]
    /\ entry = 0
    /\ alive = TRUE /\ lost = FALSE
    /\ pc = [t \in Threads |-> "idle"]
    /\ slot = [t \in Threads |-> Null]
    /\ message = [t \in Threads |-> NoMessage]

-----------------------------------------------------------------------------
\* The last section of rt_mq_urgent.
LinkFirst(s) ==
    /\ next' = [next EXCEPT ![s] = qhead]
    /\ qhead' = s
    /\ qtail' = IF qtail = Null THEN s ELSE qtail
    /\ entry' = entry + 1
    /\ WakeOne("recv")

\* Faulty: a message that wakes a receiver is counted twice.
LinkLastCountsTwice(s) ==
    /\ next' = [x \in Slots |-> IF x = s THEN Null
                                ELSE IF x = qtail THEN s ELSE next[x]]
    /\ qtail' = s
    /\ qhead' = IF qhead = Null THEN s ELSE qhead
    /\ entry' = IF susp["recv"] = <<>> THEN entry + 1 ELSE entry + 2
    /\ WakeOne("recv")

\* The last section of _rt_mq_send_wait (next was cleared before the copy).
LinkLast(s) ==
    /\ next' = [x \in Slots |-> IF x = s THEN Null
                                ELSE IF x = qtail THEN s ELSE next[x]]
    /\ qtail' = s
    /\ qhead' = IF qhead = Null THEN s ELSE qhead
    /\ entry' = entry + 1
    /\ WakeOne("recv")

\* The first section of a send: t owns a slot and goes on to copy m into it.
TakeSlot(t, m, place) ==
    /\ qfree # Null
    /\ qfree' = next[qfree]
    /\ slot' = [slot EXCEPT ![t] = qfree]
    /\ message' = [message EXCEPT ![t] = m]
    /\ pc' = [pc EXCEPT ![t] = place]
    /\ UNCHANGED <<suspVars, lost, content, next, qhead, qtail, entry, alive>>

\* Faulty: the tail still names the message that was received last.
DropFirstLeavesTail ==
    /\ entry > 0
    /\ qhead' = next[qhead]
    /\ entry' = entry - 1
    /\ UNCHANGED qtail

\* A receive with a message there unlinks it.
DropFirst ==
    /\ entry > 0
    /\ qhead' = next[qhead]
    /\ qtail' = IF qtail = qhead THEN Null ELSE qtail
    /\ entry' = entry - 1

\* The first section of a receive: t owns the slot and goes on to copy it.
UnlinkFirst(t) ==
    /\ DropFirst
    /\ slot' = [slot EXCEPT ![t] = qhead]
    /\ pc' = [pc EXCEPT ![t] = "reading"]
    /\ UNCHANGED <<suspVars, lost, content, next, qfree, alive, message>>

\* Faulty: as long as other slots are free, no sender learns of this one.
LinkFreeWakesIfEmpty(s) ==
    /\ next' = [next EXCEPT ![s] = qfree]
    /\ qfree' = s
    /\ IF qfree = Null THEN WakeOne("send") ELSE UNCHANGED <<suspVars, lost>>

\* The last section of a receive.
LinkFree(s) ==
    /\ next' = [next EXCEPT ![s] = qfree]
    /\ qfree' = s
    /\ WakeOne("send")

\* A wait begins, or begins anew.
Wait(t, l, timed) ==
    /\ SuspendToList(t, l, Flag, timed)
    /\ UNCHANGED <<content, listVars, alive, slot, lost>>

-----------------------------------------------------------------------------
Idle(t) == ThreadContext /\ alive /\ pc[t] = "idle"

\* rt_mq_send, or rt_mq_send_wait with a slot free; and rt_mq_urgent.
Send(t, m) == Idle(t) /\ TakeSlot(t, m, "copying")
Urgent(t, m) == Idle(t) /\ TakeSlot(t, m, "copyingfirst")

\* rt_mq_send and rt_mq_urgent without a free slot: -RT_EFULL.
SendFails(t) == Idle(t) /\ qfree = Null /\ UNCHANGED vars

SendBlocks(t, m, timed) ==
    /\ Idle(t) /\ qfree = Null
    /\ Wait(t, "send", timed)
    /\ pc' = [pc EXCEPT ![t] = IF timed THEN "timedsend" ELSE "send"]
    /\ message' = [message EXCEPT ![t] = m]

\* The message is in its slot: the slot is linked.
Link(t) ==
    /\ ThreadContext
    /\ \/ pc[t] = "copying" /\ LinkLast(slot[t])
       \/ pc[t] = "copyingfirst" /\ LinkFirst(slot[t])
    /\ content' = [content EXCEPT ![slot[t]] = message[t]]
    /\ pc' = [pc EXCEPT ![t] = "idle"]
    /\ slot' = [slot EXCEPT ![t] = Null]
    /\ message' = [message EXCEPT ![t] = NoMessage]
    /\ UNCHANGED <<qfree, alive>>

\* rt_mq_send and rt_mq_urgent by an interrupt handler.
SendFromIrq(m) ==
    /\ alive
    /\ qfree # Null
    /\ qfree' = next[qfree]
    /\ content' = [content EXCEPT ![qfree] = m]
    /\ LinkLast(qfree) \/ LinkFirst(qfree)
    /\ UNCHANGED <<alive, pc, slot, message>>

\* rt_mq_recv with a message there.
Recv(t) == Idle(t) /\ UnlinkFirst(t)

\* rt_mq_recv of an empty queue with timeout 0.
RecvFails(t) == Idle(t) /\ entry = 0 /\ UNCHANGED vars

RecvBlocks(t, timed) ==
    /\ Idle(t) /\ entry = 0
    /\ Wait(t, "recv", timed)
    /\ pc' = [pc EXCEPT ![t] = IF timed THEN "timedrecv" ELSE "recv"]
    /\ UNCHANGED message

\* The message was copied out: the slot is free, a sender learns of it.
FreeSlot(t) ==
    /\ ThreadContext /\ pc[t] = "reading"
    /\ LinkFree(slot[t])
    /\ slot' = [slot EXCEPT ![t] = Null]
    /\ pc' = [pc EXCEPT ![t] = "idle"]
    /\ UNCHANGED <<content, qhead, qtail, entry, alive, message>>

\* rt_mq_recv by an interrupt handler, without waiting.
RecvFromIrq ==
    /\ alive
    /\ DropFirst
    /\ LinkFree(qhead)
    /\ UNCHANGED <<content, alive, pc, slot, message>>

-----------------------------------------------------------------------------
\* The operation returns without a message.
GiveUp(t) ==
    /\ pc' = [pc EXCEPT ![t] = "idle"]
    /\ message' = [message EXCEPT ![t] = NoMessage]
    /\ UNCHANGED <<content, listVars, alive, slot>>

WaitFails(t) ==
    /\ Runs(t) /\ error[t] # "EOK"
    /\ GiveUp(t)
    /\ UNCHANGED <<suspVars, lost>>

RecvResumes(t) == Runs(t) /\ Receiving(t) /\ error[t] = "EOK" /\ UnlinkFirst(t)

SendResumes(t) ==
    Runs(t) /\ Sending(t) /\ error[t] = "EOK" /\ TakeSlot(t, message[t], "copying")

\* Somebody was faster.
Outrun(t) ==
    /\ Runs(t) /\ error[t] = "EOK"
    /\ Receiving(t) => entry = 0
    /\ Sending(t) => qfree = Null

WaitsAgain(t) ==
    /\ Outrun(t)
    /\ Wait(t, IF Receiving(t) THEN "recv" ELSE "send", Timed(t))
    /\ UNCHANGED <<pc, message>>

TimeIsUp(t) ==
    /\ Outrun(t) /\ Timed(t)
    /\ error' = [error EXCEPT ![t] = IF Receiving(t) THEN "ETIMEOUT" ELSE "EINTR"]
    /\ GiveUp(t)
    /\ UNCHANGED <<susp, armed, ttmr, expiring, prio, lost>>

-----------------------------------------------------------------------------
\* Faulty: the messages are dropped and their slots with them.
ResetDropsSlots ==
    /\ ThreadContext /\ alive
    /\ ResumeAll({"recv", "send"}, "ERROR")
    /\ qhead' = Null /\ qtail' = Null /\ entry' = 0
    /\ UNCHANGED <<content, next, qfree, alive, pc, slot, message, lost>>

\* rt_mq_control(RT_IPC_CMD_RESET): slots go to the free list one by one, from
\* the first, so that the last one is its head.
Reset ==
    /\ ThreadContext /\ alive
    /\ ResumeAll({"recv", "send"}, "ERROR")
    /\ LET q == Queued
       IN  /\ next' = [s \in Slots |->
                  IF Holds(q, s)
                  THEN LET i == CHOOSE i \in DOMAIN q : q[i] = s
                       IN  IF i = 1 THEN qfree ELSE q[i - 1]
                  ELSE next[s]]
           /\ qfree' = IF q = <<>> THEN qfree ELSE Last(q)
    /\ qhead' = Null
    /\ qtail' = IF Holds(Queued, qtail) THEN Null ELSE qtail
    /\ entry' = 0
    /\ UNCHANGED <<content, alive, pc, slot, message, lost>>

\* rt_mq_detach and rt_mq_delete.
Detach ==
    /\ ThreadContext /\ alive
    /\ ResumeAll({"recv", "send"}, "ERROR")
    /\ alive' = FALSE
    /\ UNCHANGED <<content, listVars, pc, slot, message, lost>>

\* rt_thread_delete of t; a slot it copies to or from is never seen again.
Delete(t) ==
    /\ pc[t] # "dead"
    /\ ThreadClose(t)
    /\ pc' = [pc EXCEPT ![t] = "dead"]
    /\ lost' = (lost \/ t \in WokenReceivers \cup WokenSenders)
    /\ UNCHANGED <<content, listVars, alive, slot, message>>

ThreadOps(t) ==
    \/ \E m \in Messages :
        \/ Send(t, m) \/ Urgent(t, m)
        \/ \E timed \in BOOLEAN : SendBlocks(t, m, timed)
    \/ SendFails(t) \/ Link(t)
    \/ Recv(t) \/ RecvFails(t) \/ FreeSlot(t)
    \/ \E timed \in BOOLEAN : RecvBlocks(t, timed)
    \/ WaitFails(t) \/ RecvResumes(t) \/ SendResumes(t)
    \/ WaitsAgain(t) \/ TimeIsUp(t)

WaitEvents(t) ==
    \/ TimerPop(t) /\ UNCHANGED mqVars
    \/ ThreadResume(t) /\ UNCHANGED mqVars
    \/ Delete(t)

Next ==
    \/ \E t \in Threads : ThreadOps(t) \/ WaitEvents(t)
    \/ \E m \in Messages : SendFromIrq(m)
    \/ RecvFromIrq \/ Reset \/ Detach
    \/ ThreadTimeout /\ UNCHANGED mqVars

Spec == Init /\ [][Next]_vars

-----------------------------------------------------------------------------
\* Type invariant.
TypeOK ==
    /\ susp \in [{"recv", "send"} -> Seq(Threads)]
    /\ armed \subseteq Threads /\ ttmr \subseteq Threads
    /\ error \in [Threads -> Errors]
    /\ expiring \in Threads \cup {NoThread}
    /\ content \in [Slots -> Messages \cup {NoMessage}]
    /\ next \in [Slots -> Slots \cup {Null}]
    /\ {qhead, qtail, qfree} \subseteq Slots \cup {Null}
    /\ entry \in 0..Cardinality(Slots)
    /\ alive \in BOOLEAN /\ lost \in BOOLEAN
    /\ pc \in [Threads -> Places]
    /\ slot \in [Threads -> Slots \cup {Null}]
    /\ message \in [Threads -> Messages \cup {NoMessage}]

\* Every slot is in the queue, free, or with the one thread that copies to or
\* from it (or was deleted doing so): none is lost, none is in two places,
\* whatever sends, receives, resets and copies cross each other; and the counter
\* and the tail pointer agree with the chain of slots.
InTransit == {t \in Threads : slot[t] # Null}
SlotsConserved ==
    LET places == Queued \o Free
    IN  /\ Distinct(places)
        /\ Slots \ Range(places) = {slot[t] : t \in InTransit}
        /\ Cardinality(InTransit) = Cardinality(Slots) - Len(places)

EndsMatchChain ==
    /\ entry = Len(Queued)
    /\ qtail = IF Queued = <<>> THEN Null ELSE Last(Queued)

ChainsSound == SlotsConserved /\ EndsMatchChain

\* The message queue is a bounded queue of what is in its linked slots.
Contents == [i \in DOMAIN Queued |-> content[Queued[i]]]
Chain == INSTANCE BoundedQueue
    WITH Items <- Messages, Capacity <- Cardinality(Slots), queue <- Contents
RefinesQueue == Chain!QueueSpec

\* No wakeup is lost, except with a raced or deleted thread: if receivers sleep,
\* every message in the queue has somebody awake who is coming for it, and if
\* senders sleep, so has every free slot.
NoSleeperBesideMessage == susp["recv"] # <<>> => entry <= Cardinality(WokenReceivers)
NoSleeperBesideSlot == susp["send"] # <<>> => Len(Free) <= Cardinality(WokenSenders)
NobodyForgotten == ~lost => NoSleeperBesideMessage /\ NoSleeperBesideSlot
=============================================================================
