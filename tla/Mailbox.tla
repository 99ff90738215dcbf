------------------------------ MODULE Mailbox ------------------------------
(***************************************************************************)
(* The mailbox of rt-thread/src/ipc.c: a ring of words with two suspend    *)
(* lists, of receivers that found it empty and senders that found it full. *)
(***************************************************************************)
EXTENDS Messaging

VARIABLES
    pool,        \* msg_pool: offset -> mail
    entry,       \* mails in the box
    inOffset, outOffset,
    mail         \* thread -> the mail it waits to send

boxVars == <<pool, entry, inOffset, outOffset>>
mbVars == <<boxVars, alive, pc, mail, lost>>
vars == <<suspVars, mbVars>>

Places == {"idle", "recv", "timedrecv", "send", "timedsend", "dead"}

Init ==
    /\ susp = [l \in {"recv", "send"} |-> <<>>]
    /\ armed = {} /\ ttmr = {}
    /\ error = [t \in Threads |-> "EOK"]
    /\ expiring = NoThread
    /\ prio = InitPrio
    /\ pool = [i \in 0..(Size - 1) |-> NoMessage]
    /\ entry = 0 /\ inOffset = 0 /\ outOffset = 0
    /\ alive = TRUE /\ lost = FALSE
    /\ pc = [t \in Threads |-> "idle"]
    /\ mail = [t \in Threads |-> NoMessage]

-----------------------------------------------------------------------------
\* Faulty: the offset is wrapped one word too late.
PutMailBeyondEnd(v) ==
    /\ entry < Size
    /\ pool' = [pool EXCEPT ![inOffset] = v]
    /\ inOffset' = IF inOffset + 1 > Size THEN 0 ELSE inOffset + 1
    /\ entry' = entry + 1
    /\ WakeOne("recv")
    /\ UNCHANGED outOffset

\* Faulty: only the first mail of an empty box wakes a receiver.
PutMailWakesIfEmpty(v) ==
    /\ entry < Size
    /\ pool' = [pool EXCEPT ![inOffset] = v]
    /\ inOffset' = IF inOffset + 1 >= Size THEN 0 ELSE inOffset + 1
    /\ entry' = entry + 1
    /\ IF entry = 0 THEN WakeOne("recv") ELSE UNCHANGED <<suspVars, lost>>
    /\ UNCHANGED outOffset

\* _rt_mb_send_wait with room in the box, to its end.
PutMail(v) ==
    /\ entry < Size
    /\ pool' = [pool EXCEPT ![inOffset] = v]
    /\ inOffset' = IF inOffset + 1 >= Size THEN 0 ELSE inOffset + 1
    /\ entry' = entry + 1
    /\ WakeOne("recv")
    /\ UNCHANGED outOffset

\* _rt_mb_recv with a mail in the box, to its end.
TakeMail ==
    /\ entry > 0
    /\ outOffset' = IF outOffset + 1 >= Size THEN 0 ELSE outOffset + 1
    /\ entry' = entry - 1
    /\ WakeOne("send")
    /\ UNCHANGED <<pool, inOffset>>

\* A wait begins, or begins anew.
Wait(t, l, timed) ==
    /\ SuspendToList(t, l, Flag, timed)
    /\ UNCHANGED <<boxVars, lost>>

-----------------------------------------------------------------------------
\* rt_mb_recv with a mail there, by a thread or, without waiting, an interrupt.
Recv ==
    /\ alive
    /\ TakeMail
    /\ UNCHANGED <<alive, pc, mail>>

\* rt_mb_recv of an empty box with timeout 0: -RT_ETIMEOUT.
RecvFails ==
    /\ alive
    /\ entry = 0
    /\ UNCHANGED vars

RecvBlocks(t, timed) ==
    /\ ThreadContext /\ alive /\ pc[t] = "idle"
    /\ entry = 0
    /\ Wait(t, "recv", timed)
    /\ pc' = [pc EXCEPT ![t] = IF timed THEN "timedrecv" ELSE "recv"]
    /\ UNCHANGED <<alive, mail>>

\* rt_mb_send, or rt_mb_send_wait with room, by a thread or an interrupt.
Send(v) ==
    /\ alive
    /\ PutMail(v)
    /\ UNCHANGED <<alive, pc, mail>>

\* rt_mb_send and rt_mb_urgent to a full box: -RT_EFULL.
SendFails ==
    /\ alive
    /\ entry = Size
    /\ UNCHANGED vars

SendBlocks(t, v, timed) ==
    /\ ThreadContext /\ alive /\ pc[t] = "idle"
    /\ entry = Size
    /\ Wait(t, "send", timed)
    /\ pc' = [pc EXCEPT ![t] = IF timed THEN "timedsend" ELSE "send"]
    /\ mail' = [mail EXCEPT ![t] = v]
    /\ UNCHANGED alive

\* rt_mb_urgent: the mail goes before the first one.
Urgent(v) ==
    /\ alive
    /\ entry < Size
    /\ LET o == IF outOffset > 0 THEN outOffset - 1 ELSE Size - 1
       IN  outOffset' = o /\ pool' = [pool EXCEPT ![o] = v]
    /\ entry' = entry + 1
    /\ WakeOne("recv")
    /\ UNCHANGED <<inOffset, alive, pc, mail>>

-----------------------------------------------------------------------------
\* rt_mb_recv or rt_mb_send_wait returns to its caller.
Done(t) ==
    /\ pc' = [pc EXCEPT ![t] = "idle"]
    /\ mail' = [mail EXCEPT ![t] = NoMessage]
    /\ UNCHANGED alive

\* Woken with an error: it is returned.
WaitFails(t) ==
    /\ Runs(t) /\ error[t] # "EOK"
    /\ Done(t)
    /\ UNCHANGED <<suspVars, boxVars, lost>>

\* Faulty: a receiver takes a mail because it was woken.
RecvResumesUnasked(t) ==
    /\ Runs(t) /\ Receiving(t) /\ error[t] = "EOK"
    /\ outOffset' = IF outOffset + 1 >= Size THEN 0 ELSE outOffset + 1
    /\ entry' = IF entry > 0 THEN entry - 1 ELSE 0
    /\ WakeOne("send")
    /\ Done(t)
    /\ UNCHANGED <<pool, inOffset>>

RecvResumes(t) ==
    /\ Runs(t) /\ Receiving(t) /\ error[t] = "EOK"
    /\ TakeMail
    /\ Done(t)

SendResumes(t) ==
    /\ Runs(t) /\ Sending(t) /\ error[t] = "EOK"
    /\ PutMail(mail[t])
    /\ Done(t)

\* Somebody was faster.
Outrun(t) ==
    /\ Runs(t) /\ error[t] = "EOK"
    /\ Receiving(t) => entry = 0
    /\ Sending(t) => entry = Size

\* The rest of the timeout is waited for.
WaitsAgain(t) ==
    /\ Outrun(t)
    /\ Wait(t, IF Receiving(t) THEN "recv" ELSE "send", Timed(t))
    /\ UNCHANGED <<alive, pc, mail>>

\* No time is left: a receiver fails with -RT_ETIMEOUT, a sender with
\* -RT_EFULL and -RT_EINTR in thread->error.
TimeIsUp(t) ==
    /\ Outrun(t) /\ Timed(t)
    /\ error' = [error EXCEPT ![t] = IF Receiving(t) THEN "ETIMEOUT" ELSE "EINTR"]
    /\ Done(t)
    /\ UNCHANGED <<susp, armed, ttmr, expiring, prio, lost, boxVars>>

-----------------------------------------------------------------------------
\* rt_mb_control(RT_IPC_CMD_RESET)
Reset ==
    /\ ThreadContext /\ alive
    /\ ResumeAll({"recv", "send"}, "ERROR")
    /\ entry' = 0 /\ inOffset' = 0 /\ outOffset' = 0
    /\ UNCHANGED <<pool, alive, pc, mail, lost>>

\* rt_mb_detach and rt_mb_delete.
Detach ==
    /\ ThreadContext /\ alive
    /\ ResumeAll({"recv", "send"}, "ERROR")
    /\ alive' = FALSE
    /\ UNCHANGED <<boxVars, pc, mail, lost>>

\* rt_thread_delete of t.
Delete(t) ==
    /\ pc[t] # "dead"
    /\ ThreadClose(t)
    /\ pc' = [pc EXCEPT ![t] = "dead"]
    /\ lost' = (lost \/ t \in WokenReceivers \cup WokenSenders)
    /\ UNCHANGED <<boxVars, alive, mail>>

ThreadOps(t) ==
    \/ \E timed \in BOOLEAN : RecvBlocks(t, timed)
    \/ \E v \in Messages, timed \in BOOLEAN : SendBlocks(t, v, timed)
    \/ WaitFails(t) \/ RecvResumes(t) \/ SendResumes(t)
    \/ WaitsAgain(t) \/ TimeIsUp(t)

WaitEvents(t) ==
    \/ TimerPop(t) /\ UNCHANGED mbVars
    \/ ThreadResume(t) /\ UNCHANGED mbVars
    \/ Delete(t)

Next ==
    \/ \E t \in Threads : ThreadOps(t) \/ WaitEvents(t)
    \/ \E v \in Messages : Send(v) \/ Urgent(v)
    \/ Recv \/ RecvFails \/ SendFails \/ Reset \/ Detach
    \/ ThreadTimeout /\ UNCHANGED mbVars

Spec == Init /\ [][Next]_vars

-----------------------------------------------------------------------------
\* Type invariant.
TypeOK ==
    /\ susp \in [{"recv", "send"} -> Seq(Threads)]
    /\ armed \subseteq Threads /\ ttmr \subseteq Threads
    /\ error \in [Threads -> Errors]
    /\ expiring \in Threads \cup {NoThread}
    /\ pool \in [0..(Size - 1) -> Messages \cup {NoMessage}]
    /\ entry \in 0..Size
    /\ inOffset \in 0..(Size - 1) /\ outOffset \in 0..(Size - 1)
    /\ alive \in BOOLEAN /\ lost \in BOOLEAN
    /\ pc \in [Threads -> Places]
    /\ mail \in [Threads -> Messages \cup {NoMessage}]

\* The mails in the ring, first to last.
Contents == [i \in 1..entry |-> pool[(outOffset + i - 1) % Size]]

\* The mailbox is a bounded queue: whatever wraps around, waits, times out or
\* is reset, mails are neither lost nor doubled nor overtaken.
Box == INSTANCE BoundedQueue WITH Items <- Messages, Capacity <- Size, queue <- Contents
RefinesQueue == Box!QueueSpec

\* No wakeup is lost between senders, receivers, timeouts and resets, except with
\* a raced or deleted thread: if receivers sleep, every mail in the box has
\* somebody awake who is coming for it, and if senders sleep, so has every free
\* slot.
NoSleeperBesideMail == susp["recv"] # <<>> => entry <= Cardinality(WokenReceivers)
NoSleeperBesideRoom == susp["send"] # <<>> => Size - entry <= Cardinality(WokenSenders)
NobodyForgotten == ~lost => NoSleeperBesideMail /\ NoSleeperBesideRoom
=============================================================================
