------------------------------- MODULE Event -------------------------------
(***************************************************************************)
(* The event flags of rt-thread/src/ipc.c.  A thread waits for all or for  *)
(* any of a set of flags and may have them cleared when it gets them; one  *)
(* rt_event_send serves every waiter it satisfies and clears only then.    *)
(* A waiter carries its demand in its control block (event_set and         *)
(* event_info); the send that serves it stores the result there, and the   *)
(* thread reads it when it next runs.  Interrupt handlers send at any      *)
(* time, also between the pop of a thread timer and its callback.          *)
(***************************************************************************)
EXTENDS SuspendList, FiniteSets

CONSTANTS
    Flag,        \* how waiters queue: "FIFO" or "PRIO"
    InitPrio,    \* thread -> priority
    Bits,        \* the flags (32 of them in the code)
    Demands      \* what threads ask for

\* set: event_set; all: RT_EVENT_FLAG_AND, else _OR; clear: _CLEAR.
Demand == [set : (SUBSET Bits) \ {{}}, all : BOOLEAN, clear : BOOLEAN]

NoDemand == [set |-> {}, all |-> FALSE, clear |-> FALSE]

ASSUME EventAssumption ==
    /\ IsFiniteSet(Threads)
    /\ Flag \in {"FIFO", "PRIO"}
    /\ InitPrio \in [Threads -> Nat]
    /\ Demands \subseteq Demand /\ Demands # {}

VARIABLES
    set,         \* event->set
    alive,       \* FALSE once the event was detached or deleted
    pc,          \* thread -> where it is: see Places
    demand,      \* thread -> event_set and event_info of its control block,
                 \* from the call until it returns (nobody reads them later)
    asked,       \* history: thread -> the demand of its call
    sent,        \* history: every flag ever sent
    owed,        \* history: flags sent and not yet taken by a clearing receiver
    lost         \* history: those of them that were cleared for a thread the
                 \* tick interrupt was about to call back

eventVars == <<set, alive, pc, demand, asked, sent, owed, lost>>
vars == <<suspVars, eventVars>>

List == "event"
waiters == susp[List]

Places == {"idle", "recv", "timedrecv", "dead"}
Receiving(t) == pc[t] \in {"recv", "timedrecv"}

\* Threads that were served and have not returned from rt_event_recv yet.
Served == {t \in Threads : Receiving(t) /\ ~Suspended(t) /\ error[t] = "EOK"}

Satisfied(d, flags) == IF d.all THEN d.set \subseteq flags ELSE d.set \cap flags # {}

Init ==
    /\ susp = [l \in {List} |-> <<>>]
    /\ armed = {} /\ ttmr = {}
    /\ error = [t \in Threads |-> "EOK"]
    /\ expiring = NoThread
    /\ prio = InitPrio
    /\ set = {} /\ alive = TRUE
    /\ pc = [t \in Threads |-> "idle"]
    /\ demand = [t \in Threads |-> NoDemand] /\ asked = demand
    /\ sent = {} /\ owed = {} /\ lost = {}

-----------------------------------------------------------------------------
Idle(t) == ThreadContext /\ alive /\ pc[t] = "idle"

\* Faulty: the receiver clears the flags it did not ask for as well.
RecvNowClearsAll(t, d) ==
    /\ Idle(t) /\ Satisfied(d, set)
    /\ error' = [error EXCEPT ![t] = "EOK"]
    /\ set' = IF d.clear THEN {} ELSE set
    /\ owed' = IF d.clear THEN owed \ d.set ELSE owed
    /\ UNCHANGED <<susp, armed, ttmr, expiring, prio, alive, pc, demand, asked, sent, lost>>

\* rt_event_recv of flags that are set.
RecvNow(t, d) ==
    /\ Idle(t) /\ Satisfied(d, set)
    /\ error' = [error EXCEPT ![t] = "EOK"]
    /\ set' = IF d.clear THEN set \ d.set ELSE set
    /\ owed' = IF d.clear THEN owed \ d.set ELSE owed
    /\ UNCHANGED <<susp, armed, ttmr, expiring, prio, alive, pc, demand, asked, sent, lost>>

\* rt_event_recv with timeout 0 of flags that are not: demand stays.
RecvFails(t, d) ==
    /\ Idle(t) /\ ~Satisfied(d, set)
    /\ error' = [error EXCEPT ![t] = "ETIMEOUT"]
    /\ UNCHANGED <<susp, armed, ttmr, expiring, prio, eventVars>>

RecvBlocks(t, d, timed) ==
    /\ Idle(t) /\ ~Satisfied(d, set)
    /\ SuspendToList(t, List, Flag, timed)
    /\ demand' = [demand EXCEPT ![t] = d]
    /\ asked' = [asked EXCEPT ![t] = d]
    /\ pc' = [pc EXCEPT ![t] = IF timed THEN "timedrecv" ELSE "recv"]
    /\ UNCHANGED <<set, alive, sent, owed, lost>>

\* The call of t ends; flags it was served with RT_EVENT_FLAG_CLEAR are taken.
Ends(t, place) ==
    /\ pc' = [pc EXCEPT ![t] = place]
    /\ demand' = [demand EXCEPT ![t] = NoDemand]
    /\ asked' = [asked EXCEPT ![t] = NoDemand]
    /\ owed' = IF t \in Served /\ demand[t].clear THEN owed \ demand[t].set ELSE owed

\* The receiver runs again after rt_schedule.
RecvReturns(t) ==
    /\ ThreadContext /\ Receiving(t) /\ ~Suspended(t)
    /\ Ends(t, "idle")
    /\ UNCHANGED <<suspVars, set, alive, sent, lost>>

\* The list after a traversal that unlinks the threads in ts.
UnlinkSet(s, ts) ==
    LET F[i \in 0..Len(s)] ==
            IF i = 0 THEN <<>> ELSE IF s[i] \in ts THEN F[i - 1] ELSE Append(F[i - 1], s[i])
    IN  F[Len(s)]

\* What the clearing receivers in ts are told, if d are their demands.
ClearedFor(ts, d) == UNION {d[t].set : t \in {u \in ts : d[u].clear}}

\* Faulty: the flags are cleared before the waiters get them.
ServeAfterClear(ts, now) ==
    /\ susp' = [susp EXCEPT ![List] = UnlinkSet(@, {t \in ts : ~Raced(t)})]
    /\ armed' = armed \ (ts \cap ttmr)
    /\ ttmr' = ttmr \ ts
    /\ error' = [t \in Threads |-> IF t \in ts THEN "EOK" ELSE error[t]]
    /\ set' = now \ ClearedFor(ts, demand)
    /\ demand' = [t \in Threads |->
                    IF t \in ts THEN [demand[t] EXCEPT !.set = @ \cap set'] ELSE demand[t]]
    /\ UNCHANGED <<expiring, prio>>

\* The waiters in ts are served from the flags now set.  rt_sched_thread_ready
\* may fail for one whose timer is being handled: its result is ignored.
Serve(ts, now) ==
    /\ susp' = [susp EXCEPT ![List] = UnlinkSet(@, {t \in ts : ~Raced(t)})]
    /\ armed' = armed \ (ts \cap ttmr)
    /\ ttmr' = ttmr \ ts
    /\ error' = [t \in Threads |-> IF t \in ts THEN "EOK" ELSE error[t]]
    /\ demand' = [t \in Threads |->
                    IF t \in ts THEN [demand[t] EXCEPT !.set = @ \cap now] ELSE demand[t]]
    /\ set' = now \ ClearedFor(ts, demand')
    /\ UNCHANGED <<expiring, prio>>

\* The waiters the flags satisfy.
Satisfiable(flags) == {t \in Threads : Holds(waiters, t) /\ Satisfied(demand[t], flags)}

\* Faulty: the traversal ends with the first waiter it serves.
SendServesOne(s) ==
    /\ alive
    /\ LET all == Satisfiable(set \cup s)
           first == SelectSeq(waiters, LAMBDA t : t \in all)
       IN  Serve(IF first = <<>> THEN {} ELSE {Head(first)}, set \cup s)
    /\ sent' = sent \cup s /\ owed' = owed \cup s
    /\ lost' = lost \ s
    /\ UNCHANGED <<alive, pc, asked>>

\* rt_event_send by a thread or an interrupt handler.
Send(s) ==
    /\ alive
    /\ Serve(Satisfiable(set \cup s), set \cup s)
    /\ sent' = sent \cup s /\ owed' = owed \cup s
    /\ lost' = (lost \ s) \cup
                  ClearedFor({t \in Satisfiable(set \cup s) : t = expiring /\ Raced(t)}, demand')
    /\ UNCHANGED <<alive, pc, asked>>

\* rt_event_control(RT_IPC_CMD_RESET): the waiters fail, no flag is set.
Reset ==
    /\ ThreadContext /\ alive
    /\ ResumeAll({List}, "ERROR")
    /\ set' = {} /\ owed' = {} /\ lost' = {}
    /\ UNCHANGED <<alive, pc, demand, asked, sent>>

\* rt_event_detach and rt_event_delete.
Detach ==
    /\ ThreadContext /\ alive
    /\ ResumeAll({List}, "ERROR")
    /\ alive' = FALSE
    /\ UNCHANGED <<set, pc, demand, asked, sent, owed, lost>>

\* rt_thread_delete of t; flags it was served go with it.
Delete(t) ==
    /\ pc[t] # "dead"
    /\ ThreadClose(t)
    /\ Ends(t, "dead")
    /\ UNCHANGED <<set, alive, sent, lost>>

\* _thread_timeout: whoever was served since the pop reports a timeout.
Expire ==
    /\ ThreadTimeout
    /\ lost' = lost \cup ClearedFor(Served \cap {expiring}, demand)
    /\ UNCHANGED <<set, alive, pc, demand, asked, sent, owed>>

-----------------------------------------------------------------------------
RecvOps(t) ==
    \/ \E d \in Demands : \/ RecvNow(t, d) \/ RecvFails(t, d)
                          \/ \E timed \in BOOLEAN : RecvBlocks(t, d, timed)
    \/ RecvReturns(t)

WaitEvents(t) ==
    \/ TimerPop(t) /\ UNCHANGED eventVars
    \/ ThreadResume(t) /\ UNCHANGED eventVars
    \/ Delete(t)

Next ==
    \/ \E t \in Threads : RecvOps(t) \/ WaitEvents(t)
    \/ \E s \in (SUBSET Bits) \ {{}} : Send(s)
    \/ Reset \/ Detach
    \/ Expire

Spec == Init /\ [][Next]_vars

-----------------------------------------------------------------------------
\* Type invariant.
TypeOK ==
    /\ susp \in [{List} -> Seq(Threads)]
    /\ armed \subseteq Threads /\ ttmr \subseteq Threads
    /\ error \in [Threads -> Errors]
    /\ expiring \in Threads \cup {NoThread}
    /\ set \subseteq Bits /\ sent \subseteq Bits
    /\ owed \subseteq Bits /\ lost \subseteq Bits
    /\ alive \in BOOLEAN
    /\ pc \in [Threads -> Places]
    /\ demand \in [Threads -> Demand \cup {NoDemand}]
    /\ asked \in [Threads -> Demand \cup {NoDemand}]

\* Nobody sleeps for flags that are set, but the thread about to be called back,
\* and a served receiver reports flags it asked for, all of them if it asked for
\* all, at least one otherwise, and only flags that were sent: one send wakes
\* every waiter it satisfies, and clears flags only after it looked at them all.
NoSatisfiedSleeper ==
    \A t \in Threads : Holds(waiters, t) /\ t # expiring => ~Satisfied(demand[t], set)

ReceivesWhatItAsked ==
    \A t \in Served :
        /\ demand[t].set \subseteq asked[t].set \cap sent
        /\ IF asked[t].all THEN demand[t].set = asked[t].set ELSE demand[t].set # {}

ServedAsAsked == NoSatisfiedSleeper /\ ReceivesWhatItAsked

\* A flag that was sent stays set until a reset or until a receiver that
\* clears it has got it: a send that crosses a deletion or a resumption does not
\* lose it, and one that crosses a timeout only if a handler makes it between the
\* pop of the timer and the callback (`lost`).
NoFlagLost == owed \subseteq set \cup ClearedFor(Served, demand) \cup lost
=============================================================================
