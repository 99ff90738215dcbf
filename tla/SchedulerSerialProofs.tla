------------------------ MODULE SchedulerSerialProofs ------------------------
(***************************************************************************)
(* Safety of the scheduler, for any finite set of threads, any number of   *)
(* priorities, any slices and any depth of the scheduler lock; and of the  *)
(* serial device with its reader and its writers, for any ring, any queue  *)
(* of buffers and any set of writers.                                      *)
(*                                                                         *)
(* The functions of the scheduler work on a record of its tables; they     *)
(* pass through states in which thread and queue do not agree.  Queues     *)
(* relates the tables to the set of threads that are linked; Sound is the  *)
(* invariant between two sections.                                         *)
(*                                                                         *)
(* The device is two machines that share nothing but the port: the         *)
(* receiving side, whose ring is shown to be the first-in first-out line   *)
(* of RingDev, and the sending side.  SerialInv is the conjunction of the  *)
(* invariants of both.                                                     *)
(***************************************************************************)
EXTENDS Scheduler, Serial, WaitListProofs

Machine == [stat : [Threads -> Stats], yield : SUBSET Threads,
            prio : [Threads -> Prios], mask : [Threads -> SUBSET Prios],
            ready : [Prios -> Seq(Threads)], group : SUBSET Prios,
            current : Threads]

\* Exactly the threads of R are linked, each once and in its queue, and the
\* group knows the queues that are not empty.
Queues(s, R) ==
    /\ s \in Machine
    /\ R \subseteq Threads
    /\ \A t \in Threads, p \in Prios : Holds(s.ready[p], t) <=> t \in R /\ s.prio[t] = p
    /\ \A p \in Prios : Distinct(s.ready[p])
    /\ \A p \in Prios : p \in s.group <=> s.ready[p] # <<>>

\* A mask has no bit but that of the thread's priority, and has that one from
\* the start of the thread to its end.
ItsBit(s, t) == s.mask[t] = {s.prio[t]}
AtMostItsBit(s, t) == s.mask[t] \subseteq {s.prio[t]}
Masks(s) ==
    \A t \in Threads :
        /\ AtMostItsBit(s, t)
        /\ s.stat[t] \notin {"INIT", "CLOSE"} => ItsBit(s, t)

ReadyThreads(s) == {t \in Threads : s.stat[t] = "READY"}

Sound(s) ==
    /\ Queues(s, ReadyThreads(s))
    /\ Masks(s)
    /\ \A t \in Threads : s.stat[t] = "RUNNING" => t = s.current
    /\ s.stat[s.current] \notin {"READY", "INIT"}
    /\ s.stat[Idle] \in {"READY", "RUNNING"}

USE SchedulerAssumption

-----------------------------------------------------------------------------
\* A queue that holds somebody is not empty, and one that does not is.
LEMMA EmptyQueue ==
    ASSUME NEW q \in Seq(Threads)
    PROVE  (q = <<>>) <=> (\A t \in Threads : ~Holds(q, t))
<1>1. q = <<>> => \A t \in Threads : ~Holds(q, t)  BY DEF Holds
<1>2. q # <<>> => 1 \in DOMAIN q /\ q[1] \in Threads  BY EmptySeq, LenProperties
<1>3. q # <<>> => \E t \in Threads : Holds(q, t)  BY <1>2 DEF Holds
<1> QED  BY <1>1, <1>3

-----------------------------------------------------------------------------
\* What rt_sched_remove_thread changes.
LEMMA RemoveQueues ==
    ASSUME NEW s, NEW R, Queues(s, R), NEW t \in Threads,
           AtMostItsBit(s, t), t \in R => ItsBit(s, t)
    PROVE  /\ Queues(RemoveThread(s, t), R \ {t})
           /\ RemoveThread(s, t).stat = s.stat
           /\ RemoveThread(s, t).yield = s.yield
           /\ RemoveThread(s, t).prio = s.prio
           /\ RemoveThread(s, t).mask = s.mask
           /\ RemoveThread(s, t).current = s.current
           /\ RemoveThread(s, t).group \subseteq s.group
<1> DEFINE shorter == [p \in Prios |-> Unlink(s.ready[p], t)]
           out == [s EXCEPT !.ready = shorter]
           r == RemoveThread(s, t)
           groupOf == IF shorter[s.prio[t]] = <<>> THEN s.group \ s.mask[t] ELSE s.group
<1>0. /\ s.mask[t] \subseteq {s.prio[t]}
      /\ t \in R => s.mask[t] = {s.prio[t]}
  BY DEF AtMostItsBit, ItsBit
<1>1. s \in Machine /\ s.prio[t] \in Prios  BY DEF Queues, Machine
<1>2. \A p \in Prios : /\ s.ready[p] \in Seq(Threads)
                       /\ Distinct(s.ready[p])
  BY DEF Queues, Machine
<1>3. \A p \in Prios : /\ shorter[p] \in Seq(Threads)
                       /\ Distinct(shorter[p])
                       /\ \A u : Holds(shorter[p], u) <=> Holds(s.ready[p], u) /\ u # t
  BY <1>2, UnlinkFacts
<1>4. shorter \in [Prios -> Seq(Threads)]  BY <1>3
<1> HIDE DEF shorter
<1>5. /\ out \in Machine
      /\ out.stat = s.stat /\ out.yield = s.yield /\ out.prio = s.prio
      /\ out.mask = s.mask /\ out.current = s.current /\ out.group = s.group
      /\ out.ready = shorter
  BY <1>1, <1>4 DEF Machine
<1>6. r = IF shorter[s.prio[t]] = <<>> THEN [out EXCEPT !.group = s.group \ s.mask[t]] ELSE out
  BY <1>5 DEF RemoveThread, shorter
<1> HIDE DEF r, out
<1>7. /\ r \in Machine
      /\ r.stat = s.stat /\ r.yield = s.yield /\ r.prio = s.prio
      /\ r.mask = s.mask /\ r.current = s.current
      /\ r.ready = shorter
      /\ r.group = groupOf
  <2>1. CASE shorter[s.prio[t]] = <<>>
    <3>1. s.group \ s.mask[t] \in SUBSET Prios  BY <1>1 DEF Machine
    <3> QED  BY <1>5, <1>6, <2>1, <3>1 DEF Machine
  <2>2. CASE shorter[s.prio[t]] # <<>>  BY <1>5, <1>6, <2>2
  <2> QED  BY <2>1, <2>2
<1>2a. \A u \in Threads, p \in Prios : Holds(s.ready[p], u) <=> u \in R /\ s.prio[u] = p
  BY DEF Queues
<1>8. ASSUME NEW u \in Threads, NEW p \in Prios
      PROVE  Holds(r.ready[p], u) <=> u \in R \ {t} /\ r.prio[u] = p
  <2>1. Holds(shorter[p], u) <=> Holds(s.ready[p], u) /\ u # t  BY <1>3
  <2>2. Holds(s.ready[p], u) <=> u \in R /\ s.prio[u] = p  BY <1>2a
  <2> QED  BY <1>7, <2>1, <2>2
<1>9. ASSUME NEW p \in Prios PROVE p \in r.group <=> r.ready[p] # <<>>
  <2>1. p \in s.group <=> s.ready[p] # <<>>  BY DEF Queues
  <2>2. CASE p # s.prio[t]
    <3>1. p \in r.group <=> p \in s.group  BY <1>0, <1>7, <2>2
    <3>2. \A u \in Threads : Holds(shorter[p], u) <=> Holds(s.ready[p], u)
      <4> SUFFICES ASSUME NEW u \in Threads
                   PROVE  Holds(shorter[p], u) <=> Holds(s.ready[p], u)
        OBVIOUS
      <4>1. Holds(shorter[p], u) <=> Holds(s.ready[p], u) /\ u # t  BY <1>3
      <4>2. ~Holds(s.ready[p], t)  BY <1>2a, <2>2
      <4> QED  BY <4>1, <4>2
    <3>3. shorter[p] # <<>> <=> s.ready[p] # <<>>  BY <1>2, <1>3, <3>2, EmptyQueue
    <3> QED  BY <1>7, <2>1, <3>1, <3>3
  <2>3. CASE p = s.prio[t] /\ t \in R
    <3>1. s.mask[t] = {p}  BY <1>0, <2>3
    <3>2. s.ready[p] # <<>>
      <4>1. Holds(s.ready[p], t)  BY <2>3 DEF Queues
      <4> QED  BY <1>2, <4>1, EmptyQueue
    <3> QED  BY <1>7, <2>1, <2>3, <3>1, <3>2
  <2>4. CASE p = s.prio[t] /\ t \notin R
    <3>1. \A u \in Threads : Holds(shorter[p], u) <=> Holds(s.ready[p], u)
      <4> SUFFICES ASSUME NEW u \in Threads
                   PROVE  Holds(shorter[p], u) <=> Holds(s.ready[p], u)
        OBVIOUS
      <4>1. Holds(shorter[p], u) <=> Holds(s.ready[p], u) /\ u # t  BY <1>3
      <4>2. ~Holds(s.ready[p], t)  BY <1>2a, <2>4
      <4> QED  BY <4>1, <4>2
    <3>2. shorter[p] # <<>> <=> s.ready[p] # <<>>  BY <1>2, <1>3, <3>1, EmptyQueue
    <3> QED  BY <1>0, <1>7, <2>1, <2>4, <3>2
  <2> QED  BY <2>2, <2>3, <2>4
<1>10. Queues(r, R \ {t})
  <2>1. R \ {t} \subseteq Threads  BY DEF Queues
  <2>2. \A p \in Prios : Distinct(r.ready[p])  BY <1>3, <1>7
  <2> QED  BY <1>7, <1>8, <1>9, <2>1, <2>2 DEF Queues
<1>11. r.group \subseteq s.group  BY <1>7
<1> QED  BY <1>7, <1>10, <1>11 DEF r

\* What rt_sched_insert_thread changes for a thread that does not run.
Linked(r, s, t) ==
    /\ r.stat = [s.stat EXCEPT ![t] = "READY"]
    /\ r.yield = s.yield /\ r.prio = s.prio /\ r.mask = s.mask /\ r.current = s.current
    /\ r.group = s.group \cup s.mask[t]

LEMMA InsertQueues ==
    ASSUME NEW s, NEW R, Queues(s, R), NEW t \in Threads,
           t \notin R, t # s.current, ItsBit(s, t)
    PROVE  /\ Queues(InsertThread(s, t), R \cup {t})
           /\ Linked(InsertThread(s, t), s, t)
<1> DEFINE k == s.prio[t]
           q == IF t \in s.yield THEN Append(s.ready[k], t) ELSE <<t>> \o s.ready[k]
           longer == [s.ready EXCEPT ![k] = q]
           r == InsertThread(s, t)
<1>0. s.mask[t] = {k}  BY DEF ItsBit
<1>1. s \in Machine /\ k \in Prios  BY DEF Queues, Machine
<1>2. \A p \in Prios : s.ready[p] \in Seq(Threads) /\ Distinct(s.ready[p])
  BY DEF Queues, Machine
<1>3. ~Holds(s.ready[k], t)  BY <1>1 DEF Queues
<1>4. /\ q \in Seq(Threads)
      /\ Distinct(q)
      /\ \A u : Holds(q, u) <=> Holds(s.ready[k], u) \/ u = t
  BY <1>1, <1>2, <1>3, AppendFacts, PrependFacts
<1>5. s.ready \in [Prios -> Seq(Threads)]  BY <1>1 DEF Machine
<1>6. r = [s EXCEPT !.stat[t] = "READY", !.ready[k] = q, !.group = s.group \cup s.mask[t]]
  BY DEF InsertThread
<1> HIDE DEF q
<1>7. longer \in [Prios -> Seq(Threads)]  BY <1>1, <1>4, <1>5
<1>8. [s.stat EXCEPT ![t] = "READY"] \in [Threads -> Stats]  BY <1>1 DEF Machine, Stats
<1>9. s.group \cup {k} \in SUBSET Prios  BY <1>1 DEF Machine
<1> HIDE DEF r
<1>10. /\ r.stat = [s.stat EXCEPT ![t] = "READY"]
       /\ r.yield = s.yield /\ r.prio = s.prio /\ r.mask = s.mask /\ r.current = s.current
       /\ r.ready = longer
       /\ r.group = s.group \cup {k}
  BY <1>0, <1>1, <1>6 DEF Machine
<1>11. r \in Machine
  <2>1. r = [stat |-> r.stat, yield |-> s.yield, prio |-> s.prio, mask |-> s.mask,
             ready |-> longer, group |-> s.group \cup {k}, current |-> s.current]
    BY <1>0, <1>1, <1>6, <1>10 DEF Machine
  <2> HIDE DEF longer, k
  <2> QED  BY <1>1, <1>7, <1>8, <1>9, <1>10, <2>1 DEF Machine
<1>12. \A p \in Prios : r.ready[p] = IF p = k THEN q ELSE s.ready[p]
  BY <1>1, <1>5, <1>10
<1> HIDE DEF longer
<1>13. ASSUME NEW u \in Threads, NEW p \in Prios
       PROVE  Holds(r.ready[p], u) <=> u \in R \cup {t} /\ r.prio[u] = p
  <2>1. Holds(s.ready[p], u) <=> u \in R /\ s.prio[u] = p  BY DEF Queues
  <2>2. CASE p = k  BY <1>4, <1>10, <1>12, <2>1, <2>2
  <2>3. CASE p # k  BY <1>10, <1>12, <2>1, <2>3
  <2> QED  BY <2>2, <2>3
<1>14. ASSUME NEW p \in Prios PROVE p \in r.group <=> r.ready[p] # <<>>
  <2>1. p \in s.group <=> s.ready[p] # <<>>  BY DEF Queues
  <2>2. CASE p = k
    <3>1. Holds(q, t)  BY <1>4
    <3>2. q # <<>>  BY <1>4, <3>1, EmptyQueue
    <3> QED  BY <1>10, <1>12, <2>2, <3>2
  <2>3. CASE p # k  BY <1>10, <1>12, <2>1, <2>3
  <2> QED  BY <2>2, <2>3
<1>15. Queues(r, R \cup {t})
  <2>1. R \cup {t} \subseteq Threads  BY DEF Queues
  <2>2. \A p \in Prios : Distinct(r.ready[p])  BY <1>2, <1>4, <1>12
  <2> QED  BY <1>11, <1>13, <1>14, <2>1, <2>2 DEF Queues
<1>16. Linked(r, s, t)  BY <1>0, <1>10 DEF Linked
<1> QED  BY <1>15, <1>16 DEF r

-----------------------------------------------------------------------------
\* The most urgent priority of a group that is not empty.
LEMMA TopPriority ==
    ASSUME NEW g \in SUBSET Prios, g # {}
    PROVE  Min(g) \in g /\ \A p \in g : Min(g) <= p
<1>1. g \in SUBSET Nat  BY DEF Prios
<1>2. \E x \in g : \A y \in g : x <= y  BY <1>1, LeastNat
<1> QED  BY <1>2 DEF Min

\* The head of a queue in the group is linked there.
LEMMA HeadIsQueued ==
    ASSUME NEW s, NEW R, Queues(s, R), NEW p \in s.group
    PROVE  Head(s.ready[p]) \in R /\ s.prio[Head(s.ready[p])] = p
<1>1. p \in Prios  BY DEF Queues, Machine
<1>2. s.ready[p] # <<>> /\ s.ready[p] \in Seq(Threads) /\ Distinct(s.ready[p])
  BY <1>1 DEF Queues, Machine
<1>3. Head(s.ready[p]) \in Threads /\ Holds(s.ready[p], Head(s.ready[p]))
  BY <1>2, TailFacts
<1> QED  BY <1>1, <1>3 DEF Queues

\* A record of the machine with another thread running, other flags or states
\* keeps the same queues.
LEMMA QueuesKept ==
    ASSUME NEW s, NEW R, Queues(s, R), NEW r \in Machine,
           r.ready = s.ready, r.group = s.group, r.prio = s.prio
    PROVE  Queues(r, R)
  BY DEF Queues

\* A switch leaves the tables sound and the processor to a thread that can run
\* and is as urgent as any that is ready.
LEMMA SwitchSound ==
    ASSUME NEW s, Sound(s), s.group # {}
    PROVE  /\ Sound(Switch(s))
           /\ Switch(s).stat[Switch(s).current] = "RUNNING"
           /\ \A p \in Switch(s).group : Switch(s).prio[Switch(s).current] <= p
<1> DEFINE me == s.current
           top == Min(s.group)
           runs == s.stat[me] = "RUNNING"
           keeps == runs /\ (s.prio[me] < top \/ (s.prio[me] = top /\ me \notin s.yield))
           R == ReadyThreads(s)
           r == Switch(s)
<1>1. s \in Machine /\ Queues(s, R) /\ me \in Threads /\ s.group \in SUBSET Prios
  BY DEF Sound, Queues, Machine
<1>2. top \in s.group /\ top \in Prios /\ \A p \in s.group : top <= p  BY <1>1, TopPriority
<1>3. Masks(s) /\ me \notin R  BY <1>1 DEF Sound, ReadyThreads
<1>4. CASE keeps
  <2> DEFINE out == RemoveThread(s, me)
  <2>1. [s EXCEPT !.current = me] = s  BY <1>1 DEF Machine
  <2>2. r = [out EXCEPT !.stat[me] = "RUNNING"]
    <3> DEFINE to == IF keeps THEN me ELSE Head(s.ready[top])
               passed == [s EXCEPT !.current = to]
               queued == IF runs /\ to # me THEN InsertThread(passed, me) ELSE passed
               calm == IF to # me THEN [queued EXCEPT !.yield = @ \ {me}] ELSE queued
    <3>1. r = [RemoveThread(calm, to) EXCEPT !.stat[to] = "RUNNING"]  BY DEF Switch
    <3>2. to = me  BY <1>4
    <3> HIDE DEF to, r, me
    <3>3. calm = [s EXCEPT !.current = to]  BY <3>2
    <3> HIDE DEF calm
    <3> QED  BY <2>1, <3>1, <3>2, <3>3
  <2>3. ItsBit(s, me) /\ AtMostItsBit(s, me)  BY <1>1, <1>3, <1>4 DEF Masks
  <2>4. /\ Queues(out, R \ {me})
        /\ out.stat = s.stat /\ out.yield = s.yield /\ out.prio = s.prio
        /\ out.mask = s.mask /\ out.current = s.current
        /\ out.group \subseteq s.group
    BY <1>1, <2>3, RemoveQueues
  <2>5. out \in Machine  BY <2>4 DEF Queues
  <2> HIDE DEF out
  <2>6. r = out
    <3>1. me \in Threads /\ out.stat \in [Threads -> Stats] /\ out.stat[me] = "RUNNING"
      BY <1>1, <1>4, <2>4, <2>5 DEF Machine
    <3>2. [out.stat EXCEPT ![me] = "RUNNING"] = out.stat  BY <3>1
    <3>3. r = [out EXCEPT !.stat = [out.stat EXCEPT ![me] = "RUNNING"]]  BY <2>2, <2>5 DEF Machine
    <3>4. out = [out EXCEPT !.stat = out.stat]  BY <2>5 DEF Machine
    <3> QED  BY <3>2, <3>3, <3>4
  <2>7. Queues(r, R)
    <3>1. R \ {me} = R  BY <1>3
    <3> QED  BY <2>4, <2>6, <3>1
  <2>8. Sound(r)
    <3>1. ReadyThreads(r) = ReadyThreads(s)  BY <2>4, <2>6 DEF ReadyThreads
    <3>2. Masks(s) => Masks(r)  BY <2>4, <2>6 DEF Masks, ItsBit, AtMostItsBit
    <3> QED  BY <2>4, <2>6, <2>7, <3>1, <3>2 DEF Sound
  <2>9. \A p \in r.group : r.prio[r.current] <= p
    <3>1. \A p \in s.group : s.prio[me] <= p
      <4>1. s.prio[me] \in Nat /\ s.group \subseteq Nat  BY <1>1 DEF Machine, Prios
      <4>2. s.prio[me] <= top /\ top \in Nat  BY <1>2, <1>4, <4>1
      <4> QED  BY <1>2, <4>1, <4>2
    <3> QED  BY <2>4, <2>6, <3>1
  <2> QED  BY <1>4, <2>4, <2>6, <2>8, <2>9
<1>5. CASE ~keeps
  <2> DEFINE to == Head(s.ready[top])
             passed == [s EXCEPT !.current = to]
             queued == IF runs THEN InsertThread(passed, me) ELSE passed
             Q == IF runs THEN R \cup {me} ELSE R
             calm == [queued EXCEPT !.yield = @ \ {me}]
             out == RemoveThread(calm, to)
  <2>1. to \in R /\ s.prio[to] = top  BY <1>1, <1>2, HeadIsQueued
  <2>2. to \in Threads /\ to # me /\ s.stat[to] = "READY"
    BY <1>3, <2>1 DEF ReadyThreads
  <2>3. r = [out EXCEPT !.stat[to] = "RUNNING"]
    <3> HIDE DEF out, top
    <3> QED  BY <1>5, <2>2 DEF Switch, out, top
  <2> HIDE DEF to
  <2>4. /\ passed \in Machine
        /\ passed.stat = s.stat /\ passed.yield = s.yield /\ passed.prio = s.prio
        /\ passed.mask = s.mask /\ passed.ready = s.ready /\ passed.group = s.group
        /\ passed.current = to
    BY <1>1, <2>2 DEF Machine
  <2> HIDE DEF passed
  <2>5. Queues(passed, R)  BY <1>1, <2>4, QueuesKept
  <2>6. runs => ItsBit(s, me)  BY <1>1, <1>3 DEF Masks
  <2>7. /\ Queues(queued, Q)
        /\ queued.stat = IF runs THEN [s.stat EXCEPT ![me] = "READY"] ELSE s.stat
        /\ queued.yield = s.yield /\ queued.prio = s.prio /\ queued.mask = s.mask
        /\ queued.current = to
        /\ queued.group = IF runs THEN s.group \cup s.mask[me] ELSE s.group
    <3>1. CASE runs
      <4>1. ItsBit(passed, me) /\ me # passed.current
        BY <2>2, <2>4, <2>6, <3>1 DEF ItsBit
      <4>2. queued = InsertThread(passed, me) /\ Q = R \cup {me}  BY <3>1
      <4>3. me \in Threads /\ me \notin R  BY <1>1, <1>3
      <4> HIDE DEF queued, Q, me, R, runs
      <4>4. Queues(InsertThread(passed, me), R \cup {me}) /\ Linked(InsertThread(passed, me), passed, me)
        BY <2>5, <4>1, <4>3, InsertQueues
      <4>5. Queues(queued, Q) /\ Linked(queued, passed, me)  BY <4>2, <4>4
      <4> QED  BY <2>4, <3>1, <4>5 DEF Linked
    <3>2. CASE ~runs  BY <2>4, <2>5, <3>2
    <3> QED  BY <3>1, <3>2
  <2> HIDE DEF queued
  <2>8. /\ calm \in Machine
        /\ calm.stat = queued.stat /\ calm.prio = queued.prio /\ calm.mask = queued.mask
        /\ calm.ready = queued.ready /\ calm.group = queued.group
        /\ calm.current = queued.current
    <3>1. queued \in Machine  BY <2>7 DEF Queues
    <3>2. queued.yield \ {me} \in SUBSET Threads  BY <3>1 DEF Machine
    <3> QED  BY <3>1, <3>2 DEF Machine
  <2> HIDE DEF calm
  <2>9. Queues(calm, Q)  BY <2>7, <2>8, QueuesKept
  <2>10. ItsBit(calm, to) /\ AtMostItsBit(calm, to)
    BY <1>3, <2>2, <2>7, <2>8 DEF Masks, ItsBit, AtMostItsBit
  <2>11. /\ Queues(out, Q \ {to})
         /\ out.stat = calm.stat /\ out.prio = calm.prio
         /\ out.mask = calm.mask /\ out.current = calm.current
         /\ out.group \subseteq calm.group
    <3> HIDE DEF Q
    <3> QED  BY <2>2, <2>9, <2>10, RemoveQueues
  <2> HIDE DEF out, Q
  <2>12. out \in Machine  BY <2>11 DEF Queues
  <2>13. /\ r \in Machine
         /\ r.stat = [out.stat EXCEPT ![to] = "RUNNING"]
         /\ r.prio = out.prio /\ r.mask = out.mask /\ r.ready = out.ready
         /\ r.group = out.group /\ r.current = out.current
    <3>1. [out.stat EXCEPT ![to] = "RUNNING"] \in [Threads -> Stats]
      BY <2>12 DEF Machine, Stats
    <3> HIDE DEF r
    <3> QED  BY <2>3, <2>12, <3>1 DEF Machine
  <2> HIDE DEF r
  <2>14. Queues(r, Q \ {to})  BY <2>11, <2>13, QueuesKept
  <2>15. \A u \in Threads :
            r.stat[u] = IF u = to THEN "RUNNING"
                        ELSE IF runs /\ u = me THEN "READY" ELSE s.stat[u]
    <3>1. r.stat = [calm.stat EXCEPT ![to] = "RUNNING"]  BY <2>11, <2>13
    <3>2. calm.stat = IF runs THEN [s.stat EXCEPT ![me] = "READY"] ELSE s.stat
      BY <2>7, <2>8
    <3>3. s.stat \in [Threads -> Stats] /\ calm.stat \in [Threads -> Stats]
      BY <1>1, <2>8 DEF Machine
    <3> QED  BY <1>1, <2>2, <3>1, <3>2, <3>3
  <2>16. Q \ {to} = ReadyThreads(r)
    <3>1. \A u \in Threads : u \in R <=> s.stat[u] = "READY"  BY DEF ReadyThreads
    <3>2. \A u \in Threads : u \in Q \ {to} <=> u \in ReadyThreads(r)
      BY <2>2, <2>15, <3>1 DEF ReadyThreads, Q
    <3> QED  BY <2>14, <3>2 DEF Queues, ReadyThreads
  <2>17. r.current = to /\ r.mask = s.mask /\ r.prio = s.prio
    BY <2>7, <2>8, <2>11, <2>13
  <2>18. Masks(r)
    BY <1>1, <1>3, <2>2, <2>15, <2>17 DEF Masks, ItsBit, AtMostItsBit
  <2>19. Sound(r)
    <3>1. \A t \in Threads : r.stat[t] = "RUNNING" => t = r.current
      BY <1>1, <2>15, <2>17 DEF Sound
    <3>2. r.stat[to] = "RUNNING"  BY <2>2, <2>15
    <3>3. r.stat[Idle] \in {"READY", "RUNNING"}  BY <2>15 DEF Sound
    <3> QED  BY <2>14, <2>16, <2>17, <2>18, <3>1, <3>2, <3>3 DEF Sound
  <2>20. \A p \in r.group : r.prio[r.current] <= p
    <3>1. \A p \in r.group : p \in s.group \/ (runs /\ p = s.prio[me])
      BY <2>6, <2>7, <2>8, <2>11, <2>13 DEF ItsBit
    <3>2. top \in Nat /\ s.prio[me] \in Nat  BY <1>1, <1>2 DEF Machine, Prios
    <3>3. runs => top <= s.prio[me]  BY <1>5, <3>2
    <3> QED  BY <1>2, <2>1, <2>17, <3>1, <3>3
  <2> QED  BY <2>2, <2>15, <2>17, <2>19, <2>20 DEF r
<1> QED  BY <1>4, <1>5

-----------------------------------------------------------------------------
\* rt_schedule: nothing under the lock, otherwise the processor is with a
\* thread that can run and is as urgent as any that is ready.
Highest(s) ==
    /\ s.stat[s.current] = "RUNNING"
    /\ \A p \in s.group : s.prio[s.current] <= p

LEMMA ScheduleSound ==
    ASSUME NEW s, Sound(s), NEW n \in Nat
    PROVE  /\ Sound(Schedule(s, n))
           /\ n # 0 => Schedule(s, n) = s
           /\ n = 0 => Highest(Schedule(s, n))
<1>1. CASE n # 0  BY <1>1 DEF Schedule
<1>2. CASE n = 0 /\ s.group # {}
  <2>1. Schedule(s, n) = Switch(s)  BY <1>2 DEF Schedule
  <2> QED  BY <1>2, <2>1, SwitchSound DEF Highest
<1>3. CASE n = 0 /\ s.group = {}
  <2>1. Schedule(s, n) = s  BY <1>3 DEF Schedule
  <2>2. Queues(s, ReadyThreads(s)) /\ s \in Machine  BY DEF Sound, Queues
  <2>3. s.stat[Idle] # "READY"
    <3> SUFFICES ASSUME s.stat[Idle] = "READY" PROVE FALSE  OBVIOUS
    <3>1. Idle \in ReadyThreads(s)  BY DEF ReadyThreads
    <3>2. s.prio[Idle] \in Prios /\ s.ready[s.prio[Idle]] \in Seq(Threads)
      BY <2>2 DEF Machine
    <3>3. Holds(s.ready[s.prio[Idle]], Idle)  BY <2>2, <3>1, <3>2 DEF Queues
    <3>4. s.ready[s.prio[Idle]] # <<>>  BY <3>2, <3>3, EmptyQueue
    <3> QED  BY <1>3, <2>2, <3>2, <3>4 DEF Queues
  <2>4. Idle = s.current /\ s.stat[s.current] = "RUNNING"  BY <2>3 DEF Sound
  <2> QED  BY <1>3, <2>1, <2>4 DEF Highest
<1> QED  BY <1>1, <1>2, <1>3

\* A thread leaves the scheduler: it suspends itself or is closed.
LEMMA LeaveSound ==
    ASSUME NEW s, Sound(s), NEW t \in Threads, t # Idle,
           NEW x \in {"SUSPEND", "CLOSE"}, x = "SUSPEND" => s.stat[t] \notin {"INIT", "CLOSE"},
           NEW r, Queues(r, ReadyThreads(s) \ {t}), r.stat = [s.stat EXCEPT ![t] = x],
           r.prio = s.prio, r.mask = s.mask, r.current = s.current
    PROVE  Sound(r)
<1>1. s \in Machine /\ s.stat \in [Threads -> Stats] /\ s.current \in Threads
  BY DEF Sound, Queues, Machine
<1>2. \A u \in Threads : r.stat[u] = IF u = t THEN x ELSE s.stat[u]  BY <1>1
<1>3. ReadyThreads(r) = ReadyThreads(s) \ {t}  BY <1>2 DEF ReadyThreads
<1>4. Masks(r)  BY <1>2 DEF Sound, Masks, ItsBit, AtMostItsBit
<1>5. \A u \in Threads : r.stat[u] = "RUNNING" => u = r.current  BY <1>2 DEF Sound
<1>6. r.stat[r.current] \notin {"READY", "INIT"}  BY <1>1, <1>2 DEF Sound
<1>7. r.stat[Idle] \in {"READY", "RUNNING"}  BY <1>2 DEF Sound
<1> QED  BY <1>3, <1>4, <1>5, <1>6, <1>7 DEF Sound

\* A suspended thread is woken: it is linked, or runs on if it has not left
\* the processor yet.
LEMMA WakeSound ==
    ASSUME NEW s, Sound(s), NEW t \in Threads, s.stat[t] = "SUSPEND"
    PROVE  /\ Sound(InsertThread(s, t))
           /\ InsertThread(s, t).current = s.current
           /\ s.stat[s.current] = "RUNNING" =>
                 InsertThread(s, t).stat[s.current] = "RUNNING"
<1> DEFINE r == InsertThread(s, t)
<1>1. /\ s \in Machine /\ s.stat \in [Threads -> Stats] /\ s.current \in Threads
      /\ Queues(s, ReadyThreads(s))
  BY DEF Sound, Queues, Machine
<1>2. t \notin ReadyThreads(s) /\ ItsBit(s, t) /\ t # Idle
  BY DEF ReadyThreads, Sound, Masks
<1>3. CASE t = s.current
  <2>1. r = [s EXCEPT !.stat[t] = "RUNNING"]  BY <1>3 DEF InsertThread
  <2>2. [s.stat EXCEPT ![t] = "RUNNING"] \in [Threads -> Stats]  BY <1>1 DEF Stats
  <2> HIDE DEF r
  <2>3. /\ r \in Machine
        /\ r.stat = [s.stat EXCEPT ![t] = "RUNNING"]
        /\ r.prio = s.prio /\ r.mask = s.mask /\ r.current = s.current
        /\ r.ready = s.ready /\ r.group = s.group
    BY <1>1, <2>1, <2>2 DEF Machine
  <2>4. Queues(r, ReadyThreads(s))  BY <1>1, <2>3, QueuesKept
  <2>5. \A u \in Threads : r.stat[u] = IF u = t THEN "RUNNING" ELSE s.stat[u]
    BY <1>1, <2>3
  <2>6. ReadyThreads(r) = ReadyThreads(s)  BY <1>2, <2>5 DEF ReadyThreads
  <2>7. Masks(r)  BY <1>2, <2>3, <2>5 DEF Sound, Masks, ItsBit, AtMostItsBit
  <2>8. \A u \in Threads : r.stat[u] = "RUNNING" => u = r.current
    BY <1>3, <2>3, <2>5 DEF Sound
  <2>9. r.stat[r.current] = "RUNNING"  BY <1>1, <1>3, <2>3, <2>5
  <2>10. r.stat[Idle] \in {"READY", "RUNNING"}  BY <2>5 DEF Sound
  <2>11. Sound(r)  BY <2>4, <2>6, <2>7, <2>8, <2>9, <2>10 DEF Sound
  <2> QED  BY <1>3, <2>3, <2>9, <2>11 DEF r
<1>4. CASE t # s.current
  <2>0. Queues(r, ReadyThreads(s) \cup {t}) /\ Linked(r, s, t)
    BY <1>1, <1>2, <1>4, InsertQueues
  <2>1. /\ Queues(r, ReadyThreads(s) \cup {t})
        /\ r.stat = [s.stat EXCEPT ![t] = "READY"]
        /\ r.prio = s.prio /\ r.mask = s.mask /\ r.current = s.current
    <3> HIDE DEF r
    <3> QED  BY <2>0 DEF Linked
  <2> HIDE DEF r
  <2>2. \A u \in Threads : r.stat[u] = IF u = t THEN "READY" ELSE s.stat[u]
    BY <1>1, <2>1
  <2>3. ReadyThreads(r) = ReadyThreads(s) \cup {t}  BY <2>2 DEF ReadyThreads
  <2>4. Masks(r)  BY <1>2, <2>1, <2>2 DEF Sound, Masks, ItsBit, AtMostItsBit
  <2>5. \A u \in Threads : r.stat[u] = "RUNNING" => u = r.current
    BY <2>1, <2>2 DEF Sound
  <2>6. r.stat[r.current] = s.stat[s.current]  BY <1>1, <1>4, <2>1, <2>2
  <2>7. r.stat[Idle] \in {"READY", "RUNNING"}  BY <2>2 DEF Sound
  <2>8. Sound(r)  BY <2>1, <2>3, <2>4, <2>5, <2>6, <2>7 DEF Sound
  <2> QED  BY <2>1, <2>6, <2>8 DEF r
<1> QED  BY <1>3, <1>4

\* A thread is told to yield.
LEMMA FlagSound ==
    ASSUME NEW s, Sound(s), NEW t \in Threads
    PROVE  Sound(Flagged(s, t)) /\ Flagged(s, t).current = s.current
<1> DEFINE r == Flagged(s, t)
<1>1. s \in Machine /\ Queues(s, ReadyThreads(s))  BY DEF Sound, Queues
<1>2. s.yield \cup {t} \in SUBSET Threads  BY <1>1 DEF Machine
<1>3. r = [s EXCEPT !.yield = s.yield \cup {t}]  BY DEF Flagged
<1> HIDE DEF r
<1>4. /\ r \in Machine
      /\ r.stat = s.stat /\ r.prio = s.prio /\ r.mask = s.mask /\ r.current = s.current
      /\ r.ready = s.ready /\ r.group = s.group
  BY <1>1, <1>2, <1>3 DEF Machine
<1>5. Queues(r, ReadyThreads(s))  BY <1>1, <1>4, QueuesKept
<1>6. Sound(r)  BY <1>4, <1>5 DEF Sound, ReadyThreads, Masks, ItsBit, AtMostItsBit
<1> QED  BY <1>4, <1>6 DEF r

\* A thread leaves a ready queue, has its priority changed and joins another.
LEMMA SetPrioritySound ==
    ASSUME NEW s, Sound(s), NEW t \in Threads, NEW p \in Prios
    PROVE  /\ Sound(SetPriority(s, t, p))
           /\ SetPriority(s, t, p).current = s.current
           /\ SetPriority(s, t, p).stat = s.stat
<1> DEFINE R == ReadyThreads(s)
           r == SetPriority(s, t, p)
           newPrio == [s.prio EXCEPT ![t] = p]
           newMask == [s.mask EXCEPT ![t] = {p}]
<1>1. /\ s \in Machine /\ Queues(s, R) /\ Masks(s)
      /\ s.stat \in [Threads -> Stats] /\ s.prio \in [Threads -> Prios]
      /\ s.mask \in [Threads -> SUBSET Prios]
  BY DEF Sound, Queues, Machine
<1>2. newPrio \in [Threads -> Prios] /\ newMask \in [Threads -> SUBSET Prios]  BY <1>1
<1>3. \A u \in Threads : /\ newPrio[u] = IF u = t THEN p ELSE s.prio[u]
                         /\ newMask[u] = IF u = t THEN {p} ELSE s.mask[u]
  BY <1>1
<1> HIDE DEF R, r, newPrio, newMask
<1>4. SUFFICES /\ Queues(r, R) /\ r.stat = s.stat /\ r.current = s.current
               /\ r.prio = newPrio /\ r.mask = newMask
  <2>1. ASSUME Queues(r, R), r.stat = s.stat, r.current = s.current,
               r.prio = newPrio, r.mask = newMask
        PROVE  Sound(r)
    <3>1. ReadyThreads(r) = R  BY <2>1 DEF ReadyThreads, R
    <3>2. Masks(r)  BY <1>1, <1>3, <2>1 DEF Masks, ItsBit, AtMostItsBit
    <3> QED  BY <2>1, <3>1, <3>2 DEF Sound
  <2> QED  BY <2>1 DEF r
<1>5. CASE s.stat[t] = "READY"
  <2> DEFINE out == RemoveThread(s, t)
             moved == [out EXCEPT !.prio[t] = p, !.mask[t] = {p}, !.stat[t] = "INIT",
                                  !.yield = @ \ {t}]
  <2>1. AtMostItsBit(s, t) /\ ItsBit(s, t) /\ t # s.current
    BY <1>1, <1>5 DEF Masks, Sound
  <2>2. /\ Queues(out, R \ {t})
        /\ out.stat = s.stat /\ out.yield = s.yield /\ out.prio = s.prio
        /\ out.mask = s.mask /\ out.current = s.current
    BY <1>1, <2>1, RemoveQueues
  <2>3. r = InsertThread(moved, t)  BY <1>5 DEF SetPriority, r
  <2> HIDE DEF out
  <2>4. out \in Machine  BY <2>2 DEF Queues
  <2>5. [s.stat EXCEPT ![t] = "INIT"] \in [Threads -> Stats]  BY <1>1 DEF Stats
  <2>6. moved = [out EXCEPT !.prio = newPrio, !.mask = newMask,
                            !.stat = [s.stat EXCEPT ![t] = "INIT"], !.yield = @ \ {t}]
    BY <2>2, <2>4 DEF Machine, newPrio, newMask
  <2> HIDE DEF moved
  <2>7. /\ moved \in Machine
        /\ moved.prio = newPrio /\ moved.mask = newMask
        /\ moved.stat = [s.stat EXCEPT ![t] = "INIT"]
        /\ moved.current = s.current
        /\ moved.ready = out.ready /\ moved.group = out.group
    <3>1. out.yield \ {t} \in SUBSET Threads  BY <2>4 DEF Machine
    <3> QED  BY <1>2, <2>2, <2>4, <2>5, <2>6, <3>1 DEF Machine
  <2>8. Queues(moved, R \ {t})
    <3>1. ASSUME NEW u \in Threads, NEW q \in Prios
          PROVE  Holds(moved.ready[q], u) <=> u \in R \ {t} /\ moved.prio[u] = q
      <4>1. Holds(out.ready[q], u) <=> u \in R \ {t} /\ out.prio[u] = q  BY <2>2 DEF Queues
      <4> QED  BY <1>3, <2>2, <2>7, <4>1
    <3> QED  BY <2>2, <2>7, <3>1 DEF Queues
  <2>9. ItsBit(moved, t)  BY <1>3, <2>7 DEF ItsBit
  <2>10. t \notin R \ {t} /\ t # moved.current  BY <2>1, <2>7
  <2>11. /\ Queues(r, (R \ {t}) \cup {t})
         /\ r.stat = [moved.stat EXCEPT ![t] = "READY"]
         /\ r.prio = moved.prio /\ r.mask = moved.mask /\ r.current = moved.current
    <3> DEFINE rest == R \ {t}
    <3>1. Queues(moved, rest) /\ t \notin rest  BY <2>8, <2>10
    <3> HIDE DEF rest
    <3>2. Queues(InsertThread(moved, t), rest \cup {t}) /\ Linked(InsertThread(moved, t), moved, t)
      BY <2>9, <2>10, <3>1, InsertQueues
    <3> HIDE DEF r
    <3>3. Queues(r, rest \cup {t}) /\ Linked(r, moved, t)  BY <2>3, <3>2
    <3> QED  BY <3>3 DEF Linked, rest
  <2>12. (R \ {t}) \cup {t} = R  BY <1>5 DEF R, ReadyThreads
  <2>13. r.stat = s.stat  BY <1>1, <1>5, <2>7, <2>11
  <2> QED  BY <2>7, <2>11, <2>12, <2>13
<1>6. CASE s.stat[t] # "READY"
  <2>1. r = [s EXCEPT !.prio = newPrio, !.mask = newMask]
    BY <1>1, <1>6 DEF SetPriority, r, newPrio, newMask, Machine
  <2>2. /\ r \in Machine /\ r.stat = s.stat /\ r.current = s.current
        /\ r.prio = newPrio /\ r.mask = newMask
        /\ r.ready = s.ready /\ r.group = s.group
    BY <1>1, <1>2, <2>1 DEF Machine
  <2>3. ASSUME NEW u \in Threads, NEW q \in Prios
        PROVE  Holds(r.ready[q], u) <=> u \in R /\ r.prio[u] = q
    <3>1. Holds(s.ready[q], u) <=> u \in R /\ s.prio[u] = q  BY <1>1 DEF Queues
    <3>2. t \notin R  BY <1>6 DEF R, ReadyThreads
    <3>3. Holds(r.ready[q], u) <=> Holds(s.ready[q], u)  BY <2>2
    <3>4. r.prio[u] = IF u = t THEN p ELSE s.prio[u]  BY <1>3, <2>2
    <3> QED  BY <3>1, <3>2, <3>3, <3>4
  <2>4. Queues(r, R)  BY <1>1, <2>2, <2>3 DEF Queues
  <2> QED  BY <2>2, <2>4
<1> QED  BY <1>5, <1>6

\* A new thread is given its mask and the state from which it is woken.
LEMMA StartedSound ==
    ASSUME NEW s, Sound(s), NEW t \in Threads, s.stat[t] = "INIT",
           NEW r, r = [s EXCEPT !.mask[t] = {s.prio[t]}, !.stat[t] = "SUSPEND",
                                !.yield = @ \ {t}]
    PROVE  Sound(r) /\ r.stat[t] = "SUSPEND" /\ r.current = s.current
<1>1. /\ s \in Machine /\ Queues(s, ReadyThreads(s)) /\ Masks(s)
      /\ s.stat \in [Threads -> Stats] /\ s.mask \in [Threads -> SUBSET Prios]
      /\ s.prio[t] \in Prios
  BY DEF Sound, Queues, Machine
<1>2. /\ r \in Machine
      /\ r.stat = [s.stat EXCEPT ![t] = "SUSPEND"]
      /\ r.mask = [s.mask EXCEPT ![t] = {s.prio[t]}]
      /\ r.prio = s.prio /\ r.ready = s.ready /\ r.group = s.group
      /\ r.current = s.current
  <2>1. [s.stat EXCEPT ![t] = "SUSPEND"] \in [Threads -> Stats]  BY <1>1 DEF Stats
  <2>2. [s.mask EXCEPT ![t] = {s.prio[t]}] \in [Threads -> SUBSET Prios]  BY <1>1
  <2>3. s.yield \ {t} \in SUBSET Threads  BY <1>1 DEF Machine
  <2> QED  BY <1>1, <2>1, <2>2, <2>3 DEF Machine
<1>3. \A u \in Threads : /\ r.stat[u] = IF u = t THEN "SUSPEND" ELSE s.stat[u]
                         /\ r.mask[u] = IF u = t THEN {s.prio[t]} ELSE s.mask[u]
  BY <1>1, <1>2
<1>4. Queues(r, ReadyThreads(s))  BY <1>1, <1>2, QueuesKept
<1>5. ReadyThreads(r) = ReadyThreads(s)  BY <1>3 DEF ReadyThreads
<1>6. Masks(r)  BY <1>1, <1>2, <1>3 DEF Masks, ItsBit, AtMostItsBit
<1>7. s.current \in Threads /\ s.current # t /\ Idle # t
  BY <1>1 DEF Sound, Machine
<1>8. \A u \in Threads : r.stat[u] = "RUNNING" => u = r.current
  BY <1>2, <1>3 DEF Sound
<1>9. /\ r.stat[r.current] \notin {"READY", "INIT"}
      /\ r.stat[Idle] \in {"READY", "RUNNING"}
  BY <1>2, <1>3, <1>7 DEF Sound
<1> QED  BY <1>2, <1>3, <1>4, <1>5, <1>6, <1>8, <1>9 DEF Sound

\* A thread is closed.
LEMMA ClosedSound ==
    ASSUME NEW s, Sound(s), NEW t \in Threads, t # Idle
    PROVE  Sound(Closed(s, t)) /\ Closed(s, t).current = s.current
<1> DEFINE R == ReadyThreads(s)
           out == IF s.stat[t] = "INIT" THEN s ELSE RemoveThread(s, t)
           r == Closed(s, t)
<1>1. s \in Machine /\ Queues(s, R) /\ Masks(s) /\ s.stat \in [Threads -> Stats]
  BY DEF Sound, Queues, Machine
<1>2. AtMostItsBit(s, t) /\ (t \in R => ItsBit(s, t))  BY <1>1 DEF Masks, ReadyThreads
<1>3. /\ Queues(out, R \ {t})
      /\ out.stat = s.stat /\ out.prio = s.prio /\ out.mask = s.mask
      /\ out.current = s.current
  <2>1. CASE s.stat[t] = "INIT"
    <3>1. R \ {t} = R  BY <2>1 DEF ReadyThreads
    <3> QED  BY <1>1, <2>1, <3>1
  <2>2. CASE s.stat[t] # "INIT"
    <3>1. out = RemoveThread(s, t)  BY <2>2
    <3> HIDE DEF out, R
    <3> QED  BY <1>1, <1>2, <3>1, RemoveQueues
  <2> QED  BY <2>1, <2>2
<1>4. r = [out EXCEPT !.stat[t] = "CLOSE", !.yield = @ \ {t}]  BY DEF Closed
<1> HIDE DEF out, r
<1>5. out \in Machine  BY <1>3 DEF Queues
<1>6. /\ r \in Machine
      /\ r.stat = [s.stat EXCEPT ![t] = "CLOSE"]
      /\ r.prio = s.prio /\ r.mask = s.mask /\ r.current = s.current
      /\ r.ready = out.ready /\ r.group = out.group
  <2>1. [s.stat EXCEPT ![t] = "CLOSE"] \in [Threads -> Stats]  BY <1>1 DEF Stats
  <2>2. out.yield \ {t} \in SUBSET Threads  BY <1>5 DEF Machine
  <2> QED  BY <1>3, <1>4, <1>5, <2>1, <2>2 DEF Machine
<1>7. Queues(r, R \ {t})
  <2> HIDE DEF R
  <2> QED  BY <1>3, <1>6, QueuesKept
<1>8. Sound(r)  BY <1>6, <1>7, LeaveSound
<1> QED  BY <1>6, <1>8 DEF r

\* A running thread suspends itself.
LEMMA SuspendedSound ==
    ASSUME NEW s, Sound(s), NEW t \in Threads, t # Idle, s.stat[t] = "RUNNING",
           NEW r, r = [RemoveThread(s, t) EXCEPT !.stat[t] = "SUSPEND"]
    PROVE  Sound(r) /\ r.current = s.current
<1> DEFINE R == ReadyThreads(s)
           out == RemoveThread(s, t)
<1>1. s \in Machine /\ Queues(s, R) /\ Masks(s) /\ s.stat \in [Threads -> Stats]
  BY DEF Sound, Queues, Machine
<1>2. AtMostItsBit(s, t) /\ ItsBit(s, t)  BY <1>1 DEF Masks
<1>3. /\ Queues(out, R \ {t})
      /\ out.stat = s.stat /\ out.prio = s.prio /\ out.mask = s.mask
      /\ out.current = s.current
  <2> HIDE DEF R
  <2> QED  BY <1>1, <1>2, RemoveQueues
<1> HIDE DEF out
<1>4. r = [out EXCEPT !.stat[t] = "SUSPEND"]  BY DEF out
<1>5. out \in Machine  BY <1>3 DEF Queues
<1>6. /\ r \in Machine
      /\ r.stat = [s.stat EXCEPT ![t] = "SUSPEND"]
      /\ r.prio = s.prio /\ r.mask = s.mask /\ r.current = s.current
      /\ r.ready = out.ready /\ r.group = out.group
  <2>1. [s.stat EXCEPT ![t] = "SUSPEND"] \in [Threads -> Stats]  BY <1>1 DEF Stats
  <2>2. r = [out EXCEPT !.stat = [s.stat EXCEPT ![t] = "SUSPEND"]]
    BY <1>3, <1>4, <1>5 DEF Machine
  <2> QED  BY <1>3, <1>5, <2>1, <2>2 DEF Machine
<1>7. Queues(r, R \ {t})
  <2> HIDE DEF R
  <2> QED  BY <1>3, <1>6, QueuesKept
<1>8. Sound(r)  BY <1>6, <1>7, LeaveSound
<1> QED  BY <1>6, <1>8

-----------------------------------------------------------------------------
\* The invariant of the specification, and what a step may do.

\* Rescheduled, or not able to or about to.
Settled == Highest(Now) \/ nest # 0 \/ ~Runs

Counters ==
    /\ remaining \in [Threads -> Nat \ {0}]
    /\ nest \in 0..NestMax
    /\ owes \in SUBSET Threads

SchedInv ==
    /\ Sound(Now)
    /\ Counters
    /\ stat[current] = "RUNNING" \/ nest > 0 \/ ~Runs

\* A step other than a change of priority.
Proper ==
    /\ Sound(Now')
    /\ nest > 0 => current' = current
    /\ Settled' \/ (Now' = Now /\ UNCHANGED <<nest, owes>>)

LEMMA Became ==
    ASSUME NEW s, Sound(s), Become(s)
    PROVE  Now' = s /\ stat' = s.stat /\ current' = s.current
<1>1. s \in Machine  BY DEF Sound, Queues
<1>2. /\ stat' = s.stat /\ yield' = s.yield /\ prio' = s.prio /\ mask' = s.mask
      /\ ready' = s.ready /\ group' = s.group /\ current' = s.current
  BY DEF Become
<1>3. Now' = [stat |-> s.stat, yield |-> s.yield, prio |-> s.prio, mask |-> s.mask,
              ready |-> s.ready, group |-> s.group, current |-> s.current]
  BY <1>2 DEF Now
<1> QED  BY <1>1, <1>2, <1>3 DEF Machine

LEMMA NowFields ==
    /\ Now.stat = stat /\ Now.yield = yield /\ Now.prio = prio /\ Now.mask = mask
    /\ Now.ready = ready /\ Now.group = group /\ Now.current = current
  BY DEF Now

\* Steps that end with a call of rt_schedule.
LEMMA Rescheduled ==
    ASSUME NEW s, Sound(s), s.current = current, nest \in Nat,
           Become(Schedule(s, nest)), nest' = nest
    PROVE  Proper
<1> DEFINE r == Schedule(s, nest)
<1>1. Sound(r) /\ (nest # 0 => r = s) /\ (nest = 0 => Highest(r))  BY ScheduleSound
<1> HIDE DEF r
<1>2. Now' = r /\ current' = r.current
  <2>1. Become(r)  BY DEF r
  <2> QED  BY <1>1, <2>1, Became
<1>3. nest > 0 => current' = current  BY <1>1, <1>2
<1>4. Settled'  BY <1>1, <1>2 DEF Settled
<1> QED  BY <1>1, <1>2, <1>3, <1>4 DEF Proper

\* Steps that go on to call it.
LEMMA Deferred ==
    ASSUME NEW s, Sound(s), s.current = current, nest \in Nat,
           Become(s), ThenSchedule, nest' = nest
    PROVE  Proper
<1>1. Now' = s /\ current' = current  BY Became
<1>2. Settled'
  <2>1. CASE nest = 0  BY <1>1, <2>1 DEF ThenSchedule, Settled, Runs
  <2>2. CASE nest # 0  BY <2>2 DEF Settled
  <2> QED  BY <2>1, <2>2
<1> QED  BY <1>1, <1>2 DEF Proper

LEMMA SchedInit == Init => SchedInv
<1> SUFFICES ASSUME Init PROVE SchedInv  OBVIOUS
<1> DEFINE k == InitPrio[Idle]
<1>1. Idle # Main /\ k \in Prios /\ k \in Nat
  BY DEF SchedulerAssumption, Prios
<1>2. \A t \in Threads : /\ stat[t] = IF t = Main THEN "RUNNING"
                                      ELSE IF t = Idle THEN "READY" ELSE "INIT"
                         /\ mask[t] = IF t \in {Main, Idle} THEN {InitPrio[t]} ELSE {}
  BY DEF Init
<1>3. Now \in Machine
  <2>1. stat \in [Threads -> Stats]  BY DEF Init, Stats
  <2>2. InitPrio \in [Threads -> Prios]  BY DEF SchedulerAssumption
  <2>3. mask \in [Threads -> SUBSET Prios]  BY <2>2 DEF Init
  <2>4. ready \in [Prios -> Seq(Threads)]
    <3>1. <<Idle>> \in Seq(Threads) /\ <<>> \in Seq(Threads)
      BY DEF SchedulerAssumption
    <3> QED  BY <3>1 DEF Init
  <2>5. yield \in SUBSET Threads /\ group \in SUBSET Prios /\ current \in Threads
        /\ prio \in [Threads -> Prios]
    BY <1>1, <2>2 DEF Init, SchedulerAssumption
  <2> QED  BY <2>1, <2>3, <2>4, <2>5 DEF Now, Machine
<1>4. ReadyThreads(Now) = {Idle}
  BY <1>1, <1>2, NowFields DEF ReadyThreads, SchedulerAssumption
<1>5. Queues(Now, {Idle})
  <2>1. /\ \A u : Holds(<<>>, u) <=> FALSE
        /\ \A u : Holds(<<Idle>>, u) <=> u = Idle
        /\ Distinct(<<>>) /\ Distinct(<<Idle>>)
    BY DEF Holds, Distinct
  <2>2. \A p \in Prios : ready[p] = IF p = k THEN <<Idle>> ELSE <<>>  BY DEF Init
  <2>3. prio[Idle] = k /\ group = {k}  BY DEF Init
  <2>4. \A t \in Threads, p \in Prios : Holds(ready[p], t) <=> t \in {Idle} /\ prio[t] = p
    BY <2>1, <2>2, <2>3
  <2>5. \A p \in Prios : Distinct(ready[p])  BY <2>1, <2>2
  <2>6. \A p \in Prios : p \in group <=> ready[p] # <<>>
    <3>1. <<Idle>> # <<>>  OBVIOUS
    <3> QED  BY <2>2, <2>3, <3>1
  <2>7. {Idle} \subseteq Threads  BY DEF SchedulerAssumption
  <2> QED  BY <1>3, <2>4, <2>5, <2>6, <2>7, NowFields DEF Queues
<1>6. Masks(Now)
  <2>1. prio = InitPrio  BY DEF Init
  <2> QED  BY <1>2, <2>1, NowFields DEF Masks, ItsBit, AtMostItsBit
<1>7. Sound(Now)
  <2>1. current = Main /\ Main \in Threads /\ Idle \in Threads
    BY DEF Init, SchedulerAssumption
  <2> QED  BY <1>1, <1>2, <1>4, <1>5, <1>6, <2>1, NowFields DEF Sound
<1>8. Counters  BY DEF Init, Counters, SchedulerAssumption
<1>9. stat[current] = "RUNNING"  BY <1>2 DEF Init, SchedulerAssumption
<1> QED  BY <1>7, <1>8, <1>9 DEF SchedInv

-----------------------------------------------------------------------------
\* What the parts of the invariant say of the variables.
LEMMA InvFacts ==
    ASSUME SchedInv
    PROVE  /\ Sound(Now) /\ Now \in Machine /\ nest \in Nat /\ current \in Threads
           /\ Now.current = current /\ Now.stat = stat
           /\ stat \in [Threads -> Stats] /\ owes \in SUBSET Threads
           /\ remaining \in [Threads -> Nat \ {0}]
<1>1. Sound(Now) /\ Now \in Machine  BY DEF SchedInv, Sound, Queues
<1>2. current \in Threads /\ stat \in [Threads -> Stats]
  BY <1>1, NowFields DEF Machine
<1>3. nest \in Nat  BY DEF SchedInv, Counters, SchedulerAssumption
<1> QED  BY <1>1, <1>2, <1>3, NowFields DEF SchedInv, Counters

LEMMA SectionSteps ==
    ASSUME SchedInv,
           \/ EnterCritical \/ ExitCritical \/ CallSchedule \/ SuspendRefused
           \/ Yield \/ Tick
    PROVE  Proper
<1> DEFINE flagged == Flagged(Now, current)
<1>0. /\ Sound(Now) /\ nest \in Nat /\ current \in Threads /\ Now.current = current
  BY InvFacts
<1>1. Sound(flagged) /\ flagged.current = current  BY <1>0, FlagSound
<1> HIDE DEF flagged
<1>2. CASE EnterCritical
  <2>1. Now' = Now /\ current' = current  BY <1>2 DEF EnterCritical, Now
  <2>2. nest' # 0  BY <1>0, <1>2 DEF EnterCritical
  <2> QED  BY <1>0, <2>1, <2>2 DEF Proper, Settled
<1>3. CASE ExitCritical
  <2>1. Now' = Now /\ current' = current  BY <1>3 DEF ExitCritical, Now
  <2>2. nest' # 0 \/ current \in owes'  BY <1>0, <1>3 DEF ExitCritical
  <2> QED  BY <1>0, <2>1, <2>2 DEF Proper, Settled, Runs
<1>4. CASE CallSchedule  BY <1>0, <1>4, Rescheduled DEF CallSchedule
<1>5. CASE SuspendRefused
  <2>1. Now' = Now /\ UNCHANGED <<current, nest, owes>>
    BY <1>5 DEF SuspendRefused, vars, Now
  <2> QED  BY <1>0, <2>1 DEF Proper
<1>6. CASE Yield
  <2>1. Become(Schedule(flagged, nest)) /\ nest' = nest  BY <1>6 DEF Yield, flagged
  <2> QED  BY <1>0, <1>1, <2>1, Rescheduled
<1>7. CASE Tick
  <2>1. CASE Become(Schedule(flagged, nest)) /\ nest' = nest
    BY <1>0, <1>1, <2>1, Rescheduled
  <2>2. CASE Become(Now) /\ UNCHANGED <<nest, owes>>
    <3>1. Now' = Now /\ current' = Now.current  BY <1>0, <2>2, Became
    <3> QED  BY <1>0, <2>2, <3>1 DEF Proper
  <2> QED  BY <1>7, <2>1, <2>2 DEF Tick, flagged
<1> QED  BY <1>2, <1>3, <1>4, <1>5, <1>6, <1>7

LEMMA LeaveSteps ==
    ASSUME SchedInv,
           \/ Block \/ SuspendSelf \/ Exit \/ \E t \in Threads : Delete(t)
    PROVE  Proper
<1>0. /\ Sound(Now) /\ nest \in Nat /\ current \in Threads
      /\ Now.current = current /\ Now.stat = stat
  BY InvFacts
<1>1. ASSUME current # Idle, stat[current] = "RUNNING"
      PROVE  Sound(SuspendedSelf) /\ SuspendedSelf.current = current
  BY <1>0, <1>1, SuspendedSound DEF SuspendedSelf
<1>2. ASSUME NEW t \in Threads, t # Idle
      PROVE  Sound(Closed(Now, t)) /\ Closed(Now, t).current = current
  BY <1>0, <1>2, ClosedSound
<1>3. CASE Block  BY <1>0, <1>1, <1>3, Rescheduled DEF Block
<1>4. CASE SuspendSelf  BY <1>0, <1>1, <1>4, Deferred DEF SuspendSelf
<1>5. CASE Exit  BY <1>0, <1>2, <1>5, Deferred DEF Exit
<1>6. ASSUME NEW t \in Threads, Delete(t) PROVE Proper
  BY <1>0, <1>2, <1>6, Deferred DEF Delete
<1> QED  BY <1>3, <1>4, <1>5, <1>6

LEMMA WakeSteps ==
    ASSUME SchedInv, NEW t \in Threads, Resume(t) \/ Ready(t) \/ Startup(t)
    PROVE  Proper
<1>0. /\ Sound(Now) /\ nest \in Nat /\ current \in Threads
      /\ Now.current = current /\ Now.stat = stat /\ Now.prio = prio
  BY InvFacts, NowFields
<1>1. ASSUME stat[t] = "SUSPEND"
      PROVE  Sound(InsertThread(Now, t)) /\ InsertThread(Now, t).current = current
  BY <1>0, <1>1, WakeSound
<1>2. CASE Resume(t)  BY <1>0, <1>1, <1>2, Rescheduled DEF Resume
<1>3. CASE Ready(t)  BY <1>0, <1>1, <1>3, Deferred DEF Ready
<1>4. CASE Startup(t)
  <2> DEFINE started == [Now EXCEPT !.mask[t] = {prio[t]}, !.stat[t] = "SUSPEND",
                                    !.yield = @ \ {t}]
  <2>1. Sound(started) /\ started.stat[t] = "SUSPEND" /\ started.current = current
    BY <1>0, <1>4, StartedSound DEF Startup
  <2>2. Become(Schedule(InsertThread(started, t), nest)) /\ nest' = nest
    BY <1>4 DEF Startup
  <2> HIDE DEF started
  <2>3. Sound(InsertThread(started, t)) /\ InsertThread(started, t).current = current
    BY <2>1, WakeSound
  <2> QED  BY <1>0, <2>2, <2>3, Rescheduled
<1> QED  BY <1>2, <1>3, <1>4

\* rt_thread_control(RT_THREAD_CTRL_CHANGE_PRIORITY)
LEMMA PriorityStep ==
    ASSUME SchedInv, NEW t \in Threads, NEW p \in Prios, ChangePriority(t, p)
    PROVE  Sound(Now') /\ stat' = stat /\ current' = current /\ UNCHANGED <<nest, owes>>
<1>1. /\ Sound(Now) /\ Now.current = current /\ Now.stat = stat  BY InvFacts
<1>2. /\ Sound(SetPriority(Now, t, p))
      /\ SetPriority(Now, t, p).current = current /\ SetPriority(Now, t, p).stat = stat
  BY <1>1, SetPrioritySound
<1> QED  BY <1>2, Became DEF ChangePriority

\* The counters and slices.
LEMMA CountersStep ==
    ASSUME SchedInv, Next
    PROVE  Counters'
<1>0. /\ current \in Threads /\ nest \in 0..NestMax /\ nest \in Nat /\ NestMax \in Nat
      /\ owes \in SUBSET Threads /\ remaining \in [Threads -> Nat \ {0}]
      /\ Slice \in [Threads -> Nat \ {0}]
  BY InvFacts DEF SchedInv, Counters, SchedulerAssumption
<1>1. CASE EnterCritical  BY <1>0, <1>1 DEF EnterCritical, Counters
<1>2. CASE ExitCritical
  <2>1. owes' \in SUBSET Threads  BY <1>0, <1>2 DEF ExitCritical
  <2>2. nest' \in 0..NestMax  BY <1>0, <1>2 DEF ExitCritical
  <2> QED  BY <1>0, <1>2, <2>1, <2>2 DEF ExitCritical, Counters
<1>3. CASE CallSchedule  BY <1>0, <1>3 DEF CallSchedule, Counters
<1>4. CASE Block  BY <1>0, <1>4 DEF Block, Counters
<1>5. CASE SuspendSelf  BY <1>0, <1>5 DEF SuspendSelf, ThenSchedule, Counters
<1>6. CASE SuspendRefused  BY <1>0, <1>6 DEF SuspendRefused, vars, Counters
<1>7. CASE Yield  BY <1>0, <1>7 DEF Yield, Counters
<1>8. CASE Tick
  <2>1. remaining' \in [Threads -> Nat \ {0}]
    <3>1. CASE remaining[current] > 1
      <4>1. remaining[current] - 1 \in Nat \ {0}  BY <1>0, <3>1
      <4> QED  BY <1>0, <1>8, <3>1, <4>1 DEF Tick
    <3>2. CASE ~(remaining[current] > 1)  BY <1>0, <1>8, <3>2 DEF Tick
    <3> QED  BY <3>1, <3>2
  <2> QED  BY <1>0, <1>8, <2>1 DEF Tick, Counters
<1>9. CASE Exit  BY <1>0, <1>9 DEF Exit, ThenSchedule, Counters
<1>10. ASSUME NEW t \in Threads, Resume(t) \/ Ready(t) \/ Startup(t) \/ Delete(t)
       PROVE  Counters'
  BY <1>0, <1>10 DEF Resume, Ready, Startup, Delete, ThenSchedule, Counters
<1>11. ASSUME NEW t \in Threads, NEW p \in Prios, ChangePriority(t, p) PROVE Counters'
  BY <1>0, <1>11 DEF ChangePriority, Counters
<1> QED
  BY <1>1, <1>2, <1>3, <1>4, <1>5, <1>6, <1>7, <1>8, <1>9, <1>10, <1>11 DEF Next

LEMMA ProperOrPriority ==
    ASSUME SchedInv, Next
    PROVE  Proper \/ \E t \in Threads, p \in Prios : ChangePriority(t, p)
  BY SectionSteps, LeaveSteps, WakeSteps DEF Next

LEMMA SchedStep == SchedInv /\ [Next]_vars => SchedInv'
<1> SUFFICES ASSUME SchedInv, [Next]_vars PROVE SchedInv'  OBVIOUS
<1>1. CASE UNCHANGED vars
  <2>1. Now' = Now  BY <1>1 DEF vars, Now
  <2> QED  BY <1>1, <2>1 DEF vars, SchedInv, Counters, Runs
<1>2. CASE Next
  <2>1. Counters'  BY <1>2, CountersStep
  <2>2. CASE Proper
    <3>1. Sound(Now')  BY <2>2 DEF Proper
    <3>2. (stat[current] = "RUNNING" \/ nest > 0 \/ ~Runs)'
      <4>1. CASE Settled'
        <5>1. nest' # 0 => nest' > 0  BY <2>1 DEF Counters, SchedulerAssumption
        <5>2. Highest(Now') => stat'[current'] = "RUNNING"  BY DEF Highest, Now
        <5> QED  BY <4>1, <5>1, <5>2 DEF Settled
      <4>2. CASE Now' = Now /\ UNCHANGED <<nest, owes>>
        <5>1. stat' = stat /\ current' = current  BY <4>2 DEF Now
        <5> QED  BY <4>2, <5>1 DEF SchedInv, Runs
      <4> QED  BY <2>2, <4>1, <4>2 DEF Proper
    <3> QED  BY <2>1, <3>1, <3>2 DEF SchedInv
  <2>3. ASSUME NEW t \in Threads, NEW p \in Prios, ChangePriority(t, p) PROVE SchedInv'
    <3>1. Sound(Now') /\ stat' = stat /\ current' = current /\ UNCHANGED <<nest, owes>>
      BY <2>3, PriorityStep
    <3> QED  BY <2>1, <3>1 DEF SchedInv, Runs
  <2> QED  BY <1>2, <2>2, <2>3, ProperOrPriority
<1> QED  BY <1>1, <1>2

-----------------------------------------------------------------------------
\* The tables keep their types, and no thread is ever without a time slice.
THEOREM TypeCorrect == Spec => []TypeOK
<1>1. Init => SchedInv  BY SchedInit
<1>2. SchedInv /\ [Next]_vars => SchedInv'  BY SchedStep
<1>3. SchedInv => TypeOK  BY InvFacts DEF SchedInv, Counters, Machine, TypeOK
<1> QED  BY <1>1, <1>2, <1>3, PTL DEF Spec

\* The priority bit map never loses a queue that holds a thread, nor keeps one
\* that is empty, whatever is woken, moved, suspended and closed.
THEOREM GroupMatchesQueuesAlways == Spec => []GroupMatchesQueues
<1>1. Init => SchedInv  BY SchedInit
<1>2. SchedInv /\ [Next]_vars => SchedInv'  BY SchedStep
<1>3. SchedInv => GroupMatchesQueues
  BY NowFields DEF SchedInv, Sound, Queues, GroupMatchesQueues
<1> QED  BY <1>1, <1>2, <1>3, PTL DEF Spec

\* State, priority and place in the queues agree for every thread.
THEOREM ReadyIsQueuedAlways == Spec => []ReadyIsQueued
<1>1. Init => SchedInv  BY SchedInit
<1>2. SchedInv /\ [Next]_vars => SchedInv'  BY SchedStep
<1>3. SchedInv => ReadyIsQueued
  BY NowFields DEF SchedInv, Sound, Queues, ReadyThreads, ReadyIsQueued
<1> QED  BY <1>1, <1>2, <1>3, PTL DEF Spec

\* The processor executes a suspended or closed thread only up to the call of
\* rt_schedule it is about to make or the end of the lock it holds.
THEOREM CurrentCanRunAlways == Spec => []CurrentCanRun
<1>1. Init => SchedInv  BY SchedInit
<1>2. SchedInv /\ [Next]_vars => SchedInv'  BY SchedStep
<1>3. SchedInv => CurrentCanRun
  BY NowFields DEF SchedInv, Sound, CurrentCanRun
<1> QED  BY <1>1, <1>2, <1>3, PTL DEF Spec

\* Bit map, queues, states and the running thread agree.
THEOREM QueuesAgreeAlways == Spec => []QueuesAgree
<1>1. QueuesAgree <=> GroupMatchesQueues /\ ReadyIsQueued /\ CurrentCanRun
  BY DEF QueuesAgree
<1> QED
  BY <1>1, GroupMatchesQueuesAlways, ReadyIsQueuedAlways, CurrentCanRunAlways, PTL

\* No thread, tick or wakeup takes the processor from the lock's holder.
THEOREM LockKeepsProcessorAlways == Spec => LockKeepsProcessor
<1>1. Init => SchedInv  BY SchedInit
<1>2. SchedInv /\ [Next]_vars => SchedInv'  BY SchedStep
<1>3. SchedInv /\ [Next]_vars => [nest > 0 => current' = current]_vars
  BY ProperOrPriority, PriorityStep DEF Proper
<1> QED  BY <1>1, <1>2, <1>3, PTL DEF Spec, LockKeepsProcessor

\* Only rt_thread_control leaves a more urgent ready thread waiting.
THEOREM NoForgottenSwitchAlways == Spec => NoForgottenSwitch
<1>1. Init => SchedInv  BY SchedInit
<1>2. SchedInv /\ [Next]_vars => SchedInv'  BY SchedStep
<1>3. SchedInv /\ [Next]_vars =>
         [HighestRuns => HighestRuns' \/ \E t \in Threads, p \in Prios : ChangePriority(t, p)]_vars
  <2> SUFFICES ASSUME SchedInv, Next, HighestRuns, Proper PROVE HighestRuns'
    BY ProperOrPriority
  <2>1. CASE Settled'  BY <2>1 DEF Settled, HighestRuns, Highest, Now
  <2>2. CASE Now' = Now /\ UNCHANGED <<nest, owes>>
    <3>1. stat' = stat /\ prio' = prio /\ group' = group /\ current' = current
      BY <2>2 DEF Now
    <3> QED  BY <2>2, <3>1 DEF HighestRuns, Runs
  <2> QED  BY <2>1, <2>2 DEF Proper
<1> QED  BY <1>1, <1>2, <1>3, PTL DEF Spec, NoForgottenSwitch

-----------------------------------------------------------------------------
(***************************************************************************)
(* The receiving side: its ring.                                           *)
(***************************************************************************)
\* How far put is after get in a ring of N places.
Span(get, put, N) == IF put >= get THEN put - get ELSE N - (get - put)

LEMMA SpanFacts ==
    ASSUME NEW N \in Nat \ {0}, NEW o \in 0..(N - 1), NEW p \in 0..(N - 1)
    PROVE  /\ Span(o, p, N) \in 0..(N - 1)
           /\ Wrap(o + Span(o, p, N), N) = p
           /\ Span(o, p, N) = 0 <=> o = p
<1>1. /\ Span(o, p, N) \in 0..(N - 1)
      /\ Span(o, p, N) = 0 <=> o = p
      /\ o + Span(o, p, N) = p \/ o + Span(o, p, N) = p + N
  BY DEF Span
<1> DEFINE a == o + Span(o, p, N)
<1>2. a \in 0..(2 * N - 1) /\ (a = p \/ a = p + N)  BY <1>1
<1> HIDE DEF a
<1>3. Wrap(a, N) = IF a < N THEN a ELSE a - N  BY <1>2, WrapFacts
<1>4. Wrap(a, N) = p  BY <1>2, <1>3
<1> QED  BY <1>1, <1>4 DEF a

LEMMA SpanIs ==
    ASSUME NEW N \in Nat \ {0}, NEW o \in 0..(N - 1), NEW n \in 0..(N - 1)
    PROVE  Span(o, Wrap(o + n, N), N) = n
<1> DEFINE a == o + n
<1>1. a \in 0..(2 * N - 1)  OBVIOUS
<1>2. a = o + n  OBVIOUS
<1> HIDE DEF a
<1>3. Wrap(a, N) = IF a < N THEN a ELSE a - N  BY <1>1, WrapFacts
<1>4. Span(o, Wrap(a, N), N) = n  BY <1>2, <1>3 DEF Span
<1> QED  BY <1>4 DEF a

LEMMA FollowingWraps ==
    ASSUME NEW i \in 0..(BufSize - 1)
    PROVE  Following(i) = Wrap(i + 1, BufSize) /\ Following(i) \in 0..(BufSize - 1)
<1>1. BufSize \in Nat \ {0}  BY RxAssumption
<1>2. 0 \in 0..BufSize  BY <1>1
<1>3. Wrap(i + 1, BufSize) = IF i + 1 >= BufSize THEN 0 ELSE i + 1  BY <1>1, <1>2, WrapSteps
<1> QED  BY <1>1, <1>3 DEF Following

\* How many bytes there are: is_full means that there is no more room only in a
\* ring that is filled by DMA.
StoredIn(dma, full, get, put) ==
    IF dma /\ full THEN BufSize ELSE Span(get, put, BufSize)

FlagAgrees(dma, full, get, put) == full => (dma <=> get = put)

LEMMA StoredFacts ==
    ASSUME NEW dma \in BOOLEAN, NEW full \in BOOLEAN,
           NEW get \in 0..(BufSize - 1), NEW put \in 0..(BufSize - 1),
           FlagAgrees(dma, full, get, put),
           NEW n, n = StoredIn(dma, full, get, put)
    PROVE  /\ n \in 0..(IF dma THEN BufSize ELSE BufSize - 1)
           /\ Wrap(get + n, BufSize) = put
           /\ n = 0 <=> get = put /\ ~full
           /\ dma /\ n = BufSize => full
<1>1. BufSize \in Nat \ {0}  BY RxAssumption
<1>2. /\ Span(get, put, BufSize) \in 0..(BufSize - 1)
      /\ Wrap(get + Span(get, put, BufSize), BufSize) = put
      /\ Span(get, put, BufSize) = 0 <=> get = put
  BY <1>1, SpanFacts
<1>3. CASE dma /\ full
  <2>1. n = BufSize /\ get = put  BY <1>3 DEF StoredIn, FlagAgrees
  <2>2. Wrap(get + BufSize, BufSize) = get
    <3> DEFINE a == get + BufSize
    <3>1. a \in 0..(2 * BufSize - 1) /\ a = get + BufSize  BY <1>1
    <3> HIDE DEF a
    <3>2. Wrap(a, BufSize) = IF a < BufSize THEN a ELSE a - BufSize  BY <1>1, <3>1, WrapFacts
    <3>3. Wrap(a, BufSize) = get  BY <1>1, <3>1, <3>2
    <3> QED  BY <3>3 DEF a
  <2>3. n \in 0..BufSize /\ n # 0  BY <1>1, <2>1
  <2>4. dma /\ full  BY <1>3
  <2>5. n \in 0..(IF dma THEN BufSize ELSE BufSize - 1)  BY <2>3, <2>4
  <2> QED  BY <2>1, <2>2, <2>3, <2>4, <2>5
<1>4. CASE ~(dma /\ full)
  <2>1. n = Span(get, put, BufSize)  BY <1>4 DEF StoredIn
  <2> QED  BY <1>1, <1>2, <1>4, <2>1 DEF FlagAgrees
<1> QED  BY <1>3, <1>4

\* The state of the receiving side.
RxShape ==
    /\ RxTypeOK
    /\ FlagAgrees(dmaRx, isFull, getIndex, putIndex)
    /\ inIsr => ~dmaRx
    /\ byBlocks => dmaRx
    /\ reader # "opening" => indicates

Stored == StoredIn(dmaRx, isFull, getIndex, putIndex)

LEMMA RingFacts ==
    ASSUME RxShape
    PROVE  /\ IsRing(Bytes, BufSize, buffer, getIndex, Stored)
           /\ Wrap(getIndex + Stored, BufSize) = putIndex
           /\ Stored = 0 <=> RingEmpty
           /\ Stored \in 0..Capacity
           /\ dmaRx => Stored = ReceivedLen
           /\ ~dmaRx => Stored = RxLength
           /\ Unread = RingOf(buffer, getIndex, Stored, BufSize)
<1>1. BufSize \in Nat \ {0}  BY RxAssumption
<1>2. /\ dmaRx \in BOOLEAN /\ isFull \in BOOLEAN
      /\ getIndex \in 0..(BufSize - 1) /\ putIndex \in 0..(BufSize - 1)
      /\ buffer \in [0..(BufSize - 1) -> Bytes]
      /\ FlagAgrees(dmaRx, isFull, getIndex, putIndex)
  BY DEF RxShape, RxTypeOK
<1> DEFINE n == Stored
<1>3. n = StoredIn(dmaRx, isFull, getIndex, putIndex)  BY DEF Stored
<1> HIDE DEF n
<1>4. /\ n \in 0..(IF dmaRx THEN BufSize ELSE BufSize - 1)
      /\ Wrap(getIndex + n, BufSize) = putIndex
      /\ n = 0 <=> getIndex = putIndex /\ ~isFull
      /\ dmaRx /\ n = BufSize => isFull
  BY <1>2, <1>3, StoredFacts
<1>5. n \in 0..Capacity /\ n \in 0..BufSize  BY <1>1, <1>4 DEF Capacity
<1>6. dmaRx => n = ReceivedLen
  BY <1>1, <1>2, <1>3 DEF StoredIn, Span, ReceivedLen, FlagAgrees
<1>7. ~dmaRx => n = RxLength  BY <1>1, <1>2, <1>3 DEF StoredIn, Span, RxLength
<1>8. Unread = RingOf(buffer, getIndex, n, BufSize)
  <2>1. Unread = [i \in 1..n |-> buffer[(getIndex + i - 1) % BufSize]]
    BY <1>6, <1>7 DEF Unread
  <2> QED  BY <2>1 DEF RingOf, Wrap
<1>9. IsRing(Bytes, BufSize, buffer, getIndex, n)  BY <1>1, <1>2, <1>5 DEF IsRing
<1>10. n = 0 <=> RingEmpty  BY <1>4 DEF RingEmpty
<1> QED  BY <1>4, <1>5, <1>6, <1>7, <1>8, <1>9, <1>10 DEF n

\* And after a step.
LEMMA RingFactsNext ==
    ASSUME RxShape'
    PROVE  /\ Unread' = RingOf(buffer', getIndex', Stored', BufSize)
           /\ Stored' = 0 <=> RingEmpty'
<1>1. BufSize \in Nat \ {0}  BY RxAssumption
<1>2. /\ dmaRx' \in BOOLEAN /\ isFull' \in BOOLEAN
      /\ getIndex' \in 0..(BufSize - 1) /\ putIndex' \in 0..(BufSize - 1)
      /\ FlagAgrees(dmaRx', isFull', getIndex', putIndex')
  BY DEF RxShape, RxTypeOK
<1> DEFINE n == Stored'
<1>3. n = StoredIn(dmaRx', isFull', getIndex', putIndex')  BY DEF Stored
<1> HIDE DEF n
<1>4. n = 0 <=> getIndex' = putIndex' /\ ~isFull'  BY <1>2, <1>3, StoredFacts
<1>6. ASSUME dmaRx' PROVE n = ReceivedLen'
  <2>1. CASE isFull'  BY <1>1, <1>2, <1>3, <1>6, <2>1 DEF StoredIn, ReceivedLen, FlagAgrees
  <2>2. CASE ~isFull'
    <3>1. n = Span(getIndex', putIndex', BufSize)  BY <1>3, <2>2 DEF StoredIn
    <3>2. CASE getIndex' = putIndex'
      <4>1. n = 0  BY <1>1, <1>2, <3>1, <3>2, SpanFacts
      <4>2. ReceivedLen' = 0  BY <2>2, <3>2 DEF ReceivedLen
      <4> QED  BY <4>1, <4>2
    <3>3. CASE getIndex' # putIndex'  BY <1>2, <3>1, <3>3 DEF Span, ReceivedLen
    <3> QED  BY <3>2, <3>3
  <2> QED  BY <2>1, <2>2
<1>7. ~dmaRx' => n = RxLength'  BY <1>1, <1>2, <1>3 DEF StoredIn, Span, RxLength
<1>8. Unread' = RingOf(buffer', getIndex', n, BufSize)
  <2>1. Unread' = [i \in 1..n |-> buffer'[(getIndex' + i - 1) % BufSize]]
    BY <1>6, <1>7 DEF Unread
  <2> QED  BY <2>1 DEF RingOf, Wrap
<1>10. n = 0 <=> RingEmpty'  BY <1>4 DEF RingEmpty
<1> QED  BY <1>8, <1>10 DEF n

-----------------------------------------------------------------------------
(***************************************************************************)
(* The receiving side: its steps.                                          *)
(***************************************************************************)
LEMMA ByteStep ==
    ASSUME RxShape, NEW b \in Bytes, ReceiveByte(b)
    PROVE  /\ RxShape'
           /\ Line!Receive(<<b>>) /\ UNCHANGED Capacity
<1>1. BufSize \in Nat \ {0} /\ BufSize > 1  BY RxAssumption
<1>2. /\ IsRing(Bytes, BufSize, buffer, getIndex, Stored)
      /\ Wrap(getIndex + Stored, BufSize) = putIndex
      /\ Unread = RingOf(buffer, getIndex, Stored, BufSize)
      /\ ~dmaRx => Stored = Span(getIndex, putIndex, BufSize)
  BY RingFacts DEF Stored, StoredIn
<1>3. /\ ~dmaRx /\ dmaRx' = dmaRx
      /\ buffer' = Store(buffer, putIndex, b)
      /\ putIndex' = Following(putIndex)
      /\ putIndex' # getIndex => UNCHANGED <<getIndex, isFull>>
      /\ putIndex' = getIndex => getIndex' = Following(getIndex) /\ isFull' = TRUE
      /\ inIsr' = TRUE /\ UNCHANGED <<modeVars, indicates, wakeFlag, readerVars>>
  BY DEF ReceiveByte, modeVars, Store
<1>4. /\ getIndex \in 0..(BufSize - 1) /\ putIndex \in 0..(BufSize - 1)
      /\ buffer \in [0..(BufSize - 1) -> Bytes]
  BY DEF RxShape, RxTypeOK
<1> DEFINE n == Stored
<1>5. n = Span(getIndex, putIndex, BufSize) /\ n \in 0..(BufSize - 1) /\ n \in 0..BufSize
  <2>1. n = Span(getIndex, putIndex, BufSize)  BY <1>2, <1>3
  <2>2. Span(getIndex, putIndex, BufSize) \in 0..(BufSize - 1)  BY <1>1, <1>4, SpanFacts
  <2> HIDE DEF n
  <2>3. n \in 0..(BufSize - 1)  BY <2>1, <2>2
  <2>4. n \in 0..BufSize  BY <1>1, <2>3
  <2> QED  BY <2>1, <2>3, <2>4
<1>6. /\ putIndex' = Wrap(getIndex + (n + 1), BufSize) /\ putIndex' \in 0..(BufSize - 1)
      /\ putIndex' = Wrap(putIndex + 1, BufSize)
  <2>1. Wrap(getIndex + (n + 1), BufSize) = Wrap(Wrap(getIndex + n, BufSize) + 1, BufSize)
    BY <1>1, <1>4, <1>5, WrapSteps
  <2>2. Wrap(getIndex + n, BufSize) = putIndex  BY <1>2
  <2> QED  BY <1>3, <1>4, <2>1, <2>2, FollowingWraps
<1>7. RingOf(buffer', getIndex, n + 1, BufSize) = Append(Unread, b)
  <2>1. n # BufSize /\ Wrap(getIndex + n, BufSize) = putIndex  BY <1>1, <1>2, <1>5
  <2>2. RingOf(Store(buffer, Wrap(getIndex + n, BufSize), b), getIndex, n + 1, BufSize)
           = Append(RingOf(buffer, getIndex, n, BufSize), b)
    BY <1>2, <2>1, RingPut
  <2> QED  BY <1>2, <1>3, <2>1, <2>2
<1>8. buffer' \in [0..(BufSize - 1) -> Bytes]  BY <1>3, <1>4 DEF Store
<1>9. /\ Unread \in Seq(Bytes) /\ Len(Unread) = n
  <2>1. RingElements(Bytes, BufSize, buffer, getIndex, Stored)  BY <1>2, RingIsSeq
  <2> QED  BY <1>2, <2>1 DEF RingElements
<1> HIDE DEF n
<1>10. Capacity = BufSize - 1 /\ Capacity' = Capacity  BY <1>3 DEF Capacity
<1> DEFINE all == Unread \o <<b>>
           over == IF Len(all) > Capacity THEN Len(all) - Capacity ELSE 0
<1>11. all = Append(Unread, b) /\ all \in Seq(Bytes) /\ Len(all) = n + 1
  <2>1. <<b>> \in Seq(Bytes)  OBVIOUS
  <2> QED  BY <1>5, <1>9, <2>1
<1> HIDE DEF all
<1>12. CASE putIndex' # getIndex
  <2>1. n # BufSize - 1
    <3>1. CASE n = BufSize - 1
      <4>1. n + 1 = BufSize  BY <1>1, <3>1
      <4>2. Wrap(getIndex + BufSize, BufSize) = getIndex
        <5> DEFINE a == getIndex + BufSize
        <5>1. a \in 0..(2 * BufSize - 1) /\ a = getIndex + BufSize  BY <1>1, <1>4
        <5> HIDE DEF a
        <5>2. Wrap(a, BufSize) = IF a < BufSize THEN a ELSE a - BufSize  BY <1>1, <5>1, WrapFacts
        <5>3. Wrap(a, BufSize) = getIndex  BY <1>1, <1>4, <5>1, <5>2
        <5> QED  BY <5>3 DEF a
      <4> QED  BY <1>6, <1>12, <4>1, <4>2
    <3> QED  BY <3>1
  <2>2. n + 1 \in 0..(BufSize - 1)  BY <1>1, <1>5, <2>1
  <2>3. getIndex' = getIndex /\ isFull' = isFull  BY <1>3, <1>12
  <2>4. RxShape'
    <3>1. FlagAgrees(dmaRx', isFull', getIndex', putIndex')
      BY <1>3, <1>12, <2>3 DEF FlagAgrees
    <3> QED  BY <1>3, <1>4, <1>6, <1>8, <2>3, <3>1 DEF RxShape, RxTypeOK, modeVars, readerVars
  <2>5. Stored' = n + 1
    <3>1. Stored' = Span(getIndex, putIndex', BufSize)  BY <1>3, <2>3 DEF Stored, StoredIn
    <3> QED  BY <1>1, <1>4, <1>6, <2>2, <3>1, SpanIs
  <2>6. Unread' = all  BY <1>7, <1>11, <2>3, <2>4, <2>5, RingFactsNext
  <2>7. over = 0  BY <1>1, <1>5, <1>10, <1>11, <2>1
  <2>8. SubSeq(all, over + 1, Len(all)) = all
    <3>1. over + 1 = 1  BY <2>7
    <3> QED  BY <1>11, <3>1, SubSeqFull
  <2> QED  BY <1>10, <2>4, <2>6, <2>8 DEF Line!Receive, all
<1>13. CASE putIndex' = getIndex
  <2>1. n = BufSize - 1
    <3>1. CASE n # BufSize - 1
      <4>1. n + 1 \in 0..(BufSize - 1)  BY <1>1, <1>5, <3>1
      <4>2. Span(getIndex, putIndex', BufSize) = n + 1  BY <1>1, <1>4, <1>6, <4>1, SpanIs
      <4>3. Span(getIndex, getIndex, BufSize) = 0  BY <1>1, <1>4, SpanFacts
      <4> QED  BY <1>5, <1>13, <4>2, <4>3
    <3> QED  BY <3>1
  <2>2. getIndex' = Wrap(getIndex + 1, BufSize) /\ getIndex' \in 0..(BufSize - 1) /\ isFull' = TRUE
    BY <1>3, <1>4, <1>13, FollowingWraps
  <2>3. getIndex' # putIndex'
    BY <1>1, <1>3, <1>4, <1>13 DEF Following
  <2>4. RxShape'
    <3>1. FlagAgrees(dmaRx', isFull', getIndex', putIndex')
      BY <1>3, <2>3 DEF FlagAgrees
    <3>2. RxTypeOK'
      BY <1>3, <1>6, <1>8, <2>2 DEF RxShape, RxTypeOK, modeVars, readerVars
    <3> QED  BY <1>3, <3>1, <3>2 DEF RxShape, modeVars, readerVars
  <2>5. Stored' = BufSize - 1
    <3>1. Stored' = Span(getIndex', putIndex', BufSize)  BY <1>3 DEF Stored, StoredIn
    <3>2. Span(getIndex', getIndex, BufSize) = BufSize - 1
      BY <1>1, <1>3, <1>4, <1>13 DEF Span, Following
    <3> QED  BY <1>13, <3>1, <3>2
  <2>6. Unread' = Tail(all)
    <3>1. IsRing(Bytes, BufSize, buffer', getIndex, BufSize) /\ BufSize # 0
      BY <1>1, <1>4, <1>8 DEF IsRing
    <3>2. RingOf(buffer', Wrap(getIndex + 1, BufSize), BufSize - 1, BufSize)
             = Tail(RingOf(buffer', getIndex, BufSize, BufSize))
      BY <3>1, RingGet
    <3>3. n + 1 = BufSize  BY <2>1, <1>1
    <3> QED  BY <1>7, <1>11, <2>2, <2>4, <2>5, <3>2, <3>3, RingFactsNext
  <2>7. over = 1  BY <1>1, <1>5, <1>10, <1>11, <2>1
  <2>8. SubSeq(all, over + 1, Len(all)) = Tail(all)
    <3>1. over + 1 = 2  BY <2>7
    <3> QED  BY <1>11, <3>1
  <2> QED  BY <1>10, <2>4, <2>6, <2>8 DEF Line!Receive, all
<1> QED  BY <1>12, <1>13

LEMMA BlockStep ==
    ASSUME RxShape, NEW k \in 1..BufSize, NEW bs \in [1..k -> Bytes], ReceiveBlock(bs)
    PROVE  /\ RxShape'
           /\ Line!Receive(bs) /\ UNCHANGED Capacity
<1>1. BufSize \in Nat \ {0} /\ BufSize > 1 /\ k \in 1..BufSize  BY RxAssumption
<1>2. /\ IsRing(Bytes, BufSize, buffer, getIndex, Stored)
      /\ Wrap(getIndex + Stored, BufSize) = putIndex
      /\ Unread = RingOf(buffer, getIndex, Stored, BufSize)
      /\ Stored = StoredIn(dmaRx, isFull, getIndex, putIndex)
  BY RingFacts DEF Stored
<1>3. bs \in Seq(Bytes) /\ Len(bs) = k
  <2>1. bs \in Seq(Bytes)  BY SeqDef
  <2> QED  BY <2>1, LenProperties
<1>4. /\ getIndex \in 0..(BufSize - 1) /\ putIndex \in 0..(BufSize - 1)
      /\ buffer \in [0..(BufSize - 1) -> Bytes]
      /\ isFull \in BOOLEAN /\ dmaRx \in BOOLEAN
      /\ FlagAgrees(dmaRx, isFull, getIndex, putIndex)
  BY DEF RxShape, RxTypeOK
<1> DEFINE r == PutIndexAfter(k)
           n == Stored
           over == Surplus(n, k, BufSize)
<1>5. /\ dmaRx /\ dmaRx' = dmaRx
      /\ buffer' = Written(buffer, putIndex, bs, k, BufSize)
      /\ putIndex' = r.put /\ isFull' = r.full
      /\ getIndex' = IF r.full THEN r.put ELSE getIndex
      /\ Indicates
      /\ UNCHANGED <<modeVars, inIsr, indicates, left, got>>
  BY <1>3, <1>4 DEF ReceiveBlock, modeVars, Written, Wrap
<1>6. n \in 0..BufSize /\ (n = BufSize <=> isFull)
      /\ (~isFull => n = Span(getIndex, putIndex, BufSize))
      /\ (isFull => getIndex = putIndex)
  <2>1. CASE isFull  BY <1>1, <1>2, <1>4, <1>5, <2>1 DEF StoredIn, FlagAgrees
  <2>2. CASE ~isFull
    <3>1. n = Span(getIndex, putIndex, BufSize)  BY <1>2, <2>2 DEF StoredIn
    <3>2. n \in 0..(BufSize - 1)  BY <1>1, <1>4, <3>1, SpanFacts
    <3> HIDE DEF n
    <3> QED  BY <1>1, <2>2, <3>1, <3>2
  <2> QED  BY <2>1, <2>2
<1> HIDE DEF n
\* Where the block ends.
<1> DEFINE p == putIndex + k
           w == Wrap(p, BufSize)
<1>7. /\ p \in 0..(2 * BufSize - 1) /\ p = putIndex + k
      /\ w = (IF p < BufSize THEN p ELSE p - BufSize) /\ w \in 0..(BufSize - 1)
  <2>1. p \in 0..(2 * BufSize - 1)  BY <1>1, <1>4
  <2> HIDE DEF p
  <2>2. w = (IF p < BufSize THEN p ELSE p - BufSize) /\ w \in 0..(BufSize - 1)
    BY <1>1, <2>1, WrapFacts
  <2> QED  BY <2>1, <2>2 DEF p
<1>8. /\ r.put = w
      /\ r.full = (isFull \/ IF getIndex <= putIndex THEN p >= BufSize /\ w >= getIndex
                              ELSE p >= getIndex)
  BY DEF PutIndexAfter, Wrap
<1> HIDE DEF r, p, w
<1>9. r.full <=> n + k >= BufSize
  <2>1. CASE isFull
    <3>1. r.full  BY <1>8, <2>1
    <3>2. n = BufSize  BY <1>6, <2>1
    <3> QED  BY <1>1, <3>1, <3>2
  <2>2. CASE ~isFull /\ getIndex <= putIndex
    <3>1. n = putIndex - getIndex  BY <1>1, <1>4, <1>6, <2>2 DEF Span
    <3>2. n + k >= BufSize <=> p >= BufSize /\ w >= getIndex
      BY <1>1, <1>4, <1>7, <2>2, <3>1
    <3> QED  BY <1>8, <2>2, <3>2
  <2>3. CASE ~isFull /\ ~(getIndex <= putIndex)
    <3>1. n = BufSize - (getIndex - putIndex)  BY <1>1, <1>4, <1>6, <2>3 DEF Span
    <3>2. n + k >= BufSize <=> p >= getIndex  BY <1>1, <1>4, <1>7, <2>3, <3>1
    <3> QED  BY <1>8, <2>3, <3>2
  <2> QED  BY <2>1, <2>2, <2>3
<1>10. r.full \in BOOLEAN  BY <1>4, <1>8
\* The ring then.
<1>11. /\ over \in 0..n /\ n + k - over \in 0..BufSize
       /\ n + k < BufSize => over = 0
       /\ n + k >= BufSize => over = n + k - BufSize
  BY <1>1, <1>6 DEF Surplus
<1> DEFINE g == Written(buffer, putIndex, bs, k, BufSize)
           h == Wrap(getIndex + over, BufSize)
<1>12. /\ IsRing(Bytes, BufSize, g, h, n + k - over)
       /\ RingOf(g, h, n + k - over, BufSize) = SubSeq(Unread \o bs, over + 1, n + k)
  <2>1. IsRing(Bytes, BufSize, buffer, getIndex, n)  BY <1>2 DEF n
  <2>2. putIndex = Wrap(getIndex + n, BufSize)  BY <1>2 DEF n
  <2>3. Unread = RingOf(buffer, getIndex, n, BufSize)  BY <1>2 DEF n
  <2> HIDE DEF over
  <2>4. PutsMany(Bytes, BufSize, buffer, getIndex, n, k, bs)  BY <2>1, RingPutMany
  <2> QED  BY <2>2, <2>3, <2>4 DEF PutsMany, over
<1> HIDE DEF over
<1>13. h = (IF getIndex + over < BufSize THEN getIndex + over ELSE getIndex + over - BufSize)
       /\ h \in 0..(BufSize - 1)
  <2> DEFINE a == getIndex + over
  <2>1. a \in 0..(2 * BufSize - 1) /\ h = Wrap(a, BufSize)  BY <1>1, <1>4, <1>6, <1>11
  <2> HIDE DEF a, h
  <2>2. h = (IF a < BufSize THEN a ELSE a - BufSize) /\ h \in 0..(BufSize - 1)
    BY <1>1, <2>1, WrapFacts
  <2> QED  BY <1>1, <1>4, <1>6, <1>11, <2>2 DEF a
<1> HIDE DEF h
<1>14. getIndex' = h
  <2>1. CASE r.full
    <3>1. over = n + k - BufSize /\ getIndex' = w  BY <1>5, <1>8, <1>9, <1>11, <2>1
    <3>2. n = IF getIndex <= putIndex /\ ~isFull THEN putIndex - getIndex
              ELSE BufSize - (getIndex - putIndex)
      BY <1>1, <1>4, <1>6 DEF Span
    <3>3. w = h
      <4>1. CASE n = putIndex - getIndex  BY <1>1, <1>4, <1>6, <1>7, <1>13, <3>1, <4>1
      <4>2. CASE n = BufSize - (getIndex - putIndex)
        BY <1>1, <1>4, <1>6, <1>7, <1>13, <3>1, <4>2
      <4> QED  BY <3>2, <4>1, <4>2
    <3> QED  BY <3>1, <3>3
  <2>2. CASE ~r.full
    <3>1. over = 0 /\ getIndex' = getIndex  BY <1>1, <1>5, <1>6, <1>9, <1>11, <2>2
    <3> QED  BY <1>1, <1>4, <1>13, <3>1
  <2> QED  BY <2>1, <2>2
<1>15. Stored' = n + k - over
  <2>1. Stored' = StoredIn(dmaRx', isFull', getIndex', putIndex')  BY DEF Stored
  <2>2. CASE r.full
    <3>1. Stored' = BufSize  BY <1>5, <2>1, <2>2 DEF StoredIn
    <3> QED  BY <1>1, <1>6, <1>9, <1>11, <2>2, <3>1
  <2>3. CASE ~r.full
    <3>1. over = 0 /\ getIndex' = getIndex /\ putIndex' = w /\ n + k < BufSize
      BY <1>1, <1>5, <1>6, <1>8, <1>9, <1>11, <2>3
    <3>2. Stored' = Span(getIndex, w, BufSize)  BY <1>5, <2>1, <2>3, <3>1 DEF StoredIn
    <3>3. ~isFull /\ n = Span(getIndex, putIndex, BufSize)  BY <1>1, <1>6, <3>1
    <3>4. Span(getIndex, w, BufSize) = n + k
      BY <1>1, <1>4, <1>6, <1>7, <3>1, <3>3 DEF Span
    <3> QED  BY <1>6, <3>1, <3>2, <3>4
  <2> QED  BY <2>2, <2>3
<1>16. RxShape'
  <2>1. g \in [0..(BufSize - 1) -> Bytes]  BY <1>12 DEF IsRing
  <2>2. getIndex' \in 0..(BufSize - 1) /\ putIndex' \in 0..(BufSize - 1) /\ isFull' \in BOOLEAN
    BY <1>5, <1>7, <1>8, <1>10, <1>13, <1>14
  <2>3. FlagAgrees(dmaRx', isFull', getIndex', putIndex')  BY <1>5 DEF FlagAgrees
  <2>4. /\ wakeFlag' \in BOOLEAN
        /\ reader' \in {"opening", "reading", "empty", "asleep", "woken"}
        /\ reader' # "opening" => reader # "opening"
    BY <1>5 DEF Indicates, RxShape, RxTypeOK
  <2>5. RxTypeOK'  BY <1>5, <2>1, <2>2, <2>4 DEF RxShape, RxTypeOK, modeVars
  <2>6. inIsr' => ~dmaRx'  BY <1>5 DEF RxShape
  <2>7. byBlocks' => dmaRx'  BY <1>5
  <2>8. reader' # "opening" => indicates'  BY <1>5, <2>4 DEF RxShape
  <2> QED  BY <2>3, <2>5, <2>6, <2>7, <2>8 DEF RxShape
<1>17. Unread' = SubSeq(Unread \o bs, over + 1, n + k)
  <2>1. Unread' = RingOf(buffer', getIndex', Stored', BufSize)  BY <1>16, RingFactsNext
  <2> QED  BY <1>5, <1>12, <1>14, <1>15, <2>1
<1>18. Len(Unread \o bs) = n + k
  <2>1. RingElements(Bytes, BufSize, buffer, getIndex, Stored)  BY <1>2, RingIsSeq
  <2>2. Unread \in Seq(Bytes) /\ Len(Unread) = n  BY <1>2, <2>1 DEF RingElements, n
  <2> QED  BY <1>3, <2>2, ConcatProperties
<1>19. Capacity = BufSize /\ Capacity' = BufSize  BY <1>5 DEF Capacity
<1>20. over = IF n + k > BufSize THEN n + k - BufSize ELSE 0  BY DEF over, Surplus
<1>21. Line!Receive(bs)
  <2>1. Unread' = SubSeq(Unread \o bs, over + 1, Len(Unread \o bs))  BY <1>17, <1>18
  <2>2. over = IF Len(Unread \o bs) > Capacity THEN Len(Unread \o bs) - Capacity ELSE 0
    BY <1>1, <1>6, <1>18, <1>19, <1>20
  <2> QED  BY <2>1, <2>2 DEF Line!Receive
<1> QED  BY <1>16, <1>19, <1>21

\* Reading: bytes leave the ring at its front.
LEMMA ReadStep ==
    ASSUME RxShape, RxShape', UNCHANGED <<dmaRx, buffer, putIndex>>,
           NEW m \in 1..Stored, getIndex' = Wrap(getIndex + m, BufSize), isFull' = FALSE
    PROVE  /\ m \in 1..Len(Unread) /\ Line!Read(m) /\ UNCHANGED Capacity
           /\ Unread' # Unread
<1>1. BufSize \in Nat \ {0} /\ BufSize > 1  BY RxAssumption
<1>2. /\ IsRing(Bytes, BufSize, buffer, getIndex, Stored)
      /\ Wrap(getIndex + Stored, BufSize) = putIndex
      /\ Unread = RingOf(buffer, getIndex, Stored, BufSize)
      /\ Stored \in 0..Capacity
  BY RingFacts
<1>3. Unread \in Seq(Bytes) /\ Len(Unread) = Stored
  <2>1. RingElements(Bytes, BufSize, buffer, getIndex, Stored)  BY <1>2, RingIsSeq
  <2> QED  BY <1>2, <2>1 DEF RingElements
<1>4. getIndex \in 0..(BufSize - 1) /\ getIndex' \in 0..(BufSize - 1)
  BY DEF RxShape, RxTypeOK
<1> DEFINE n == Stored
<1>5. n \in 0..BufSize /\ m \in 1..n  BY <1>2 DEF IsRing
<1> HIDE DEF n
<1>6. Wrap(getIndex' + (n - m), BufSize) = putIndex
  <2> DEFINE a == getIndex + n
             b == getIndex + m
  <2>1. a \in 0..(2 * BufSize - 1) /\ a = getIndex + n  BY <1>1, <1>4, <1>5
  <2>2. b \in 0..(2 * BufSize - 1) /\ b = getIndex + m  BY <1>1, <1>4, <1>5
  <2>3. Wrap(a, BufSize) = putIndex /\ Wrap(b, BufSize) = getIndex'  BY <1>2 DEF n
  <2> HIDE DEF a, b
  <2>4. putIndex = IF a < BufSize THEN a ELSE a - BufSize  BY <1>1, <2>1, <2>3, WrapFacts
  <2>5. getIndex' = IF b < BufSize THEN b ELSE b - BufSize  BY <1>1, <2>2, <2>3, WrapFacts
  <2> DEFINE c == getIndex' + (n - m)
  <2>6. c \in 0..(2 * BufSize - 1) /\ c = getIndex' + (n - m)  BY <1>1, <1>4, <1>5
  <2> HIDE DEF c
  <2>7. Wrap(c, BufSize) = IF c < BufSize THEN c ELSE c - BufSize  BY <1>1, <2>6, WrapFacts
  <2>8. Wrap(c, BufSize) = putIndex
    BY <1>1, <1>4, <1>5, <2>1, <2>2, <2>4, <2>5, <2>6, <2>7
  <2> QED  BY <2>8 DEF c
<1>7. Stored' = n - m
  <2>1. Stored' = Span(getIndex', putIndex, BufSize)  BY DEF Stored, StoredIn
  <2>2. n - m \in 0..(BufSize - 1)  BY <1>1, <1>5
  <2> QED  BY <1>1, <1>4, <1>6, <2>1, <2>2, SpanIs
<1>8. Unread' = SubSeq(Unread, m + 1, n)
  <2>1. Unread' = RingOf(buffer, getIndex', n - m, BufSize)  BY <1>7, RingFactsNext
  <2>2. IsRing(Bytes, BufSize, buffer, getIndex, n) /\ m \in 0..n  BY <1>2, <1>5 DEF n
  <2>3. RingOf(buffer, Wrap(getIndex + m, BufSize), n - m, BufSize)
           = SubSeq(RingOf(buffer, getIndex, n, BufSize), m + 1, n)
    BY <2>2, RingDrop
  <2> QED  BY <1>2, <2>1, <2>3 DEF n
<1>9. Unread' # Unread
  <2>1. RingElements(Bytes, BufSize, buffer, getIndex', n - m)
    <3>1. IsRing(Bytes, BufSize, buffer, getIndex', n - m)
      BY <1>1, <1>2, <1>4, <1>5 DEF IsRing
    <3> QED  BY <3>1, RingIsSeq
  <2>2. Unread' = RingOf(buffer, getIndex', n - m, BufSize)  BY <1>7, RingFactsNext
  <2>3. Len(Unread') = n - m  BY <2>1, <2>2 DEF RingElements
  <2>4. n - m # n  BY <1>5
  <2> QED  BY <1>3, <2>3, <2>4 DEF n
<1> QED  BY <1>3, <1>5, <1>8, <1>9 DEF Line!Read, Capacity, n

LEMMA ReadByteStep ==
    ASSUME RxShape, ReadByte
    PROVE  /\ RxShape'
           /\ 1 \in 1..Len(Unread) /\ Line!Read(1) /\ UNCHANGED Capacity /\ Unread' # Unread
<1>1. /\ ~RingEmpty /\ ~inIsr /\ reader = "reading" /\ ~byBlocks
      /\ getIndex' = Following(getIndex) /\ isFull' = FALSE
      /\ UNCHANGED <<modeVars, buffer, putIndex, inIsr, indicates, wakeFlag, reader>>
  BY DEF ReadByte, ReadReturns, Reader
<1>2. left' \in Nat \ {0} /\ got' \in BOOLEAN
  <2>1. CASE left = 1  BY <2>1, RxAssumption DEF ReadByte, ReadReturns
  <2>2. CASE left # 1
    <3>1. left \in Nat \ {0} /\ left' = left - 1 /\ got' = TRUE
      BY <2>2 DEF ReadByte, RxShape, RxTypeOK
    <3> QED  BY <2>2, <3>1
  <2> QED  BY <2>1, <2>2
<1>3. getIndex \in 0..(BufSize - 1)  BY DEF RxShape, RxTypeOK
<1>4. getIndex' = Wrap(getIndex + 1, BufSize) /\ getIndex' \in 0..(BufSize - 1)
  BY <1>1, <1>3, FollowingWraps
<1>5. RxShape'
  <2>1. FlagAgrees(dmaRx', isFull', getIndex', putIndex')  BY <1>1 DEF FlagAgrees
  <2>2. RxTypeOK'  BY <1>1, <1>2, <1>4 DEF RxShape, RxTypeOK, modeVars
  <2> QED  BY <1>1, <2>1, <2>2 DEF RxShape, modeVars
<1>6. 1 \in 1..Stored
  <2>1. Stored # 0 /\ IsRing(Bytes, BufSize, buffer, getIndex, Stored)  BY <1>1, RingFacts
  <2> QED  BY <2>1 DEF IsRing
<1> QED  BY <1>1, <1>4, <1>5, <1>6, ReadStep DEF modeVars

\* A block may be empty, and then there was nothing to read.
LEMMA ReadBlockStep ==
    ASSUME RxShape, ReadBlock
    PROVE  /\ RxShape'
           /\ \/ /\ RingEmpty /\ RingEmpty' /\ UNCHANGED <<Unread, Capacity>>
              \/ /\ reader' = "reading"
                 /\ \E m \in 1..Len(Unread) :
                       Line!Read(m) /\ UNCHANGED Capacity /\ Unread' # Unread
<1> DEFINE n == IF left < ReceivedLen THEN left ELSE ReceivedLen
<1>0. BufSize \in Nat \ {0}  BY RxAssumption
<1>1. /\ ~inIsr /\ reader = "reading" /\ byBlocks
      /\ getIndex' = (getIndex + n) % BufSize
      /\ isFull' = (isFull /\ n = 0)
      /\ IF n = 0 THEN ReadFails ELSE ReadReturns
      /\ UNCHANGED <<modeVars, buffer, putIndex, inIsr, indicates, wakeFlag>>
  BY DEF ReadBlock, Reader
<1>2. /\ dmaRx /\ left \in Nat \ {0} /\ getIndex \in 0..(BufSize - 1)
      /\ isFull \in BOOLEAN /\ got \in BOOLEAN
      /\ FlagAgrees(dmaRx, isFull, getIndex, putIndex)
  BY <1>1 DEF RxShape, RxTypeOK
<1>3. Stored = ReceivedLen /\ Stored \in 0..BufSize /\ (Stored = 0 <=> RingEmpty)
  BY <1>2, RingFacts DEF IsRing
<1>4. n \in 0..BufSize /\ n <= Stored /\ (n = 0 <=> Stored = 0)
  BY <1>0, <1>2, <1>3
<1>5. getIndex' = Wrap(getIndex + n, BufSize)  BY <1>1 DEF Wrap
<1> HIDE DEF n
<1>6. getIndex' \in 0..(BufSize - 1) /\ (n = 0 => getIndex' = getIndex)
  <2> DEFINE a == getIndex + n
  <2>1. a \in 0..(2 * BufSize - 1) /\ a = getIndex + n /\ getIndex' = Wrap(a, BufSize)
    BY <1>0, <1>2, <1>4, <1>5
  <2> HIDE DEF a
  <2>2. /\ Wrap(a, BufSize) = IF a < BufSize THEN a ELSE a - BufSize
        /\ Wrap(a, BufSize) \in 0..(BufSize - 1)
    BY <1>0, <2>1, WrapFacts
  <2> QED  BY <1>0, <1>2, <2>1, <2>2
<1>7. left' \in Nat \ {0} /\ got' \in BOOLEAN /\ reader' \in {"empty", "reading"}
  <2>1. CASE n = 0  BY <1>1, <1>2, <2>1 DEF ReadFails
  <2>2. CASE n # 0  BY <1>1, <2>2, RxAssumption DEF ReadReturns
  <2> QED  BY <2>1, <2>2
<1>8. isFull' \in BOOLEAN /\ (n # 0 => isFull' = FALSE) /\ (n = 0 => isFull' = isFull)
  BY <1>1, <1>2
<1>9. RxShape'
  <2>1. FlagAgrees(dmaRx', isFull', getIndex', putIndex')
    BY <1>1, <1>2, <1>6, <1>8 DEF FlagAgrees, modeVars
  <2>2. RxTypeOK'  BY <1>1, <1>6, <1>7, <1>8 DEF RxShape, RxTypeOK, modeVars
  <2>3. indicates'  BY <1>1 DEF RxShape
  <2> QED  BY <1>1, <1>2, <2>1, <2>2, <2>3 DEF RxShape, modeVars
<1>10. CASE n = 0
  <2>1. UNCHANGED <<dmaRx, buffer, getIndex, putIndex, isFull>>
    BY <1>1, <1>6, <1>8, <1>10 DEF modeVars
  <2>2. UNCHANGED <<Unread, Capacity>> /\ RingEmpty' = RingEmpty
    BY <2>1 DEF Unread, ReceivedLen, RxLength, Capacity, RingEmpty
  <2> QED  BY <1>3, <1>4, <1>9, <1>10, <2>2
<1>11. CASE n # 0
  <2>1. n \in 1..Stored  BY <1>3, <1>4, <1>11
  <2>2. n \in 1..Len(Unread) /\ Line!Read(n) /\ UNCHANGED Capacity /\ Unread' # Unread
    BY <1>1, <1>5, <1>8, <1>9, <1>11, <2>1, ReadStep DEF modeVars
  <2>3. reader' = "reading"  BY <1>1, <1>11 DEF ReadReturns
  <2> QED  BY <1>9, <2>2, <2>3
<1> QED  BY <1>10, <1>11

\* The other steps let the ring alone.
LEMMA RingAlone ==
    ASSUME UNCHANGED <<dmaRx, ringVars>>
    PROVE  UNCHANGED <<Unread, Capacity>> /\ RingEmpty' = RingEmpty /\ RxLength' = RxLength
BY DEF ringVars, Unread, ReceivedLen, RxLength, Capacity, RingEmpty

RxInv == RxShape /\ NoSleeperBesideInput

LEMMA BytesReceivedStep ==
    ASSUME RxInv, BytesReceived
    PROVE  RxInv' /\ UNCHANGED <<Unread, Capacity>>
<1>1. /\ inIsr /\ inIsr' = FALSE
      /\ IF RxLength # 0 THEN Indicates ELSE UNCHANGED <<wakeFlag, reader>>
      /\ UNCHANGED <<modeVars, ringVars, indicates, left, got>>
  BY DEF BytesReceived
<1>2. UNCHANGED <<Unread, Capacity>> /\ RingEmpty' = RingEmpty
  BY <1>1, RingAlone DEF modeVars
<1>3. /\ wakeFlag' \in BOOLEAN
      /\ reader' \in {"opening", "reading", "empty", "asleep", "woken"}
      /\ reader' # "opening" => reader # "opening"
  BY <1>1 DEF Indicates, RxInv, RxShape, RxTypeOK
<1>4. RxShape'
  <2>1. RxTypeOK'  BY <1>1, <1>3 DEF RxInv, RxShape, RxTypeOK, modeVars, ringVars
  <2>2. FlagAgrees(dmaRx', isFull', getIndex', putIndex')
    BY <1>1 DEF RxInv, RxShape, modeVars, ringVars
  <2>3. reader' # "opening" => indicates'  BY <1>1, <1>3 DEF RxInv, RxShape
  <2>4. byBlocks' => dmaRx'  BY <1>1 DEF RxInv, RxShape, modeVars
  <2> QED  BY <1>1, <2>1, <2>2, <2>3, <2>4 DEF RxShape
<1>5. NoSleeperBesideInput'
  <2>1. CASE RxLength # 0
    <3>1. Indicates /\ (reader # "opening" => indicates)  BY <1>1, <2>1 DEF RxInv, RxShape
    <3>2. reader' # "asleep" /\ (reader' = "empty" => wakeFlag')
      BY <3>1 DEF Indicates
    <3> QED  BY <3>2 DEF NoSleeperBesideInput
  <2>2. CASE RxLength = 0
    <3>1. Stored = 0 /\ (Stored = 0 <=> RingEmpty)  BY <1>1, <2>2, RingFacts DEF RxInv, RxShape
    <3> QED  BY <1>2, <3>1 DEF NoSleeperBesideInput
  <2> QED  BY <2>1, <2>2
<1> QED  BY <1>2, <1>4, <1>5 DEF RxInv

\* The reader's steps other than taking bytes.
LEMMA ReaderStep ==
    ASSUME RxInv, Listen \/ ReadStops \/ WaitForInput \/ WaitOver \/ ReaderResumed
    PROVE  RxInv' /\ UNCHANGED <<Unread, Capacity>>
<1>1. UNCHANGED <<modeVars, ringVars, inIsr>> /\ ~inIsr
  BY DEF Listen, ReadStops, WaitForInput, WaitOver, ReaderResumed, Reader
<1>2. UNCHANGED <<Unread, Capacity>> /\ RingEmpty' = RingEmpty  BY <1>1, RingAlone DEF modeVars
<1>3. /\ wakeFlag' \in BOOLEAN /\ indicates' \in BOOLEAN
      /\ reader' \in {"opening", "reading", "empty", "asleep", "woken"}
      /\ reader' # "opening" => indicates'
      /\ left' \in Nat \ {0} /\ got' \in BOOLEAN
  <2>1. /\ wakeFlag \in BOOLEAN /\ indicates \in BOOLEAN /\ got \in BOOLEAN
        /\ left \in Nat \ {0} /\ (reader # "opening" => indicates)
        /\ reader \in {"opening", "reading", "empty", "asleep", "woken"}
    BY DEF RxInv, RxShape, RxTypeOK
  <2>2. CASE Listen  BY <2>1, <2>2 DEF Listen
  <2>3. CASE ReadStops
    <3>1. CASE got  BY <2>1, <2>3, <3>1, RxAssumption DEF ReadStops, ReadReturns, Reader
    <3>2. CASE ~got  BY <2>1, <2>3, <3>2 DEF ReadStops, ReadFails, Reader
    <3> QED  BY <3>1, <3>2
  <2>4. CASE WaitForInput  BY <2>1, <2>4 DEF WaitForInput, Reader
  <2>5. CASE WaitOver \/ ReaderResumed  BY <2>1, <2>5 DEF WaitOver, ReaderResumed, Reader
  <2> QED  BY <2>2, <2>3, <2>4, <2>5
<1>4. RxShape'
  <2>1. RxTypeOK'  BY <1>1, <1>3 DEF RxInv, RxShape, RxTypeOK, modeVars, ringVars
  <2>2. FlagAgrees(dmaRx', isFull', getIndex', putIndex')
    BY <1>1 DEF RxInv, RxShape, modeVars, ringVars
  <2>3. (inIsr' => ~dmaRx') /\ (byBlocks' => dmaRx')  BY <1>1 DEF RxInv, RxShape, modeVars
  <2> QED  BY <1>3, <2>1, <2>2, <2>3 DEF RxShape
<1>5. NoSleeperBesideInput'
  <2>1. CASE Listen \/ WaitOver \/ ReaderResumed
    BY <2>1 DEF Listen, WaitOver, ReaderResumed, NoSleeperBesideInput
  <2>2. CASE ReadStops  BY <1>2, <2>2 DEF ReadStops, NoSleeperBesideInput
  <2>3. CASE WaitForInput
    BY <1>1, <1>2, <2>3 DEF WaitForInput, Reader, RxInv, NoSleeperBesideInput
  <2> QED  BY <2>1, <2>2, <2>3
<1> QED  BY <1>2, <1>4, <1>5 DEF RxInv

LEMMA RxInitInv == RxInit => RxInv /\ Line!LineInit
<1> SUFFICES ASSUME RxInit PROVE RxInv /\ Line!LineInit  OBVIOUS
<1>1. BufSize \in Nat /\ BufSize > 1 /\ 0 \in Bytes /\ ReadLens \subseteq Nat \ {0}
  BY RxAssumption
<1>2. /\ dmaRx \in BOOLEAN /\ byBlocks \in BOOLEAN /\ (byBlocks => dmaRx)
      /\ buffer = [i \in 0..(BufSize - 1) |-> 0]
      /\ putIndex = 0 /\ getIndex = 0 /\ isFull = FALSE
      /\ inIsr = FALSE /\ indicates = FALSE /\ wakeFlag = FALSE
      /\ reader = "opening" /\ left \in ReadLens /\ got = FALSE
  BY DEF RxInit
<1>3. RxTypeOK
  <2>1. buffer \in [0..(BufSize - 1) -> Bytes]  BY <1>1, <1>2
  <2>2. 0 \in 0..(BufSize - 1)  BY <1>1
  <2>3. left \in Nat \ {0}  BY <1>1, <1>2
  <2> QED  BY <1>2, <2>1, <2>2, <2>3 DEF RxTypeOK
<1>4. RxShape  BY <1>2, <1>3 DEF RxShape, FlagAgrees
<1>5. Stored = 0 /\ Unread = RingOf(buffer, getIndex, Stored, BufSize)
  BY <1>2, <1>4, RingFacts DEF RingEmpty
<1>6. Unread = <<>>  BY <1>5 DEF RingOf
<1> QED  BY <1>2, <1>4, <1>6 DEF RxInv, NoSleeperBesideInput, Line!LineInit

\* Bytes that are added are a step of the line.
LEMMA ReceivingIsLine ==
    ASSUME RxShape, NEW k \in 1..Capacity, NEW bs \in [1..k -> Bytes],
           Line!Receive(bs), UNCHANGED Capacity
    PROVE  [Line!LineNext]_<<Unread, Capacity>>
<1>1. CASE Unread' = Unread  BY <1>1
<1>2. CASE Unread' # Unread  BY <1>2 DEF Line!LineNext
<1> QED  BY <1>1, <1>2

LEMMA RxStep ==
    ASSUME RxInv, RxNext
    PROVE  RxInv' /\ [Line!LineNext]_<<Unread, Capacity>>
<1>0. BufSize \in Nat /\ BufSize > 1 /\ RxShape  BY RxAssumption DEF RxInv
<1>1. ASSUME NEW b \in Bytes, ReceiveByte(b) PROVE RxInv' /\ [Line!LineNext]_<<Unread, Capacity>>
  <2>1. RxShape' /\ Line!Receive(<<b>>) /\ UNCHANGED Capacity  BY <1>0, <1>1, ByteStep
  <2>2. NoSleeperBesideInput'  BY <1>1 DEF ReceiveByte, NoSleeperBesideInput
  <2>3. 1 \in 1..Capacity  BY <1>0, <1>1 DEF Capacity
  <2>4. PICK bs \in [1..1 -> Bytes] : bs = <<b>>
    <3>1. <<b>> \in Seq(Bytes) /\ Len(<<b>>) = 1  OBVIOUS
    <3>2. <<b>> \in [1..1 -> Bytes]  BY <3>1, LenProperties
    <3> QED  BY <3>2
  <2>5. [Line!LineNext]_<<Unread, Capacity>>
    BY <1>0, <2>1, <2>3, <2>4, ReceivingIsLine
  <2> QED  BY <2>1, <2>2, <2>5 DEF RxInv
<1>2. CASE BytesReceived  BY <1>2, BytesReceivedStep
<1>3. ASSUME NEW k \in 1..BufSize, NEW bs \in [1..k -> Bytes], ReceiveBlock(bs)
      PROVE  RxInv' /\ [Line!LineNext]_<<Unread, Capacity>>
  <2>1. RxShape' /\ Line!Receive(bs) /\ UNCHANGED Capacity  BY <1>0, <1>3, BlockStep
  <2>2. NoSleeperBesideInput'
    <3>1. Indicates /\ (reader # "opening" => indicates)
      BY <1>0, <1>3 DEF ReceiveBlock, RxShape
    <3>2. reader' # "asleep" /\ (reader' = "empty" => wakeFlag')  BY <3>1 DEF Indicates
    <3> QED  BY <3>2 DEF NoSleeperBesideInput
  <2>3. k \in 1..Capacity  BY <1>0, <1>3 DEF ReceiveBlock, Capacity
  <2>4. [Line!LineNext]_<<Unread, Capacity>>
    BY <1>0, <2>1, <2>3, ReceivingIsLine
  <2> QED  BY <2>1, <2>2, <2>4 DEF RxInv
<1>4. CASE Listen \/ ReadStops \/ WaitForInput \/ WaitOver \/ ReaderResumed
  BY <1>4, ReaderStep
<1>5. CASE ReadByte
  <2>1. /\ RxShape'
        /\ 1 \in 1..Len(Unread) /\ Line!Read(1) /\ UNCHANGED Capacity /\ Unread' # Unread
    BY <1>0, <1>5, ReadByteStep
  <2>2. reader' = "reading"
    BY <1>5 DEF ReadByte, Reader, ReadReturns
  <2> QED  BY <2>1, <2>2 DEF RxInv, NoSleeperBesideInput, Line!LineNext
<1>6. CASE ReadBlock
  <2>1. /\ RxShape'
        /\ \/ /\ RingEmpty /\ RingEmpty' /\ UNCHANGED <<Unread, Capacity>>
           \/ /\ reader' = "reading"
              /\ \E m \in 1..Len(Unread) :
                    Line!Read(m) /\ UNCHANGED Capacity /\ Unread' # Unread
    BY <1>0, <1>6, ReadBlockStep
  <2>2. CASE RingEmpty /\ RingEmpty' /\ UNCHANGED <<Unread, Capacity>>
    BY <2>1, <2>2 DEF RxInv, NoSleeperBesideInput
  <2>3. CASE /\ reader' = "reading"
             /\ \E m \in 1..Len(Unread) :
                   Line!Read(m) /\ UNCHANGED Capacity /\ Unread' # Unread
    BY <2>1, <2>3 DEF RxInv, NoSleeperBesideInput, Line!LineNext
  <2> QED  BY <2>1, <2>2, <2>3
<1> QED  BY <1>1, <1>2, <1>3, <1>4, <1>5, <1>6 DEF RxNext

LEMMA RxStutter == RxInv /\ UNCHANGED rxVars => RxInv' /\ UNCHANGED <<Unread, Capacity>>
<1> SUFFICES ASSUME RxInv, UNCHANGED rxVars PROVE RxInv' /\ UNCHANGED <<Unread, Capacity>>
  OBVIOUS
<1>1. UNCHANGED <<modeVars, ringVars, inIsr, indicates, wakeFlag, readerVars>>  BY DEF rxVars
<1>2. UNCHANGED <<Unread, Capacity>> /\ RingEmpty' = RingEmpty  BY <1>1, RingAlone DEF modeVars
<1>3. RxShape'
  BY <1>1 DEF RxInv, RxShape, RxTypeOK, FlagAgrees, modeVars, ringVars, readerVars
<1>4. NoSleeperBesideInput'  BY <1>1, <1>2 DEF RxInv, NoSleeperBesideInput, readerVars
<1> QED  BY <1>2, <1>3, <1>4 DEF RxInv

-----------------------------------------------------------------------------
(***************************************************************************)
(* The sending side by interrupts.                                         *)
(***************************************************************************)
\* e is Expanded, for the text tx.
Piece(tx, k) == IF tx[k] = "nl" THEN <<"cr", "nl">> ELSE <<tx[k]>>

Expands(e, tx) ==
    e = [k \in 0..Len(tx) |-> IF k = 0 THEN <<>> ELSE e[k - 1] \o Piece(tx, k)]

\* The recursion of Expanded has a solution.
LEMMA ExpandsExists ==
    ASSUME NEW tx, Len(tx) \in Nat
    PROVE  \E e : Expands(e, tx)
<1> DEFINE N == Len(tx)
           Solves(g, n) == g = [k \in 0..n |-> IF k = 0 THEN <<>> ELSE g[k - 1] \o Piece(tx, k)]
           bad == {n \in Nat : n <= N /\ ~\E g : Solves(g, n)}
<1>0. N \in Nat  OBVIOUS
<1> HIDE DEF N
<1>1. SUFFICES bad = {}
  <2>1. N \in Nat /\ N <= N  BY <1>0
  <2>2. PICK e : Solves(e, N)
    <3> HIDE DEF Solves
    <3> QED  BY <1>1, <2>1
  <2> QED  BY <2>2 DEF Expands, N
<1>2. CASE bad # {}
  <2>1. PICK n \in bad : \A m \in bad : n <= m
    <3>1. bad \in SUBSET Nat  OBVIOUS
    <3> HIDE DEF bad
    <3> QED  BY <1>2, <3>1, LeastNat
  <2>2. n \in Nat /\ n <= N /\ n # 0
    <3>1. n \in Nat /\ n <= N /\ ~\E g : Solves(g, n)  BY <2>1
    <3>2. CASE n = 0
      <4> DEFINE g == [k \in 0..0 |-> <<>>]
      <4>1. Solves(g, 0)  OBVIOUS
      <4> HIDE DEF g, Solves
      <4> QED  BY <3>1, <3>2, <4>1
    <3> HIDE DEF Solves
    <3> QED  BY <3>1, <3>2
  <2>3. PICK g : Solves(g, n - 1)
    <3>1. n - 1 \in Nat /\ n - 1 <= N /\ ~(n <= n - 1)  BY <1>0, <2>1, <2>2
    <3> HIDE DEF Solves
    <3> QED  BY <2>1, <3>1
  <2> DEFINE h == [k \in 0..n |-> IF k = n THEN g[n - 1] \o Piece(tx, n) ELSE g[k]]
             item(v, k) == IF k = 0 THEN <<>> ELSE v[k - 1] \o Piece(tx, k)
  <2>4. ASSUME NEW k \in 0..n PROVE h[k] = item(h, k)
    <3>1. CASE k = n
      <4>1. h[k] = g[n - 1] \o Piece(tx, n) /\ h[n - 1] = g[n - 1]  BY <2>2, <3>1
      <4> HIDE DEF h
      <4> QED  BY <2>2, <3>1, <4>1
    <3>2. CASE k # n
      <4>1. k \in 0..(n - 1)  BY <2>2, <3>2
      <4>2. g[k] = item(g, k)  BY <2>3, <4>1
      <4>3. h[k] = g[k] /\ (k # 0 => h[k - 1] = g[k - 1])  BY <2>2, <3>2, <4>1
      <4> HIDE DEF h
      <4> QED  BY <4>2, <4>3
    <3> QED  BY <3>1, <3>2
  <2>5. Solves(h, n)
    <3>1. h = [k \in 0..n |-> h[k]]  OBVIOUS
    <3> HIDE DEF h
    <3>2. h = [k \in 0..n |-> item(h, k)]  BY <2>4, <3>1
    <3> QED  BY <3>2
  <2> HIDE DEF h, Solves
  <2> QED  BY <2>1, <2>5
<1> QED  BY <1>2

LEMMA ExpandedSolves == Len(text) \in Nat => Expands(Expanded, text)
<1> SUFFICES ASSUME Len(text) \in Nat PROVE Expands(Expanded, text)  OBVIOUS
<1>1. \E e : Expands(e, text)  BY ExpandsExists
<1> QED  BY <1>1, Zenon DEF Expands, Piece, Expanded

LEMMA ExpandedSolvesNext == Len(text') \in Nat => Expands(Expanded', text')
<1> SUFFICES ASSUME Len(text') \in Nat PROVE Expands(Expanded', text')  OBVIOUS
<1>1. \E e : Expands(e, text')  BY ExpandsExists
<1> QED  BY <1>1, Zenon DEF Expands, Piece, Expanded

LEMMA ExpandedSame == text' = text => Expanded' = Expanded
BY DEF Expanded

LEMMA ExpandedIs ==
    ASSUME NEW e, NEW tx, Expands(e, tx), Len(tx) \in Nat
    PROVE  /\ e[0] = <<>>
           /\ \A k \in 0..(Len(tx) - 1) : e[k + 1] = e[k] \o Piece(tx, k + 1)
<1>1. e = [k \in 0..Len(tx) |-> IF k = 0 THEN <<>> ELSE e[k - 1] \o Piece(tx, k)]
  BY DEF Expands
<1>2. e[0] = <<>>  BY <1>1
<1>3. ASSUME NEW k \in 0..(Len(tx) - 1) PROVE e[k + 1] = e[k] \o Piece(tx, k + 1)
  <2>1. k + 1 \in 0..Len(tx) /\ k + 1 # 0 /\ (k + 1) - 1 = k  OBVIOUS
  <2> QED  BY <1>1, <2>1
<1> QED  BY <1>2, <1>3

CharTypes ==
    /\ CompletionTypeOK /\ ~armed /\ ~expiring
    /\ dmaTx \in BOOLEAN /\ busy \in BOOLEAN
    /\ text \in Texts \cup {<<>>} /\ at \in 0..Len(text)
    /\ step \in {"cr", "char"} /\ phase \in {"try", "refused", "waits"}
    /\ sent \in Seq({"x", "nl", "cr"})

\* Who sleeps waits for the completion, and who is about to finds it done if the
\* hardware has got room meanwhile.
CharWaits ==
    /\ asleep => comp = "thread" /\ busy
    /\ phase = "refused" /\ comp # "done" => busy

Chars == {"x", "nl", "cr"}

CharInv == CharTypes /\ CharWaits /\ LineComplete /\ Expanded[at] \in Seq(Chars)

\* The text and the character under way.
LEMMA TextFacts ==
    ASSUME CharTypes
    PROVE  /\ text \in Seq({"x", "nl"}) /\ Len(text) \in Nat
           /\ at \in 0..Len(text)
           /\ at < Len(text) => at \in 0..(Len(text) - 1) /\ text[at + 1] \in {"x", "nl"}
<1>1. text \in Seq({"x", "nl"}) /\ Len(text) \in Nat /\ at \in 0..Len(text)
  <2>1. text \in Seq({"x", "nl"})
    <3>1. <<>> \in Seq({"x", "nl"})  OBVIOUS
    <3> QED  BY <3>1, TxAssumption DEF CharTypes
  <2> QED  BY <2>1, LenProperties DEF CharTypes
<1>2. ASSUME at < Len(text)
      PROVE  at \in 0..(Len(text) - 1) /\ text[at + 1] \in {"x", "nl"}
  <2>1. at \in 0..(Len(text) - 1) /\ at + 1 \in 1..Len(text)  BY <1>1, <1>2
  <2> QED  BY <1>1, <2>1
<1> QED  BY <1>1, <1>2

\* Steps that do not touch the line.
LEMMA SameLine ==
    ASSUME LineComplete /\ Expanded[at] \in Seq(Chars), UNCHANGED <<text, at, step, sent>>
    PROVE  (LineComplete /\ Expanded[at] \in Seq(Chars))'
<1>1. Expanded' = Expanded  BY ExpandedSame
<1> QED  BY <1>1 DEF LineComplete

LEMMA WriteTextStep ==
    ASSUME CharInv, NEW s \in Texts, WriteText(s)
    PROVE  CharInv'
<1>1. /\ text' = s /\ at' = 0 /\ step' = "cr" /\ sent' = <<>>
      /\ UNCHANGED <<dmaTx, phase, busy, comp, asleep, armed, expiring>>
  BY DEF WriteText, compVars
<1>2. s \in Seq({"x", "nl"}) /\ Len(s) \in Nat  BY TxAssumption, LenProperties
<1>3. CharTypes'
  <2>1. at' \in 0..Len(text')  BY <1>1, <1>2
  <2> QED  BY <1>1, <2>1 DEF CharInv, CharTypes, CompletionTypeOK
<1>4. CharWaits'  BY <1>1 DEF CharInv, CharWaits
<1>5. LineComplete' /\ Expanded'[at'] \in Seq(Chars)
  <2>1. Expands(Expanded', text')  BY <1>1, <1>2, ExpandedSolvesNext
  <2>2. Expanded'[0] = <<>>  BY <1>1, <1>2, <2>1, ExpandedIs
  <2>3. <<>> \o <<>> = <<>> /\ <<>> \in Seq(Chars)  OBVIOUS
  <2> QED  BY <1>1, <2>2, <2>3 DEF LineComplete
<1> QED  BY <1>3, <1>4, <1>5 DEF CharInv

\* A sequence and what is added to it.
LEMMA AddedAtEnd ==
    ASSUME NEW V, NEW q \in Seq(V), NEW a \in V, NEW b \in V
    PROVE  /\ q \o <<>> = q
           /\ Append(q, a) = q \o <<a>> /\ Append(q, a) \in Seq(V)
           /\ Append(q \o <<a>>, b) = q \o <<a, b>>
<1>1. q \o <<>> = q  BY ConcatEmptySeq
<1>2. Append(q, a) = q \o <<a>> /\ Append(q, a) \in Seq(V)  BY AppendIsConcat, AppendProperties
<1>3. Append(q \o <<a>>, b) = q \o <<a, b>>
  <2>1. <<a>> \in Seq(V) /\ <<b>> \in Seq(V) /\ <<a>> \o <<b>> = <<a, b>>
    <3>1. <<a>> \in Seq(V) /\ Len(<<a>>) = 1 /\ <<b>> \in Seq(V)  OBVIOUS
    <3>2. /\ Append(<<a>>, b) \in Seq(V) /\ Len(Append(<<a>>, b)) = 2
          /\ Append(<<a>>, b)[1] = a /\ Append(<<a>>, b)[2] = b
      BY <3>1, AppendProperties
    <3>3. <<a, b>> \in Seq(V) /\ Len(<<a, b>>) = 2 /\ <<a, b>>[1] = a /\ <<a, b>>[2] = b
      OBVIOUS
    <3>4. \A i \in 1..2 : Append(<<a>>, b)[i] = <<a, b>>[i]  BY <3>2, <3>3
    <3>5. Append(<<a>>, b) = <<a, b>>  BY <3>2, <3>3, <3>4, SeqEqual
    <3>6. Append(<<a>>, b) = <<a>> \o <<b>>  BY <3>1, AppendIsConcat
    <3> QED  BY <3>1, <3>5, <3>6
  <2>2. q \o <<a>> \in Seq(V)  BY <1>2
  <2>3. Append(q \o <<a>>, b) = (q \o <<a>>) \o <<b>>  BY <2>2, AppendIsConcat
  <2>4. (q \o <<a>>) \o <<b>> = q \o (<<a>> \o <<b>>)  BY <2>1, ConcatAssociative
  <2> QED  BY <2>1, <2>3, <2>4
<1> QED  BY <1>1, <1>2, <1>3

LEMMA SendCrStep ==
    ASSUME CharInv, SendCr
    PROVE  CharInv'
<1>1. /\ at < Len(text) /\ step = "cr" /\ phase = "try" /\ step' = "char"
      /\ IF text[at + 1] = "nl" THEN ~busy /\ busy' = TRUE /\ sent' = Append(sent, "cr")
         ELSE UNCHANGED <<busy, sent>>
      /\ UNCHANGED <<dmaTx, text, at, phase, comp, asleep, armed, expiring>>
  BY DEF SendCr, Writes, Putc, compVars
<1>2. /\ Expanded[at] \in Seq(Chars) /\ "cr" \in Chars /\ sent = Expanded[at]
  <2>1. Expanded[at] \in Seq(Chars) /\ "cr" \in Chars  BY DEF CharInv, Chars
  <2>2. sent = Expanded[at] \o <<>>  BY <1>1 DEF CharInv, LineComplete
  <2> QED  BY <2>1, <2>2, AddedAtEnd
<1>3. Expanded' = Expanded  BY <1>1, ExpandedSame
<1>4. busy' \in BOOLEAN /\ sent' \in Seq(Chars)
  <2>1. CASE text[at + 1] = "nl"
    <3>1. busy' = TRUE /\ sent' = Append(sent, "cr")  BY <1>1, <2>1
    <3> QED  BY <1>2, <3>1, AddedAtEnd
  <2>2. CASE text[at + 1] # "nl"  BY <1>1, <1>2, <2>2 DEF CharInv, CharTypes
  <2> QED  BY <2>1, <2>2
<1>5. CharTypes'  BY <1>1, <1>4 DEF CharInv, CharTypes, CompletionTypeOK, Chars
<1>6. CharWaits'
  <2>1. busy => busy'  BY <1>1
  <2> QED  BY <1>1, <2>1 DEF CharInv, CharWaits
<1>7. LineComplete'
  <2>1. CASE text[at + 1] = "nl"
    <3>1. sent' = Append(Expanded[at], "cr")  BY <1>1, <1>2, <2>1
    <3>2. Append(Expanded[at], "cr") = Expanded[at] \o <<"cr">>
      <4> DEFINE e == Expanded[at]
      <4>1. e \in Seq(Chars) /\ "cr" \in Chars  BY <1>2
      <4> HIDE DEF e
      <4>2. Append(e, "cr") = e \o <<"cr">>  BY <4>1, AddedAtEnd
      <4> QED  BY <4>2 DEF e
    <3> QED  BY <1>1, <1>3, <2>1, <3>1, <3>2 DEF LineComplete
  <2>2. CASE text[at + 1] # "nl"
    <3>1. sent' = Expanded[at] \o <<>>  BY <1>1, <1>2, <2>2, AddedAtEnd
    <3> QED  BY <1>1, <1>3, <2>2, <3>1 DEF LineComplete
  <2> QED  BY <2>1, <2>2
<1> QED  BY <1>1, <1>2, <1>3, <1>5, <1>6, <1>7 DEF CharInv

LEMMA SendCharStep ==
    ASSUME CharInv, SendChar
    PROVE  CharInv'
<1>1. /\ at < Len(text) /\ step = "char" /\ phase = "try"
      /\ ~busy /\ busy' = TRUE /\ sent' = Append(sent, text[at + 1])
      /\ at' = at + 1 /\ step' = "cr"
      /\ UNCHANGED <<dmaTx, text, phase, comp, asleep, armed, expiring>>
  BY DEF SendChar, Writes, Putc, compVars
<1>2. /\ at \in 0..(Len(text) - 1) /\ text[at + 1] \in {"x", "nl"} /\ Len(text) \in Nat
      /\ Expanded[at] \in Seq(Chars)
  BY <1>1, TextFacts DEF CharInv
<1>3. Expanded' = Expanded  BY <1>1, ExpandedSame
<1>4. Expanded[at + 1] = Expanded[at] \o Piece(text, at + 1)
  <2>1. Expands(Expanded, text)  BY <1>2, ExpandedSolves
  <2> QED  BY <1>2, <2>1, ExpandedIs
<1>5. sent' = Expanded[at + 1] /\ sent' \in Seq(Chars)
  <2>1. "cr" \in Chars /\ "nl" \in Chars /\ "x" \in Chars  BY DEF Chars
  <2>2. CASE text[at + 1] = "nl"
    <3>1. sent = Expanded[at] \o <<"cr">>  BY <1>1, <2>2 DEF CharInv, LineComplete
    <3>2. sent \in Seq(Chars)  BY DEF CharInv, CharTypes, Chars
    <3>3. sent' = Expanded[at] \o <<"cr", "nl">>
      <4>1. sent' = Append(Expanded[at] \o <<"cr">>, "nl")  BY <1>1, <2>2, <3>1
      <4>2. Append(Expanded[at] \o <<"cr">>, "nl") = Expanded[at] \o <<"cr", "nl">>
        <5> DEFINE e == Expanded[at]
        <5>1. e \in Seq(Chars)  BY <1>2
        <5> HIDE DEF e
        <5>2. Append(e \o <<"cr">>, "nl") = e \o <<"cr", "nl">>  BY <2>1, <5>1, AddedAtEnd
        <5> QED  BY <5>2 DEF e
      <4> QED  BY <4>1, <4>2
    <3>4. sent' \in Seq(Chars)  BY <1>1, <2>1, <2>2, <3>2, AddedAtEnd
    <3> QED  BY <1>4, <2>2, <3>3, <3>4 DEF Piece
  <2>3. CASE text[at + 1] = "x"
    <3>1. sent = Expanded[at] \o <<>>  BY <1>1, <2>3 DEF CharInv, LineComplete
    <3>2. sent = Expanded[at]  BY <1>2, <2>1, <3>1, AddedAtEnd
    <3>3. sent' = Expanded[at] \o <<"x">> /\ sent' \in Seq(Chars)
      <4>1. sent' = Append(Expanded[at], "x")  BY <1>1, <2>3, <3>2
      <4>2. /\ Append(Expanded[at], "x") = Expanded[at] \o <<"x">>
            /\ Append(Expanded[at], "x") \in Seq(Chars)
        <5> DEFINE e == Expanded[at]
        <5>1. e \in Seq(Chars)  BY <1>2
        <5> HIDE DEF e
        <5>2. Append(e, "x") = e \o <<"x">> /\ Append(e, "x") \in Seq(Chars)
          BY <2>1, <5>1, AddedAtEnd
        <5> QED  BY <5>2 DEF e
      <4> QED  BY <4>1, <4>2
    <3> QED  BY <1>4, <2>3, <3>3 DEF Piece
  <2> QED  BY <1>2, <2>2, <2>3
<1>6. CharTypes'
  <2>1. at' \in 0..Len(text')  BY <1>1, <1>2
  <2> QED  BY <1>1, <1>5, <2>1 DEF CharInv, CharTypes, CompletionTypeOK, Chars
<1>7. CharWaits'  BY <1>1 DEF CharInv, CharWaits
<1>8. LineComplete' /\ Expanded'[at'] \in Seq(Chars)
  <2>0. "cr" \in Chars  BY DEF Chars
  <2>1. sent' = Expanded'[at'] \o <<>>  BY <1>1, <1>3, <1>5, <2>0, AddedAtEnd
  <2> QED  BY <1>1, <1>3, <1>5, <2>1 DEF LineComplete
<1> QED  BY <1>6, <1>7, <1>8 DEF CharInv

\* The steps that send nothing.
LEMMA CharWaitStep ==
    ASSUME CharInv, NoRoom \/ Wait \/ GoesOn \/ TxDone \/ WriterResumed
    PROVE  CharInv'
<1>1. UNCHANGED <<dmaTx, text, at, step, sent>>
  BY DEF NoRoom, Wait, GoesOn, TxDone, WriterResumed
<1>2. (LineComplete /\ Expanded[at] \in Seq(Chars))'  BY <1>1, SameLine DEF CharInv
<1>3. /\ CompletionTypeOK /\ ~armed /\ ~expiring /\ busy \in BOOLEAN
      /\ phase \in {"try", "refused", "waits"} /\ CharWaits
  BY DEF CharInv, CharTypes
<1>4. /\ CompletionTypeOK' /\ ~armed' /\ ~expiring' /\ busy' \in BOOLEAN
      /\ phase' \in {"try", "refused", "waits"} /\ CharWaits'
  <2>1. CASE NoRoom  BY <1>3, <2>1 DEF NoRoom, compVars, CompletionTypeOK, CharWaits
  <2>2. CASE Wait /\ WaitSleeps(FALSE)
    <3>1. /\ phase = "refused" /\ comp # "done" /\ comp' = "thread" /\ asleep' = TRUE
          /\ armed' = FALSE /\ UNCHANGED <<expiring, busy>> /\ phase' \in {"waits", "try"}
      BY <2>2 DEF Wait, WaitSleeps, WaitFindsDone
    <3>2. phase' # "refused" /\ busy  BY <1>3, <3>1 DEF CharWaits
    <3> QED  BY <1>3, <3>1, <3>2 DEF CompletionTypeOK, CharWaits
  <2>3. CASE Wait /\ WaitFindsDone
    <3>1. /\ comp = "done" /\ comp' = "none" /\ UNCHANGED <<asleep, armed, expiring, busy>>
          /\ phase' \in {"waits", "try"}
      BY <2>3 DEF Wait, WaitSleeps, WaitFindsDone
    <3>2. phase' # "refused" /\ ~asleep  BY <1>3, <3>1 DEF CharWaits
    <3> QED  BY <1>3, <3>1, <3>2 DEF CompletionTypeOK, CharWaits
  <2>4. CASE GoesOn  BY <1>3, <2>4 DEF GoesOn, WaitEnds, CompletionTypeOK, CharWaits
  <2>5. CASE TxDone
    <3>1. /\ comp' = "done" /\ busy' = FALSE /\ UNCHANGED <<phase, expiring>>
          /\ IF comp = "thread" /\ ~expiring THEN asleep' = FALSE /\ armed' = FALSE
             ELSE UNCHANGED <<asleep, armed>>
      BY <2>5 DEF TxDone, CompletionDone
    <3>2. ~asleep' /\ ~armed' /\ asleep' \in BOOLEAN /\ armed' \in BOOLEAN
      BY <1>3, <3>1 DEF CharWaits, CompletionTypeOK
    <3> QED  BY <1>3, <3>1, <3>2 DEF CompletionTypeOK, CharWaits
  <2>6. CASE WriterResumed
    BY <1>3, <2>6 DEF WriterResumed, ResumeWaiter, CompletionTypeOK, CharWaits
  <2> QED  BY <2>1, <2>2, <2>3, <2>4, <2>5, <2>6 DEF Wait
<1>5. CharTypes'  BY <1>1, <1>4 DEF CharInv, CharTypes
<1> QED  BY <1>2, <1>4, <1>5 DEF CharInv

LEMMA CharStutter ==
    ASSUME CharInv, UNCHANGED <<dmaTx, charVars>>
    PROVE  CharInv'
<1>1. UNCHANGED <<dmaTx, text, at, step, phase, busy, sent, comp, asleep, armed, expiring>>
  BY DEF charVars, compVars
<1>2. (LineComplete /\ Expanded[at] \in Seq(Chars))'  BY <1>1, SameLine DEF CharInv
<1> QED  BY <1>1, <1>2 DEF CharInv, CharTypes, CharWaits, CompletionTypeOK

-----------------------------------------------------------------------------
(***************************************************************************)
(* The sending side by DMA.                                                *)
(***************************************************************************)
Pushed(w) == sending[w] = "pushed"
Starting(w) == sending[w] = "starting"

DmaTypes ==
    /\ activated \in BOOLEAN /\ outrun \in BOOLEAN
    /\ queue \in Seq(Buffers) /\ Len(queue) <= QueueSize
    /\ data \in [Writers -> Buffers \cup {NoBuffer}]
    /\ sending \in [Writers -> {"idle", "pushed", "starting"}]
    /\ onWire \in Buffers \cup {NoBuffer}

\* A buffer in the queue, or the flag alone, is never left to nobody.
DmaGoesOn ==
    /\ \A w \in Writers : sending[w] # "idle" => data[w] \in Buffers
    /\ queue # <<>> => onWire # NoBuffer \/ \E w \in Writers : sending[w] # "idle"
    /\ activated => onWire # NoBuffer \/ \E w \in Writers : Starting(w)

\* As long as no writer was outrun, one at most is between its push and its look
\* at activated, and the flag tells whose turn it is to start the first buffer.
Orderly ==
    /\ \A v, w \in Writers : Pushed(v) /\ Pushed(w) => v = w
    /\ \A v, w \in Writers : Starting(v) /\ Starting(w) => v = w
    /\ onWire # NoBuffer \/ (\E w \in Writers : Starting(w)) => activated
    /\ \A w \in Writers : Starting(w) =>
          onWire = NoBuffer /\ queue # <<>> /\ Head(queue) = data[w]
    /\ onWire # NoBuffer => queue # <<>> /\ Head(queue) = onWire
    /\ \A w \in Writers : Pushed(w) => queue # <<>> /\ Last(queue) = data[w]
    /\ activated \/ queue = <<>> \/ (Len(queue) = 1 /\ \E w \in Writers : Pushed(w))

DmaInv == DmaTypes /\ DmaGoesOn /\ (~outrun => Orderly)

\* Both ends of the queue, and what is left of them.
LEMMA QueueEnds ==
    ASSUME NEW q \in Seq(Buffers), NEW b \in Buffers
    PROVE  /\ Append(q, b) \in Seq(Buffers) /\ Append(q, b) # <<>>
           /\ Len(Append(q, b)) = Len(q) + 1 /\ Last(Append(q, b)) = b
           /\ Head(Append(q, b)) = IF q = <<>> THEN b ELSE Head(q)
           /\ Len(q) = 0 <=> q = <<>>
           /\ q # <<>> =>
                 /\ Head(q) \in Buffers /\ Tail(q) \in Seq(Buffers)
                 /\ Len(Tail(q)) = Len(q) - 1
                 /\ Tail(q) # <<>> => Last(Tail(q)) = Last(q)
                 /\ Tail(q) = <<>> => Last(q) = Head(q)
                 /\ Len(q) = 1 => Last(q) = Head(q)
<1>0. Len(q) \in Nat /\ DOMAIN q = 1..Len(q) /\ (Len(q) = 0 <=> q = <<>>)
  BY LenProperties, EmptySeq
<1>1. /\ Append(q, b) \in Seq(Buffers) /\ Append(q, b) # <<>>
      /\ Len(Append(q, b)) = Len(q) + 1
      /\ Append(q, b)[Len(q) + 1] = b
      /\ \A i \in 1..Len(q) : Append(q, b)[i] = q[i]
  BY <1>0, AppendProperties
<1>2. Last(Append(q, b)) = b  BY <1>1 DEF Last
<1>3. Head(Append(q, b)) = IF q = <<>> THEN b ELSE Head(q)
  <2>1. Head(Append(q, b)) = Append(q, b)[1] /\ Head(q) = q[1]  BY <1>1, HeadTailProperties
  <2>2. CASE q = <<>>  BY <1>0, <1>1, <2>1, <2>2
  <2>3. CASE q # <<>>
    <3>1. 1 \in 1..Len(q)  BY <1>0, <2>3
    <3> QED  BY <1>1, <2>1, <2>3, <3>1
  <2> QED  BY <2>2, <2>3
<1>4. ASSUME q # <<>>
      PROVE  /\ Head(q) \in Buffers /\ Tail(q) \in Seq(Buffers)
             /\ Len(Tail(q)) = Len(q) - 1
             /\ Tail(q) # <<>> => Last(Tail(q)) = Last(q)
             /\ Tail(q) = <<>> => Last(q) = Head(q)
             /\ Len(q) = 1 => Last(q) = Head(q)
  <2>1. /\ Head(q) \in Buffers /\ Tail(q) \in Seq(Buffers) /\ Head(q) = q[1]
        /\ Len(Tail(q)) = Len(q) - 1
        /\ \A i \in 1..Len(Tail(q)) : Tail(q)[i] = q[i + 1]
    BY <1>4, HeadTailProperties
  <2>2. Len(q) \in Nat \ {0}  BY <1>0, <1>4
  <2>3. Tail(q) = <<>> => Len(q) = 1
    <3>1. PICK t \in Seq(Buffers) : t = Tail(q) /\ Len(t) = Len(q) - 1  BY <2>1
    <3>2. t = <<>> => Len(t) = 0  BY EmptySeq
    <3>3. Len(t) = 0 => Len(q) = 1  BY <2>2, <3>1
    <3> QED  BY <3>1, <3>2, <3>3
  <2>4. ASSUME Tail(q) # <<>> PROVE Last(Tail(q)) = Last(q)
    <3>1. Len(Tail(q)) # 0  BY <2>1, <2>4, EmptySeq
    <3>2. Len(q) - 1 \in 1..Len(Tail(q)) /\ (Len(q) - 1) + 1 = Len(q)  BY <2>1, <2>2, <3>1
    <3>3. Tail(q)[Len(q) - 1] = q[Len(q)]  BY <2>1, <3>2
    <3> QED  BY <2>1, <3>3 DEF Last
  <2>5. Len(q) = 1 => Last(q) = Head(q)  BY <2>1 DEF Last
  <2> QED  BY <2>1, <2>3, <2>4, <2>5
<1> QED  BY <1>0, <1>1, <1>2, <1>3, <1>4

LEMMA PushStep ==
    ASSUME DmaInv, NEW w \in Writers, NEW b \in Buffers, PushBuffer(w, b)
    PROVE  DmaInv'
<1>1. /\ sending[w] = "idle" /\ Len(queue) < QueueSize
      /\ queue' = Append(queue, b)
      /\ data' = [data EXCEPT ![w] = b]
      /\ sending' = [sending EXCEPT ![w] = "pushed"]
      /\ outrun' = (outrun \/ \E v \in Writers : Pushed(v))
      /\ UNCHANGED <<activated, onWire>>
  BY DEF PushBuffer, Pushed
<1>2. DmaTypes /\ DmaGoesOn  BY DEF DmaInv
<1>3. /\ Append(queue, b) \in Seq(Buffers) /\ Append(queue, b) # <<>>
      /\ Len(Append(queue, b)) = Len(queue) + 1 /\ Last(Append(queue, b)) = b
      /\ Head(Append(queue, b)) = IF queue = <<>> THEN b ELSE Head(queue)
      /\ Len(queue) = 0 <=> queue = <<>>
      /\ Len(queue) \in Nat
  BY <1>2, QueueEnds, LenProperties DEF DmaTypes
<1>4. /\ sending'[w] = "pushed" /\ data'[w] = b
      /\ \A v \in Writers : v # w => sending'[v] = sending[v] /\ data'[v] = data[v]
      /\ \A v \in Writers : Starting(v)' <=> Starting(v)
      /\ \A v \in Writers : Pushed(v)' <=> Pushed(v) \/ v = w
  BY <1>1, <1>2 DEF DmaTypes, Starting, Pushed
<1>5. DmaTypes'
  <2>1. Len(queue') <= QueueSize  BY <1>1, <1>3, TxAssumption
  <2> QED  BY <1>1, <1>2, <1>3, <2>1 DEF DmaTypes
<1>6. DmaGoesOn'
  <2>1. \A v \in Writers : sending'[v] # "idle" => data'[v] \in Buffers
    BY <1>2, <1>4 DEF DmaGoesOn
  <2>2. \E v \in Writers : sending'[v] # "idle"  BY <1>4
  <2>3. activated' => onWire' # NoBuffer \/ \E v \in Writers : Starting(v)'
    BY <1>1, <1>2, <1>4 DEF DmaGoesOn
  <2> QED  BY <2>1, <2>2, <2>3 DEF DmaGoesOn
<1>7. ASSUME ~outrun' PROVE Orderly'
  <2>1. Orderly /\ \A v \in Writers : ~Pushed(v)  BY <1>1, <1>7 DEF DmaInv
  <2>2. \A u, v \in Writers : Pushed(u)' /\ Pushed(v)' => u = v  BY <1>4, <2>1
  <2>3. \A u, v \in Writers : Starting(u)' /\ Starting(v)' => u = v  BY <1>4, <2>1 DEF Orderly
  <2>4. onWire' # NoBuffer \/ (\E v \in Writers : Starting(v)') => activated'
    BY <1>1, <1>4, <2>1 DEF Orderly
  <2>5. ASSUME NEW v \in Writers, Starting(v)'
        PROVE  onWire' = NoBuffer /\ queue' # <<>> /\ Head(queue') = data'[v]
    <3>1. Starting(v) /\ v # w  BY <1>1, <1>4, <2>5 DEF Starting
    <3>2. onWire = NoBuffer /\ queue # <<>> /\ Head(queue) = data[v]  BY <2>1, <3>1 DEF Orderly
    <3> QED  BY <1>1, <1>3, <1>4, <3>1, <3>2
  <2>6. onWire' # NoBuffer => queue' # <<>> /\ Head(queue') = onWire'
    BY <1>1, <1>3, <2>1 DEF Orderly
  <2>7. \A v \in Writers : Pushed(v)' => queue' # <<>> /\ Last(queue') = data'[v]
    BY <1>1, <1>3, <1>4, <2>1
  <2>8. activated' \/ queue' = <<>> \/ (Len(queue') = 1 /\ \E v \in Writers : Pushed(v)')
    <3>1. CASE activated  BY <1>1, <3>1
    <3>2. CASE queue = <<>>
      <4>1. Len(queue') = 1  BY <1>1, <1>3, <3>2
      <4> QED  BY <1>4, <4>1
    <3> QED  BY <2>1, <3>1, <3>2 DEF Orderly
  <2> QED  BY <2>2, <2>3, <2>4, <2>5, <2>6, <2>7, <2>8 DEF Orderly
<1> QED  BY <1>5, <1>6, <1>7 DEF DmaInv

LEMMA LookStep ==
    ASSUME DmaInv, NEW w \in Writers, LookAtActivated(w)
    PROVE  DmaInv'
<1>1. /\ Pushed(w) /\ sending[w] = "pushed" /\ activated' = TRUE
      /\ UNCHANGED <<queue, onWire, outrun>>
  BY DEF LookAtActivated, Pushed
<1>2. DmaTypes /\ DmaGoesOn  BY DEF DmaInv
<1>3. CASE activated
  <2>1. /\ sending' = [sending EXCEPT ![w] = "idle"]
        /\ data' = [data EXCEPT ![w] = NoBuffer]
    BY <1>3 DEF LookAtActivated
  <2>2. /\ sending'[w] = "idle"
        /\ \A v \in Writers : v # w => sending'[v] = sending[v] /\ data'[v] = data[v]
        /\ \A v \in Writers : Starting(v)' <=> Starting(v)
        /\ \A v \in Writers : Pushed(v)' <=> Pushed(v) /\ v # w
    BY <1>1, <1>2, <2>1 DEF DmaTypes, Starting, Pushed
  <2>3. DmaTypes'  BY <1>1, <1>2, <2>1 DEF DmaTypes
  <2>4. onWire' # NoBuffer \/ \E v \in Writers : Starting(v)'
    BY <1>1, <1>2, <1>3, <2>2 DEF DmaGoesOn
  <2>5. DmaGoesOn'
    <3>1. \A v \in Writers : sending'[v] # "idle" => data'[v] \in Buffers
      BY <1>2, <2>2 DEF DmaGoesOn
    <3>2. onWire' # NoBuffer \/ \E v \in Writers : sending'[v] # "idle"
      BY <2>4 DEF Starting
    <3> QED  BY <2>4, <3>1, <3>2 DEF DmaGoesOn
  <2>6. ASSUME ~outrun' PROVE Orderly'
    <3>1. Orderly  BY <1>1, <2>6 DEF DmaInv
    <3>2. \A v \in Writers : Starting(v) => v # w  BY <1>1 DEF Starting
    <3> QED  BY <1>1, <2>2, <3>1, <3>2 DEF Orderly
  <2> QED  BY <2>3, <2>5, <2>6 DEF DmaInv
<1>4. CASE ~activated
  <2>1. sending' = [sending EXCEPT ![w] = "starting"] /\ data' = data
    BY <1>4 DEF LookAtActivated
  <2>2. /\ sending'[w] = "starting"
        /\ \A v \in Writers : v # w => sending'[v] = sending[v]
        /\ \A v \in Writers : Starting(v)' <=> Starting(v) \/ v = w
        /\ \A v \in Writers : Pushed(v)' <=> Pushed(v) /\ v # w
    BY <1>1, <1>2, <2>1 DEF DmaTypes, Starting, Pushed
  <2>3. DmaTypes'  BY <1>1, <1>2, <2>1 DEF DmaTypes
  <2>4. DmaGoesOn'
    <3>1. \A v \in Writers : sending'[v] # "idle" => data'[v] \in Buffers
      BY <1>1, <1>2, <2>1, <2>2 DEF DmaGoesOn
    <3>2. \E v \in Writers : Starting(v)' /\ sending'[v] # "idle"  BY <2>2
    <3> QED  BY <3>1, <3>2 DEF DmaGoesOn
  <2>5. ASSUME ~outrun' PROVE Orderly'
    <3>1. Orderly  BY <1>1, <2>5 DEF DmaInv
    <3>2. onWire = NoBuffer /\ \A v \in Writers : ~Starting(v)  BY <1>4, <3>1 DEF Orderly
    <3>3. queue # <<>> /\ Last(queue) = data[w] /\ Len(queue) = 1
      BY <1>1, <1>4, <3>1 DEF Orderly
    <3>4. Head(queue) = data[w]
      <4>1. queue \in Seq(Buffers) /\ data[w] \in Buffers
        BY <1>1, <1>2 DEF DmaTypes, DmaGoesOn
      <4> QED  BY <3>3, <4>1, QueueEnds
    <3>5. \A v \in Writers : ~Pushed(v)'  BY <1>1, <2>2, <3>1 DEF Orderly
    <3>6. \A v \in Writers : Starting(v)' => v = w  BY <2>2, <3>2
    <3> QED  BY <1>1, <2>1, <3>2, <3>3, <3>4, <3>5, <3>6 DEF Orderly
  <2> QED  BY <2>3, <2>4, <2>5 DEF DmaInv
<1> QED  BY <1>3, <1>4

LEMMA StartStep ==
    ASSUME DmaInv, NEW w \in Writers, StartTransfer(w)
    PROVE  DmaInv'
<1>1. /\ Starting(w) /\ sending[w] = "starting" /\ onWire' = data[w]
      /\ sending' = [sending EXCEPT ![w] = "idle"]
      /\ data' = [data EXCEPT ![w] = NoBuffer]
      /\ UNCHANGED <<queue, activated, outrun>>
  BY DEF StartTransfer, Starting
<1>2. DmaTypes /\ DmaGoesOn  BY DEF DmaInv
<1>3. data[w] \in Buffers /\ data[w] # NoBuffer  BY <1>1, <1>2, TxAssumption DEF DmaGoesOn
<1>4. /\ sending'[w] = "idle"
      /\ \A v \in Writers : v # w => sending'[v] = sending[v] /\ data'[v] = data[v]
      /\ \A v \in Writers : Starting(v)' <=> Starting(v) /\ v # w
      /\ \A v \in Writers : Pushed(v)' <=> Pushed(v)
      /\ ~Pushed(w)
  BY <1>1, <1>2 DEF DmaTypes, Starting, Pushed
<1>5. DmaTypes'  BY <1>1, <1>2, <1>3 DEF DmaTypes
<1>6. DmaGoesOn'
  <2>1. \A v \in Writers : sending'[v] # "idle" => data'[v] \in Buffers
    BY <1>2, <1>4 DEF DmaGoesOn
  <2> QED  BY <1>1, <1>3, <2>1 DEF DmaGoesOn
<1>7. ASSUME ~outrun' PROVE Orderly'
  <2>1. Orderly  BY <1>1, <1>7 DEF DmaInv
  <2>2. activated /\ queue # <<>> /\ Head(queue) = data[w]  BY <1>1, <2>1 DEF Orderly
  <2>3. \A v \in Writers : ~Starting(v)'  BY <1>1, <1>4, <2>1 DEF Orderly
  <2>4. \A u, v \in Writers : Pushed(u)' /\ Pushed(v)' => u = v  BY <1>4, <2>1 DEF Orderly
  <2>5. \A v \in Writers : Pushed(v)' => queue' # <<>> /\ Last(queue') = data'[v]
    BY <1>1, <1>4, <2>1 DEF Orderly
  <2> QED  BY <1>1, <2>2, <2>3, <2>4, <2>5 DEF Orderly
<1> QED  BY <1>5, <1>6, <1>7 DEF DmaInv

LEMMA TransferEndsStep ==
    ASSUME DmaInv, TransferEnds
    PROVE  DmaInv'
<1>1. /\ onWire # NoBuffer
      /\ queue' = IF queue = <<>> THEN <<>> ELSE Tail(queue)
      /\ onWire' = IF queue' = <<>> THEN NoBuffer ELSE Head(queue')
      /\ activated' = (queue' # <<>>)
      /\ outrun' = (outrun \/ \E w \in Writers : Pushed(w) /\ data[w] = onWire)
      /\ UNCHANGED <<data, sending>>
  BY DEF TransferEnds, Pushed
<1>2. DmaTypes /\ DmaGoesOn  BY DEF DmaInv
<1>3. onWire \in Buffers /\ queue \in Seq(Buffers)  BY <1>1, <1>2 DEF DmaTypes
<1>4. queue' \in Seq(Buffers) /\ Len(queue') <= QueueSize
  <2>1. CASE queue = <<>>  BY <1>1, <1>2, <2>1 DEF DmaTypes
  <2>2. CASE queue # <<>>
    <3>1. /\ Tail(queue) \in Seq(Buffers) /\ Len(Tail(queue)) = Len(queue) - 1
      BY <1>3, <2>2, QueueEnds
    <3>2. Len(queue) \in Nat /\ Len(queue) <= QueueSize
      BY <1>2, <1>3, LenProperties DEF DmaTypes
    <3> QED  BY <1>1, <2>2, <3>1, <3>2, TxAssumption
  <2> QED  BY <2>1, <2>2
<1>5. queue' # <<>> => Head(queue') \in Buffers /\ Head(queue') # NoBuffer
  BY <1>3, <1>4, QueueEnds, TxAssumption
<1>6. DmaTypes'
  <2>1. onWire' \in Buffers \cup {NoBuffer}  BY <1>1, <1>5
  <2>2. activated' \in BOOLEAN /\ outrun' \in BOOLEAN  BY <1>1, <1>2 DEF DmaTypes
  <2> QED  BY <1>1, <1>2, <1>4, <2>1, <2>2 DEF DmaTypes
<1>7. queue' # <<>> => onWire' # NoBuffer  BY <1>1, <1>5
<1>8. DmaGoesOn'
  <2>1. \A v \in Writers : sending'[v] # "idle" => data'[v] \in Buffers
    BY <1>1, <1>2 DEF DmaGoesOn
  <2> QED  BY <1>1, <1>7, <2>1 DEF DmaGoesOn
<1>9. ASSUME ~outrun' PROVE Orderly'
  <2>1. Orderly /\ \A w \in Writers : Pushed(w) => data[w] # onWire  BY <1>1, <1>9 DEF DmaInv
  <2>2. queue # <<>> /\ Head(queue) = onWire /\ \A w \in Writers : ~Starting(w)
    BY <1>1, <2>1 DEF Orderly
  <2>3. queue' = Tail(queue)  BY <1>1, <2>2
  <2>4. ASSUME NEW w \in Writers, Pushed(w) PROVE queue' # <<>> /\ Last(queue') = data[w]
    <3>1. Last(queue) = data[w] /\ data[w] # onWire  BY <2>1, <2>4 DEF Orderly
    <3> QED  BY <1>3, <2>2, <2>3, <3>1, QueueEnds
  <2>5. \A w \in Writers : (Pushed(w)' <=> Pushed(w)) /\ (Starting(w)' <=> Starting(w))
    BY <1>1 DEF Pushed, Starting
  <2>6. \A v, w \in Writers : Pushed(v)' /\ Pushed(w)' => v = w  BY <2>1, <2>5 DEF Orderly
  <2>7. \A w \in Writers : Pushed(w)' => queue' # <<>> /\ Last(queue') = data'[w]
    BY <1>1, <2>4, <2>5
  <2>8. \A w \in Writers : ~Starting(w)'  BY <2>2, <2>5
  <2>9. onWire' # NoBuffer => activated' /\ queue' # <<>> /\ Head(queue') = onWire'
    BY <1>1
  <2>10. activated' \/ queue' = <<>>  BY <1>1
  <2> QED  BY <2>6, <2>7, <2>8, <2>9, <2>10 DEF Orderly
<1> QED  BY <1>6, <1>8, <1>9 DEF DmaInv

LEMMA DmaStutter ==
    ASSUME DmaInv, UNCHANGED dmaVars
    PROVE  DmaInv'
<1>1. UNCHANGED <<queue, activated, data, sending, onWire, outrun>>  BY DEF dmaVars
<1>2. \A w \in Writers : (Pushed(w)' <=> Pushed(w)) /\ (Starting(w)' <=> Starting(w))
  BY <1>1 DEF Pushed, Starting
<1>3. DmaTypes'  BY <1>1 DEF DmaInv, DmaTypes
<1>4. DmaGoesOn'  BY <1>1, <1>2 DEF DmaInv, DmaGoesOn
<1>5. Orderly => Orderly'  BY <1>1, <1>2 DEF Orderly
<1> QED  BY <1>1, <1>3, <1>4, <1>5 DEF DmaInv

-----------------------------------------------------------------------------
(***************************************************************************)
(* Both sides.                                                             *)
(***************************************************************************)
TxInv == CharInv /\ DmaInv

LEMMA TxInitInv == TxInit => TxInv
<1> SUFFICES ASSUME TxInit PROVE TxInv  OBVIOUS
<1>1. /\ dmaTx \in BOOLEAN
      /\ comp = "none" /\ asleep = FALSE /\ armed = FALSE /\ expiring = FALSE
      /\ text = <<>> /\ at = 0 /\ step = "cr" /\ phase = "try" /\ busy = FALSE /\ sent = <<>>
      /\ queue = <<>> /\ activated = FALSE
      /\ data = [w \in Writers |-> NoBuffer]
      /\ sending = [w \in Writers |-> "idle"]
      /\ onWire = NoBuffer /\ outrun = FALSE
  BY DEF TxInit, CompletionInit
<1>2. Len(text) = 0 /\ <<>> \in Seq(Chars) /\ <<>> \in Seq(Buffers) /\ Len(queue) = 0  BY <1>1
<1>3. CharTypes
  <2>1. at \in 0..Len(text)  BY <1>1, <1>2
  <2> QED  BY <1>1, <1>2, <2>1 DEF CharTypes, CompletionTypeOK, Chars
<1>4. CharWaits  BY <1>1 DEF CharWaits
<1>5. Expanded[at] = <<>>
  <2>1. Expands(Expanded, text)  BY <1>2, ExpandedSolves
  <2> QED  BY <1>1, <1>2, <2>1, ExpandedIs
<1>6. LineComplete
  <2>1. <<>> \o <<>> = <<>>  OBVIOUS
  <2> QED  BY <1>1, <1>2, <1>5, <2>1 DEF LineComplete
<1>7. DmaTypes
  <2>1. activated \in BOOLEAN /\ outrun \in BOOLEAN  BY <1>1
  <2>2. Len(queue) <= QueueSize  BY <1>2, TxAssumption
  <2>3. queue \in Seq(Buffers)  BY <1>1, <1>2
  <2>4. /\ data \in [Writers -> Buffers \cup {NoBuffer}]
        /\ sending \in [Writers -> {"idle", "pushed", "starting"}]
        /\ onWire \in Buffers \cup {NoBuffer}
    BY <1>1
  <2> QED  BY <2>1, <2>2, <2>3, <2>4 DEF DmaTypes
<1>8. DmaGoesOn /\ Orderly  BY <1>1 DEF DmaGoesOn, Orderly, Pushed, Starting
<1> QED  BY <1>2, <1>3, <1>4, <1>5, <1>6, <1>7, <1>8 DEF TxInv, CharInv, DmaInv

LEMMA TxStep ==
    ASSUME TxInv, TxNext
    PROVE  TxInv'
<1>0. CharInv /\ DmaInv  BY DEF TxInv
<1>1. ASSUME NEW s \in Texts, WriteText(s) PROVE TxInv'
  <2>1. CharInv' /\ UNCHANGED dmaVars  BY <1>0, <1>1, WriteTextStep DEF WriteText
  <2> QED  BY <1>0, <2>1, DmaStutter DEF TxInv
<1>2. CASE SendCr
  <2>1. CharInv' /\ UNCHANGED dmaVars  BY <1>0, <1>2, SendCrStep DEF SendCr
  <2> QED  BY <1>0, <2>1, DmaStutter DEF TxInv
<1>3. CASE SendChar
  <2>1. CharInv' /\ UNCHANGED dmaVars  BY <1>0, <1>3, SendCharStep DEF SendChar
  <2> QED  BY <1>0, <2>1, DmaStutter DEF TxInv
<1>4. CASE NoRoom \/ Wait \/ GoesOn \/ TxDone \/ WriterResumed
  <2>1. CharInv'  BY <1>0, <1>4, CharWaitStep
  <2>2. UNCHANGED dmaVars  BY <1>4 DEF NoRoom, Wait, GoesOn, TxDone, WriterResumed
  <2> QED  BY <1>0, <2>1, <2>2, DmaStutter DEF TxInv
<1>5. ASSUME NEW w \in Writers, NEW b \in Buffers, PushBuffer(w, b) PROVE TxInv'
  <2>1. DmaInv' /\ UNCHANGED <<dmaTx, charVars>>  BY <1>0, <1>5, PushStep DEF PushBuffer
  <2> QED  BY <1>0, <2>1, CharStutter DEF TxInv
<1>6. ASSUME NEW w \in Writers, LookAtActivated(w) PROVE TxInv'
  <2>1. DmaInv' /\ UNCHANGED <<dmaTx, charVars>>  BY <1>0, <1>6, LookStep DEF LookAtActivated
  <2> QED  BY <1>0, <2>1, CharStutter DEF TxInv
<1>7. ASSUME NEW w \in Writers, StartTransfer(w) PROVE TxInv'
  <2>1. DmaInv' /\ UNCHANGED <<dmaTx, charVars>>  BY <1>0, <1>7, StartStep DEF StartTransfer
  <2> QED  BY <1>0, <2>1, CharStutter DEF TxInv
<1>8. CASE TransferEnds
  <2>1. DmaInv' /\ UNCHANGED <<dmaTx, charVars>>
    BY <1>0, <1>8, TransferEndsStep DEF TransferEnds
  <2> QED  BY <1>0, <2>1, CharStutter DEF TxInv
<1> QED  BY <1>1, <1>2, <1>3, <1>4, <1>5, <1>6, <1>7, <1>8 DEF TxNext

SerialInv == RxInv /\ TxInv

LEMMA SerialInvInit == SerialInit => SerialInv /\ Line!LineInit
BY RxInitInv, TxInitInv DEF SerialInit, SerialInv

LEMMA SerialInvStep ==
    SerialInv /\ [SerialNext]_serialVars => SerialInv' /\ [Line!LineNext]_<<Unread, Capacity>>
<1> SUFFICES ASSUME SerialInv, [SerialNext]_serialVars
             PROVE  SerialInv' /\ [Line!LineNext]_<<Unread, Capacity>>
  OBVIOUS
<1>0. RxInv /\ TxInv /\ CharInv /\ DmaInv  BY DEF SerialInv, TxInv
<1>1. UNCHANGED txVars => TxInv'
  <2> SUFFICES ASSUME UNCHANGED txVars PROVE TxInv'  OBVIOUS
  <2>1. UNCHANGED <<dmaTx, charVars>> /\ UNCHANGED dmaVars  BY DEF txVars
  <2> QED  BY <1>0, <2>1, CharStutter, DmaStutter DEF TxInv
<1>2. CASE RxNext /\ UNCHANGED txVars  BY <1>0, <1>1, <1>2, RxStep DEF SerialInv
<1>3. CASE TxNext /\ UNCHANGED rxVars
  <2>1. TxInv'  BY <1>0, <1>3, TxStep
  <2>2. RxInv' /\ UNCHANGED <<Unread, Capacity>>  BY <1>0, <1>3, RxStutter
  <2> QED  BY <2>1, <2>2 DEF SerialInv
<1>4. CASE UNCHANGED serialVars
  <2>1. UNCHANGED rxVars /\ UNCHANGED txVars  BY <1>4 DEF serialVars
  <2>2. RxInv' /\ UNCHANGED <<Unread, Capacity>>  BY <1>0, <2>1, RxStutter
  <2> QED  BY <1>1, <2>1, <2>2 DEF SerialInv
<1> QED  BY <1>2, <1>3, <1>4 DEF SerialNext

THEOREM SerialInvAlways == SerialSpec => []SerialInv
<1>1. SerialInit => SerialInv  BY SerialInvInit
<1>2. SerialInv /\ [SerialNext]_serialVars => SerialInv'  BY SerialInvStep
<1> QED  BY <1>1, <1>2, PTL DEF SerialSpec

\* Every variable of the serial device has its type: the indices stay in the ring.
THEOREM SerialTypeCorrect == SerialSpec => []SerialTypeOK
<1>1. SerialInv => SerialTypeOK
  BY DEF SerialInv, RxInv, RxShape, TxInv, CharInv, CharTypes, DmaInv, DmaTypes,
         SerialTypeOK, TxTypeOK
<1> QED  BY <1>1, SerialInvAlways, PTL

\* No reader sleeps beside bytes, no writer waits for a completion that was done, no
\* buffer stays in the queue with nobody to transfer it.
THEOREM SerialForgetsNobody == SerialSpec => []NobodyForgotten
<1>1. SerialInv => NobodyForgotten
  BY DEF SerialInv, RxInv, TxInv, CharInv, CharWaits, DmaInv, DmaGoesOn,
         NobodyForgotten, NobodyWaitsForNothing
<1> QED  BY <1>1, SerialInvAlways, PTL

\* What is written is sent once and in order, by interrupts and by DMA.
THEOREM SentInOrderAlways == SerialSpec => []SentInOrder
<1>1. SerialInv => SentInOrder
  <2> SUFFICES ASSUME SerialInv PROVE SentInOrder  OBVIOUS
  <2>1. LineComplete /\ (~outrun => Orderly)  BY DEF SerialInv, TxInv, CharInv, DmaInv
  <2> QED  BY <2>1 DEF Orderly, SentInOrder, WireCarriesHead
<1> QED  BY <1>1, SerialInvAlways, PTL

\* The ring, in all its modes, is a queue of the last bytes received.
THEOREM SerialRefinesLine == SerialSpec => RefinesLine
<1>1. SerialInit => Line!LineInit  BY SerialInvInit
<1>2. SerialInv /\ [SerialNext]_serialVars => [Line!LineNext]_<<Unread, Capacity>>
  BY SerialInvStep
<1>3. SerialInv =>
        [rxVars' # rxVars =>
           /\ \A b \in Bytes : ReceiveByte(b) => Line!Receive(<<b>>)
           /\ \A n \in 1..BufSize : \A bs \in [1..n -> Bytes] :
                 ReceiveBlock(bs) => Line!Receive(bs)]_serialVars
  <2> SUFFICES ASSUME SerialInv
               PROVE  /\ \A b \in Bytes : ReceiveByte(b) => Line!Receive(<<b>>)
                      /\ \A n \in 1..BufSize : \A bs \in [1..n -> Bytes] :
                            ReceiveBlock(bs) => Line!Receive(bs)
    OBVIOUS
  <2>1. RxShape  BY DEF SerialInv, RxInv
  <2>2. ASSUME NEW b \in Bytes, ReceiveByte(b) PROVE Line!Receive(<<b>>)
    BY <2>1, <2>2, ByteStep
  <2>3. ASSUME NEW n \in 1..BufSize, NEW bs \in [1..n -> Bytes], ReceiveBlock(bs)
        PROVE  Line!Receive(bs)
    BY <2>1, <2>3, BlockStep
  <2> QED  BY <2>2, <2>3
<1> QED  BY <1>1, <1>2, <1>3, SerialInvAlways, PTL
         DEF SerialSpec, RefinesLine, Line!LineSpec, AllThatComesIsAdded
=============================================================================
