------------------------ MODULE TimerSemaphoreProofs ------------------------
(***************************************************************************)
(* Proofs about two components that share no state in the models: the      *)
(* semaphore, and the timers with the thread that sleeps on one.  First    *)
(* the semaphore.                                                          *)
(*                                                                         *)
(* Safety of the semaphore for any finite set of threads, any limit and    *)
(* both queueing disciplines.  The inductive invariant has two parts.      *)
(* Shape: the wait list is well formed, only takers sleep, an armed thread *)
(* timer belongs to a sleeper.  Expiry: what handlers can do to a thread   *)
(* whose timer was popped, before it is called back, and that no other     *)
(* thread can meet a release with its timer popped.  Conservation of units *)
(* needs both.                                                             *)
(***************************************************************************)
EXTENDS Semaphore, Timer, WaitListProofs, FiniteSetTheorems

\* Only takers stand on the list, each once, and none of them was served.
Sleepers ==
    /\ Distinct(waiters)
    /\ \A t \in Threads : Holds(waiters, t) => Taking(t) /\ error[t] # "EOK"

\* An armed thread timer has its flag set and its thread on the list; the
\* timer being handled is not armed.
ThreadTimers ==
    /\ \A t \in armed : t \in ttmr /\ Holds(waiters, t)
    /\ expiring \notin armed

Shape == TypeOK /\ NoSleeperBesideUnit /\ Sleepers /\ ThreadTimers

\* The thread whose timer was popped is inside its take and sleeps, unless a
\* handler has woken it since; nobody else sleeps with its timer popped.
Expiry ==
    /\ ~ThreadContext =>
          Taking(expiring) /\ (Holds(waiters, expiring) \/ error[expiring] = "EOK")
    /\ \A t \in Threads : Holds(waiters, t) /\ Raced(t) => t = expiring

-----------------------------------------------------------------------------
\* The semaphore has one list: a thread sleeps iff it is on that list.
LEMMA OneList ==
    ASSUME DOMAIN susp = {List}, NEW t
    PROVE  Suspended(t) <=> Holds(waiters, t)
  BY DEF Suspended, waiters

\* The effect of each fragment of SuspendList on the wait list.
LEMMA WaitersUnlinked ==
    ASSUME TypeOK, Distinct(waiters), NEW t,
           susp' = [l \in DOMAIN susp |-> Unlink(susp[l], t)]
    PROVE  /\ susp' \in [{List} -> Seq(Threads)]
           /\ Distinct(waiters')
           /\ \A u : Holds(waiters', u) <=> Holds(waiters, u) /\ u # t
<1>1. susp \in [{List} -> Seq(Threads)]  BY DEF TypeOK
<1>2. waiters \in Seq(Threads)  BY <1>1 DEF waiters
<1>3. waiters' = Unlink(waiters, t)  BY <1>1 DEF waiters
<1>4. Unlink(waiters, t) \in Seq(Threads)  BY <1>2, UnlinkFacts
<1>5. susp' = [l \in {List} |-> Unlink(waiters, t)]  BY <1>1 DEF waiters
<1> QED  BY <1>2, <1>3, <1>4, <1>5, UnlinkFacts

LEMMA WaitersEnqueued ==
    ASSUME TypeOK, Distinct(waiters), NEW t \in Threads, ~Holds(waiters, t), NEW flag,
           susp' = [susp EXCEPT ![List] = Enqueue(@, t, flag, prio)]
    PROVE  /\ susp' \in [{List} -> Seq(Threads)]
           /\ Distinct(waiters')
           /\ \A u : Holds(waiters', u) <=> Holds(waiters, u) \/ u = t
<1>1. susp \in [{List} -> Seq(Threads)]  BY DEF TypeOK
<1>2. waiters \in Seq(Threads)  BY <1>1 DEF waiters
<1>3. waiters' = Enqueue(waiters, t, flag, prio)  BY <1>1 DEF waiters
<1>4. Enqueue(waiters, t, flag, prio) \in Seq(Threads)  BY <1>2, EnqueueFacts
<1>5. susp' \in [{List} -> Seq(Threads)]  BY <1>1, <1>4 DEF waiters
<1> QED  BY <1>2, <1>3, <1>5, EnqueueFacts

LEMMA WaitersServed ==
    ASSUME TypeOK, Distinct(waiters), waiters # <<>>,
           susp' = [susp EXCEPT ![List] = Tail(@)]
    PROVE  /\ susp' \in [{List} -> Seq(Threads)]
           /\ Head(waiters) \in Threads /\ Holds(waiters, Head(waiters))
           /\ Distinct(waiters')
           /\ \A u : Holds(waiters', u) <=> Holds(waiters, u) /\ u # Head(waiters)
<1>1. susp \in [{List} -> Seq(Threads)]  BY DEF TypeOK
<1>2. waiters \in Seq(Threads)  BY <1>1 DEF waiters
<1>3. waiters' = Tail(waiters)  BY <1>1 DEF waiters
<1>4. Tail(waiters) \in Seq(Threads)  BY <1>2, TailFacts
<1>5. susp' \in [{List} -> Seq(Threads)]  BY <1>1, <1>4 DEF waiters
<1> QED  BY <1>2, <1>3, <1>5, TailFacts

LEMMA WaitersResumed ==
    ASSUME TypeOK, susp' = [l \in DOMAIN susp |-> IF l \in {List} THEN <<>> ELSE susp[l]]
    PROVE  /\ susp' \in [{List} -> Seq(Threads)]
           /\ waiters' = <<>>
           /\ Distinct(waiters')
           /\ \A u : ~Holds(waiters', u)
<1>1. susp' = [l \in {List} |-> <<>>]  BY DEF TypeOK
<1>2. waiters' = <<>>  BY <1>1 DEF waiters
<1>3. <<>> \in Seq(Threads)  OBVIOUS
<1> QED  BY <1>1, <1>2, <1>3 DEF Distinct, Holds

-----------------------------------------------------------------------------
\* What a step does to the semaphore depends on five outcomes for its list.
USE SemaphoreAssumption, NoThreadAssumption

LEMMA ShapeInit == Init => Shape
<1> SUFFICES ASSUME Init PROVE Shape  OBVIOUS
<1>1. waiters = <<>>  BY DEF Init, waiters
<1>2. <<>> \in Seq(Threads)  OBVIOUS
<1>3. TypeOK
  <2>1. susp \in [{List} -> Seq(Threads)]  BY <1>2 DEF Init
  <2> QED  BY <2>1 DEF Init, TypeOK, Errors, Places
<1>4. \A t : ~Holds(waiters, t)  BY <1>1 DEF Holds
<1>5. Distinct(waiters)  BY <1>1 DEF Distinct
<1>6. armed = {} /\ expiring = NoThread  BY DEF Init
<1> QED  BY <1>1, <1>3, <1>4, <1>5, <1>6 DEF Shape, NoSleeperBesideUnit, Sleepers, ThreadTimers

\* The facts of Shape every step starts from.
LEMMA ShapeFacts ==
    ASSUME Shape
    PROVE  /\ Distinct(waiters)
           /\ waiters \in Seq(Threads)
           /\ \A t : Suspended(t) <=> Holds(waiters, t)
           /\ armed \subseteq Threads
<1>1. TypeOK /\ Distinct(waiters)  BY DEF Shape, Sleepers
<1>2. DOMAIN susp = {List}  BY <1>1 DEF TypeOK
<1>3. waiters \in Seq(Threads)  BY <1>1 DEF TypeOK, waiters
<1> QED  BY <1>1, <1>2, <1>3, OneList DEF TypeOK

\* A step that touches neither the list nor the timers.
LEMMA CounterStep ==
    ASSUME Shape, UNCHANGED suspVars, TypeOK', NoSleeperBesideUnit',
           \A t \in Threads : Holds(waiters, t) => pc'[t] = pc[t]
    PROVE  Shape'
<1>1. Sleepers'  BY DEF Shape, Sleepers, suspVars, waiters, Taking
<1>2. ThreadTimers'  BY DEF Shape, ThreadTimers, suspVars, waiters
<1> QED  BY <1>1, <1>2 DEF Shape

\* A step that takes threads off the list, with their timers disarmed, and
\* tells no other thread on it anything.
LEMMA LeavingStep ==
    ASSUME Shape, NEW gone \in SUBSET Threads,
           TypeOK', NoSleeperBesideUnit', Distinct(waiters'),
           \A u : Holds(waiters', u) <=> Holds(waiters, u) /\ u \notin gone,
           armed' \subseteq armed, armed' \cap gone = {}, expiring' \notin armed',
           ttmr \ gone \subseteq ttmr',
           \A t \in Threads \ gone : error'[t] = error[t] /\ pc'[t] = pc[t]
    PROVE  Shape'
<1>1. Sleepers'  BY DEF Shape, Sleepers, Taking
<1>2. ThreadTimers'  BY ShapeFacts DEF Shape, ThreadTimers
<1> QED  BY <1>1, <1>2 DEF Shape

LEMMA TakeStep ==
    ASSUME Shape, NEW t \in Threads, TakeOps(t)
    PROVE  Shape'
<1> USE DEF Shape
<1>1. CASE TakeAvailable(t)
  <2>1. TypeOK'  BY <1>1 DEF TakeAvailable, TypeOK, suspVars
  <2>2. NoSleeperBesideUnit'
    BY <1>1 DEF TakeAvailable, NoSleeperBesideUnit, suspVars, waiters, TypeOK
  <2> QED  BY <1>1, <2>1, <2>2, CounterStep DEF TakeAvailable
<1>2. CASE TryTakeFails(t)
  BY <1>2, CounterStep DEF TryTakeFails, vars, semVars, suspVars, TypeOK,
     NoSleeperBesideUnit, waiters
<1>3. ASSUME NEW timed \in BOOLEAN, TakeBlocks(t, timed) PROVE Shape'
  <2> USE <1>3 DEF TakeBlocks, SuspendToList, SuspendWith
  <2>1. ~Holds(waiters, t)  BY DEF Sleepers, Taking, Places
  <2>2. /\ susp' \in [{List} -> Seq(Threads)]
        /\ Distinct(waiters')
        /\ \A u : Holds(waiters', u) <=> Holds(waiters, u) \/ u = t
    BY <2>1, ShapeFacts, WaitersEnqueued
  <2>3. TypeOK'  BY <2>2 DEF TypeOK, Errors, Places
  <2>4. NoSleeperBesideUnit'  BY DEF NoSleeperBesideUnit
  <2>5. Sleepers'  BY <2>2 DEF Sleepers, Taking, TypeOK
  <2>6. expiring' \notin armed'  BY DEF ThreadContext, TypeOK
  <2>7. ThreadTimers'  BY <2>2, <2>6 DEF ThreadTimers
  <2> QED  BY <2>3, <2>4, <2>5, <2>7
<1>4. CASE TakeReturns(t)
  <2>1. TypeOK'
    BY <1>4 DEF TakeReturns, TypeOK, suspVars, Places
  <2>2. NoSleeperBesideUnit'  BY <1>4 DEF TakeReturns, NoSleeperBesideUnit, suspVars, waiters
  <2>3. \A u \in Threads : Holds(waiters, u) => pc'[u] = pc[u]
    BY <1>4, ShapeFacts DEF TakeReturns, TypeOK
  <2> QED  BY <1>4, <2>1, <2>2, <2>3, CounterStep DEF TakeReturns
<1> QED  BY <1>1, <1>2, <1>3, <1>4 DEF TakeOps

LEMMA ReleaseStep ==
    ASSUME Shape, ReleaseWakes \/ ReleaseCounts \/ ReleaseFull
    PROVE  Shape'
<1> USE DEF Shape
<1>1. CASE ReleaseWakes
  <2> DEFINE h == Head(waiters)
  <2> USE <1>1 DEF ReleaseWakes, Dequeue
  <2>1. h \in Threads /\ Holds(waiters, h)  BY ShapeFacts, TailFacts
  <2>2. armed' = armed \ {h}  BY DEF ThreadTimers, waiters
  <2>3. value = 0  BY DEF NoSleeperBesideUnit, TypeOK
  <2>4. NoSleeperBesideUnit'  BY <2>3 DEF NoSleeperBesideUnit
  <2>5. CASE Raced(h)
    <3>1. UNCHANGED <<susp, error>>  BY <2>5 DEF waiters
    <3>2. TypeOK'
      <4>1. balance' \in Int /\ lost' \in Nat  BY DEF TypeOK
      <4> QED  BY <3>1, <4>1 DEF TypeOK
    <3>3. Sleepers'  BY <3>1 DEF Sleepers, waiters, Taking
    <3>4. ThreadTimers'  BY <2>2, <3>1 DEF ThreadTimers, waiters
    <3> QED  BY <2>4, <3>2, <3>3, <3>4
  <2>6. CASE ~Raced(h)
    <3>1. /\ susp' = [susp EXCEPT ![List] = Tail(@)]
          /\ error' = [error EXCEPT ![h] = "EOK"]
      BY <2>6 DEF waiters
    <3>2. /\ susp' \in [{List} -> Seq(Threads)]
          /\ Distinct(waiters')
          /\ \A u : Holds(waiters', u) <=> Holds(waiters, u) /\ u \notin {h}
      BY <3>1, ShapeFacts, WaitersServed
    <3>3. /\ ttmr' = ttmr \ {h}
          /\ UNCHANGED <<expiring, prio, value, maxValue, alive, pc>>
          /\ balance' = balance + 1 /\ lost' \in {lost, lost + 1}
      BY DEF waiters
    <3> HIDE DEF ReleaseWakes, Dequeue, h
    <3>4. error' \in [Threads -> Errors]  BY <2>1, <3>1 DEF TypeOK, Errors
    <3>5. balance' \in Int /\ lost' \in Nat  BY <3>3 DEF TypeOK
    <3>6. TypeOK'  BY <2>2, <3>2, <3>3, <3>4, <3>5 DEF TypeOK
    <3>7. \A u \in Threads \ {h} : error'[u] = error[u] /\ pc'[u] = pc[u]
      BY <3>1, <3>3 DEF TypeOK
    <3>8. expiring' \notin armed'  BY <2>2, <3>3 DEF ThreadTimers
    <3> QED  BY <2>1, <2>2, <2>4, <3>2, <3>3, <3>6, <3>7, <3>8, LeavingStep
  <2> QED  BY <2>5, <2>6
<1>2. CASE ReleaseCounts
  <2>1. TypeOK'  BY <1>2 DEF ReleaseCounts, TypeOK, suspVars
  <2>2. NoSleeperBesideUnit'  BY <1>2 DEF ReleaseCounts, NoSleeperBesideUnit, suspVars, waiters
  <2> QED  BY <1>2, <2>1, <2>2, CounterStep DEF ReleaseCounts
<1>3. CASE ReleaseFull
  BY <1>3, CounterStep DEF ReleaseFull, vars, semVars, suspVars, TypeOK,
     NoSleeperBesideUnit, waiters
<1> QED  BY <1>1, <1>2, <1>3

LEMMA ControlStep ==
    ASSUME Shape, ControlOps
    PROVE  Shape'
<1> USE DEF Shape
<1>1. ASSUME ResumeAll({List}, "ERROR"), UNCHANGED pc,
             value' \in 0..ValueMax, maxValue' \in 1..ValueMax, alive' \in BOOLEAN,
             balance' \in Int, lost' \in Nat
      PROVE  Shape'
  <2> DEFINE woken == {u \in Threads : Holds(waiters, u)}
  <2>1. /\ susp' = [l \in DOMAIN susp |-> IF l \in {List} THEN <<>> ELSE susp[l]]
        /\ ttmr' = ttmr \ woken
        /\ armed' = armed \ woken
        /\ error' = [u \in Threads |-> IF u \in woken THEN "ERROR" ELSE error[u]]
        /\ UNCHANGED <<expiring, prio>>
    BY <1>1 DEF ResumeAll, waiters
  <2>2. /\ susp' \in [{List} -> Seq(Threads)]
        /\ waiters' = <<>>
        /\ Distinct(waiters')
        /\ \A u : ~Holds(waiters', u)
    BY <2>1, WaitersResumed
  <2>3. TypeOK'  BY <1>1, <2>1, <2>2 DEF TypeOK, Errors
  <2>4. NoSleeperBesideUnit'  BY <2>2 DEF NoSleeperBesideUnit
  <2>5. \A u : Holds(waiters', u) <=> Holds(waiters, u) /\ u \notin woken
    <3>1. \A u : Holds(waiters, u) => u \in Threads
      BY ShapeFacts, LenProperties, ElementOfSeq DEF Holds
    <3> QED  BY <2>2, <3>1
  <2> HIDE DEF woken
  <2>6. Sleepers'  BY <2>2 DEF Sleepers
  <2>7. \A u \in armed : u \in woken  BY ShapeFacts DEF ThreadTimers, woken
  <2>8. ThreadTimers'  BY <2>1, <2>7 DEF ThreadTimers, woken
  <2> QED  BY <2>3, <2>4, <2>6, <2>8
<1>2. ASSUME NEW v \in 0..ValueMax, Reset(v) PROVE Shape'
  <2>1. /\ value' \in 0..ValueMax /\ maxValue' \in 1..ValueMax
        /\ alive' \in BOOLEAN /\ balance' \in Int /\ lost' \in Nat
    BY <1>2 DEF Reset, TypeOK
  <2> QED  BY <1>1, <1>2, <2>1 DEF Reset
<1>3. ASSUME NEW m \in 1..ValueMax, SetLimit(m) PROVE Shape'
  <2>1. /\ value' \in 0..ValueMax /\ maxValue' \in 1..ValueMax
        /\ alive' \in BOOLEAN /\ balance' \in Int /\ lost' \in Nat
    BY <1>3 DEF SetLimit, TypeOK
  <2>2. CASE m < value  BY <1>1, <1>3, <2>1, <2>2 DEF SetLimit
  <2>3. CASE ~(m < value)
    <3>1. UNCHANGED suspVars /\ UNCHANGED <<value, pc>>  BY <1>3, <2>3 DEF SetLimit
    <3>2. TypeOK'  BY <2>1, <3>1 DEF TypeOK, suspVars
    <3>3. NoSleeperBesideUnit'  BY <3>1 DEF NoSleeperBesideUnit, suspVars, waiters
    <3> QED  BY <3>1, <3>2, <3>3, CounterStep
  <2> QED  BY <2>2, <2>3
<1>4. CASE Detach
  <2>1. /\ value' \in 0..ValueMax /\ maxValue' \in 1..ValueMax
        /\ alive' \in BOOLEAN /\ balance' \in Int /\ lost' \in Nat
    BY <1>4 DEF Detach, TypeOK
  <2> QED  BY <1>1, <1>4, <2>1 DEF Detach
<1> QED  BY <1>2, <1>3, <1>4 DEF ControlOps

\* Resumption, deletion and expiry all unlink one thread.
LEMMA UnlinkStep ==
    ASSUME Shape, NEW t \in Threads,
           susp' = [l \in DOMAIN susp |-> Unlink(susp[l], t)],
           armed' \subseteq armed, t \notin armed', expiring' \notin armed',
           ttmr \ {t} \subseteq ttmr', ttmr' \subseteq ttmr,
           error' \in [Threads -> Errors], pc' \in [Threads -> Places],
           \A u \in Threads \ {t} : error'[u] = error[u] /\ pc'[u] = pc[u],
           expiring' \in Threads \cup {NoThread}, balance' \in Int, lost' \in Nat,
           UNCHANGED <<prio, value, maxValue, alive>>
    PROVE  Shape'
<1>1. TypeOK /\ NoSleeperBesideUnit /\ Distinct(waiters)  BY ShapeFacts DEF Shape
<1>2. /\ susp' \in [{List} -> Seq(Threads)]
      /\ Distinct(waiters')
      /\ \A u : Holds(waiters', u) <=> Holds(waiters, u) /\ u \notin {t}
  BY <1>1, WaitersUnlinked
<1>3. TypeOK'  BY <1>1, <1>2 DEF TypeOK
<1>4. waiters' \in Seq(Threads)  BY <1>2 DEF waiters
<1>5. waiters = <<>> => waiters' = <<>>
  BY <1>2, <1>4, EmptyHoldsNobody DEF Holds
<1>6. NoSleeperBesideUnit'  BY <1>1, <1>5 DEF NoSleeperBesideUnit
<1>7. {t} \in SUBSET Threads /\ armed' \cap {t} = {}  OBVIOUS
<1> QED  BY <1>2, <1>3, <1>6, <1>7, LeavingStep

LEMMA WaitEventStep ==
    ASSUME Shape, NEW t \in Threads, WaitEvents(t)
    PROVE  Shape'
<1>0. TypeOK /\ NoSleeperBesideUnit  BY DEF Shape
<1>1. CASE TimerPop(t) /\ UNCHANGED semVars
  <2>1. /\ UNCHANGED <<susp, ttmr, error, prio, value, maxValue, alive, pc, balance, lost>>
        /\ armed' = armed \ {t} /\ expiring' = t
    BY <1>1 DEF TimerPop, semVars
  <2>2. TypeOK'  BY <1>0, <2>1 DEF TypeOK
  <2>3. NoSleeperBesideUnit'  BY <1>0, <2>1 DEF NoSleeperBesideUnit, waiters
  <2>4. Sleepers'  BY <2>1 DEF Shape, Sleepers, Taking, waiters
  <2>5. ThreadTimers'  BY <2>1 DEF Shape, ThreadTimers, waiters
  <2> QED  BY <2>2, <2>3, <2>4, <2>5 DEF Shape
<1>2. CASE ThreadResume(t) /\ UNCHANGED semVars
  BY <1>0, <1>2, UnlinkStep DEF ThreadResume, semVars, TypeOK, Shape, ThreadTimers
<1>3. CASE Delete(t)
  <2>1. pc' \in [Threads -> Places] /\ balance' \in Int /\ lost' \in Nat
    BY <1>0, <1>3 DEF Delete, TypeOK, Places
  <2>2. \A u \in Threads \ {t} : pc'[u] = pc[u]  BY <1>0, <1>3 DEF Delete, TypeOK
  <2> QED  BY <1>0, <1>3, <2>1, <2>2, UnlinkStep DEF Delete, ThreadClose, TypeOK, Shape, ThreadTimers
<1>4. ASSUME NEW p \in Priorities, ChangePriority(t, p), UNCHANGED semVars PROVE Shape'
  <2>1. /\ UNCHANGED <<susp, armed, ttmr, error, expiring, value, maxValue, alive, pc, balance, lost>>
        /\ prio' \in [Threads -> Priorities]
    BY <1>0, <1>4 DEF ChangePriority, semVars, TypeOK
  <2>2. TypeOK'  BY <1>0, <2>1 DEF TypeOK
  <2>3. NoSleeperBesideUnit'  BY <1>0, <2>1 DEF NoSleeperBesideUnit, waiters
  <2>4. Sleepers'  BY <2>1 DEF Shape, Sleepers, Taking, waiters
  <2>5. ThreadTimers'  BY <2>1 DEF Shape, ThreadTimers, waiters
  <2> QED  BY <2>2, <2>3, <2>4, <2>5 DEF Shape
<1> QED  BY <1>1, <1>2, <1>3, <1>4 DEF WaitEvents

LEMMA TimeoutStep ==
    ASSUME Shape, Expire
    PROVE  Shape'
<1>1. TypeOK  BY DEF Shape
<1>2. expiring \in Threads  BY <1>1 DEF TypeOK, Expire, ThreadTimeout, ThreadContext
<1>3. error' \in [Threads -> Errors] /\ \A u \in Threads \ {expiring} : error'[u] = error[u]
  BY <1>1, <1>2 DEF Expire, ThreadTimeout, TypeOK, Errors
<1>4. expiring \notin armed /\ NoThread \notin armed  BY <1>1 DEF Shape, ThreadTimers, TypeOK
<1>5. /\ UNCHANGED <<armed, ttmr, prio, value, maxValue, alive, pc, balance>>
      /\ expiring' = NoThread /\ lost' \in {lost, lost + 1}
      /\ susp' = [l \in DOMAIN susp |-> Unlink(susp[l], expiring)]
  BY DEF Expire, ThreadTimeout
<1>6. pc' \in [Threads -> Places] /\ balance' \in Int /\ lost' \in Nat  BY <1>1, <1>5 DEF TypeOK
<1> QED  BY <1>2, <1>3, <1>4, <1>5, <1>6, UnlinkStep

\* Shape is inductive.
THEOREM ShapeStep == Shape /\ [Next]_vars => Shape'
<1> SUFFICES ASSUME Shape, [Next]_vars PROVE Shape'  OBVIOUS
<1>1. ASSUME NEW t \in Threads, TakeOps(t) PROVE Shape'  BY <1>1, TakeStep
<1>2. ASSUME NEW t \in Threads, WaitEvents(t) PROVE Shape'  BY <1>2, WaitEventStep
<1>3. CASE ReleaseWakes \/ ReleaseCounts \/ ReleaseFull  BY <1>3, ReleaseStep
<1>4. CASE ControlOps  BY <1>4, ControlStep
<1>5. CASE Expire  BY <1>5, TimeoutStep
<1>6. CASE UNCHANGED vars
  <2>1. TypeOK'  BY <1>6 DEF vars, suspVars, semVars, Shape, TypeOK
  <2>2. NoSleeperBesideUnit'
    BY <1>6 DEF vars, suspVars, semVars, Shape, NoSleeperBesideUnit, waiters
  <2> QED  BY <1>6, <2>1, <2>2, CounterStep DEF vars, semVars
<1> QED  BY <1>1, <1>2, <1>3, <1>4, <1>5, <1>6 DEF Next

\* Every variable keeps its type, whatever the schedule.
THEOREM TypeCorrect == Spec => []TypeOK
<1>1. Shape => TypeOK  BY DEF Shape
<1> QED  BY <1>1, ShapeInit, ShapeStep, PTL DEF Spec

\* A unit is never left in the semaphore beside a sleeping taker, whatever
\* handlers release in the middle of the tick interrupt.
THEOREM NoSleeperBesideUnitAlways == Spec => []NoSleeperBesideUnit
<1>1. Shape => NoSleeperBesideUnit  BY DEF Shape
<1> QED  BY <1>1, ShapeInit, ShapeStep, PTL DEF Spec

-----------------------------------------------------------------------------
\* What becomes of the thread the tick interrupt is about to call back.

LEMMA ExpiryInit == Init => Expiry
  BY DEF Init, Expiry, ThreadContext, Raced

LEMMA ExpiryStep ==
    ASSUME Shape, Shape', Expiry, [Next]_vars
    PROVE  Expiry'
<1>0. /\ \A t : Suspended(t) <=> Holds(waiters, t)
      /\ TypeOK
      /\ Distinct(waiters)
      /\ waiters \in Seq(Threads)
  BY ShapeFacts DEF Shape
<1>1. ThreadContext => \A t \in Threads : Holds(waiters, t) => ~Raced(t)
  BY DEF Expiry, ThreadContext
\* Steps that leave the list and the timers alone.
<1>2. ASSUME UNCHANGED <<susp, armed, ttmr, expiring>>, ThreadContext \/ UNCHANGED <<pc, error>>
      PROVE  Expiry'
  BY <1>2 DEF Expiry, ThreadContext, waiters, Raced, Taking
\* Steps of threads after which every sleeper was one before.
<1>3. ASSUME ThreadContext, UNCHANGED expiring,
             NEW gone \in SUBSET Threads,
             \A u : Holds(waiters', u) => Holds(waiters, u) /\ u \notin gone,
             \A u \in Threads \ gone : (u \in armed' <=> u \in armed) /\ (u \in ttmr' => u \in ttmr)
      PROVE  Expiry'
  BY <1>1, <1>3 DEF Expiry, ThreadContext, Raced
<1>4. ASSUME NEW t \in Threads, TakeOps(t) PROVE Expiry'
  <2>1. CASE TakeAvailable(t)  BY <1>2, <2>1 DEF TakeAvailable, suspVars
  <2>2. CASE TryTakeFails(t)  BY <1>2, <2>2 DEF TryTakeFails, vars, suspVars
  <2>3. ASSUME NEW timed \in BOOLEAN, TakeBlocks(t, timed) PROVE Expiry'
    <3> USE <2>3 DEF TakeBlocks, SuspendToList, SuspendWith
    <3>1. ~Holds(waiters, t)  BY DEF Shape, Sleepers, Taking
    <3>2. \A u : Holds(waiters', u) <=> Holds(waiters, u) \/ u = t
      BY <1>0, <3>1, WaitersEnqueued
    <3>3. ~(t \in ttmr' /\ t \notin armed')  OBVIOUS
    <3>4. \A u \in Threads \ {t} : Raced(u)' <=> Raced(u)  BY DEF Raced
    <3> QED  BY <1>1, <3>2, <3>3, <3>4 DEF Expiry, ThreadContext, Raced
  <2>4. CASE TakeReturns(t)  BY <1>2, <2>4 DEF TakeReturns, suspVars
  <2> QED  BY <1>4, <2>1, <2>2, <2>3, <2>4 DEF TakeOps
<1>5. CASE ReleaseWakes
  <2> DEFINE h == Head(waiters)
  <2>1. /\ waiters # <<>> /\ UNCHANGED <<expiring, pc>>
        /\ ttmr' = ttmr \ {h}
        /\ armed' = IF h \in ttmr THEN armed \ {h} ELSE armed
        /\ IF Raced(h) THEN UNCHANGED <<susp, error>>
           ELSE susp' = [susp EXCEPT ![List] = Tail(@)] /\ error' = [error EXCEPT ![h] = "EOK"]
    BY <1>5 DEF ReleaseWakes, Dequeue, waiters
  <2>2. h \in Threads /\ Holds(waiters, h)  BY <1>0, <2>1, TailFacts
  <2> HIDE DEF h
  <2>3. \A u \in Threads : Raced(u)' => Raced(u)  BY <2>1 DEF Raced
  <2>4. CASE Raced(h)
    <3>1. waiters' = waiters /\ error' = error  BY <2>1, <2>4 DEF waiters
    <3> QED  BY <2>1, <2>3, <3>1 DEF Expiry, ThreadContext, Taking
  <2>5. CASE ~Raced(h)
    <3>1. susp' = [susp EXCEPT ![List] = Tail(@)] /\ error' = [error EXCEPT ![h] = "EOK"]
      BY <2>1, <2>5
    <3>2. \A u : Holds(waiters', u) <=> Holds(waiters, u) /\ u # h
      BY <1>0, <2>1, <3>1, WaitersServed DEF h
    <3>3. error'[h] = "EOK" /\ \A u \in Threads \ {h} : error'[u] = error[u]
      BY <1>0, <2>2, <3>1 DEF TypeOK
    <3>4. \A u \in Threads : Taking(u)' <=> Taking(u)  BY <2>1 DEF Taking
    <3>5. ~ThreadContext => expiring \in Threads  BY <1>0 DEF ThreadContext, TypeOK
    <3> QED  BY <2>1, <2>3, <3>2, <3>3, <3>4, <3>5 DEF Expiry, ThreadContext
  <2> QED  BY <2>4, <2>5
<1>6. CASE ReleaseCounts  BY <1>2, <1>6 DEF ReleaseCounts, suspVars
<1>7. CASE ReleaseFull  BY <1>2, <1>7 DEF ReleaseFull, vars, suspVars, semVars
<1>8. CASE ControlOps
  <2>1. ASSUME ThreadContext, ResumeAll({List}, "ERROR") PROVE Expiry'
    <3>1. UNCHANGED expiring  BY <2>1 DEF ResumeAll
    <3>2. \A u : ~Holds(waiters', u)
      BY <1>0, <2>1, WaitersResumed DEF ResumeAll
    <3> QED  BY <2>1, <3>1, <3>2 DEF Expiry, ThreadContext
  <2> QED  BY <1>2, <1>8, <2>1 DEF ControlOps, Reset, SetLimit, Detach, suspVars
<1>9. ASSUME NEW t \in Threads, WaitEvents(t) PROVE Expiry'
  <2>1. CASE TimerPop(t) /\ UNCHANGED semVars
    <3>1. ThreadContext /\ t \in armed /\ armed' = armed \ {t} /\ expiring' = t
          /\ UNCHANGED <<susp, ttmr>>
      BY <2>1 DEF TimerPop
    <3>2. Holds(waiters, t) /\ waiters' = waiters  BY <3>1 DEF Shape, ThreadTimers, waiters
    <3>3. Taking(t)' = Taking(t) /\ Taking(t)
      BY <1>9, <2>1, <3>2 DEF Shape, Sleepers, Taking, semVars
    <3> QED  BY <1>1, <3>1, <3>2, <3>3 DEF Expiry, ThreadContext, Raced, Taking
  <2>2. ASSUME ThreadContext, UNCHANGED expiring,
               susp' = [l \in DOMAIN susp |-> Unlink(susp[l], t)],
               armed' = armed \ {t}, ttmr' \subseteq ttmr
        PROVE  Expiry'
    <3>1. \A u : Holds(waiters', u) => Holds(waiters, u) /\ u \notin {t}
      BY <1>0, <2>2, WaitersUnlinked
    <3>2. {t} \in SUBSET Threads  OBVIOUS
    <3> QED  BY <1>3, <2>2, <3>1, <3>2
  <2>3. CASE ThreadResume(t)  BY <2>2, <2>3 DEF ThreadResume
  <2>4. CASE Delete(t)  BY <2>2, <2>4 DEF Delete, ThreadClose
  <2>5. ASSUME NEW p \in Priorities, ChangePriority(t, p) PROVE Expiry'
    BY <1>2, <2>5 DEF ChangePriority
  <2> QED  BY <1>9, <2>1, <2>3, <2>4, <2>5 DEF WaitEvents
<1>10. CASE Expire
  <2>1. \A u : Holds(waiters', u) => Holds(waiters, u) /\ u # expiring
    BY <1>0, <1>10, WaitersUnlinked DEF Expire, ThreadTimeout
  <2>2. expiring' = NoThread /\ UNCHANGED <<armed, ttmr>>  BY <1>10 DEF Expire, ThreadTimeout
  <2> QED  BY <2>1, <2>2 DEF Expiry, ThreadContext, Raced
<1>11. CASE UNCHANGED vars  BY <1>2, <1>11 DEF vars, suspVars, semVars
<1> QED  BY <1>4, <1>5, <1>6, <1>7, <1>8, <1>9, <1>10, <1>11 DEF Next

\* _thread_timeout finds its thread inside the take it was armed for: asleep, as
\* its assertion says, or woken since the pop by a handler, but never elsewhere.
THEOREM TimeoutFindsTakerAlways == Spec => []TimeoutFindsTaker
<1>1. Init => Shape /\ Expiry  BY ShapeInit, ExpiryInit
<1>2. Shape /\ Expiry /\ [Next]_vars => Shape' /\ Expiry'
  BY ShapeStep, ExpiryStep
<1>3. Shape /\ Expiry => TimeoutFindsTaker
  <2> SUFFICES ASSUME Shape, Expiry, ~ThreadContext
               PROVE  Taking(expiring) /\ (Suspended(expiring) \/ expiring \in Granted)
    BY DEF TimeoutFindsTaker
  <2>1. expiring \in Threads  BY DEF Shape, TypeOK, ThreadContext
  <2> QED  BY <2>1, ShapeFacts DEF Expiry, Granted
<1> QED  BY <1>1, <1>2, <1>3, PTL DEF Spec

-----------------------------------------------------------------------------
\* Who has been granted a unit, in terms of the wait list.
LEMMA GrantedFacts ==
    ASSUME Shape
    PROVE  /\ Granted = {t \in Threads : Taking(t) /\ ~Holds(waiters, t) /\ error[t] = "EOK"}
           /\ IsFiniteSet(Granted)
           /\ Cardinality(Granted) \in Nat
<1>1. Granted \subseteq Threads  BY DEF Granted
<1>2. IsFiniteSet(Granted)  BY <1>1, FS_Subset DEF SemaphoreAssumption
<1> QED  BY <1>2, ShapeFacts, FS_CardinalityType DEF Granted

LEMMA GrantedFactsNext ==
    ASSUME Shape'
    PROVE  Granted' = {t \in Threads : Taking(t)' /\ ~Holds(waiters', t) /\ error'[t] = "EOK"}
<1>1. DOMAIN susp' = {List}  BY DEF Shape, TypeOK
<1> QED  BY <1>1 DEF Granted, Suspended, waiters

\* The bookkeeping of a step, by what it does to the set of granted threads.
LEMMA CountKept ==
    ASSUME Shape, Shape', UnitsConserved, Granted' = Granted,
           balance' - balance = (value' - value) + (lost' - lost)
    PROVE  UnitsConserved'
<1>1. balance \in Int /\ balance' \in Int /\ value \in Int /\ value' \in Int
      /\ lost \in Int /\ lost' \in Int
  BY DEF Shape, TypeOK
<1> QED  BY <1>1, GrantedFacts DEF UnitsConserved

LEMMA CountAdded ==
    ASSUME Shape, Shape', UnitsConserved, balance' = balance + 1, UNCHANGED <<value, lost>>,
           NEW t, t \notin Granted, Granted' = Granted \cup {t}
    PROVE  UnitsConserved'
<1>1. balance \in Int /\ value \in Int /\ lost \in Int  BY DEF Shape, TypeOK
<1>2. Cardinality(Granted') = Cardinality(Granted) + 1  BY GrantedFacts, FS_AddElement
<1> QED  BY <1>1, <1>2, GrantedFacts DEF UnitsConserved

LEMMA CountRemoved ==
    ASSUME Shape, Shape', UnitsConserved, value' = value,
           (balance' - lost') = (balance - lost) - 1,
           NEW t, t \in Granted, Granted' = Granted \ {t}
    PROVE  UnitsConserved'
<1>1. balance \in Int /\ balance' \in Int /\ value \in Int /\ lost \in Int /\ lost' \in Int
  BY DEF Shape, TypeOK
<1>2. Cardinality(Granted') = Cardinality(Granted) - 1  BY GrantedFacts, FS_RemoveElement
<1> QED  BY <1>1, <1>2, GrantedFacts DEF UnitsConserved

LEMMA UnitsInit == Init => UnitsConserved
<1> SUFFICES ASSUME Init PROVE UnitsConserved  OBVIOUS
<1>1. Granted = {}  BY DEF Init, Granted, Taking
<1>2. InitValue \in Int  BY DEF SemaphoreAssumption
<1> QED  BY <1>1, <1>2, FS_EmptySet DEF Init, UnitsConserved

LEMMA UnitsStep ==
    ASSUME Shape, Shape', Expiry, UnitsConserved, [Next]_vars
    PROVE  UnitsConserved'
<1>0. /\ \A t : Suspended(t) <=> Holds(waiters, t)
      /\ TypeOK
      /\ Distinct(waiters)
      /\ waiters \in Seq(Threads)
      /\ balance \in Int /\ balance' \in Int /\ value \in Int /\ value' \in Int
      /\ lost \in Int /\ lost' \in Int
      /\ \A t \in Threads : Holds(waiters, t) => t \notin Granted
  BY ShapeFacts, GrantedFacts DEF Shape, TypeOK
\* Who is granted depends on the list, on pc and on error only.
<1>1. ASSUME UNCHANGED <<susp, pc, error, lost>>, balance' - balance = value' - value
      PROVE  UnitsConserved'
  <2>1. Granted' = Granted  BY <1>1, GrantedFacts, GrantedFactsNext DEF waiters, Taking
  <2> QED  BY <1>0, <1>1, <2>1, CountKept
<1>2. ASSUME NEW t \in Threads, TakeOps(t) PROVE UnitsConserved'
  <2>1. CASE TakeAvailable(t)
    BY <1>0, <1>1, <2>1 DEF TakeAvailable, suspVars
  <2>2. CASE TryTakeFails(t)
    BY <1>0, <1>1, <2>2 DEF TryTakeFails, vars, semVars, suspVars
  <2>3. ASSUME NEW timed \in BOOLEAN, TakeBlocks(t, timed) PROVE UnitsConserved'
    <3> USE <2>3 DEF TakeBlocks, SuspendToList, SuspendWith
    <3>1. ~Taking(t) /\ ~Holds(waiters, t)  BY DEF Shape, Sleepers, Taking
    <3>2. \A u : Holds(waiters', u) <=> Holds(waiters, u) \/ u = t
      BY <1>0, <3>1, WaitersEnqueued
    <3>3. \A u \in Threads \ {t} : (Taking(u)' <=> Taking(u)) /\ error'[u] = error[u]
      BY <1>0 DEF Taking, TypeOK
    <3>4. Granted' = Granted  BY <3>1, <3>2, <3>3, GrantedFacts, GrantedFactsNext
    <3> QED  BY <1>0, <3>4, CountKept
  <2>4. CASE TakeReturns(t)
    <3> USE <2>4 DEF TakeReturns, suspVars
    <3>1. ~Holds(waiters, t) /\ Taking(t) /\ ~Taking(t)'
      BY <1>0 DEF Taking, TypeOK
    <3>2. \A u \in Threads \ {t} : Taking(u)' <=> Taking(u)  BY <1>0 DEF Taking, TypeOK
    <3>3. Granted' = Granted \ {t}
      BY <3>1, <3>2, GrantedFacts, GrantedFactsNext DEF waiters
    <3>4. t \in Granted <=> error[t] = "EOK"  BY <3>1, GrantedFacts
    <3>5. CASE error[t] = "EOK"
      <4>1. balance' = balance - 1 /\ value' = value  BY <3>5
      <4> QED  BY <1>0, <3>3, <3>4, <3>5, <4>1, CountRemoved
    <3>6. CASE error[t] # "EOK"
      <4>1. balance' = balance /\ value' = value /\ Granted' = Granted  BY <3>3, <3>4, <3>6
      <4> QED  BY <1>0, <4>1, CountKept
    <3> QED  BY <3>5, <3>6
  <2> QED  BY <1>2, <2>1, <2>2, <2>3, <2>4 DEF TakeOps
\* The unit released goes to the head of the list.
<1>3. CASE ReleaseWakes
  <2> DEFINE h == Head(waiters)
  <2>1. /\ waiters # <<>> /\ UNCHANGED <<pc, value>> /\ balance' = balance + 1
        /\ lost' = IF h = expiring /\ Raced(expiring) THEN lost + 1 ELSE lost
        /\ IF Raced(h) THEN UNCHANGED <<susp, error>>
           ELSE susp' = [susp EXCEPT ![List] = Tail(@)] /\ error' = [error EXCEPT ![h] = "EOK"]
    BY <1>3 DEF ReleaseWakes, Dequeue, waiters
  <2>2. h \in Threads /\ Holds(waiters, h) /\ Taking(h)
    BY <1>0, <2>1, TailFacts DEF Shape, Sleepers
  <2>3. \A u \in Threads : Taking(u)' <=> Taking(u)  BY <2>1 DEF Taking
  <2>4. CASE Raced(h)
    <3>1. h = expiring  BY <2>2, <2>4 DEF Expiry
    <3>2. lost' = lost + 1 /\ UNCHANGED <<susp, pc, error, value>>  BY <2>1, <2>4, <3>1
    <3>3. Granted' = Granted  BY <3>2, GrantedFacts, GrantedFactsNext DEF waiters, Taking
    <3> QED  BY <1>0, <2>1, <3>2, <3>3, CountKept
  <2>5. CASE ~Raced(h)
    <3>1. susp' = [susp EXCEPT ![List] = Tail(@)] /\ error' = [error EXCEPT ![h] = "EOK"]
          /\ lost' = lost
      BY <2>1, <2>5
    <3>2. \A u : Holds(waiters', u) <=> Holds(waiters, u) /\ u # h
      BY <1>0, <2>1, <3>1, WaitersServed
    <3> HIDE DEF h
    <3>3. error'[h] = "EOK" /\ \A u \in Threads \ {h} : error'[u] = error[u]
      BY <1>0, <2>2, <3>1 DEF TypeOK
    <3>4. Granted' = Granted \cup {h}
      BY <2>2, <2>3, <3>2, <3>3, GrantedFacts, GrantedFactsNext
    <3> QED  BY <1>0, <2>1, <2>2, <3>1, <3>4, CountAdded
  <2> QED  BY <2>4, <2>5
<1>4. CASE ReleaseCounts  BY <1>0, <1>1, <1>4 DEF ReleaseCounts, suspVars
<1>5. CASE ReleaseFull  BY <1>0, <1>1, <1>5 DEF ReleaseFull, vars, suspVars, semVars
\* The waiters a reset sends away leave without a unit.
<1>6. CASE ControlOps
  <2>1. ASSUME ResumeAll({List}, "ERROR"), UNCHANGED <<pc, lost>>, balance' - balance = value' - value
        PROVE  UnitsConserved'
    <3>1. \A u : ~Holds(waiters', u)  BY <1>0, <2>1, WaitersResumed DEF ResumeAll
    <3>2. \A u \in Threads : error'[u] = IF Holds(waiters, u) THEN "ERROR" ELSE error[u]
      BY <2>1 DEF ResumeAll, waiters
    <3>3. \A u \in Threads : Taking(u)' <=> Taking(u)  BY <2>1 DEF Taking
    <3>4. Granted' = Granted  BY <3>1, <3>2, <3>3, GrantedFacts, GrantedFactsNext
    <3> QED  BY <1>0, <2>1, <3>4, CountKept
  <2>2. ASSUME NEW v \in 0..ValueMax, Reset(v) PROVE UnitsConserved'
    BY <1>0, <2>1, <2>2 DEF Reset
  <2>3. ASSUME NEW m \in 1..ValueMax, SetLimit(m) PROVE UnitsConserved'
    BY <1>0, <1>1, <2>1, <2>3 DEF SetLimit, suspVars
  <2>4. CASE Detach  BY <1>0, <2>1, <2>4 DEF Detach
  <2> QED  BY <1>6, <2>2, <2>3, <2>4 DEF ControlOps
<1>7. ASSUME NEW t \in Threads, WaitEvents(t) PROVE UnitsConserved'
  <2>1. CASE TimerPop(t) /\ UNCHANGED semVars  BY <1>0, <1>1, <2>1 DEF TimerPop, semVars
  <2>2. CASE ThreadResume(t) /\ UNCHANGED semVars
    <3>1. Holds(waiters, t) /\ error[t] # "EOK"
      BY <1>0, <2>2 DEF ThreadResume, Shape, Sleepers
    <3>2. \A u : Holds(waiters', u) <=> Holds(waiters, u) /\ u # t
      BY <1>0, <2>2, WaitersUnlinked DEF ThreadResume
    <3>3. Granted' = Granted
      BY <2>2, <3>1, <3>2, GrantedFacts, GrantedFactsNext DEF ThreadResume, semVars, Taking
    <3> QED  BY <1>0, <2>2, <3>3, CountKept DEF semVars
  <2>3. CASE Delete(t)
    <3> USE <2>3 DEF Delete, ThreadClose
    <3>1. \A u : Holds(waiters', u) <=> Holds(waiters, u) /\ u # t
      BY <1>0, WaitersUnlinked
    <3>2. ~Taking(t)' /\ \A u \in Threads \ {t} : Taking(u)' <=> Taking(u)
      BY <1>0 DEF Taking, TypeOK
    <3>3. Granted' = Granted \ {t}
      BY <3>1, <3>2, GrantedFacts, GrantedFactsNext
    <3>4. CASE t \in Granted  BY <1>0, <3>3, <3>4, CountRemoved
    <3>5. CASE t \notin Granted
      <4>1. Granted' = Granted  BY <3>3, <3>5
      <4> QED  BY <1>0, <3>5, <4>1, CountKept
    <3> QED  BY <3>4, <3>5
  <2>4. ASSUME NEW p \in Priorities, ChangePriority(t, p), UNCHANGED semVars
        PROVE  UnitsConserved'
    BY <1>0, <1>1, <2>4 DEF ChangePriority, semVars
  <2> QED  BY <1>7, <2>1, <2>2, <2>3, <2>4 DEF WaitEvents
\* A thread that is called back asleep held no unit; a unit it was handed since
\* the pop goes nowhere.
<1>8. CASE Expire
  <2>0. expiring \in Threads  BY <1>0, <1>8 DEF Expire, ThreadTimeout, ThreadContext, TypeOK
  <2>1. /\ UNCHANGED <<pc, value, balance>>
        /\ lost' = IF expiring \in Granted THEN lost + 1 ELSE lost
    BY <1>8 DEF Expire
  <2>2. \A u : Holds(waiters', u) <=> Holds(waiters, u) /\ u # expiring
    BY <1>0, <1>8, WaitersUnlinked DEF Expire, ThreadTimeout
  <2>3. error'[expiring] = "ETIMEOUT" /\ \A u \in Threads \ {expiring} : error'[u] = error[u]
    BY <1>0, <1>8, <2>0 DEF Expire, ThreadTimeout, TypeOK
  <2>4. Granted' = Granted \ {expiring}
    BY <2>0, <2>1, <2>2, <2>3, GrantedFacts, GrantedFactsNext DEF Taking
  <2>5. CASE expiring \in Granted
    <3>1. lost' = lost + 1  BY <2>1, <2>5
    <3> QED  BY <1>0, <2>1, <2>4, <2>5, <3>1, CountRemoved
  <2>6. CASE expiring \notin Granted
    <3>1. lost' = lost /\ Granted' = Granted  BY <2>1, <2>4, <2>6
    <3> QED  BY <1>0, <2>1, <3>1, CountKept
  <2> QED  BY <2>5, <2>6
<1>9. CASE UNCHANGED vars  BY <1>0, <1>1, <1>9 DEF vars, suspVars, semVars
<1> QED  BY <1>2, <1>3, <1>4, <1>5, <1>6, <1>7, <1>8, <1>9 DEF Next

\* Every unit rt_sem_release gives is in the semaphore, with one taker about to
\* return, or was given to the thread the tick interrupt calls back next, for
\* any number of threads.
THEOREM UnitsConservedAlways == Spec => []UnitsConserved
<1> DEFINE IInv == Shape /\ Expiry /\ UnitsConserved
<1>1. Init => IInv  BY ShapeInit, ExpiryInit, UnitsInit
<1>2. IInv /\ [Next]_vars => IInv'  BY ShapeStep, ExpiryStep, UnitsStep
<1>3. IInv => UnitsConserved  OBVIOUS
<1> QED  BY <1>1, <1>2, <1>3, PTL DEF Spec

\* No unit is left beside a sleeper, none is doubled or lost but to a callback
\* under way, and callbacks find takers.
THEOREM TakersServedAlways == Spec => []TakersServed
<1>1. TakersServed <=> NoSleeperBesideUnit /\ UnitsConserved /\ TimeoutFindsTaker
  BY DEF TakersServed
<1>2. Spec => []UnitsConserved  BY UnitsConservedAlways
<1>3. Spec => []TimeoutFindsTaker  BY TimeoutFindsTakerAlways
<1> QED  BY <1>1, <1>2, <1>3, NoSleeperBesideUnitAlways, PTL

-----------------------------------------------------------------------------
\* Queueing by priority: steps that change no priority.

LEMMA PriorityStep ==
    ASSUME Shape, WaitersByPriority, [Next]_vars, prio' = prio
    PROVE  WaitersByPriority'
<1> SUFFICES ASSUME Flag = "PRIO", Sorted(waiters, prio) PROVE Sorted(waiters', prio')
  BY DEF WaitersByPriority
<1>0. /\ susp \in [{List} -> Seq(Threads)]
      /\ waiters \in Seq(Threads)
      /\ prio \in [Threads -> Nat]
  BY ShapeFacts DEF Shape, TypeOK, SemaphoreAssumption
<1>1. ASSUME UNCHANGED <<susp, prio>> PROVE Sorted(waiters', prio')  BY <1>1 DEF waiters
<1>2. ASSUME NEW t, susp' = [l \in DOMAIN susp |-> Unlink(susp[l], t)], UNCHANGED prio
      PROVE  Sorted(waiters', prio')
  <2>1. waiters' = Unlink(waiters, t)  BY <1>0, <1>2 DEF waiters
  <2> QED  BY <1>0, <1>2, <2>1, UnlinkSorted
<1>3. ASSUME NEW t \in Threads, TakeOps(t) PROVE Sorted(waiters', prio')
  <2>1. ASSUME NEW timed \in BOOLEAN, TakeBlocks(t, timed) PROVE Sorted(waiters', prio')
    <3>1. waiters' = Enqueue(waiters, t, "PRIO", prio) /\ prio' = prio
      BY <1>0, <2>1 DEF TakeBlocks, SuspendToList, SuspendWith, waiters
    <3> QED  BY <1>0, <3>1, EnqueueSorted
  <2> QED  BY <1>1, <1>3, <2>1 DEF TakeOps, TakeAvailable, TryTakeFails, TakeReturns, vars, suspVars
<1>4. CASE ReleaseWakes
  <2>1. CASE UNCHANGED susp
    BY <1>1, <1>4, <2>1 DEF ReleaseWakes, Dequeue
  <2>2. CASE susp' = [susp EXCEPT ![List] = Tail(@)]
    <3>1. waiters' = Tail(waiters) /\ waiters # <<>> /\ prio' = prio
      BY <1>0, <1>4, <2>2 DEF ReleaseWakes, Dequeue, waiters
    <3> QED  BY <1>0, <3>1, TailSorted
  <2> QED  BY <1>4, <2>1, <2>2 DEF ReleaseWakes, Dequeue
<1>5. CASE ReleaseCounts  BY <1>1, <1>5 DEF ReleaseCounts, suspVars
<1>6. CASE ReleaseFull  BY <1>1, <1>6 DEF ReleaseFull, vars, suspVars
<1>7. CASE ControlOps
  <2>1. ASSUME ResumeAll({List}, "ERROR") PROVE Sorted(waiters', prio')
    <3>1. waiters' = <<>>  BY <2>1, WaitersResumed DEF ResumeAll, Shape
    <3> QED  BY <3>1 DEF Sorted
  <2> QED  BY <1>1, <1>7, <2>1 DEF ControlOps, Reset, SetLimit, Detach, suspVars
<1>8. ASSUME NEW t \in Threads, WaitEvents(t) PROVE Sorted(waiters', prio')
  BY <1>1, <1>2, <1>8 DEF WaitEvents, TimerPop, ThreadResume, Delete, ThreadClose, ChangePriority
<1>9. CASE Expire  BY <1>2, <1>9 DEF Expire, ThreadTimeout
<1>10. CASE UNCHANGED vars  BY <1>1, <1>10 DEF vars, suspVars
<1> QED  BY <1>3, <1>4, <1>5, <1>6, <1>7, <1>8, <1>9, <1>10 DEF Next

\* Timeouts, deletions, resumptions and releases in the middle of a list of
\* waiters leave it in order of priority; only rt_thread_control may not.
THEOREM OrderKeptAlways == Spec => OrderKept
<1>1. Init => Shape  BY ShapeInit
<1>2. Shape /\ [Next]_vars => Shape'  BY ShapeStep
<1>3. Shape /\ [Next]_vars => [prio' = prio /\ WaitersByPriority => WaitersByPriority']_vars
  BY PriorityStep
<1> QED  BY <1>1, <1>2, <1>3, PTL DEF Spec, OrderKept
-----------------------------------------------------------------------------
(***************************************************************************)
(* Then the timers, for any timers, times and range of the counter:        *)
(* timer.c keeps deadlines in true time with a counter that wraps, runs a  *)
(* timer exactly while it is wanted, and does not let the timer thread     *)
(* sleep over a due timer.                                                 *)
(*                                                                         *)
(* Nothing about deadlines is inductive without the words they are kept    *)
(* in: each entry of a list stands for what is left of its timer's time,   *)
(* which lies between how late it may be and half the range, and entries   *)
(* are in the order of that and of their starts (InOrder, part of Dated).  *)
(* That a timer runs exactly while it is wanted needs that a popped timer  *)
(* is in its callback (Asked); that hard timers are not late needs that    *)
(* none is overdue when the tick interrupt is done (Punctual).  The timer  *)
(* thread is on its way to sleep without a unit in its semaphore only if   *)
(* no soft timer is due (Announced).                                       *)
(***************************************************************************)

\* How late a timer of a list may be: a hard one is found by the next tick.
Lag(k) == IF k = "hard" THEN 1 ELSE MaxLate

Entries == [timer : Timers, timeout : 0..(Ticks - 1)]

HasTimer(s, t) == \E i \in DOMAIN s : s[i].timer = t

\* List s of kind k at tick tk, with the times lf left in truth and those ah
\* before them: each entry stands for what is left of its timer's time, and they
\* are in the order of that, the first started first among equals.
InOrder(s, k, tk, lf, ah) ==
    /\ s \in Seq(Entries)
    /\ \A i, j \in DOMAIN s : s[i].timer = s[j].timer => i = j
    /\ \A i \in DOMAIN s : /\ Kind(s[i].timer) = k
                           /\ lf[s[i].timer] \in (-Lag(k))..(Half - 1)
                           /\ s[i].timeout = Moment(tk, lf[s[i].timer], Ticks)
    /\ \A i, j \in DOMAIN s : i < j => lf[s[i].timer] <= lf[s[j].timer]
    /\ \A i, j \in DOMAIN s :
          s[i].timer \in ah[s[j].timer] <=> i < j /\ lf[s[i].timer] = lf[s[j].timer]

USE TimerAssumption

-----------------------------------------------------------------------------
LEMMA HalfFacts ==
    /\ Half \in Nat /\ Ticks \in Nat \ {0} /\ 2 * Half < Ticks /\ Half > 1
    /\ \A k : Lag(k) \in 0..(Half - 1) /\ \A d \in Times : Lag(k) + d <= Half
    /\ \A d \in Times : d \in 0..(Half - 1)
<1>1. Half \in Int /\ 2 * Half <= Ticks - 1  BY DEF Half
<1>2. Half \in Nat /\ Ticks \in Nat \ {0} /\ 2 * Half < Ticks /\ Half > 1  BY <1>1
<1>3. \A d \in Times : d \in 0..(Half - 1) /\ MaxLate + d <= Half  BY <1>1
<1>4. MaxLate \in 0..(Half - 1)  OBVIOUS
<1> HIDE DEF Half
<1>5. ASSUME NEW k PROVE Lag(k) \in 0..(Half - 1) /\ \A d \in Times : Lag(k) + d <= Half
  BY <1>2, <1>3, <1>4 DEF Lag
<1> QED  BY <1>2, <1>3, <1>5

\* What _timer_start and _timer_check see of the times in truth: a listed timer
\* with x ticks left is due after a new one of d ticks, and is due now.
LEMMA SeenLater ==
    ASSUME NEW k, NEW tk \in 0..(Ticks - 1), NEW x \in (-Lag(k))..(Half - 1), NEW d \in Times
    PROVE  Minus(Moment(tk, x, Ticks), Moment(tk, d, Ticks)) \in 1..(Half - 1) <=> d < x
<1>0. /\ Half \in Nat /\ Ticks \in Nat \ {0} /\ 2 * Half < Ticks /\ Half > 1
      /\ Lag(k) \in 0..(Half - 1) /\ d \in 0..(Half - 1) /\ Lag(k) + d <= Half
  BY HalfFacts
<1>1. Near(x, Ticks) /\ Near(d, Ticks)  BY <1>0 DEF Near
<1> DEFINE mi == Minus(Moment(tk, x, Ticks), Moment(tk, d, Ticks))
<1>2. mi = Apart(Moment(tk, x, Ticks), Moment(tk, d, Ticks), Ticks)
  BY DEF Minus, Apart, Wrap
<1> HIDE DEF mi
<1>3. mi = IF x < d THEN x - d + Ticks ELSE x - d  BY <1>0, <1>1, <1>2, ApartFacts
<1>4. mi \in 1..(Half - 1) <=> d < x  BY <1>0, <1>3
<1> QED  BY <1>4 DEF mi

LEMMA SeenDue ==
    ASSUME NEW k, NEW tk \in 0..(Ticks - 1), NEW x \in (-Lag(k))..(Half - 1)
    PROVE  Minus(tk, Moment(tk, x, Ticks)) < Half <=> x <= 0
<1>0. /\ Half \in Nat /\ Ticks \in Nat \ {0} /\ 2 * Half < Ticks /\ Half > 1
      /\ Lag(k) \in 0..(Half - 1)
  BY HalfFacts
<1>1. Near(x, Ticks) /\ Near(0, Ticks)  BY <1>0 DEF Near
<1>2. Moment(tk, 0, Ticks) = tk  BY <1>0, <1>1, MomentFacts
<1> DEFINE mi == Minus(tk, Moment(tk, x, Ticks))
<1>3. mi = Apart(Moment(tk, 0, Ticks), Moment(tk, x, Ticks), Ticks)
  BY <1>2 DEF Minus, Apart, Wrap
<1> HIDE DEF mi
<1>4. mi = IF 0 < x THEN 0 - x + Ticks ELSE 0 - x  BY <1>0, <1>1, <1>3, ApartFacts
<1>5. mi < Half <=> x <= 0  BY <1>0, <1>4
<1> QED  BY <1>5 DEF mi

-----------------------------------------------------------------------------
\* What is left of a list without t is as it was, if nobody else's time and
\* place changes.
LEMMA ShrunkInOrder ==
    ASSUME NEW s, NEW r \in Seq(Entries), Kept(r, s), NEW t, ~HasTimer(r, t),
           NEW k, NEW tk, NEW lf, NEW ah, NEW lf2, NEW ah2, InOrder(s, k, tk, lf, ah),
           \A u \in Timers : u # t => lf2[u] = lf[u] /\ ah2[u] = ah[u] \ {t}
    PROVE  InOrder(r, k, tk, lf2, ah2)
<1>1. ASSUME NEW i \in DOMAIN r PROVE r[i].timer \in Timers /\ r[i].timer # t
  <2>1. r[i] \in Entries  BY ElementOfSeq, LenProperties
  <2>2. r[i].timer \in Timers  BY <2>1 DEF Entries
  <2> QED  BY <2>2 DEF HasTimer
<1>2. ASSUME NEW i \in DOMAIN r, NEW j \in DOMAIN r
      PROVE  /\ r[i].timer = r[j].timer => i = j
             /\ Kind(r[i].timer) = k
             /\ lf2[r[i].timer] \in (-Lag(k))..(Half - 1)
             /\ r[i].timeout = Moment(tk, lf2[r[i].timer], Ticks)
             /\ i < j => lf2[r[i].timer] <= lf2[r[j].timer]
             /\ r[i].timer \in ah2[r[j].timer] <=> i < j /\ lf2[r[i].timer] = lf2[r[j].timer]
  <2>1. PICK m \in DOMAIN s, n \in DOMAIN s :
           r[i] = s[m] /\ r[j] = s[n] /\ (i < j <=> m < n) /\ (i = j <=> m = n)
    BY DEF Kept
  <2> DEFINE a == r[i].timer
             b == r[j].timer
  <2>2. a = s[m].timer /\ b = s[n].timer /\ r[i].timeout = s[m].timeout  BY <2>1
  <2>3. lf2[a] = lf[a] /\ lf2[b] = lf[b] /\ (a \in ah2[b] <=> a \in ah[b])
    <3>1. a \in Timers /\ b \in Timers /\ a # t /\ b # t  BY <1>1
    <3>2. ah2[b] = ah[b] \ {t}  BY <3>1
    <3> HIDE DEF a, b
    <3> QED  BY <3>1, <3>2
  <2>4. /\ s[m].timer = s[n].timer => m = n
        /\ Kind(s[m].timer) = k
        /\ lf[s[m].timer] \in (-Lag(k))..(Half - 1)
        /\ s[m].timeout = Moment(tk, lf[s[m].timer], Ticks)
        /\ m < n => lf[s[m].timer] <= lf[s[n].timer]
        /\ s[m].timer \in ah[s[n].timer] <=> m < n /\ lf[s[m].timer] = lf[s[n].timer]
    BY DEF InOrder
  <2> HIDE DEF a, b
  <2>5. /\ a = b => i = j
        /\ Kind(a) = k
        /\ lf2[a] \in (-Lag(k))..(Half - 1)
        /\ r[i].timeout = Moment(tk, lf2[a], Ticks)
        /\ i < j => lf2[a] <= lf2[b]
        /\ a \in ah2[b] <=> i < j /\ lf2[a] = lf2[b]
    BY <2>1, <2>2, <2>3, <2>4
  <2> QED  BY <2>5 DEF a, b
<1> QED  BY <1>2 DEF InOrder

\* Place p of a list is behind all that are not due later than in d ticks.
Fits(s, p, lf, d) ==
    \A m \in DOMAIN s : IF p <= m THEN d < lf[s[m].timer] ELSE m < p /\ lf[s[m].timer] <= d

\* Just those due when t is count as before it, and t before nobody.
Abreast(t, lf, ah, d) ==
    /\ \A u \in Timers : u \in ah[t] <=> Kind(u) = Kind(t) /\ u # t /\ lf[u] = d
    /\ \A u \in Timers : u # t => t \notin ah[u]

\* A new timer that stands before those due later, and behind all others, is in
\* order, if just those due when it is count as before it.
LEMMA GrownInOrder ==
    ASSUME NEW s, NEW q \in Seq(Entries), NEW p, NEW e \in Entries, Placed(q, s, p, e),
           NEW k, NEW tk, NEW lf, NEW ah, InOrder(s, k, tk, lf, ah),
           ~HasTimer(s, e.timer), Kind(e.timer) = k,
           NEW d, lf[e.timer] = d, d \in (-Lag(k))..(Half - 1),
           e.timeout = Moment(tk, d, Ticks),
           Fits(s, p, lf, d), Abreast(e.timer, lf, ah, d)
    PROVE  InOrder(q, k, tk, lf, ah)
<1> DEFINE t == e.timer
<1>0. t \in Timers  BY DEF Entries
<1>1. p \in DOMAIN q /\ q[p] = e /\ q[p].timer = t  BY DEF Placed
<1>2. ASSUME NEW i \in DOMAIN q, i # p
      PROVE  /\ q[i].timer \in Timers /\ q[i].timer # t
             /\ Kind(q[i].timer) = k
             /\ lf[q[i].timer] \in (-Lag(k))..(Half - 1)
             /\ q[i].timeout = Moment(tk, lf[q[i].timer], Ticks)
             /\ i < p => lf[q[i].timer] <= d
             /\ p < i => d < lf[q[i].timer]
             /\ lf[q[i].timer] = d => i < p
  <2>1. PICK m \in DOMAIN s : q[i] = s[m] /\ (i < p <=> m < p) /\ (p < i <=> p <= m)
    BY <1>2 DEF Placed
  <2>2. s[m] \in Entries  BY ElementOfSeq, LenProperties DEF InOrder
  <2>3. /\ s[m].timer \in Timers /\ s[m].timer # t
        /\ Kind(s[m].timer) = k
        /\ lf[s[m].timer] \in (-Lag(k))..(Half - 1)
        /\ s[m].timeout = Moment(tk, lf[s[m].timer], Ticks)
    BY <2>2 DEF InOrder, HasTimer, Entries
  <2>4. /\ p <= m => d < lf[s[m].timer]
        /\ ~(p <= m) => m < p /\ lf[s[m].timer] <= d
    BY DEF Fits
  <2>5. p \in Int /\ m \in Int /\ i \in Int  BY <1>1, LenProperties DEF InOrder
  <2> DEFINE x == lf[s[m].timer]
  <2>6. /\ m < p => x <= d
        /\ p <= m => d < x
        /\ x = d => m < p
    <3>1. x \in Int /\ d \in Int  BY <2>3
    <3>2. (p <= m => d < x) /\ (~(p <= m) => m < p /\ x <= d)  BY <2>4
    <3> HIDE DEF x
    <3> QED  BY <2>5, <3>1, <3>2
  <2> QED  BY <2>1, <2>3, <2>6
<1>3. ASSUME NEW i \in DOMAIN q, NEW j \in DOMAIN q, i # p, j # p
      PROVE  /\ q[i].timer = q[j].timer => i = j
             /\ i < j => lf[q[i].timer] <= lf[q[j].timer]
             /\ q[i].timer \in ah[q[j].timer] <=> i < j /\ lf[q[i].timer] = lf[q[j].timer]
  <2>1. PICK m \in DOMAIN s, n \in DOMAIN s :
           q[i] = s[m] /\ q[j] = s[n] /\ (i < j <=> m < n) /\ (i = j <=> m = n)
    BY <1>3 DEF Placed
  <2>2. /\ s[m].timer = s[n].timer => m = n
        /\ m < n => lf[s[m].timer] <= lf[s[n].timer]
        /\ s[m].timer \in ah[s[n].timer] <=> m < n /\ lf[s[m].timer] = lf[s[n].timer]
    BY DEF InOrder
  <2> QED  BY <2>1, <2>2
<1>4. p \in Int /\ \A i \in DOMAIN q : i \in Int  BY <1>1, LenProperties
<1>5. t \notin ah[t]  BY <1>0 DEF Abreast
<1>6. ASSUME NEW i \in DOMAIN q, NEW j \in DOMAIN q
      PROVE  /\ q[i].timer = q[j].timer => i = j
             /\ i < j => lf[q[i].timer] <= lf[q[j].timer]
             /\ q[i].timer \in ah[q[j].timer] <=> i < j /\ lf[q[i].timer] = lf[q[j].timer]
  <2>1. CASE i # p /\ j # p  BY <1>3, <2>1
  <2>2. CASE i = p /\ j = p
    <3>1. ~(i < j) /\ q[i].timer = t /\ q[j].timer = t  BY <1>1, <1>4, <2>2
    <3> QED  BY <1>5, <2>2, <3>1
  <2>3. CASE i = p /\ j # p
    <3>1. q[i].timer = t /\ lf[q[i].timer] = d  BY <1>1, <2>3
    <3>2. /\ q[j].timer \in Timers /\ q[j].timer # t
          /\ p < j => d < lf[q[j].timer]
          /\ lf[q[j].timer] \in (-Lag(k))..(Half - 1)
      BY <1>2, <2>3
    <3>3. t \notin ah[q[j].timer]  BY <3>2 DEF Abreast
    <3>4. i < j => lf[q[i].timer] < lf[q[j].timer]  BY <2>3, <3>1, <3>2
    <3>5. i < j => lf[q[i].timer] <= lf[q[j].timer] /\ lf[q[i].timer] # lf[q[j].timer]
      <4> DEFINE x == lf[q[j].timer]
      <4>1. x \in Int /\ d \in Int  BY <3>2
      <4>2. d < x => d <= x /\ d # x
        <5> HIDE DEF x
        <5> QED  BY <4>1
      <4> QED  BY <3>1, <3>4, <4>2
    <3> QED  BY <3>1, <3>2, <3>3, <3>5
  <2>4. CASE i # p /\ j = p
    <3>1. q[j].timer = t /\ lf[q[j].timer] = d  BY <1>1, <2>4
    <3>2. /\ q[i].timer \in Timers /\ q[i].timer # t /\ Kind(q[i].timer) = k
          /\ i < p => lf[q[i].timer] <= d
          /\ lf[q[i].timer] = d => i < p
      BY <1>2, <2>4
    <3>3. q[i].timer \in ah[t] <=> lf[q[i].timer] = d  BY <3>2 DEF Abreast
    <3> QED  BY <2>4, <3>1, <3>2, <3>3
  <2> QED  BY <2>1, <2>2, <2>3, <2>4
<1>7. ASSUME NEW i \in DOMAIN q
      PROVE  /\ Kind(q[i].timer) = k
             /\ lf[q[i].timer] \in (-Lag(k))..(Half - 1)
             /\ q[i].timeout = Moment(tk, lf[q[i].timer], Ticks)
  BY <1>1, <1>2
<1> QED  BY <1>6, <1>7 DEF InOrder

\* A tick changes nothing in the order of a list.
LEMMA ElapsedInOrder ==
    ASSUME NEW s, NEW k, NEW tk \in 0..(Ticks - 1), NEW lf, NEW ah, NEW lf2,
           InOrder(s, k, tk, lf, ah),
           \A i \in DOMAIN s : /\ lf2[s[i].timer] = lf[s[i].timer] - 1
                               /\ -Lag(k) <= lf2[s[i].timer]
    PROVE  InOrder(s, k, Wrap(tk + 1, Ticks), lf2, ah)
<1> DEFINE o == Wrap(tk + 1, Ticks)
<1>1. ASSUME NEW i \in DOMAIN s
      PROVE  /\ lf[s[i].timer] \in Int
             /\ lf2[s[i].timer] \in (-Lag(k))..(Half - 1)
             /\ s[i].timeout = Moment(o, lf2[s[i].timer], Ticks)
  <2> DEFINE x == lf[s[i].timer]
  <2>1. /\ x \in (-Lag(k))..(Half - 1) /\ lf2[s[i].timer] = x - 1 /\ -Lag(k) <= x - 1
        /\ s[i].timeout = Moment(tk, x, Ticks)
    BY DEF InOrder
  <2>2. Half \in Nat /\ Ticks \in Nat \ {0} /\ 2 * Half < Ticks /\ Lag(k) \in 0..(Half - 1)
    BY HalfFacts
  <2> HIDE DEF x
  <2>3. Near(x, Ticks) /\ Near(x - 1, Ticks)  BY <2>1, <2>2 DEF Near
  <2>4. Moment(o, x - 1, Ticks) = Moment(tk, x, Ticks)  BY <2>2, <2>3, MomentPasses
  <2>5. x \in Int /\ x - 1 \in (-Lag(k))..(Half - 1)  BY <2>1, <2>2
  <2> QED  BY <2>1, <2>4, <2>5 DEF x
<1>2. ASSUME NEW i \in DOMAIN s, NEW j \in DOMAIN s
      PROVE  /\ i < j => lf2[s[i].timer] <= lf2[s[j].timer]
             /\ s[i].timer \in ah[s[j].timer] <=> i < j /\ lf2[s[i].timer] = lf2[s[j].timer]
  <2> DEFINE x == lf[s[i].timer]
             y == lf[s[j].timer]
  <2>1. x \in Int /\ y \in Int  BY <1>1
  <2>2. lf2[s[i].timer] = x - 1 /\ lf2[s[j].timer] = y - 1  OBVIOUS
  <2>3. /\ i < j => x <= y
        /\ s[i].timer \in ah[s[j].timer] <=> i < j /\ x = y
    BY DEF InOrder
  <2> HIDE DEF x, y
  <2>4. (x <= y <=> x - 1 <= y - 1) /\ (x = y <=> x - 1 = y - 1)  BY <2>1
  <2> QED  BY <2>2, <2>3, <2>4
<1> HIDE DEF o
<1>3. InOrder(s, k, o, lf2, ah)  BY <1>1, <1>2 DEF InOrder
<1> QED  BY <1>3 DEF o

\* What _timer_remove leaves.
LEMMA RemovedFacts ==
    ASSUME NEW s \in Seq(Entries), NEW t,
           \A i, j \in DOMAIN s : s[i].timer = s[j].timer => i = j
    PROVE  /\ Removed(s, t) \in Seq(Entries) /\ Kept(Removed(s, t), s)
           /\ ~HasTimer(Removed(s, t), t)
           /\ \A u : u # t => (HasTimer(Removed(s, t), u) <=> HasTimer(s, u))
<1> DEFINE at == {i \in DOMAIN s : s[i].timer = t}
<1>1. CASE at = {}
  <2>1. Removed(s, t) = s  BY <1>1 DEF Removed
  <2>2. Kept(s, s)  BY DEF Kept
  <2> QED  BY <1>1, <2>1, <2>2 DEF HasTimer
<1>2. CASE at # {}
  <2> DEFINE p == CHOOSE i \in at : TRUE
             r == RemoveAt(s, p)
  <2>1. p \in at  BY <1>2
  <2>2. Removed(s, t) = r  BY <1>2 DEF Removed
  <2>3. p \in DOMAIN s /\ s[p].timer = t  BY <2>1
  <2> HIDE DEF p
  <2>4. /\ r \in Seq(Entries) /\ Kept(r, s)
        /\ \A i \in DOMAIN r : \E m \in DOMAIN s : m # p /\ r[i] = s[m]
        /\ \A m \in DOMAIN s : m # p => \E i \in DOMAIN r : r[i] = s[m]
    BY <2>3, RemoveAtKept
  <2> HIDE DEF r
  <2>5. ~HasTimer(r, t)  BY <2>3, <2>4 DEF HasTimer
  <2>6. ASSUME NEW u, u # t PROVE HasTimer(r, u) <=> HasTimer(s, u)
    <3>1. ASSUME HasTimer(r, u) PROVE HasTimer(s, u)
      <4>1. PICK i \in DOMAIN r : r[i].timer = u  BY <3>1 DEF HasTimer
      <4>2. PICK m \in DOMAIN s : r[i] = s[m]  BY <2>4, <4>1
      <4> QED  BY <4>1, <4>2 DEF HasTimer
    <3>2. ASSUME HasTimer(s, u) PROVE HasTimer(r, u)
      <4>1. PICK m \in DOMAIN s : s[m].timer = u  BY <3>2 DEF HasTimer
      <4>2. m # p  BY <2>3, <2>6, <4>1
      <4>3. PICK i \in DOMAIN r : r[i] = s[m]  BY <2>4, <4>1, <4>2
      <4> QED  BY <4>1, <4>3 DEF HasTimer
    <3> QED  BY <3>1, <3>2
  <2> QED  BY <2>2, <2>4, <2>5, <2>6
<1> QED  BY <1>1, <1>2

\* Insert finds a place behind all that are not due later.
LEMMA InsertFacts ==
    ASSUME NEW s, NEW e \in Entries, NEW k, NEW tk \in 0..(Ticks - 1),
           NEW lf, NEW ah, InOrder(s, k, tk, lf, ah),
           NEW d \in Times, e.timeout = Moment(tk, d, Ticks)
    PROVE  \E p : /\ Insert(s, e) \in Seq(Entries) /\ Placed(Insert(s, e), s, p, e)
                  /\ Fits(s, p, lf, d)
<1> DEFINE later == {i \in DOMAIN s : Minus(s[i].timeout, e.timeout) \in 1..(Half - 1)}
<1>0. s \in Seq(Entries) /\ Len(s) \in Nat /\ DOMAIN s = 1..Len(s)
  BY LenProperties DEF InOrder
<1>1. d \in Int  BY HalfFacts
<1>2. ASSUME NEW m \in DOMAIN s
      PROVE  lf[s[m].timer] \in Int /\ (m \in later <=> d < lf[s[m].timer])
  <2> DEFINE x == lf[s[m].timer]
  <2>1. x \in (-Lag(k))..(Half - 1) /\ s[m].timeout = Moment(tk, x, Ticks)  BY DEF InOrder
  <2>2. m \in later <=> Minus(Moment(tk, x, Ticks), Moment(tk, d, Ticks)) \in 1..(Half - 1)
    BY <2>1
  <2> HIDE DEF x
  <2>3. m \in later <=> d < x  BY <2>1, <2>2, SeenLater
  <2> QED  BY <2>1, <2>3 DEF x
<1>3. Insert(s, e) = IF later = {} THEN Append(s, e) ELSE InsertAt(s, Min(later), e)
  BY DEF Insert
<1>4. CASE later = {}
  <2>1. ASSUME NEW m \in DOMAIN s
        PROVE  m < Len(s) + 1 /\ ~(Len(s) + 1 <= m) /\ lf[s[m].timer] <= d
    <3> DEFINE x == lf[s[m].timer]
    <3>1. ~(d < x) /\ x \in Int  BY <1>2, <1>4
    <3> HIDE DEF x
    <3>2. x <= d  BY <1>1, <3>1
    <3>3. m < Len(s) + 1 /\ ~(Len(s) + 1 <= m)  BY <1>0
    <3> QED  BY <3>2, <3>3 DEF x
  <2>2. Append(s, e) \in Seq(Entries) /\ Placed(Append(s, e), s, Len(s) + 1, e)
    BY <1>0, AppendPlaced
  <2>3. Fits(s, Len(s) + 1, lf, d)  BY <2>1 DEF Fits
  <2> QED  BY <1>3, <1>4, <2>2, <2>3
<1>5. CASE later # {}
  <2> DEFINE p == Min(later)
  <2>0. later \subseteq DOMAIN s  OBVIOUS
  <2> HIDE DEF later
  <2>1. later \in SUBSET Nat  BY <1>0, <2>0
  <2>2. p \in later /\ \A i \in later : p <= i  BY <1>5, <2>1, LeastNat DEF Min
  <2> HIDE DEF p
  <2>3. p \in DOMAIN s /\ p \in 1..(Len(s) + 1) /\ d < lf[s[p].timer]
    BY <1>0, <1>2, <2>0, <2>2
  <2>4. InsertAt(s, p, e) \in Seq(Entries) /\ Placed(InsertAt(s, p, e), s, p, e)
    BY <1>0, <2>3, InsertAtPlaced
  <2>5. ASSUME NEW m \in DOMAIN s, p <= m PROVE d < lf[s[m].timer]
    <3>1. CASE m = p  BY <2>3, <3>1
    <3>2. CASE p < m
      <4>1. lf[s[p].timer] <= lf[s[m].timer]  BY <2>3, <3>2 DEF InOrder
      <4> DEFINE x == lf[s[m].timer]
                 y == lf[s[p].timer]
      <4>2. x \in Int /\ y \in Int /\ d < y /\ y <= x  BY <1>2, <2>3, <4>1
      <4> HIDE DEF x, y
      <4>3. d < x  BY <1>1, <4>2
      <4> QED  BY <4>3 DEF x
    <3> QED  BY <1>0, <2>3, <2>5, <3>1, <3>2
  <2>6. ASSUME NEW m \in DOMAIN s, ~(p <= m) PROVE m < p /\ lf[s[m].timer] <= d
    <3>1. m < p  BY <1>0, <2>3, <2>6
    <3>2. m \notin later  BY <2>2, <2>6
    <3> DEFINE x == lf[s[m].timer]
    <3>3. x \in Int /\ ~(d < x)  BY <1>2, <3>2
    <3> HIDE DEF x
    <3>4. x <= d  BY <1>1, <3>3
    <3> QED  BY <3>1, <3>4 DEF x
  <2>7. Fits(s, p, lf, d)  BY <2>5, <2>6 DEF Fits
  <2> QED  BY <1>3, <1>5, <2>4, <2>7 DEF p
<1> QED  BY <1>4, <1>5

-----------------------------------------------------------------------------
\* The lists say of every timer what Deadlines says of it.
Dated ==
    /\ tick \in 0..(Ticks - 1)
    /\ list \in [Kinds -> Seq(Entries)]
    /\ left \in [Timers -> Int \cup {Off}]
    /\ ahead \in [Timers -> SUBSET Timers]
    /\ \A k \in Kinds : InOrder(list[k], k, tick, left, ahead)
    /\ \A t \in Timers : left[t] # Off <=> HasTimer(list[Kind(t)], t)
    /\ \A t \in Timers : \A u \in ahead[t] : Kind(u) = Kind(t) /\ left[t] # Off /\ left[u] # Off

LEMMA KindFacts == \A t : Kind(t) \in Kinds /\ (Kind(t) = "soft" <=> t \in Soft)
  BY DEF Kind, Kinds

LEMMA ListedFacts == \A t : Listed(t) <=> HasTimer(list[Kind(t)], t)
  BY DEF Listed, HasTimer

LEMMA ListedFactsNext == \A t : Listed(t)' <=> HasTimer(list'[Kind(t)], t)
  BY DEF Listed, HasTimer

LEMMA EntryFacts ==
    ASSUME Dated, NEW k \in Kinds, NEW i \in DOMAIN list[k]
    PROVE  /\ list[k][i] \in Entries /\ list[k][i].timer \in Timers
           /\ Kind(list[k][i].timer) = k /\ HasTimer(list[k], list[k][i].timer)
           /\ left[list[k][i].timer] \in (-Lag(k))..(Half - 1)
           /\ left[list[k][i].timer] # Off
           /\ list[k][i].timeout = Moment(tick, left[list[k][i].timer], Ticks)
<1>1. list[k] \in Seq(Entries) /\ InOrder(list[k], k, tick, left, ahead)  BY DEF Dated
<1>2. list[k][i] \in Entries  BY <1>1, ElementOfSeq, LenProperties
<1>3. list[k][i].timer \in Timers  BY <1>2 DEF Entries
<1>4. /\ Kind(list[k][i].timer) = k
      /\ left[list[k][i].timer] \in (-Lag(k))..(Half - 1)
      /\ list[k][i].timeout = Moment(tick, left[list[k][i].timer], Ticks)
  BY <1>1 DEF InOrder
<1>5. HasTimer(list[k], list[k][i].timer)  BY DEF HasTimer
<1>6. left[list[k][i].timer] # Off  BY <1>3, <1>4, <1>5 DEF Dated
<1> QED  BY <1>2, <1>3, <1>4, <1>5, <1>6

\* Only the list of its own kind can lose a timer.
LEMMA WithoutFacts ==
    ASSUME Dated, NEW t \in Timers
    PROVE  /\ Without(t) \in [Kinds -> Seq(Entries)]
           /\ \A k \in Kinds : /\ Kept(Without(t)[k], list[k])
                               /\ ~HasTimer(Without(t)[k], t)
                               /\ \A u : u # t => (HasTimer(Without(t)[k], u) <=> HasTimer(list[k], u))
<1> DEFINE w == Without(t)
<1>0. list \in [Kinds -> Seq(Entries)] /\ Kind(t) \in Kinds  BY KindFacts DEF Dated
<1>1. w[Kind(t)] = Removed(list[Kind(t)], t)  BY <1>0 DEF Without
<1>2. \A k \in Kinds : k # Kind(t) => w[k] = list[k]  BY <1>0 DEF Without
<1>3. DOMAIN w = Kinds /\ w = [k \in Kinds |-> w[k]]  BY <1>0 DEF Without
<1> HIDE DEF w
<1>4. ASSUME NEW k \in Kinds
      PROVE  /\ w[k] \in Seq(Entries) /\ Kept(w[k], list[k]) /\ ~HasTimer(w[k], t)
             /\ \A u : u # t => (HasTimer(w[k], u) <=> HasTimer(list[k], u))
  <2> DEFINE s == list[k]
  <2>1. s \in Seq(Entries) /\ \A i, j \in DOMAIN s : s[i].timer = s[j].timer => i = j
    BY DEF Dated, InOrder
  <2>2. CASE k = Kind(t)
    <3>1. w[k] = Removed(s, t)  BY <1>1, <2>2
    <3> HIDE DEF s
    <3>2. /\ Removed(s, t) \in Seq(Entries) /\ Kept(Removed(s, t), s)
          /\ ~HasTimer(Removed(s, t), t)
          /\ \A u : u # t => (HasTimer(Removed(s, t), u) <=> HasTimer(s, u))
      BY <2>1, RemovedFacts
    <3> QED  BY <3>1, <3>2 DEF s
  <2>3. CASE k # Kind(t)
    <3>1. w[k] = s  BY <1>2, <2>3
    <3>2. ~HasTimer(s, t)  BY <2>3, EntryFacts DEF HasTimer
    <3>3. Kept(s, s)  BY DEF Kept
    <3> QED  BY <2>1, <3>1, <3>2, <3>3
  <2> QED  BY <2>2, <2>3
<1>5. w \in [Kinds -> Seq(Entries)]  BY <1>3, <1>4
<1> QED  BY <1>4, <1>5 DEF w

\* A timer that is stopped or fires is listed no more; for all others nothing
\* changes.
LEMMA EndDates ==
    ASSUME Dated, NEW t \in Timers, tick' = tick, True!End(t),
           list' \in [Kinds -> Seq(Entries)],
           \A k \in Kinds : /\ Kept(list'[k], list[k])
                            /\ ~HasTimer(list'[k], t)
                            /\ \A u : u # t => (HasTimer(list'[k], u) <=> HasTimer(list[k], u))
    PROVE  /\ Dated' /\ left'[t] = Off
           /\ \A u \in Timers : u # t => left'[u] = left[u]
           /\ \A u \in Timers : Listed(u)' <=> Listed(u) /\ u # t
<1>0. left \in [Timers -> Int \cup {Off}] /\ ahead \in [Timers -> SUBSET Timers]  BY DEF Dated
<1>1. left' \in [Timers -> Int \cup {Off}] /\ left'[t] = Off /\ \A u \in Timers : u # t => left'[u] = left[u]
  BY <1>0 DEF True!End
<1>2. /\ ahead' \in [Timers -> SUBSET Timers] /\ ahead'[t] = {}
      /\ \A u \in Timers : u # t => ahead'[u] = ahead[u] \ {t}
  BY <1>0 DEF True!End, True!Forget
<1>3. ASSUME NEW k \in Kinds PROVE InOrder(list'[k], k, tick', left', ahead')
  <2> DEFINE r == list'[k]
             s == list[k]
             lf == left'
             ah == ahead'
  <2>1. r \in Seq(Entries) /\ Kept(r, s) /\ ~HasTimer(r, t)  OBVIOUS
  <2>2. InOrder(s, k, tick, left, ahead)  BY DEF Dated
  <2>3. \A u \in Timers : u # t => lf[u] = left[u] /\ ah[u] = ahead[u] \ {t}  BY <1>1, <1>2
  <2> HIDE DEF r, s, lf, ah
  <2>4. InOrder(r, k, tick, lf, ah)  BY <2>1, <2>2, <2>3, ShrunkInOrder
  <2> QED  BY <2>4 DEF r, lf, ah
<1>4. ASSUME NEW u \in Timers
      PROVE  /\ HasTimer(list'[Kind(u)], u) <=> HasTimer(list[Kind(u)], u) /\ u # t
             /\ left'[u] # Off <=> HasTimer(list'[Kind(u)], u)
  <2>1. left[u] # Off <=> HasTimer(list[Kind(u)], u)  BY DEF Dated
  <2>2. Kind(u) \in Kinds  BY KindFacts
  <2> QED  BY <1>1, <2>1, <2>2
<1>5. ASSUME NEW u \in Timers, NEW x \in ahead'[u]
      PROVE  Kind(x) = Kind(u) /\ left'[u] # Off /\ left'[x] # Off
  <2>1. u # t /\ x \in ahead[u] /\ x # t /\ x \in Timers  BY <1>0, <1>2
  <2>2. Kind(x) = Kind(u) /\ left[u] # Off /\ left[x] # Off  BY <2>1 DEF Dated
  <2> QED  BY <1>1, <2>1, <2>2
<1>6. tick' \in 0..(Ticks - 1)  BY DEF Dated
<1>7. Dated'  BY <1>1, <1>2, <1>3, <1>4, <1>5, <1>6 DEF Dated
<1> QED  BY <1>1, <1>4, <1>7, ListedFacts, ListedFactsNext

LEMMA StopDates ==
    ASSUME Dated, NEW t \in Timers, tick' = tick, StopTimer(t)
    PROVE  /\ Dated' /\ left'[t] = Off
           /\ \A u \in Timers : u # t => left'[u] = left[u]
           /\ \A u \in Timers : Listed(u)' <=> Listed(u) /\ u # t
<1>1. list' = Without(t) /\ True!End(t)  BY DEF StopTimer, True!Cancel
<1>2. /\ list' \in [Kinds -> Seq(Entries)]
      /\ \A k \in Kinds : /\ Kept(list'[k], list[k])
                          /\ ~HasTimer(list'[k], t)
                          /\ \A u : u # t => (HasTimer(list'[k], u) <=> HasTimer(list[k], u))
  BY <1>1, WithoutFacts
<1> QED  BY <1>1, <1>2, EndDates

\* A timer that is started is listed in its place; for all others nothing changes.
LEMMA StartDates ==
    ASSUME Dated, NEW t \in Timers, tick' = tick, time[t] \in Times, StartTimer(t)
    PROVE  /\ Dated' /\ left'[t] = time[t]
           /\ \A u \in Timers : u # t => left'[u] = left[u]
           /\ \A u \in Timers : Listed(u)' <=> Listed(u) \/ u = t
<1> DEFINE d == time[t]
           e == [timer |-> t, timeout |-> (tick + d) % Ticks]
           w == Without(t)
           K == Kind(t)
           B == {u \in True!Kin(t) \ {t} : left[u] = d}
<1>21. d \in 0..(Half - 1) /\ Half \in Nat /\ Ticks \in Nat \ {0} /\ 2 * Half < Ticks
  <2>1. d \in Times  OBVIOUS
  <2> HIDE DEF d
  <2> QED  BY <2>1, HalfFacts
<1>22. d \in Int /\ d # Off
  <2> HIDE DEF d
  <2>1. d \in Int  BY <1>21
  <2> QED  BY <2>1
<1>0. /\ left \in [Timers -> Int \cup {Off}] /\ ahead \in [Timers -> SUBSET Timers]
      /\ tick \in 0..(Ticks - 1) /\ K \in Kinds /\ d \in Int /\ d # Off
  BY <1>22, KindFacts DEF Dated
<1>1. list' = [w EXCEPT ![K] = Insert(@, e)] /\ True!Begin(t, d)  BY DEF StartTimer
<1>2. left' \in [Timers -> Int \cup {Off}] /\ left'[t] = d /\ \A u \in Timers : u # t => left'[u] = left[u]
  BY <1>0, <1>1 DEF True!Begin
<1>3. B \subseteq Timers /\ \A u \in Timers : u \in B <=> Kind(u) = K /\ u # t /\ left[u] = d
  BY DEF True!Kin, Kind
<1>4. /\ ahead' \in [Timers -> SUBSET Timers] /\ ahead'[t] = B
      /\ \A u \in Timers : u # t => ahead'[u] = ahead[u] \ {t}
  <2>1. ahead' = [True!Forget(t) EXCEPT ![t] = B]  BY <1>1 DEF True!Begin
  <2> HIDE DEF B
  <2> QED  BY <1>0, <1>3, <2>1 DEF True!Forget
<1>5. \A u \in Timers : u \in ahead'[t] <=> Kind(u) = K /\ u # t /\ left'[u] = d
  BY <1>2, <1>3, <1>4
<1>6. \A u \in Timers : u # t => t \notin ahead'[u]  BY <1>4
<1>7. e \in Entries /\ e.timer = t /\ e.timeout = Moment(tick, d, Ticks)
  <2>1. Near(d, Ticks)
    <3> HIDE DEF d
    <3> QED  BY <1>21 DEF Near
  <2>2. Ticks \in Nat \ {0}  BY <1>21
  <2>3. Moment(tick, d, Ticks) \in 0..(Ticks - 1)  BY <1>0, <2>1, <2>2, MomentFacts
  <2>4. Moment(tick, d, Ticks) = (tick + d) % Ticks  BY DEF Moment, Wrap
  <2> QED  BY <2>3, <2>4 DEF Entries
<1> HIDE DEF B, e, w
<1>8. /\ w \in [Kinds -> Seq(Entries)]
      /\ \A k \in Kinds : /\ Kept(w[k], list[k]) /\ ~HasTimer(w[k], t)
                          /\ \A u : u # t => (HasTimer(w[k], u) <=> HasTimer(list[k], u))
  BY WithoutFacts DEF w
<1>9. ASSUME NEW k \in Kinds PROVE InOrder(w[k], k, tick, left', ahead')
  <2> DEFINE r == w[k]
             s == list[k]
             lf == left'
             ah == ahead'
  <2>1. r \in Seq(Entries) /\ Kept(r, s) /\ ~HasTimer(r, t)  BY <1>8
  <2>2. InOrder(s, k, tick, left, ahead)  BY DEF Dated
  <2>3. \A u \in Timers : u # t => lf[u] = left[u] /\ ah[u] = ahead[u] \ {t}  BY <1>2, <1>4
  <2> HIDE DEF r, s, lf, ah
  <2>4. InOrder(r, k, tick, lf, ah)  BY <2>1, <2>2, <2>3, ShrunkInOrder
  <2> QED  BY <2>4 DEF r, lf, ah
<1> DEFINE z == w[K]
           q == Insert(z, e)
           lf == left'
           ah == ahead'
<1>10. list' \in [Kinds -> Seq(Entries)] /\ list'[K] = q /\ \A k \in Kinds : k # K => list'[k] = w[k]
  <2> HIDE DEF q
  <2>1. list' = [w EXCEPT ![K] = q]  BY <1>1 DEF q
  <2>2. q \in Seq(Entries)
    <3> DEFINE y == z
    <3>1. InOrder(y, K, tick, lf, ah)  BY <1>0, <1>9
    <3> HIDE DEF y, lf, ah, K
    <3>2. Insert(y, e) \in Seq(Entries)  BY <1>0, <1>7, <3>1, InsertFacts
    <3> QED  BY <3>2 DEF q, y
  <2> QED  BY <1>0, <1>8, <2>1, <2>2
<1>11. InOrder(q, K, tick, lf, ah) /\ HasTimer(q, t)
       /\ \A u : u # t => (HasTimer(q, u) <=> HasTimer(z, u))
  <2>1. InOrder(z, K, tick, lf, ah) /\ ~HasTimer(z, t)  BY <1>0, <1>8, <1>9
  <2>2. lf[t] = d  BY <1>2
  <2>3. Abreast(t, lf, ah, d)  BY <1>5, <1>6 DEF Abreast
  <2>5. Kind(t) = K /\ d \in (-Lag(K))..(Half - 1)
    <3> HIDE DEF d
    <3>1. d \in Times  BY DEF d
    <3>2. Lag(K) \in 0..(Half - 1) /\ d \in 0..(Half - 1) /\ Half \in Nat  BY <3>1, HalfFacts
    <3>3. d \in (-Lag(K))..(Half - 1)
      <4> DEFINE g == Lag(K)
      <4> HIDE DEF g
      <4>1. g \in 0..(Half - 1)  BY <3>2 DEF g
      <4>2. d \in (-g)..(Half - 1)  BY <3>2, <4>1
      <4> QED  BY <4>2 DEF g
    <3> QED  BY <3>3
  <2>6. d \in Times  OBVIOUS
  <2> HIDE DEF z, lf, ah, d, K
  <2>7. PICK p : /\ q \in Seq(Entries) /\ Placed(q, z, p, e)
                 /\ Fits(z, p, lf, d)
    BY <1>0, <1>7, <2>1, <2>6, InsertFacts
  <2> HIDE DEF q
  <2>8. ~HasTimer(z, e.timer) /\ Kind(e.timer) = K /\ lf[e.timer] = d /\ Abreast(e.timer, lf, ah, d)
    BY <1>7, <2>1, <2>2, <2>3, <2>5
  <2>9. InOrder(q, K, tick, lf, ah)  BY <1>7, <2>1, <2>5, <2>7, <2>8, GrownInOrder
  <2>10. HasTimer(q, t)  BY <1>7, <2>7 DEF Placed, HasTimer
  <2>11. ASSUME NEW u, u # t PROVE HasTimer(q, u) <=> HasTimer(z, u)
    <3>1. ASSUME HasTimer(q, u) PROVE HasTimer(z, u)
      <4>1. PICK i \in DOMAIN q : q[i].timer = u  BY <3>1 DEF HasTimer
      <4>2. q[i] # e  BY <1>7, <2>11, <4>1
      <4>3. PICK m \in DOMAIN z : q[i] = z[m]  BY <2>7, <4>1, <4>2 DEF Placed
      <4> QED  BY <4>1, <4>3 DEF HasTimer
    <3>2. ASSUME HasTimer(z, u) PROVE HasTimer(q, u)
      <4>1. PICK m \in DOMAIN z : z[m].timer = u  BY <3>2 DEF HasTimer
      <4>2. PICK i \in DOMAIN q : q[i] = z[m]  BY <2>7 DEF Placed
      <4>3. q[i].timer = u  BY <4>1, <4>2
      <4> QED  BY <4>3 DEF HasTimer
    <3> QED  BY <3>1, <3>2
  <2> QED  BY <2>9, <2>10, <2>11
<1>12. ASSUME NEW k \in Kinds PROVE InOrder(list'[k], k, tick', left', ahead')
  <2>1. CASE k = K  BY <1>10, <1>11, <2>1
  <2>2. CASE k # K
    <3>1. list'[k] = w[k]  BY <1>10, <2>2
    <3> QED  BY <1>9, <3>1
  <2> QED  BY <2>1, <2>2
<1>13. ASSUME NEW u \in Timers
       PROVE  /\ HasTimer(list'[Kind(u)], u) <=> HasTimer(list[Kind(u)], u) \/ u = t
              /\ left'[u] # Off <=> HasTimer(list'[Kind(u)], u)
  <2>1. left[u] # Off <=> HasTimer(list[Kind(u)], u)  BY DEF Dated
  <2>2. CASE u = t
    <3>1. HasTimer(list'[Kind(u)], u)  BY <1>10, <1>11, <2>2
    <3> QED  BY <1>0, <1>2, <2>2, <3>1
  <2>3. CASE u # t
    <3>1. Kind(u) \in Kinds  BY KindFacts
    <3>2. HasTimer(w[Kind(u)], u) <=> HasTimer(list[Kind(u)], u)  BY <1>8, <2>3, <3>1
    <3>3. HasTimer(list'[Kind(u)], u) <=> HasTimer(w[Kind(u)], u)
      <4>1. CASE Kind(u) = K
        <5>1. HasTimer(q, u) <=> HasTimer(z, u)  BY <1>11, <2>3
        <5> QED  BY <1>10, <4>1, <5>1
      <4>2. CASE Kind(u) # K  BY <1>10, <3>1, <4>2
      <4> QED  BY <4>1, <4>2
    <3> QED  BY <1>2, <2>1, <2>3, <3>2, <3>3
  <2> QED  BY <2>2, <2>3
<1>14. ASSUME NEW u \in Timers, NEW x \in ahead'[u]
       PROVE  Kind(x) = Kind(u) /\ left'[u] # Off /\ left'[x] # Off
  <2>1. CASE u = t
    <3>1. x \in Timers /\ Kind(x) = K /\ x # t /\ left'[x] = d  BY <1>3, <1>4, <1>5, <2>1
    <3> QED  BY <1>0, <1>2, <2>1, <3>1
  <2>2. CASE u # t
    <3>1. x \in ahead[u] /\ x # t /\ x \in Timers  BY <1>0, <1>4, <2>2
    <3>2. Kind(x) = Kind(u) /\ left[u] # Off /\ left[x] # Off  BY <3>1 DEF Dated
    <3> QED  BY <1>2, <2>2, <3>1, <3>2
  <2> QED  BY <2>1, <2>2
<1>15. tick' \in 0..(Ticks - 1)  BY <1>0
<1>16. Dated'  BY <1>2, <1>4, <1>10, <1>12, <1>13, <1>14, <1>15 DEF Dated
<1> QED  BY <1>2, <1>13, <1>16, ListedFacts, ListedFactsNext

\* The first timer of a list has least left, and none that is as long left
\* before it; it is due when its time is over.
LEMMA HeadFacts ==
    ASSUME Dated, NEW k \in Kinds, list[k] # <<>>
    PROVE  LET t == Head(list[k]).timer
           IN  /\ t \in Timers /\ Kind(t) = k /\ Listed(t) /\ ahead[t] = {}
               /\ left[t] \in (-Lag(k))..(Half - 1) /\ left[t] # Off
               /\ Head(list[k]).timeout = Moment(tick, left[t], Ticks)
               /\ Due(k) <=> left[t] <= 0
               /\ \A u \in Timers : Kind(u) = k /\ left[u] # Off =>
                     left[u] \in Int /\ left[t] <= left[u]
<1> DEFINE s == list[k]
           t == Head(s).timer
<1>1. s \in Seq(Entries) /\ InOrder(s, k, tick, left, ahead) /\ tick \in 0..(Ticks - 1)
  BY DEF Dated
<1>2. 1 \in DOMAIN s /\ Head(s) = s[1]  BY <1>1, TailKept
<1>3. /\ t \in Timers /\ Kind(t) = k /\ HasTimer(s, t)
      /\ left[t] \in (-Lag(k))..(Half - 1) /\ left[t] # Off
      /\ Head(s).timeout = Moment(tick, left[t], Ticks)
  BY <1>2, EntryFacts
<1>4. Due(k) <=> left[t] <= 0
  <2> DEFINE x == left[t]
  <2>1. Due(k) <=> Minus(tick, Moment(tick, x, Ticks)) < Half  BY <1>3 DEF Due
  <2>2. x \in (-Lag(k))..(Half - 1)  BY <1>3
  <2> HIDE DEF x
  <2>3. Due(k) <=> x <= 0  BY <1>1, <2>1, <2>2, SeenDue
  <2> QED  BY <2>3 DEF x
<1>5. ASSUME NEW u \in Timers, Kind(u) = k, left[u] # Off
      PROVE  /\ left[u] \in Int /\ left[t] <= left[u]
             /\ u \notin ahead[t]
  <2>1. HasTimer(s, u)  BY <1>5 DEF Dated
  <2>2. PICK i \in DOMAIN s : s[i].timer = u  BY <2>1 DEF HasTimer
  <2>3. i \in Nat /\ i >= 1  BY <1>1, LenProperties
  <2>4. left[u] \in Int /\ left[t] \in Int
    <3>1. left[u] \in (-Lag(k))..(Half - 1)  BY <2>2, EntryFacts
    <3> QED  BY <1>3, <3>1
  <2>5. left[t] <= left[u]
    <3>1. CASE i = 1
      <4>1. u = t  BY <1>2, <2>2, <3>1
      <4> QED  BY <2>4, <4>1
    <3>2. CASE 1 < i
      <4>1. left[s[1].timer] <= left[s[i].timer]  BY <1>1, <1>2, <2>2, <3>2 DEF InOrder
      <4> QED  BY <1>2, <2>2, <4>1
    <3> QED  BY <2>3, <3>1, <3>2
  <2>6. u \notin ahead[t]
    <3>1. ~(i < 1)  BY <2>3
    <3>2. s[i].timer \notin ahead[s[1].timer]  BY <1>1, <1>2, <2>2, <3>1 DEF InOrder
    <3> QED  BY <1>2, <2>2, <3>2
  <2> QED  BY <2>4, <2>5, <2>6
<1>6. ahead[t] = {}
  <2>1. ASSUME NEW x \in ahead[t] PROVE FALSE
    <3>1. x \in Timers  BY <1>3 DEF Dated
    <3>2. Kind(x) = Kind(t) /\ left[x] # Off  BY <1>3 DEF Dated
    <3> QED  BY <1>3, <1>5, <3>1, <3>2
  <2> QED  BY <2>1
<1>7. Listed(t)  BY <1>3, ListedFacts
<1> QED  BY <1>3, <1>4, <1>5, <1>6, <1>7

LEMMA PopDates ==
    ASSUME Dated, NEW k \in Kinds, Pop(k)
    PROVE  LET t == Head(list[k]).timer
           IN  /\ t \in Timers /\ Kind(t) = k /\ Listed(t)
               /\ Dated' /\ True!Fire(t) /\ left'[t] = Off
               /\ \A u \in Timers : u # t => left'[u] = left[u]
               /\ \A u \in Timers : Listed(u)' <=> Listed(u) /\ u # t
<1> DEFINE s == list[k]
           t == Head(s).timer
<1>1. /\ list' = [list EXCEPT ![k] = Tail(@)] /\ True!End(t) /\ fired' = t /\ tick' = tick
      /\ s # <<>> /\ Due(k)
  BY DEF Pop, Due
<1>2. /\ t \in Timers /\ Kind(t) = k /\ Listed(t) /\ ahead[t] = {}
      /\ left[t] # Off /\ left[t] <= 0
      /\ \A u \in Timers : Kind(u) = k /\ left[u] # Off => left[t] <= left[u]
  BY <1>1, HeadFacts
<1>3. True!Fire(t)
  <2>1. \A u \in True!Kin(t) : u \in Timers /\ Kind(u) = k  BY <1>2 DEF True!Kin, Kind
  <2> HIDE DEF t
  <2> QED  BY <1>1, <1>2, <2>1 DEF True!Fire, True!Going
<1>4. list \in [Kinds -> Seq(Entries)] /\ InOrder(s, k, tick, left, ahead)  BY DEF Dated
<1> DEFINE r == Tail(s)
<1>5. /\ r \in Seq(Entries) /\ Kept(r, s) /\ 1 \in DOMAIN s /\ s[1].timer = t
      /\ \A i \in DOMAIN r : \E m \in DOMAIN s : m # 1 /\ r[i] = s[m]
      /\ \A m \in DOMAIN s : m # 1 => \E i \in DOMAIN r : r[i] = s[m]
  <2>1. s \in Seq(Entries)  BY <1>4
  <2> QED  BY <1>1, <2>1, TailKept
<1> HIDE DEF r, t
<1>6. /\ list' \in [Kinds -> Seq(Entries)] /\ list'[k] = r
      /\ \A j \in Kinds : j # k => list'[j] = list[j]
  <2>1. list' = [list EXCEPT ![k] = r]  BY <1>1 DEF r
  <2> QED  BY <1>4, <1>5, <2>1
<1>7. ASSUME NEW i \in DOMAIN s, NEW j \in DOMAIN s, s[i].timer = s[j].timer PROVE i = j
  BY <1>4, <1>7 DEF InOrder
<1>8. ~HasTimer(r, t)  BY <1>5, <1>7 DEF HasTimer
<1>9. ASSUME NEW u, u # t PROVE HasTimer(r, u) <=> HasTimer(s, u)
  <2>1. HasTimer(r, u) => HasTimer(s, u)  BY <1>5 DEF HasTimer
  <2>2. HasTimer(s, u) => HasTimer(r, u)  BY <1>5, <1>9 DEF HasTimer
  <2> QED  BY <2>1, <2>2
<1>10. ASSUME NEW j \in Kinds
       PROVE  /\ Kept(list'[j], list[j]) /\ ~HasTimer(list'[j], t)
              /\ \A u : u # t => (HasTimer(list'[j], u) <=> HasTimer(list[j], u))
  <2>1. CASE j = k  BY <1>5, <1>6, <1>8, <1>9, <2>1
  <2>2. CASE j # k
    <3>1. list'[j] = list[j]  BY <1>6, <2>2
    <3>2. ~HasTimer(list[j], t)  BY <1>2, <2>2, EntryFacts DEF HasTimer
    <3>3. Kept(list[j], list[j])  BY DEF Kept
    <3> QED  BY <3>1, <3>2, <3>3
  <2> QED  BY <2>1, <2>2
<1>11. /\ Dated' /\ left'[t] = Off
       /\ \A u \in Timers : u # t => left'[u] = left[u]
       /\ \A u \in Timers : Listed(u)' <=> Listed(u) /\ u # t
  BY <1>1, <1>2, <1>6, <1>10, EndDates
<1> QED  BY <1>2, <1>3, <1>11 DEF t

\* A tick that comes when no timer is as late as its list allows.
LEMMA TickDates ==
    ASSUME Dated, tick' = (tick + 1) % Ticks, True!Elapse, list' = list,
           \A t \in Soft : ~Late(t),
           \A t \in Timers : t \notin Soft /\ left[t] # Off => left[t] >= 0
    PROVE  /\ Dated' /\ \A t \in Timers : Listed(t)' <=> Listed(t)
           /\ \A t \in Timers : left[t] # Off => left[t] \in Int /\ left'[t] = left[t] - 1
           /\ \A t \in Timers : left[t] = Off => left'[t] = Off
<1>0. left \in [Timers -> Int \cup {Off}] /\ tick \in 0..(Ticks - 1)  BY DEF Dated
<1>1. left' = [t \in Timers |-> IF left[t] # Off THEN left[t] - 1 ELSE Off] /\ ahead' = ahead
  BY DEF True!Elapse, True!Going
<1>2. ASSUME NEW t \in Timers
      PROVE  /\ left[t] # Off => left[t] \in Int /\ left'[t] = left[t] - 1 /\ left'[t] \in Int
             /\ left[t] = Off => left'[t] = Off
  BY <1>0, <1>1
<1>3. left' \in [Timers -> Int \cup {Off}] /\ Off \notin Int
  BY <1>1, <1>2
<1>4. tick' = Wrap(tick + 1, Ticks) /\ tick' \in 0..(Ticks - 1)
  <2>1. tick + 1 \in Int /\ Ticks \in Nat \ {0}  BY <1>0, HalfFacts
  <2>2. \A x \in Int : x % Ticks \in 0..(Ticks - 1)  BY <2>1
  <2> QED  BY <2>1, <2>2 DEF Wrap
<1>5. ASSUME NEW k \in Kinds PROVE InOrder(list'[k], k, tick', left', ahead')
  <2> DEFINE s == list[k]
             lf == left'
  <2>1. ASSUME NEW i \in DOMAIN s
        PROVE  lf[s[i].timer] = left[s[i].timer] - 1 /\ -Lag(k) <= lf[s[i].timer]
    <3> DEFINE t == s[i].timer
               x == left[t]
    <3>1. t \in Timers /\ Kind(t) = k /\ x \in (-Lag(k))..(Half - 1) /\ x # Off  BY EntryFacts
    <3>2. lf[t] = x - 1 /\ x \in Int  BY <1>2, <3>1
    <3>3. -Lag(k) <= x - 1
      <4>1. CASE k = "hard"
        <5>1. t \notin Soft  BY <3>1, <4>1, KindFacts
        <5>2. x >= 0  BY <3>1, <5>1
        <5> HIDE DEF x
        <5> QED  BY <3>2, <4>1, <5>2 DEF Lag
      <4>2. CASE k # "hard"
        <5>1. t \in Soft  BY <3>1, <4>2, KindFacts DEF Kinds
        <5>2. ~(x <= -MaxLate)  BY <3>1, <5>1 DEF Late
        <5> HIDE DEF x
        <5> QED  BY <3>2, <4>2, <5>2 DEF Lag
      <4> QED  BY <4>1, <4>2
    <3> QED  BY <3>2, <3>3
  <2>2. InOrder(s, k, tick, left, ahead)  BY DEF Dated
  <2> HIDE DEF s, lf
  <2>3. InOrder(s, k, Wrap(tick + 1, Ticks), lf, ahead)
    BY <1>0, <2>1, <2>2, ElapsedInOrder
  <2> QED  BY <1>1, <1>4, <2>3 DEF s, lf
<1>6. ASSUME NEW t \in Timers PROVE left'[t] # Off <=> HasTimer(list'[Kind(t)], t)
  <2>1. left[t] # Off <=> HasTimer(list[Kind(t)], t)  BY DEF Dated
  <2>2. left[t] # Off => left'[t] # Off  BY <1>2, <1>3
  <2> QED  BY <1>2, <2>1, <2>2
<1>7. ASSUME NEW u \in Timers, NEW x \in ahead'[u]
      PROVE  Kind(x) = Kind(u) /\ left'[u] # Off /\ left'[x] # Off
  <2>1. x \in ahead[u] /\ x \in Timers  BY <1>1 DEF Dated
  <2>2. Kind(x) = Kind(u) /\ left[u] # Off /\ left[x] # Off  BY <2>1 DEF Dated
  <2> QED  BY <1>2, <1>3, <2>1, <2>2
<1>8. list' \in [Kinds -> Seq(Entries)] /\ ahead' \in [Timers -> SUBSET Timers]
  BY <1>1 DEF Dated
<1>9. Dated'  BY <1>3, <1>4, <1>5, <1>6, <1>7, <1>8 DEF Dated
<1> QED  BY <1>2, <1>9, ListedFacts, ListedFactsNext

-----------------------------------------------------------------------------
\* What runs is what was asked for, and a popped timer is in its callback.
Asked ==
    /\ RunsAsAsked
    /\ \A k \in Kinds : popped[k] # Off => phase[k] = "callback" /\ Kind(popped[k]) = k

\* When the tick interrupt is done, no hard timer is overdue.
Punctual == phase["hard"] = "rest" => \A t \in Timers : t \notin Soft /\ left[t] # Off => left[t] >= 0

Typed ==
    /\ phase \in [Kinds -> Phases] /\ phase["hard"] # "take"
    /\ popped \in [Kinds -> Timers \cup {Off}]
    /\ sem \in 0..1
    /\ activated \subseteq Timers /\ periodic \subseteq Timers /\ wanted \subseteq Timers
    /\ time \in [Timers -> Times]

IInv == Dated /\ Typed /\ Asked /\ Punctual

TrueStep == [True!DeadlinesNext]_<<left, ahead, fired>>

LEMMA TypeFacts == IInv => TimerTypeOK
  BY DEF IInv, Dated, Typed, TimerTypeOK, Entries

LEMMA InvInit == TimerInit => IInv
<1> SUFFICES ASSUME TimerInit PROVE IInv  OBVIOUS
<1>1. left = [t \in Timers |-> Off] /\ ahead = [t \in Timers |-> {}]
  BY DEF TimerInit, True!DeadlinesInit
<1>2. list = [k \in Kinds |-> <<>>] /\ <<>> \in Seq(Entries) /\ DOMAIN <<>> = {}
  BY EmptySeq, LenProperties DEF TimerInit
<1>3. \A t \in Timers : left[t] = Off /\ ahead[t] = {} /\ ~HasTimer(list[Kind(t)], t) /\ ~Listed(t)
  BY <1>1, <1>2, KindFacts, ListedFacts DEF HasTimer
<1>4. \A k \in Kinds : InOrder(list[k], k, tick, left, ahead)
  BY <1>2 DEF InOrder
<1>5. tick \in 0..(Ticks - 1)
  <2>1. tick = 0 /\ Ticks \in Nat \ {0}  BY HalfFacts DEF TimerInit
  <2> QED  BY <2>1
<1>6. Dated
  <2>1. left \in [Timers -> Int \cup {Off}] /\ ahead \in [Timers -> SUBSET Timers]  BY <1>1
  <2>2. list \in [Kinds -> Seq(Entries)]  BY <1>2
  <2> QED  BY <1>3, <1>4, <1>5, <2>1, <2>2 DEF Dated
<1>7. Typed
  <2>1. (CHOOSE d \in Times : TRUE) \in Times  OBVIOUS
  <2>2. time \in [Timers -> Times]  BY <2>1 DEF TimerInit
  <2> QED  BY <2>2 DEF TimerInit, Typed, Kinds, Phases
<1>8. Asked  BY <1>3 DEF TimerInit, Asked, RunsAsAsked
<1>9. Punctual  BY <1>3 DEF Punctual
<1> QED  BY <1>6, <1>7, <1>8, <1>9 DEF IInv

\* rt_timer_start by whoever, also by _timer_check for a periodic timer.
LEMMA StartStep ==
    ASSUME IInv, NEW t \in Timers, StartTimer(t), wanted' = wanted \cup {t},
           tick' = tick, sem' = sem, time' = time, periodic' = periodic,
           phase' \in [Kinds -> Phases], phase'["hard"] # "take",
           phase'["hard"] = "rest" => phase["hard"] = "rest",
           \A k \in Kinds : popped[k] \notin {Off, t} => phase'[k] = phase[k]
    PROVE  IInv' /\ TrueStep
<1>1. Dated /\ Typed /\ Asked /\ Punctual  BY DEF IInv
<1>2. time[t] \in Times  BY <1>1 DEF Typed
<1>3. /\ Dated' /\ left'[t] = time[t]
      /\ \A u \in Timers : u # t => left'[u] = left[u]
      /\ \A u \in Timers : Listed(u)' <=> Listed(u) \/ u = t
  BY <1>1, <1>2, StartDates
<1>4. popped' = PoppedWithout(t) /\ activated' = activated \cup {t} /\ True!Begin(t, time[t])
  BY DEF StartTimer
<1>5. \A k \in Kinds : popped'[k] = IF popped[k] = t THEN Off ELSE popped[k]
  BY <1>4 DEF PoppedWithout
<1>6. popped' \in [Kinds -> Timers \cup {Off}]  BY <1>1, <1>4 DEF PoppedWithout, Typed
<1>7. Typed'  BY <1>1, <1>4, <1>6 DEF Typed
<1>8. ASSUME NEW k \in Kinds, popped'[k] # Off
      PROVE  /\ popped'[k] = popped[k] /\ popped[k] \in Timers /\ popped[k] # t
             /\ phase'[k] = "callback" /\ Kind(popped[k]) = k
             /\ ~HasTimer(list'[Kind(popped'[k])], popped'[k])
  <2>1. popped'[k] = popped[k] /\ popped[k] \notin {Off, t} /\ popped[k] \in Timers
    BY <1>1, <1>5, <1>8 DEF Typed
  <2>2. phase[k] = "callback" /\ Kind(popped[k]) = k /\ ~Listed(popped[k])
    BY <1>1, <2>1 DEF Asked, RunsAsAsked
  <2>3. ~HasTimer(list'[Kind(popped[k])], popped[k])
    <3> DEFINE u == popped[k]
    <3>1. u \in Timers /\ u # t /\ ~Listed(u)  BY <2>1, <2>2
    <3> HIDE DEF u
    <3>2. ~HasTimer(list'[Kind(u)], u)  BY <1>3, <3>1, ListedFactsNext
    <3> QED  BY <3>2 DEF u
  <2> QED  BY <2>1, <2>2, <2>3
<1>9. ASSUME NEW u \in Timers
      PROVE  u \in wanted' <=> Listed(u)' \/ (\E k \in Kinds : popped'[k] = u /\ u \in activated')
  <2>1. CASE u = t  BY <1>3, <2>1
  <2>2. CASE u # t
    <3>1. u \in wanted <=> Listed(u) \/ (\E k \in Kinds : popped[k] = u /\ u \in activated)
      BY <1>1 DEF Asked, RunsAsAsked
    <3>2. \A k \in Kinds : popped'[k] = u <=> popped[k] = u  BY <1>5, <2>2
    <3>3. (u \in wanted' <=> u \in wanted) /\ (u \in activated' <=> u \in activated)
      BY <1>4, <2>2
    <3> QED  BY <1>3, <2>2, <3>1, <3>2, <3>3
  <2> QED  BY <2>1, <2>2
<1>10. wanted' \subseteq activated'  BY <1>1, <1>4 DEF Asked, RunsAsAsked
<1>11. RunsAsAsked'
  <2>1. (\A k \in Kinds : popped[k] # Off => ~Listed(popped[k]))'
    BY <1>8 DEF Listed, HasTimer
  <2> QED  BY <1>9, <1>10, <2>1 DEF RunsAsAsked
<1>12. Asked'  BY <1>8, <1>11 DEF Asked
<1>13. Punctual'
  <2> SUFFICES ASSUME phase'["hard"] = "rest", NEW u \in Timers, u \notin Soft, left'[u] # Off
               PROVE  left'[u] >= 0
    BY DEF Punctual
  <2>1. CASE u = t
    <3> DEFINE d == time[t]
    <3>1. d \in Times  BY <1>2
    <3> HIDE DEF d
    <3>2. d >= 0  BY <3>1, HalfFacts
    <3> QED  BY <1>3, <2>1, <3>2 DEF d
  <2>2. CASE u # t  BY <1>1, <1>3, <2>2 DEF Punctual
  <2> QED  BY <2>1, <2>2
<1>14. TrueStep  BY <1>2, <1>4 DEF TrueStep, True!DeadlinesNext
<1> QED  BY <1>3, <1>7, <1>12, <1>13, <1>14 DEF IInv

\* rt_timer_stop, detach, delete and a change of the time.
LEMMA StopStep ==
    ASSUME IInv, NEW t \in Timers, StopTimer(t), UNCHANGED <<tick, phase, sem, periodic>>,
           time' \in [Timers -> Times]
    PROVE  IInv' /\ TrueStep
<1>1. Dated /\ Typed /\ Asked /\ Punctual  BY DEF IInv
<1>2. /\ Dated' /\ left'[t] = Off
      /\ \A u \in Timers : u # t => left'[u] = left[u]
      /\ \A u \in Timers : Listed(u)' <=> Listed(u) /\ u # t
  BY <1>1, StopDates
<1>3. /\ popped' = PoppedWithout(t) /\ activated' = activated \ {t}
      /\ wanted' = wanted \ {t} /\ True!Cancel(t)
  BY DEF StopTimer
<1>4. \A k \in Kinds : popped'[k] = IF popped[k] = t THEN Off ELSE popped[k]
  BY <1>3 DEF PoppedWithout
<1>5. popped' \in [Kinds -> Timers \cup {Off}]  BY <1>1, <1>3 DEF PoppedWithout, Typed
<1>6. Typed'  BY <1>1, <1>3, <1>5 DEF Typed
<1>7. ASSUME NEW k \in Kinds, popped'[k] # Off
      PROVE  /\ popped'[k] = popped[k] /\ phase'[k] = "callback" /\ Kind(popped[k]) = k
             /\ ~HasTimer(list'[Kind(popped'[k])], popped'[k])
  <2> DEFINE u == popped[k]
  <2>1. popped'[k] = u /\ u # t /\ u # Off /\ u \in Timers  BY <1>1, <1>4, <1>7 DEF Typed
  <2>2. phase[k] = "callback" /\ Kind(u) = k /\ ~Listed(u)
    BY <1>1, <2>1 DEF Asked, RunsAsAsked
  <2> HIDE DEF u
  <2>3. ~HasTimer(list'[Kind(u)], u)  BY <1>2, <2>1, <2>2, ListedFactsNext
  <2> QED  BY <2>1, <2>2, <2>3 DEF u
<1>8. ASSUME NEW u \in Timers
      PROVE  u \in wanted' <=> Listed(u)' \/ (\E k \in Kinds : popped'[k] = u /\ u \in activated')
  <2>1. CASE u = t  BY <1>2, <1>3, <2>1
  <2>2. CASE u # t
    <3>1. u \in wanted <=> Listed(u) \/ (\E k \in Kinds : popped[k] = u /\ u \in activated)
      BY <1>1 DEF Asked, RunsAsAsked
    <3>2. \A k \in Kinds : popped'[k] = u <=> popped[k] = u  BY <1>4, <2>2
    <3>3. (u \in wanted' <=> u \in wanted) /\ (u \in activated' <=> u \in activated)
      BY <1>3, <2>2
    <3> QED  BY <1>2, <2>2, <3>1, <3>2, <3>3
  <2> QED  BY <2>1, <2>2
<1>9. wanted' \subseteq activated'  BY <1>1, <1>3 DEF Asked, RunsAsAsked
<1>10. RunsAsAsked'
  <2>1. (\A k \in Kinds : popped[k] # Off => ~Listed(popped[k]))'
    BY <1>7 DEF Listed, HasTimer
  <2> QED  BY <1>8, <1>9, <2>1 DEF RunsAsAsked
<1>11. Asked'  BY <1>7, <1>10 DEF Asked
<1>12. Punctual'
  <2>1. \A u \in Timers : left'[u] # Off => u # t /\ left'[u] = left[u]  BY <1>2
  <2> QED  BY <1>1, <2>1 DEF Punctual
<1>13. TrueStep  BY <1>3 DEF TrueStep, True!DeadlinesNext
<1> QED  BY <1>2, <1>6, <1>11, <1>12, <1>13 DEF IInv

\* _timer_check pops a timer and calls its function.
LEMMA PopStep ==
    ASSUME IInv, NEW k \in Kinds, Pop(k)
    PROVE  IInv' /\ TrueStep
<1> DEFINE t == Head(list[k]).timer
<1>1. Dated /\ Typed /\ Asked /\ Punctual  BY DEF IInv
<1>2. /\ t \in Timers /\ Kind(t) = k /\ Listed(t)
      /\ Dated' /\ True!Fire(t) /\ left'[t] = Off
      /\ \A u \in Timers : u # t => left'[u] = left[u]
      /\ \A u \in Timers : Listed(u)' <=> Listed(u) /\ u # t
  BY <1>1, PopDates
<1>3. /\ popped' = [popped EXCEPT ![k] = t]
      /\ activated' = IF t \in periodic THEN activated ELSE activated \ {t}
      /\ wanted' = IF t \in periodic THEN wanted ELSE wanted \ {t}
      /\ phase[k] = "check" /\ phase' = [phase EXCEPT ![k] = "callback"]
      /\ UNCHANGED <<tick, sem, periodic, time>>
  BY DEF Pop
<1> HIDE DEF t
<1>4. /\ popped'[k] = t /\ \A j \in Kinds : j # k => popped'[j] = popped[j]
      /\ phase'[k] = "callback" /\ \A j \in Kinds : j # k => phase'[j] = phase[j]
      /\ popped[k] = Off
  BY <1>1, <1>3 DEF Typed, Asked
<1>5. phase' \in [Kinds -> Phases]  BY <1>1, <1>3 DEF Typed, Phases
<1>6. popped' \in [Kinds -> Timers \cup {Off}]  BY <1>1, <1>2, <1>3 DEF Typed
<1>7. "hard" \in Kinds  BY DEF Kinds
<1>8. phase'["hard"] # "take" /\ (phase'["hard"] = "rest" => phase["hard"] = "rest")
  BY <1>1, <1>4, <1>7 DEF Typed
<1>9. Typed'  BY <1>1, <1>3, <1>5, <1>6, <1>8 DEF Typed
<1>10. ASSUME NEW j \in Kinds, popped'[j] # Off
       PROVE  /\ phase'[j] = "callback" /\ Kind(popped'[j]) = j
              /\ ~HasTimer(list'[Kind(popped'[j])], popped'[j])
  <2>1. CASE j = k
    <3>1. ~HasTimer(list'[Kind(t)], t)  BY <1>2, ListedFactsNext
    <3> QED  BY <1>2, <1>4, <2>1, <3>1
  <2>2. CASE j # k
    <3> DEFINE u == popped[j]
    <3>1. popped'[j] = u /\ u # Off /\ u \in Timers /\ phase'[j] = phase[j]
      BY <1>1, <1>4, <1>10, <2>2 DEF Typed
    <3>2. phase[j] = "callback" /\ Kind(u) = j /\ ~Listed(u)
      BY <1>1, <3>1 DEF Asked, RunsAsAsked
    <3> HIDE DEF u
    <3>3. ~HasTimer(list'[Kind(u)], u)  BY <1>2, <3>1, <3>2, ListedFactsNext
    <3> QED  BY <3>1, <3>2, <3>3
  <2> QED  BY <2>1, <2>2
<1>11. ASSUME NEW u \in Timers
       PROVE  u \in wanted' <=> Listed(u)' \/ (\E j \in Kinds : popped'[j] = u /\ u \in activated')
  <2>1. /\ u \in wanted <=> Listed(u) \/ (\E j \in Kinds : popped[j] = u /\ u \in activated)
        /\ wanted \subseteq activated
    BY <1>1 DEF Asked, RunsAsAsked
  <2>2. CASE u = t
    <3>1. u \in wanted /\ ~Listed(u)' /\ popped'[k] = u  BY <1>2, <1>4, <2>1, <2>2
    <3>2. CASE t \in periodic  BY <1>3, <2>1, <2>2, <3>1, <3>2
    <3>3. CASE t \notin periodic  BY <1>3, <2>2, <3>1, <3>3
    <3> QED  BY <3>2, <3>3
  <2>3. CASE u # t
    <3>1. \A j \in Kinds : popped'[j] = u <=> popped[j] = u  BY <1>4, <2>3
    <3>2. (u \in wanted' <=> u \in wanted) /\ (u \in activated' <=> u \in activated)
      BY <1>3, <2>3
    <3>3. Listed(u)' <=> Listed(u)  BY <1>2, <2>3
    <3> QED  BY <2>1, <3>1, <3>2, <3>3
  <2> QED  BY <2>2, <2>3
<1>12. wanted' \subseteq activated'  BY <1>1, <1>3 DEF Asked, RunsAsAsked
<1>13. RunsAsAsked'
  <2>1. (\A j \in Kinds : popped[j] # Off => ~Listed(popped[j]))'
    BY <1>10 DEF Listed, HasTimer
  <2> QED  BY <1>11, <1>12, <2>1 DEF RunsAsAsked
<1>14. Asked'  BY <1>10, <1>13 DEF Asked
<1>15. Punctual'
  <2>1. \A u \in Timers : left'[u] # Off => u # t /\ left'[u] = left[u]  BY <1>2
  <2> QED  BY <1>1, <1>8, <2>1 DEF Punctual
<1>16. TrueStep  BY <1>2 DEF TrueStep, True!DeadlinesNext
<1> QED  BY <1>2, <1>9, <1>14, <1>15, <1>16 DEF IInv

\* Lists and clock stay as they are.
LEMMA StillDated ==
    ASSUME Dated, UNCHANGED <<tick, list>>, True!Other
    PROVE  Dated' /\ UNCHANGED <<left, ahead>> /\ \A t \in Timers : Listed(t)' <=> Listed(t)
<1>1. UNCHANGED <<tick, list, left, ahead>>  BY DEF True!Other
<1>2. Dated'  BY <1>1 DEF Dated
<1> QED  BY <1>1, <1>2, ListedFacts, ListedFactsNext

\* Nothing is started, stopped or popped; when the check of the hard timers ends,
\* none of them is overdue.
LEMMA QuietStep ==
    ASSUME IInv, UNCHANGED <<tick, list, popped, activated, wanted>>, True!Other,
           phase' \in [Kinds -> Phases], phase'["hard"] # "take",
           \A k \in Kinds : popped[k] # Off => phase'[k] = phase[k],
           phase'["hard"] = "rest" =>
              \A t \in Timers : t \notin Soft /\ left[t] # Off => left[t] >= 0,
           sem' \in 0..1, periodic' \subseteq Timers, time' \in [Timers -> Times]
    PROVE  IInv' /\ TrueStep
<1>1. Dated /\ Typed /\ Asked /\ Punctual  BY DEF IInv
<1>2. Dated' /\ UNCHANGED <<left, ahead>> /\ \A t \in Timers : Listed(t)' <=> Listed(t)
  BY <1>1, StillDated
<1>3. Typed'  BY <1>1 DEF Typed
<1>4. RunsAsAsked'
  <2>1. RunsAsAsked  BY <1>1 DEF Asked
  <2> QED  BY <2>1 DEF RunsAsAsked, Listed
<1>5. Asked'  BY <1>1, <1>4 DEF Asked
<1>6. Punctual'  BY <1>2 DEF Punctual
<1>7. TrueStep  BY DEF TrueStep, True!DeadlinesNext
<1> QED  BY <1>2, <1>3, <1>5, <1>6, <1>7 DEF IInv

\* When the first timer of a list is not due, none of the list is.
LEMMA NoneDue ==
    ASSUME Dated, NEW k \in Kinds, ~Due(k), NEW t \in Timers, Kind(t) = k, left[t] # Off
    PROVE  left[t] \in Int /\ 0 < left[t]
<1>1. HasTimer(list[k], t)  BY DEF Dated
<1>2. list[k] # <<>>
  <2>1. DOMAIN <<>> = {}  BY EmptySeq, LenProperties
  <2> QED  BY <1>1, <2>1 DEF HasTimer
<1> DEFINE h == Head(list[k]).timer
           x == left[h]
           y == left[t]
<1>3. ~(x <= 0) /\ x \in (-Lag(k))..(Half - 1) /\ y \in Int /\ x <= y  BY <1>2, HeadFacts
<1> HIDE DEF x, y
<1>4. x \in Int  BY <1>3
<1>5. 0 < y  BY <1>3, <1>4
<1> QED  BY <1>3, <1>5 DEF y

LEMMA CheckEndsStep ==
    ASSUME IInv, NEW k \in Kinds, CheckEnds(k)
    PROVE  IInv' /\ TrueStep
<1>1. Dated /\ Typed /\ Asked /\ Punctual  BY DEF IInv
<1>2. /\ phase[k] = "check" /\ ~Due(k)
      /\ phase' = [phase EXCEPT ![k] = IF k = "soft" THEN "take" ELSE "rest"]
      /\ UNCHANGED <<tick, list, popped, sem, activated, periodic, time, wanted>> /\ True!Other
  BY DEF CheckEnds
<1>3. phase' \in [Kinds -> Phases] /\ phase'["hard"] # "take"
  BY <1>1, <1>2 DEF Typed, Phases, Kinds
<1>4. \A j \in Kinds : popped[j] # Off => phase'[j] = phase[j]
  BY <1>1, <1>2 DEF Asked, Typed
<1>5. ASSUME phase'["hard"] = "rest", NEW t \in Timers, t \notin Soft, left[t] # Off
      PROVE  left[t] >= 0
  <2>1. CASE k = "hard"
    <3>1. Kind(t) = k  BY <1>5, <2>1 DEF Kind
    <3> DEFINE y == left[t]
    <3>2. y \in Int /\ 0 < y  BY <1>1, <1>2, <1>5, <3>1, NoneDue
    <3> HIDE DEF y
    <3>3. y >= 0  BY <3>2
    <3> QED  BY <3>3 DEF y
  <2>2. CASE k # "hard"
    <3>1. phase["hard"] = "rest"  BY <1>1, <1>2, <1>5, <2>2 DEF Typed, Kinds
    <3> QED  BY <1>1, <1>5, <3>1 DEF Punctual
  <2> QED  BY <2>1, <2>2
<1>6. sem' \in 0..1 /\ periodic' \subseteq Timers /\ time' \in [Timers -> Times]
  BY <1>1, <1>2 DEF Typed
<1> QED  BY <1>2, <1>3, <1>4, <1>5, <1>6, QuietStep

LEMMA TakeSemStep ==
    ASSUME IInv, TakeSem
    PROVE  IInv' /\ TrueStep
<1>1. Dated /\ Typed /\ Asked /\ Punctual  BY DEF IInv
<1>2. /\ phase["hard"] = "rest" /\ phase["soft"] = "take" /\ sem' = 0
      /\ phase' = [phase EXCEPT !["soft"] = IF sem = 1 THEN "check" ELSE "rest"]
      /\ UNCHANGED <<tick, list, popped, activated, periodic, time, wanted>> /\ True!Other
  BY DEF TakeSem, ThreadRuns
<1>3. phase' \in [Kinds -> Phases] /\ phase'["hard"] = "rest"
  BY <1>1, <1>2 DEF Typed, Phases, Kinds
<1>4. \A j \in Kinds : popped[j] # Off => phase'[j] = phase[j]
  BY <1>1, <1>2 DEF Asked, Typed
<1>5. \A t \in Timers : t \notin Soft /\ left[t] # Off => left[t] >= 0
  BY <1>1, <1>2 DEF Punctual
<1>6. sem' \in 0..1 /\ periodic' \subseteq Timers /\ time' \in [Timers -> Times]
  BY <1>1, <1>2 DEF Typed
<1> QED  BY <1>2, <1>3, <1>4, <1>5, <1>6, QuietStep

\* The callback has returned: the timer starts again, or has nothing more to do.
LEMMA CallbackReturnsStep ==
    ASSUME IInv, NEW k \in Kinds, CallbackReturns(k)
    PROVE  IInv' /\ TrueStep
<1> DEFINE t == popped[k]
<1>1. Dated /\ Typed /\ Asked /\ Punctual  BY DEF IInv
<1>2. /\ phase[k] = "callback" /\ phase' = [phase EXCEPT ![k] = "check"]
      /\ UNCHANGED <<tick, sem, periodic, time>>
  BY DEF CallbackReturns
<1>3. /\ phase' \in [Kinds -> Phases] /\ phase'["hard"] # "take"
      /\ phase'["hard"] = "rest" => phase["hard"] = "rest"
      /\ \A j \in Kinds : j # k => phase'[j] = phase[j]
  BY <1>1, <1>2 DEF Typed, Phases, Kinds
<1>4. \A j \in Kinds : popped[j] # Off /\ popped[j] = t => j = k
  BY <1>1 DEF Asked
<1>5. CASE t \in periodic \cap activated
  <2>1. StartTimer(t) /\ wanted' = wanted  BY <1>5 DEF CallbackReturns
  <2>2. t \in Timers /\ t # Off  BY <1>1, <1>5 DEF Typed
  <2>3. t \in wanted  BY <1>1, <1>5, <2>2 DEF Asked, RunsAsAsked
  <2>4. wanted' = wanted \cup {t}  BY <2>1, <2>3
  <2>5. \A j \in Kinds : popped[j] \notin {Off, t} => phase'[j] = phase[j]  BY <1>3
  <2> HIDE DEF t
  <2> QED  BY <1>2, <1>3, <2>1, <2>2, <2>4, <2>5, StartStep
<1>6. CASE t \notin periodic \cap activated
  <2>1. /\ popped' = [popped EXCEPT ![k] = Off] /\ wanted' = wanted \ {t}
        /\ UNCHANGED <<list, activated>> /\ True!Other
    BY <1>6 DEF CallbackReturns
  <2>2. Dated' /\ UNCHANGED <<left, ahead>> /\ \A u \in Timers : Listed(u)' <=> Listed(u)
    BY <1>1, <1>2, <2>1, StillDated
  <2>3. popped' \in [Kinds -> Timers \cup {Off}]
        /\ \A j \in Kinds : popped'[j] = IF j = k THEN Off ELSE popped[j]
    BY <1>1, <2>1 DEF Typed
  <2> HIDE DEF t
  <2>4. Typed'  BY <1>1, <1>2, <1>3, <2>1, <2>3 DEF Typed
  <2>5. ASSUME NEW j \in Kinds, popped'[j] # Off
        PROVE  /\ popped'[j] = popped[j] /\ phase'[j] = "callback" /\ Kind(popped[j]) = j
               /\ ~Listed(popped[j])
    <3>1. j # k /\ popped'[j] = popped[j] /\ popped[j] # Off  BY <2>3, <2>5
    <3> QED  BY <1>1, <1>3, <3>1 DEF Asked, RunsAsAsked
  <2>6. ASSUME NEW u \in Timers
        PROVE  u \in wanted' <=> Listed(u)' \/ (\E j \in Kinds : popped'[j] = u /\ u \in activated')
    <3>1. u \in wanted <=> Listed(u) \/ (\E j \in Kinds : popped[j] = u /\ u \in activated)
      BY <1>1 DEF Asked, RunsAsAsked
    <3>2. u # Off  OBVIOUS
    <3>3. Listed(u)' <=> Listed(u)  BY <2>2
    <3>4. CASE u = t
      <4>1. ~Listed(u)  BY <1>1, <3>2, <3>4 DEF Asked, RunsAsAsked, t
      <4>2. \A j \in Kinds : popped'[j] # u  BY <1>4, <2>3, <3>2, <3>4 DEF t
      <4> QED  BY <2>1, <3>3, <3>4, <4>1, <4>2
    <3>5. CASE u # t
      <4>1. \A j \in Kinds : popped'[j] = u <=> popped[j] = u  BY <2>3, <3>2, <3>5 DEF t
      <4>2. (u \in wanted' <=> u \in wanted) /\ activated' = activated  BY <2>1, <3>5
      <4> QED  BY <3>1, <3>3, <4>1, <4>2
    <3> QED  BY <3>4, <3>5
  <2>7. RunsAsAsked'
    <3>1. wanted' \subseteq activated'  BY <1>1, <2>1 DEF Asked, RunsAsAsked
    <3>2. (\A j \in Kinds : popped[j] # Off => ~Listed(popped[j]))'
      BY <2>1, <2>5 DEF Listed
    <3> QED  BY <2>6, <3>1, <3>2 DEF RunsAsAsked
  <2>8. Asked'  BY <2>5, <2>7 DEF Asked
  <2>9. Punctual'  BY <1>1, <1>3, <2>2 DEF Punctual
  <2>10. TrueStep  BY <2>1 DEF TrueStep, True!DeadlinesNext
  <2> QED  BY <2>2, <2>4, <2>8, <2>9, <2>10 DEF IInv
<1> QED  BY <1>5, <1>6

LEMMA TickStep ==
    ASSUME IInv, Tick
    PROVE  IInv' /\ TrueStep
<1>1. Dated /\ Typed /\ Asked /\ Punctual  BY DEF IInv
<1> DEFINE announced == list["soft"] # <<>> /\ Head(list["soft"]).timeout <= tick'
<1>2. /\ phase["hard"] = "rest" /\ \A t \in Soft : ~Late(t)
      /\ tick' = (tick + 1) % Ticks
      /\ sem' = IF announced /\ phase["soft"] # "rest" THEN 1 ELSE sem
      /\ phase' = [hard |-> "check",
                   soft |-> IF announced /\ phase["soft"] = "rest" THEN "check" ELSE phase["soft"]]
      /\ True!Elapse
      /\ UNCHANGED <<list, popped, activated, periodic, time, wanted>>
  BY DEF Tick, ThreadRuns
<1> HIDE DEF announced
<1>3. \A t \in Timers : t \notin Soft /\ left[t] # Off => left[t] >= 0
  BY <1>1, <1>2 DEF Punctual
<1>4. /\ Dated' /\ \A t \in Timers : Listed(t)' <=> Listed(t)
  BY <1>1, <1>2, <1>3, TickDates
<1>5. phase' \in [Kinds -> Phases] /\ phase'["hard"] = "check"
  <2>1. phase["soft"] \in Phases  BY <1>1 DEF Typed, Kinds
  <2> QED  BY <1>2, <2>1 DEF Kinds, Phases
<1>6. sem' \in 0..1  BY <1>1, <1>2 DEF Typed
<1>7. Typed'  BY <1>1, <1>2, <1>5, <1>6 DEF Typed
<1>8. RunsAsAsked'
  <2>1. RunsAsAsked  BY <1>1 DEF Asked
  <2> QED  BY <1>2, <2>1 DEF RunsAsAsked, Listed
<1>9. ASSUME NEW k \in Kinds, popped[k] # Off PROVE phase'[k] = "callback"
  <2>1. phase[k] = "callback"  BY <1>1, <1>9 DEF Asked
  <2>2. k = "soft"  BY <1>2, <2>1 DEF Kinds
  <2> QED  BY <1>2, <2>1, <2>2
<1>10. Asked'  BY <1>1, <1>2, <1>8, <1>9 DEF Asked
<1>11. Punctual'  BY <1>5 DEF Punctual
<1>12. True!Pass  BY <1>2, <1>3 DEF True!Pass, True!Going
<1>13. TrueStep  BY <1>12 DEF TrueStep, True!DeadlinesNext
<1> QED  BY <1>4, <1>7, <1>10, <1>11, <1>13 DEF IInv

LEMMA SetStep ==
    ASSUME IInv, NEW t \in Timers,
           (\E d \in Times : SetTime(t, d)) \/ (\E m \in BOOLEAN : SetMode(t, m))
    PROVE  IInv' /\ TrueStep
<1>1. Dated /\ Typed /\ Asked /\ Punctual  BY DEF IInv
<1>2. ASSUME NEW d \in Times, SetTime(t, d) PROVE IInv' /\ TrueStep
  <2>1. UNCHANGED <<tick, phase, sem, periodic>> /\ time' \in [Timers -> Times]
    BY <1>1, <1>2 DEF SetTime, Unmoved, Typed
  <2>2. CASE t \in activated
    <3>1. StopTimer(t)  BY <1>2, <2>2 DEF SetTime
    <3> QED  BY <2>1, <3>1, StopStep
  <2>3. CASE t \notin activated
    <3>1. UNCHANGED <<list, popped, activated, wanted>> /\ True!Other  BY <1>2, <2>3 DEF SetTime
    <3>2. phase' \in [Kinds -> Phases] /\ phase'["hard"] # "take" /\ sem' \in 0..1
          /\ periodic' \subseteq Timers /\ (\A k \in Kinds : popped[k] # Off => phase'[k] = phase[k])
      BY <1>1, <2>1 DEF Typed
    <3>3. phase'["hard"] = "rest" => \A u \in Timers : u \notin Soft /\ left[u] # Off => left[u] >= 0
      BY <1>1, <2>1 DEF Punctual
    <3> QED  BY <2>1, <3>1, <3>2, <3>3, QuietStep
  <2> QED  BY <2>2, <2>3
<1>3. ASSUME NEW m \in BOOLEAN, SetMode(t, m) PROVE IInv' /\ TrueStep
  <2>1. UNCHANGED <<list, popped, activated, wanted, time, tick, phase, sem>> /\ True!Other
    BY <1>3 DEF SetMode, Unmoved
  <2>2. periodic' \subseteq Timers  BY <1>1, <1>3 DEF SetMode, Typed
  <2>3. phase' \in [Kinds -> Phases] /\ phase'["hard"] # "take" /\ sem' \in 0..1
        /\ time' \in [Timers -> Times] /\ (\A k \in Kinds : popped[k] # Off => phase'[k] = phase[k])
    BY <1>1, <2>1 DEF Typed
  <2>4. phase'["hard"] = "rest" => \A u \in Timers : u \notin Soft /\ left[u] # Off => left[u] >= 0
    BY <1>1, <2>1 DEF Punctual
  <2> QED  BY <2>1, <2>2, <2>3, <2>4, QuietStep
<1> QED  BY <1>2, <1>3

LEMMA InvStep == IInv /\ [TimerNext]_timerVars => IInv' /\ TrueStep
<1> SUFFICES ASSUME IInv, [TimerNext]_timerVars PROVE IInv' /\ TrueStep  OBVIOUS
<1>1. Typed  BY DEF IInv
<1>2. ASSUME NEW t \in Timers, Start(t) PROVE IInv' /\ TrueStep
  <2>1. /\ StartTimer(t) /\ wanted' = wanted \cup {t}
        /\ UNCHANGED <<periodic, time, tick, phase, sem>>
    BY <1>2 DEF Start, Unmoved
  <2> QED  BY <1>1, <2>1, StartStep DEF Typed
<1>3. ASSUME NEW t \in Timers, Stop(t) \/ DetachTimer(t) PROVE IInv' /\ TrueStep
  <2>1. StopTimer(t) /\ UNCHANGED <<periodic, time, tick, phase, sem>>
    BY <1>3 DEF Stop, DetachTimer, Unmoved
  <2> QED  BY <1>1, <2>1, StopStep DEF Typed
<1>4. CASE UNCHANGED timerVars
  <2>1. UNCHANGED <<tick, list, phase, popped, sem, activated, periodic, time, wanted, left, ahead, fired>>
    BY <1>4 DEF timerVars
  <2>2. Dated'  BY <2>1 DEF IInv, Dated
  <2>3. Typed' /\ Punctual'  BY <2>1 DEF IInv, Typed, Punctual
  <2>4. Asked'  BY <2>1 DEF IInv, Asked, RunsAsAsked, Listed
  <2> QED  BY <2>1, <2>2, <2>3, <2>4 DEF IInv, TrueStep
<1>5. ASSUME NEW t \in Timers, StopFails(t) PROVE IInv' /\ TrueStep
  BY <1>4, <1>5 DEF StopFails
<1> QED
  BY <1>2, <1>3, <1>4, <1>5, SetStep, PopStep, CheckEndsStep, CallbackReturnsStep,
     TickStep, TakeSemStep DEF TimerNext

-----------------------------------------------------------------------------
\* The timer thread goes to sleep, or sleeps, only when no soft timer is due.
Resting(ph, se) == ph["soft"] \in {"rest", "take"} /\ se = 0
Announced == Resting(phase, sem) => \A t \in Timers : t \in Soft /\ left[t] # Off => 0 < left[t]

\* Whoever is started has time left, and for nobody else it runs out.
LEMMA StillAnnounced ==
    ASSUME Announced, Resting(phase', sem') => Resting(phase, sem),
           \A u \in Timers : left'[u] # Off => left'[u] = left[u] \/ 0 < left'[u]
    PROVE  Announced'
  BY DEF Announced

LEMMA AnnouncedStart ==
    ASSUME IInv, Announced, 0 \notin Times, NEW t \in Timers, StartTimer(t), tick' = tick,
           Resting(phase', sem') => Resting(phase, sem)
    PROVE  Announced'
<1> DEFINE d == time[t]
<1>1. d \in Times  BY DEF IInv, Typed
<1>2. left'[t] = d /\ \A u \in Timers : u # t => left'[u] = left[u]
  BY <1>1, StartDates DEF IInv
<1> HIDE DEF d
<1>3. 0 < d
  <2>1. d \in 0..(Half - 1) /\ Half \in Nat  BY <1>1, HalfFacts
  <2>2. d # 0  BY <1>1
  <2> QED  BY <2>1, <2>2
<1> QED  BY <1>2, <1>3, StillAnnounced

LEMMA AnnouncedStop ==
    ASSUME IInv, Announced, NEW t \in Timers, StopTimer(t), UNCHANGED <<tick, phase, sem>>
    PROVE  Announced'
<1>1. left'[t] = Off /\ \A u \in Timers : u # t => left'[u] = left[u]
  BY StopDates DEF IInv
<1> QED  BY <1>1, StillAnnounced

LEMMA AnnouncedTick ==
    ASSUME IInv, Announced, Tick
    PROVE  Announced'
<1> DEFINE s == list["soft"]
           announced == s # <<>> /\ Head(s).timeout <= tick'
           o == tick'
<1>1. Dated /\ Typed /\ Asked /\ Punctual  BY DEF IInv
<1>2. /\ phase["hard"] = "rest" /\ \A t \in Soft : ~Late(t)
      /\ tick' = (tick + 1) % Ticks /\ True!Elapse /\ list' = list
      /\ sem' = IF announced /\ phase["soft"] # "rest" THEN 1 ELSE sem
      /\ phase' = [hard |-> "check",
                   soft |-> IF announced /\ phase["soft"] = "rest" THEN "check" ELSE phase["soft"]]
  BY DEF Tick, ThreadRuns
<1>3. \A t \in Timers : t \notin Soft /\ left[t] # Off => left[t] >= 0
  BY <1>1, <1>2 DEF Punctual
<1>4. /\ Dated' /\ \A t \in Timers : left[t] # Off => left[t] \in Int /\ left'[t] = left[t] - 1
      /\ \A t \in Timers : left[t] = Off => left'[t] = Off
  BY <1>1, <1>2, <1>3, TickDates
<1> SUFFICES ASSUME Resting(phase', sem'), NEW t \in Timers, t \in Soft, left'[t] # Off
             PROVE  0 < left'[t]
  BY DEF Announced
<1>5. ~announced /\ Resting(phase, sem)
  <2> HIDE DEF announced
  <2>1. phase'["soft"] \in {"rest", "take"} /\ sem' = 0  BY DEF Resting
  <2>2. CASE announced
    <3>1. CASE phase["soft"] = "rest"  BY <1>2, <2>1, <2>2, <3>1
    <3>2. CASE phase["soft"] # "rest"  BY <1>2, <2>1, <2>2, <3>2
    <3> QED  BY <3>1, <3>2
  <2>3. CASE ~announced  BY <1>2, <2>1, <2>3 DEF Resting
  <2> QED  BY <2>2, <2>3
<1>6. left[t] \in Int /\ 0 < left[t] /\ left'[t] = left[t] - 1
  BY <1>4, <1>5 DEF Announced
<1> SUFFICES ASSUME left'[t] = 0 PROVE FALSE
  <2> DEFINE y == left[t]
  <2>1. y \in Int /\ 0 < y /\ left'[t] = y - 1 /\ (y - 1 # 0 => 0 < y - 1)
    <3> HIDE DEF y
    <3>1. y \in Int /\ 0 < y /\ left'[t] = y - 1  BY <1>6 DEF y
    <3> QED  BY <3>1
  <2> QED  BY <2>1
\* The first timer of the list has least left, so none either: it falls due now.
<1>7. Kind(t) = "soft" /\ "soft" \in Kinds  BY DEF Kind, Kinds
<1>8. left[t] # Off  BY <1>4
<1>9. s # <<>>
  <2>1. HasTimer(s, t)  BY <1>1, <1>7, <1>8 DEF Dated
  <2>2. DOMAIN <<>> = {}  BY EmptySeq, LenProperties
  <2> QED  BY <2>1, <2>2 DEF HasTimer
<1> DEFINE h == Head(s).timer
<1>10. /\ h \in Timers /\ Kind(h) = "soft" /\ left[h] # Off /\ left[h] <= left[t]
       /\ Listed(h)
  BY <1>1, <1>7, <1>8, <1>9, HeadFacts
<1>11. h \in Soft  BY <1>10, KindFacts
<1>12. left[h] \in Int /\ 0 < left[h] /\ left'[h] = left[h] - 1
  BY <1>4, <1>5, <1>10, <1>11 DEF Announced
<1>13. left'[h] = 0
  <2> DEFINE x == left[h]
             y == left[t]
  <2>1. x \in Int /\ y \in Int /\ 0 < x /\ x <= y /\ y - 1 = 0
    BY <1>6, <1>10, <1>12
  <2> HIDE DEF x, y
  <2>2. x - 1 = 0  BY <2>1
  <2> QED  BY <1>12, <2>2 DEF x
<1>14. Head(s).timeout = Moment(o, 0, Ticks) /\ o \in 0..(Ticks - 1)
  <2>1. s \in Seq(Entries)  BY <1>1, <1>7 DEF Dated
  <2>2. 1 \in DOMAIN s /\ Head(s) = s[1]  BY <1>9, <2>1, TailKept
  <2>3. InOrder(s, "soft", o, left', ahead') /\ o \in 0..(Ticks - 1)
    BY <1>2, <1>4, <1>7 DEF Dated
  <2>4. s[1].timeout = Moment(o, left'[s[1].timer], Ticks)  BY <2>2, <2>3 DEF InOrder
  <2> QED  BY <1>13, <2>2, <2>3, <2>4
<1>15. Moment(o, 0, Ticks) = o
  <2>1. Ticks \in Nat \ {0}  BY HalfFacts
  <2>2. Near(0, Ticks)  BY <2>1 DEF Near
  <2> HIDE DEF o
  <2> QED  BY <1>14, <2>1, <2>2, MomentFacts
<1>16. Head(s).timeout <= o
  <2> HIDE DEF o
  <2> QED  BY <1>14, <1>15
<1> QED  BY <1>5, <1>9, <1>16

LEMMA AnnouncedStep ==
    IInv /\ Announced /\ 0 \notin Times /\ [TimerNext]_timerVars => Announced'
<1> SUFFICES ASSUME IInv, Announced, 0 \notin Times, [TimerNext]_timerVars PROVE Announced'  OBVIOUS
<1>0. Dated /\ Typed /\ Asked /\ Punctual /\ "soft" \in Kinds  BY DEF IInv, Kinds
<1>1. ASSUME UNCHANGED <<phase, sem, left>> PROVE Announced'
  BY <1>1 DEF Announced
<1>2. ASSUME NEW t \in Timers, Start(t) PROVE Announced'
  <2>1. StartTimer(t) /\ UNCHANGED <<tick, phase, sem>>  BY <1>2 DEF Start, Unmoved
  <2> QED  BY <2>1, AnnouncedStart
<1>3. ASSUME NEW t \in Timers, Stop(t) \/ DetachTimer(t) PROVE Announced'
  <2>1. StopTimer(t) /\ UNCHANGED <<tick, phase, sem>>  BY <1>3 DEF Stop, DetachTimer, Unmoved
  <2> QED  BY <2>1, AnnouncedStop
<1>4. ASSUME NEW t \in Timers, NEW d \in Times, SetTime(t, d) PROVE Announced'
  <2>1. UNCHANGED <<tick, phase, sem>>  BY <1>4 DEF SetTime, Unmoved
  <2>2. CASE t \in activated
    <3>1. StopTimer(t)  BY <1>4, <2>2 DEF SetTime
    <3> QED  BY <2>1, <3>1, AnnouncedStop
  <2>3. CASE t \notin activated
    <3>1. left' = left  BY <1>4, <2>3 DEF SetTime, True!Other
    <3> QED  BY <1>1, <2>1, <3>1
  <2> QED  BY <2>2, <2>3
<1>5. ASSUME NEW t \in Timers, NEW m \in BOOLEAN, SetMode(t, m) PROVE Announced'
  BY <1>1, <1>5 DEF SetMode, Unmoved, True!Other
<1>6. ASSUME NEW t \in Timers, StopFails(t) PROVE Announced'
  BY <1>1, <1>6 DEF StopFails, timerVars
<1>7. CASE UNCHANGED timerVars  BY <1>1, <1>7 DEF timerVars
<1>8. ASSUME NEW k \in Kinds, Pop(k) PROVE Announced'
  <2> DEFINE h == Head(list[k]).timer
  <2>1. left'[h] = Off /\ \A u \in Timers : u # h => left'[u] = left[u]
    BY <1>0, <1>8, PopDates
  <2> HIDE DEF h
  <2>2. phase' = [phase EXCEPT ![k] = "callback"] /\ sem' = sem  BY <1>8 DEF Pop
  <2>3. Resting(phase', sem') => Resting(phase, sem)
    BY <1>0, <2>2 DEF Resting, Typed
  <2> QED  BY <2>1, <2>3, StillAnnounced
<1>9. ASSUME NEW k \in Kinds, CheckEnds(k) PROVE Announced'
  <2>1. /\ phase' = [phase EXCEPT ![k] = IF k = "soft" THEN "take" ELSE "rest"]
        /\ sem' = sem /\ left' = left /\ ~Due(k)
    BY <1>9 DEF CheckEnds, True!Other
  <2>2. CASE k = "soft"
    <3>1. ASSUME NEW t \in Timers, t \in Soft, left[t] # Off PROVE 0 < left[t]
      <4>1. Kind(t) = k  BY <2>2, <3>1 DEF Kind
      <4> QED  BY <1>0, <2>1, <3>1, <4>1, NoneDue
    <3> QED  BY <2>1, <3>1 DEF Announced
  <2>3. CASE k # "soft"
    <3>1. Resting(phase', sem') => Resting(phase, sem)
      BY <1>0, <2>1, <2>3 DEF Resting, Typed
    <3> QED  BY <2>1, <3>1, StillAnnounced
  <2> QED  BY <2>2, <2>3
<1>10. ASSUME NEW k \in Kinds, CallbackReturns(k) PROVE Announced'
  <2>1. phase' = [phase EXCEPT ![k] = "check"] /\ sem' = sem /\ tick' = tick
    BY <1>10 DEF CallbackReturns
  <2>2. Resting(phase', sem') => Resting(phase, sem)
    BY <1>0, <2>1 DEF Resting, Typed
  <2>3. CASE popped[k] \in periodic \cap activated
    <3> DEFINE t == popped[k]
    <3>1. t \in Timers /\ StartTimer(t)  BY <1>0, <1>10, <2>3 DEF CallbackReturns, Typed
    <3> HIDE DEF t
    <3> QED  BY <2>1, <2>2, <3>1, AnnouncedStart
  <2>4. CASE popped[k] \notin periodic \cap activated
    <3>1. left' = left  BY <1>10, <2>4 DEF CallbackReturns, True!Other
    <3> QED  BY <2>2, <3>1, StillAnnounced
  <2> QED  BY <2>3, <2>4
<1>11. CASE TakeSem
  <2>1. /\ phase["soft"] = "take" /\ sem' = 0 /\ left' = left
        /\ phase' = [phase EXCEPT !["soft"] = IF sem = 1 THEN "check" ELSE "rest"]
    BY <1>11 DEF TakeSem, True!Other
  <2>2. Resting(phase', sem') => Resting(phase, sem)
    BY <1>0, <2>1 DEF Resting, Typed
  <2> QED  BY <2>1, <2>2, StillAnnounced
<1> QED
  BY <1>2, <1>3, <1>4, <1>5, <1>6, <1>7, <1>8, <1>9, <1>10, <1>11, AnnouncedTick DEF TimerNext

-----------------------------------------------------------------------------
\* The types hold, the lists among them: timer.c's own invariants are in IInv.
THEOREM TimerTypeCorrect == TimerSpec => []TimerTypeOK
<1>1. TimerInit => IInv  BY InvInit
<1>2. IInv /\ [TimerNext]_timerVars => IInv'  BY InvStep
<1>3. IInv => TimerTypeOK  BY TypeFacts
<1> QED  BY <1>1, <1>2, <1>3, PTL DEF TimerSpec

\* A timer runs exactly if its user asked for it, whatever is started, stopped,
\* changed or detached while callbacks run with the lists unlocked.
THEOREM RunsAsAskedAlways == TimerSpec => []RunsAsAsked
<1>1. TimerInit => IInv  BY InvInit
<1>2. IInv /\ [TimerNext]_timerVars => IInv'  BY InvStep
<1>3. IInv => RunsAsAsked  BY DEF IInv, Asked
<1> QED  BY <1>1, <1>2, <1>3, PTL DEF TimerSpec

\* _timer_start's order by a counter that wraps and _timer_check's look at the
\* first entry only keep the deadlines in true time, for any range of the counter.
THEOREM KeepsDeadlinesAlways == TimerSpec => KeepsDeadlines
<1>1. TimerInit => IInv /\ True!DeadlinesInit  BY InvInit DEF TimerInit
<1>2. IInv /\ [TimerNext]_timerVars => IInv' /\ [True!DeadlinesNext]_<<left, ahead, fired>>
  BY InvStep DEF TrueStep
<1> QED  BY <1>1, <1>2, PTL DEF TimerSpec, KeepsDeadlines, True!DeadlinesSpec

\* rt_tick_increase and the timer thread's semaphore never let a soft timer's
\* tick pass unannounced, if no soft timer of 0 ticks is started.
THEOREM OverdueIsAnnouncedAlways == ASSUME 0 \notin Times PROVE TimerSpec => []OverdueIsAnnounced
<1>1. TimerInit => IInv /\ Announced
  <2>1. TimerInit => phase["soft"] = "check"  BY DEF TimerInit, Kinds
  <2> QED  BY <2>1, InvInit DEF Announced, Resting
<1>2. IInv /\ Announced /\ [TimerNext]_timerVars => IInv' /\ Announced'
  BY InvStep, AnnouncedStep
<1>3. IInv /\ Announced => OverdueIsAnnounced
  <2> SUFFICES ASSUME IInv, Announced, NEW t \in Soft, FoundDue(t),
                      phase["soft"] = "rest", sem # 1
               PROVE  FALSE
    BY DEF OverdueIsAnnounced
  <2>1. sem = 0  BY DEF IInv, Typed
  <2>2. left[t] # Off /\ t \in Timers  BY DEF FoundDue
  <2>3. 0 < left[t]  BY <2>1, <2>2 DEF Announced, Resting
  <2>4. left[t] \in Int  BY <2>2 DEF IInv, Dated
  <2>5. left[t] < 0 \/ left[t] = 0  BY DEF FoundDue
  <2> DEFINE x == left[t]
  <2> HIDE DEF x
  <2>6. x \in Int /\ 0 < x /\ (x < 0 \/ x = 0)  BY <2>3, <2>4, <2>5 DEF x
  <2> QED  BY <2>6
<1> QED  BY <1>1, <1>2, <1>3, PTL DEF TimerSpec
=============================================================================
