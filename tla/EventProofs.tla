----------------------------- MODULE EventProofs -----------------------------
(***************************************************************************)
(* Safety of the event flags for any finite set of threads, any flags and  *)
(* any demands: no flag is lost, and whoever is served gets what it asked  *)
(* for.                                                                    *)
(*                                                                         *)
(* Neither is inductive.  What they rest on besides: only receivers that   *)
(* were not served stand on the list, with the demand of their call, but   *)
(* that the thread about to be called back may have been told of flags by  *)
(* a handler (Sleepers); no send meets another thread whose timer was      *)
(* popped (OneExpires); and a served thread was served from flags that     *)
(* were sent (ServedKeeps).                                                *)
(***************************************************************************)
EXTENDS Event, WaitListProofs

\* What t asks for, or what is left of it after a send that could not wake it.
Narrowed(t) ==
    /\ demand[t].set \subseteq asked[t].set
    /\ demand[t].all = asked[t].all
    /\ asked[t].all => demand[t].set = asked[t].set

Sleepers ==
    /\ Distinct(waiters)
    /\ \A t \in Threads : Holds(waiters, t) =>
          Receiving(t) /\ Narrowed(t) /\ (t # expiring => error[t] # "EOK")

\* An armed thread timer belongs to a sleeper, and a sleeper with the timer flag
\* set but no timer running is the one about to be called back.
OneExpires ==
    /\ \A t \in Threads : Holds(waiters, t) /\ Raced(t) => t = expiring
    /\ \A t \in armed : t \in ttmr /\ Holds(waiters, t)
    /\ expiring \notin armed

ServedKeeps == set \subseteq sent /\ \A t \in Served : demand[t].all = asked[t].all

IInv == TypeOK /\ Sleepers /\ OneExpires /\ ServedKeeps /\ NoFlagLost /\ ServedAsAsked

USE EventAssumption, NoThreadAssumption

-----------------------------------------------------------------------------
\* The recursion of UnlinkSet has a solution: the longest prefix of s that has
\* one is s itself.
Traverses(f, s, ts) ==
    f = [i \in 0..Len(s) |->
            IF i = 0 THEN <<>> ELSE IF s[i] \in ts THEN f[i - 1] ELSE Append(f[i - 1], s[i])]

LEMMA TraversalExists ==
    ASSUME NEW S, NEW s \in Seq(S), NEW ts
    PROVE  \E f : Traverses(f, s, ts)
<1>0. Len(s) \in Nat  BY LenProperties
<1> DEFINE Solves(g, n) == g = [i \in 0..n |->
                 IF i = 0 THEN <<>>
                 ELSE IF s[i] \in ts THEN g[i - 1] ELSE Append(g[i - 1], s[i])]
           bad == {n \in Nat : n <= Len(s) /\ ~\E g : Solves(g, n)}
<1>1. CASE bad = {}
  <2>1. \E g : Solves(g, Len(s))
    <3>1. Len(s) \notin bad  BY <1>1
    <3>2. Len(s) <= Len(s)  BY <1>0
    <3> HIDE DEF Solves
    <3> QED  BY <1>0, <3>1, <3>2
  <2> QED  BY <2>1 DEF Traverses
<1>2. CASE bad # {}
  <2>1. PICK n \in bad : \A m \in bad : n <= m
    <3>1. bad \in SUBSET Nat  OBVIOUS
    <3> HIDE DEF bad
    <3> QED  BY <1>2, <3>1, LeastNat
  <2>2. n # 0
    <3>1. Solves([i \in 0..0 |-> <<>>], 0)  OBVIOUS
    <3> QED  BY <3>1
  <2>3. PICK g : Solves(g, n - 1)
    <3>1. n - 1 \in Nat /\ n - 1 <= Len(s) /\ ~(n <= n - 1)  BY <1>0, <2>1, <2>2
    <3> HIDE DEF Solves
    <3> QED  BY <2>1, <3>1
  <2> DEFINE h == [i \in 0..n |->
                 IF i = n THEN IF s[n] \in ts THEN g[n - 1] ELSE Append(g[n - 1], s[n])
                 ELSE g[i]]
  <2>4. ASSUME NEW i \in 0..n
        PROVE  h[i] = IF i = 0 THEN <<>>
                      ELSE IF s[i] \in ts THEN h[i - 1] ELSE Append(h[i - 1], s[i])
    <3>1. CASE i = n  BY <2>2, <3>1
    <3>2. CASE i # n
      <4>1. i \in 0..(n - 1)  BY <3>2
      <4>2. g[i] = IF i = 0 THEN <<>>
                   ELSE IF s[i] \in ts THEN g[i - 1] ELSE Append(g[i - 1], s[i])
        BY <2>3, <4>1
      <4>3. h[i] = g[i] /\ (i # 0 => h[i - 1] = g[i - 1])  BY <3>2, <4>1
      <4> QED  BY <4>2, <4>3
    <3> QED  BY <3>1, <3>2
  <2>5. Solves(h, n)
    <3> HIDE DEF h
    <3>1. h = [i \in 0..n |-> h[i]]  BY DEF h
    <3> QED  BY <2>4, <3>1
  <2> QED  BY <2>1, <2>5
<1> QED  BY <1>1, <1>2

\* The traversal keeps exactly the threads that are not in ts.
LEMMA UnlinkSetFacts ==
    ASSUME NEW S, NEW s \in Seq(S), NEW ts, Distinct(s)
    PROVE  /\ UnlinkSet(s, ts) \in Seq(S)
           /\ Distinct(UnlinkSet(s, ts))
           /\ \A u : Holds(UnlinkSet(s, ts), u) <=> Holds(s, u) /\ u \notin ts
<1>0. Len(s) \in Nat /\ DOMAIN s = 1..Len(s)  BY LenProperties
<1> DEFINE F == CHOOSE f : Traverses(f, s, ts)
<1>1. UnlinkSet(s, ts) = F[Len(s)]  BY DEF UnlinkSet, Traverses
<1>2. F = [i \in 0..Len(s) |->
             IF i = 0 THEN <<>> ELSE IF s[i] \in ts THEN F[i - 1] ELSE Append(F[i - 1], s[i])]
  <2>1. Traverses(F, s, ts)  BY TraversalExists
  <2> HIDE DEF F
  <2> QED  BY <2>1 DEF Traverses
<1> HIDE DEF F
<1> DEFINE Right(n) ==
               /\ F[n] \in Seq(S)
               /\ Distinct(F[n])
               /\ \A u : Holds(F[n], u) <=> u \notin ts /\ \E j \in 1..n : s[j] = u
           bad == {n \in Nat : n <= Len(s) /\ ~Right(n)}
<1>3. CASE bad = {}
  <2>1. Right(Len(s))
    <3> HIDE DEF Right
    <3> QED  BY <1>0, <1>3
  <2>2. \A u : Holds(s, u) <=> \E j \in 1..Len(s) : s[j] = u  BY <1>0 DEF Holds
  <2> QED  BY <1>1, <2>1, <2>2
<1>4. CASE bad # {}
  <2>1. PICK n \in bad : \A m \in bad : n <= m
    <3>1. bad \in SUBSET Nat  OBVIOUS
    <3> HIDE DEF bad
    <3> QED  BY <1>4, <3>1, LeastNat
  <2>2. n # 0
    <3>1. F[0] = <<>>
      <4>1. 0 \in 0..Len(s)  BY <1>0
      <4> QED  BY <1>2, <4>1
    <3>2. Right(0)
      <4>1. <<>> \in Seq(S) /\ Distinct(<<>>) /\ \A u : ~Holds(<<>>, u)  BY DEF Distinct, Holds
      <4> QED  BY <3>1, <4>1
    <3> QED  BY <2>1, <3>2
  <2>3. n \in 1..Len(s) /\ n - 1 \in Nat  BY <2>1, <2>2, <1>0
  <2>4. /\ F[n - 1] \in Seq(S)
        /\ Distinct(F[n - 1])
        /\ \A u : Holds(F[n - 1], u) <=> u \notin ts /\ \E j \in 1..(n - 1) : s[j] = u
    <3>1. n - 1 \in Nat /\ n - 1 <= Len(s) /\ ~(n <= n - 1)  BY <1>0, <2>3
    <3>2. Right(n - 1)
      <4> HIDE DEF Right
      <4> QED  BY <2>1, <3>1
    <3> QED  BY <3>2
  <2>5. F[n] = IF s[n] \in ts THEN F[n - 1] ELSE Append(F[n - 1], s[n])
    <3>1. n \in 0..Len(s) /\ n # 0  BY <2>3
    <3> QED  BY <1>2, <3>1
  <2>6. s[n] \in S  BY <1>0, <2>3
  <2>7. \A j \in 1..n : j \in 1..(n - 1) \/ j = n  BY <2>3
  <2>8. CASE s[n] \in ts
    <3>1. F[n] = F[n - 1]  BY <2>5, <2>8
    <3>2. ASSUME NEW u PROVE Holds(F[n], u) <=> u \notin ts /\ \E j \in 1..n : s[j] = u
      <4>1. (\E j \in 1..n : s[j] = u) <=> (\E j \in 1..(n - 1) : s[j] = u) \/ s[n] = u
        BY <2>3, <2>7
      <4> QED  BY <2>4, <2>8, <3>1, <4>1
    <3>3. Right(n)  BY <2>4, <3>1, <3>2
    <3> QED  BY <2>1, <3>3
  <2>9. CASE s[n] \notin ts
    <3>1. ~Holds(F[n - 1], s[n])
      <4>1. \A j \in 1..(n - 1) : s[j] # s[n]  BY <1>0, <2>3 DEF Distinct
      <4> QED  BY <2>4, <4>1
    <3>2. /\ F[n] \in Seq(S)
          /\ Distinct(F[n])
          /\ \A u : Holds(F[n], u) <=> Holds(F[n - 1], u) \/ u = s[n]
      BY <2>4, <2>5, <2>6, <2>9, <3>1, AppendFacts
    <3>3. ASSUME NEW u PROVE Holds(F[n], u) <=> u \notin ts /\ \E j \in 1..n : s[j] = u
      <4>1. (\E j \in 1..n : s[j] = u) <=> (\E j \in 1..(n - 1) : s[j] = u) \/ s[n] = u
        BY <2>3, <2>7
      <4> QED  BY <2>4, <2>9, <3>2, <4>1
    <3>4. Right(n)  BY <3>2, <3>3
    <3> QED  BY <2>1, <3>4
  <2> QED  BY <2>8, <2>9
<1> QED  BY <1>3, <1>4
-----------------------------------------------------------------------------
\* The event has one list: a thread sleeps iff it is on that list.
LEMMA ListFacts ==
    ASSUME TypeOK
    PROVE  /\ susp \in [{List} -> Seq(Threads)]
           /\ waiters \in Seq(Threads)
           /\ \A t : Suspended(t) <=> Holds(waiters, t)
           /\ \A t : Holds(waiters, t) => t \in Threads
<1>1. susp \in [{List} -> Seq(Threads)] /\ waiters \in Seq(Threads)  BY DEF TypeOK, waiters
<1>2. \A t : Suspended(t) <=> Holds(waiters, t)  BY <1>1 DEF Suspended, waiters
<1> QED  BY <1>1, <1>2, HeldIsElement

LEMMA ServedFacts ==
    ASSUME TypeOK
    PROVE  \A t : t \in Served <=>
              t \in Threads /\ Receiving(t) /\ ~Holds(waiters, t) /\ error[t] = "EOK"
  BY ListFacts DEF Served

LEMMA ServedFactsNext ==
    ASSUME TypeOK'
    PROVE  \A t : t \in Served' <=>
              t \in Threads /\ Receiving(t)' /\ ~Holds(waiters', t) /\ error'[t] = "EOK"
<1>1. susp' \in [{List} -> Seq(Threads)]  BY DEF TypeOK
<1>2. \A t : Suspended(t)' <=> Holds(waiters', t)  BY <1>1 DEF Suspended, waiters
<1> QED  BY <1>2 DEF Served

\* A flag that is owed is set, with a clearing receiver that was served, or lost.
LEMMA FlagLost ==
    NoFlagLost <=>
        \A x \in owed : \/ x \in set \/ x \in lost
                        \/ \E t \in Served : demand[t].clear /\ x \in demand[t].set
  BY DEF NoFlagLost, ClearedFor

LEMMA FlagLostNext ==
    NoFlagLost' <=>
        \A x \in owed' : \/ x \in set' \/ x \in lost'
                         \/ \E t \in Served' : demand'[t].clear /\ x \in demand'[t].set
  BY DEF NoFlagLost, ClearedFor

-----------------------------------------------------------------------------
LEMMA InvInit == Init => IInv
<1> SUFFICES ASSUME Init PROVE IInv  OBVIOUS
<1>1. /\ waiters = <<>> /\ armed = {} /\ ttmr = {} /\ expiring = NoThread
      /\ \A t \in Threads : ~Receiving(t)
  BY DEF Init, waiters, Receiving
<1>2. TypeOK
  <2>1. <<>> \in Seq(Threads)  OBVIOUS
  <2>2. susp \in [{List} -> Seq(Threads)]  BY <2>1 DEF Init
  <2> QED  BY <2>2 DEF Init, TypeOK, Errors, Places
<1>3. \A t : ~Holds(waiters, t)  BY <1>1 DEF Holds
<1>4. Served = {}  BY <1>1 DEF Served
<1>5. Sleepers  BY <1>1, <1>3 DEF Sleepers, Distinct
<1>6. OneExpires  BY <1>1, <1>3 DEF OneExpires, ThreadContext
<1>7. ServedKeeps /\ NoFlagLost  BY <1>4, FlagLost DEF Init, ServedKeeps
<1>8. ServedAsAsked
  BY <1>3, <1>4 DEF ServedAsAsked, NoSatisfiedSleeper, ReceivesWhatItAsked
<1> QED  BY <1>2, <1>5, <1>6, <1>7, <1>8 DEF IInv

\* A step that serves nobody and sets no flag: threads leave the list, calls end.
LEMMA QuietStep ==
    ASSUME IInv, TypeOK', OneExpires', NoFlagLost', Distinct(waiters'),
           \A t \in Threads : Holds(waiters', t) => Holds(waiters, t),
           \A t \in Threads : Holds(waiters', t) \/ t \in Served' =>
              pc'[t] = pc[t] /\ error'[t] = error[t] /\ demand'[t] = demand[t] /\ asked'[t] = asked[t],
           Served' \subseteq Served, set' \subseteq set, sent' = sent,
           expiring' = expiring \/ ThreadContext \/ ~Holds(waiters', expiring)
    PROVE  IInv'
<1> USE DEF IInv
<1>0. \A t \in Threads : Holds(waiters', t) /\ t # expiring' => t # expiring
  BY DEF ThreadContext
<1>1. Sleepers'  BY <1>0 DEF Sleepers, Receiving, Narrowed
<1>2. ServedKeeps'  BY ServedFactsNext DEF ServedKeeps
<1>3. NoSatisfiedSleeper'
  <2> SUFFICES ASSUME NEW t \in Threads, Holds(waiters', t), t # expiring'
               PROVE  ~Satisfied(demand'[t], set')
    BY DEF NoSatisfiedSleeper
  <2>1. ~Satisfied(demand[t], set) /\ demand'[t] = demand[t]
    BY <1>0 DEF ServedAsAsked, NoSatisfiedSleeper
  <2> QED  BY <2>1 DEF Satisfied
<1>4. ReceivesWhatItAsked'
  BY ServedFactsNext DEF ServedAsAsked, ReceivesWhatItAsked
<1> QED  BY <1>1, <1>2, <1>3, <1>4 DEF ServedAsAsked
\* Nothing but the flags and the results changes.
LEMMA CalmStep ==
    ASSUME IInv, TypeOK', UNCHANGED <<susp, armed, ttmr, expiring>>
    PROVE  OneExpires' /\ Distinct(waiters') /\ waiters' = waiters
  BY DEF IInv, OneExpires, Sleepers, waiters, ThreadContext, Raced

LEMMA RecvStep ==
    ASSUME IInv, NEW t \in Threads, RecvOps(t)
    PROVE  IInv'
<1>0. TypeOK  BY DEF IInv
<1>1. ASSUME NEW d \in Demands, RecvNow(t, d) PROVE IInv'
  <2> USE <1>1 DEF RecvNow, Idle
  <2>1. TypeOK'  BY <1>0 DEF TypeOK, Errors
  <2>2. OneExpires' /\ Distinct(waiters') /\ waiters' = waiters  BY <2>1, CalmStep
  <2>3. ~Holds(waiters, t)  BY DEF IInv, Sleepers, Receiving
  <2>4. Served' = Served
    BY <1>0, <2>1, <2>2, ServedFacts, ServedFactsNext DEF TypeOK, Receiving
  <2>5. NoFlagLost'  BY <2>4, FlagLost, FlagLostNext DEF IInv
  <2>6. t \notin Served'  BY <1>0, <2>4, ServedFacts DEF Receiving
  <2>7. \A u \in Threads : Holds(waiters', u) \/ u \in Served' => error'[u] = error[u]
    BY <1>0, <2>2, <2>3, <2>6 DEF TypeOK
  <2> QED  BY <2>1, <2>2, <2>4, <2>5, <2>7, QuietStep
<1>2. ASSUME NEW d \in Demands, RecvFails(t, d) PROVE IInv'
  <2> USE <1>2 DEF RecvFails, Idle, eventVars
  <2>1. TypeOK'  BY <1>0 DEF TypeOK, Errors
  <2>2. OneExpires' /\ Distinct(waiters') /\ waiters' = waiters  BY <2>1, CalmStep
  <2>3. ~Holds(waiters, t)  BY DEF IInv, Sleepers, Receiving
  <2>4. Served' = Served
    BY <1>0, <2>1, <2>2, ServedFacts, ServedFactsNext DEF TypeOK, Receiving
  <2>5. NoFlagLost'  BY <2>4, FlagLost, FlagLostNext DEF IInv
  <2>6. t \notin Served'  BY <1>0, <2>4, ServedFacts DEF Receiving
  <2>7. \A u \in Threads : Holds(waiters', u) \/ u \in Served' => error'[u] = error[u]
    BY <1>0, <2>2, <2>3, <2>6 DEF TypeOK
  <2> QED  BY <2>1, <2>2, <2>4, <2>5, <2>7, QuietStep
<1>3. ASSUME NEW d \in Demands, NEW timed \in BOOLEAN, RecvBlocks(t, d, timed) PROVE IInv'
  <2> USE <1>3 DEF RecvBlocks, SuspendToList, SuspendWith, Idle
  <2>1. ~Holds(waiters, t) /\ Distinct(waiters)  BY DEF IInv, Sleepers, Receiving
  <2>2. waiters' = Enqueue(waiters, t, Flag, prio) /\ susp' \in [{List} -> {waiters'}]
    BY <1>0 DEF TypeOK, waiters
  <2>3. /\ waiters' \in Seq(Threads) /\ Distinct(waiters')
        /\ \A u : Holds(waiters', u) <=> Holds(waiters, u) \/ u = t
    BY <1>0, <2>1, <2>2, ListFacts, EnqueueFacts
  <2>4. TypeOK'
    <3>1. susp' \in [{List} -> Seq(Threads)]  BY <2>2, <2>3
    <3> QED  BY <1>0, <3>1 DEF TypeOK, Errors, Places
  <2>5. /\ demand'[t] = d /\ asked'[t] = d /\ error'[t] = "EINTR" /\ Receiving(t)'
        /\ \A u \in Threads \ {t} :
              /\ demand'[u] = demand[u] /\ asked'[u] = asked[u]
              /\ error'[u] = error[u] /\ pc'[u] = pc[u]
    BY <1>0 DEF TypeOK, Receiving
  <2>6. Sleepers'  BY <2>3, <2>5 DEF IInv, Sleepers, Receiving, Narrowed
  <2>7. OneExpires'
    BY <1>0, <2>3 DEF IInv, OneExpires, ThreadContext, Raced, TypeOK
  <2>8. Served' = Served /\ t \notin Served
    <3>1. t \notin Served  BY <1>0, ServedFacts DEF Receiving
    <3>2. t \notin Served'  BY <2>3, <2>4, ServedFactsNext
    <3>3. \A u \in Threads \ {t} : u \in Served' <=> u \in Served
      BY <1>0, <2>3, <2>4, <2>5, ServedFacts, ServedFactsNext DEF Receiving
    <3>4. Served \subseteq Threads /\ Served' \subseteq Threads  BY DEF Served
    <3>5. \A u \in Threads : u \in Served' <=> u \in Served  BY <3>1, <3>2, <3>3
    <3> HIDE DEF Served
    <3>6. Served' = Served  BY <3>4, <3>5
    <3> QED  BY <3>1, <3>6
  <2>9. \A u \in Served : u \in Threads \ {t}  BY <1>0, <2>8, ServedFacts
  <2>10. ServedKeeps'  BY <2>5, <2>8, <2>9 DEF IInv, ServedKeeps
  <2>11. NoFlagLost'  BY <2>5, <2>8, <2>9, FlagLost, FlagLostNext DEF IInv
  <2>12. ServedAsAsked'
    BY <2>3, <2>5, <2>8, <2>9
       DEF IInv, ServedAsAsked, NoSatisfiedSleeper, ReceivesWhatItAsked
  <2> QED  BY <2>4, <2>6, <2>7, <2>10, <2>11, <2>12 DEF IInv
<1>4. CASE RecvReturns(t)
  <2> USE <1>4 DEF RecvReturns, Ends
  <2>1. TypeOK'  BY <1>0 DEF TypeOK, Places, suspVars
  <2>2. OneExpires' /\ Distinct(waiters') /\ waiters' = waiters
    BY <2>1, CalmStep DEF suspVars
  <2>3. ~Holds(waiters, t)  BY <1>0, ListFacts
  <2>4. ~Receiving(t)' /\ \A u \in Threads \ {t} :
           pc'[u] = pc[u] /\ demand'[u] = demand[u] /\ asked'[u] = asked[u]
    BY <1>0 DEF TypeOK, Receiving
  <2>5. Served' = Served \ {t}
    BY <1>0, <2>1, <2>2, <2>4, ServedFacts, ServedFactsNext DEF Receiving, suspVars
  <2>6. \A u \in Threads : Holds(waiters', u) \/ u \in Served' => u # t
    BY <2>2, <2>3, <2>5
  <2>7. \A u \in Served' : u \in Threads \ {t}  BY <2>5, <1>0, ServedFacts
  <2>8. NoFlagLost'
    <3> SUFFICES ASSUME NEW x \in owed'
                 PROVE  \/ x \in set' \/ x \in lost'
                      \/ \E u \in Served' : demand'[u].clear /\ x \in demand'[u].set
      BY FlagLostNext
    <3>1. x \in owed /\ ~(t \in Served /\ demand[t].clear /\ x \in demand[t].set)  OBVIOUS
    <3>2. CASE x \in set \/ x \in lost  BY <3>2
    <3>3. CASE x \notin set \cup lost
      <4>1. PICK u \in Served : demand[u].clear /\ x \in demand[u].set
        BY <3>1, <3>3, FlagLost DEF IInv
      <4>2. u # t  BY <3>1, <4>1
      <4> QED  BY <2>4, <2>5, <2>7, <4>1, <4>2
    <3> QED  BY <3>2, <3>3
  <2> QED  BY <2>1, <2>2, <2>4, <2>5, <2>6, <2>8, QuietStep DEF suspVars
<1> QED  BY <1>1, <1>2, <1>3, <1>4 DEF RecvOps
LEMMA DemandIsSomething ==
    ASSUME NEW d \in Demand
    PROVE  d.set # {}
  BY DEF Demand

\* One send serves every waiter the flags satisfy, and clears afterwards.  The
\* one it cannot wake is about to be called back.
LEMMA SendStep ==
    ASSUME IInv, NEW s \in SUBSET Bits, Send(s)
    PROVE  IInv'
<1> DEFINE now == set \cup s
           ts == Satisfiable(now)
           free == {t \in ts : ~Raced(t)}
<1>0. TypeOK /\ Distinct(waiters)  BY DEF IInv, Sleepers
<1>1. \A t \in Threads : Holds(waiters, t) /\ Raced(t) => t = expiring
  BY DEF IInv, OneExpires
<1>2. ts = {t \in Threads : Holds(waiters, t) /\ Satisfied(demand[t], now)}
  BY DEF Satisfiable
<1>3. /\ susp' = [susp EXCEPT ![List] = UnlinkSet(@, free)]
      /\ armed' = armed \ (ts \cap ttmr)
      /\ ttmr' = ttmr \ ts
      /\ error' = [t \in Threads |-> IF t \in ts THEN "EOK" ELSE error[t]]
      /\ demand' = [t \in Threads |->
                       IF t \in ts THEN [demand[t] EXCEPT !.set = @ \cap now] ELSE demand[t]]
      /\ set' = now \ ClearedFor(ts, demand')
      /\ sent' = sent \cup s /\ owed' = owed \cup s
      /\ lost' = (lost \ s) \cup ClearedFor({t \in ts : t = expiring /\ Raced(t)}, demand')
      /\ UNCHANGED <<expiring, prio, alive, pc, asked>>
  BY DEF Send, Serve
<1>4. /\ free \subseteq ts
      /\ \A t \in ts \ free : t \in Threads /\ Holds(waiters, t) /\ Raced(t) /\ t = expiring
  BY <1>1, <1>2
<1>a. \A t \in ts : t \notin free => Raced(t)  OBVIOUS
<1>b. \A t \in free : ~Raced(t)  OBVIOUS
<1> HIDE DEF ts, free
<1>5. waiters' = UnlinkSet(waiters, free) /\ susp' \in [{List} -> {waiters'}]
  BY <1>0, <1>3 DEF TypeOK, waiters
<1>6. /\ waiters' \in Seq(Threads) /\ Distinct(waiters')
      /\ \A u : Holds(waiters', u) <=> Holds(waiters, u) /\ u \notin free
  BY <1>0, <1>5, ListFacts, UnlinkSetFacts
<1>7. \A t \in ts : /\ t \in Threads /\ Holds(waiters, t) /\ Receiving(t)
                     /\ demand[t] \in Demand /\ Narrowed(t)
                     /\ Satisfied(demand[t], now)
  <2>1. \A t \in ts : t \in Threads /\ Holds(waiters, t) /\ Satisfied(demand[t], now)
    BY <1>2
  <2>2. ~Satisfied(NoDemand, now)  BY DEF Satisfied, NoDemand
  <2>3. \A t \in ts : demand[t] \in Demand  BY <1>0, <2>1, <2>2 DEF TypeOK
  <2> QED  BY <2>1, <2>3 DEF IInv, Sleepers
<1>8. \A t \in ts : /\ demand'[t].set = demand[t].set \cap now
                     /\ demand'[t].all = demand[t].all /\ demand'[t].clear = demand[t].clear
  BY <1>3, <1>7 DEF Demand
<1>9. TypeOK'
  <2>1. susp' \in [{List} -> Seq(Threads)]  BY <1>5, <1>6
  <2>2. demand' \in [Threads -> Demand \cup {NoDemand}]
    <3>1. ASSUME NEW t \in ts PROVE [demand[t] EXCEPT !.set = @ \cap now] \in Demand
      <4>0. demand[t] \in Demand /\ Satisfied(demand[t], now)  BY <1>7
      <4>1. demand[t].set \cap now # {}
        <5>1. demand[t].set # {}  BY <4>0, DemandIsSomething
        <5>2. CASE demand[t].all  BY <4>0, <5>1, <5>2 DEF Satisfied
        <5>3. CASE ~demand[t].all  BY <4>0, <5>3 DEF Satisfied
        <5> QED  BY <5>2, <5>3
      <4> QED  BY <4>0, <4>1 DEF Demand
    <3> QED  BY <1>0, <1>3, <3>1 DEF TypeOK
  <2>3. set' \subseteq Bits /\ owed' \subseteq Bits /\ sent' \subseteq Bits
    BY <1>0, <1>3 DEF TypeOK
  <2>5. lost' \subseteq Bits
    <3>1. \A t \in ts : demand'[t].set \subseteq Bits  BY <1>7, <1>8 DEF Demand
    <3>2. ClearedFor({t \in ts : t = expiring /\ Raced(t)}, demand') \subseteq Bits
      BY <3>1 DEF ClearedFor
    <3> QED  BY <1>0, <1>3, <3>2 DEF TypeOK
  <2>4. error' \in [Threads -> Errors]  BY <1>0, <1>3 DEF TypeOK, Errors
  <2> QED  BY <1>0, <1>3, <2>1, <2>2, <2>3, <2>4, <2>5 DEF TypeOK
<1>10. Served' = Served \cup free
  <2>1. ASSUME NEW t \in Threads PROVE t \in Served' <=> t \in Served \/ t \in free
    <3>1. CASE t \in ts
      <4>1. Holds(waiters, t) /\ Receiving(t) /\ error'[t] = "EOK"  BY <1>3, <1>7, <3>1
      <4>2. t \notin Served  BY <1>0, <4>1, ServedFacts
      <4>3. t \in Served' <=> ~Holds(waiters', t)
        BY <1>3, <1>9, <4>1, ServedFactsNext DEF Receiving
      <4> QED  BY <1>6, <4>1, <4>2, <4>3
    <3>2. CASE t \notin ts
      BY <1>0, <1>3, <1>4, <1>6, <1>9, <3>2, ServedFacts, ServedFactsNext DEF Receiving
    <3> QED  BY <3>1, <3>2
  <2>2. Served' \subseteq Threads /\ Served \subseteq Threads /\ free \subseteq Threads
    BY <1>4, <1>7 DEF Served
  <2> QED  BY <2>1, <2>2
<1>11. \A t \in Threads \ ts : demand'[t] = demand[t] /\ error'[t] = error[t]  BY <1>3
<1>12. \A t \in Served : t \in Threads \ ts  BY <1>0, <1>7, ServedFacts
<1>13. Sleepers'
  <2> SUFFICES ASSUME NEW t \in Threads, Holds(waiters', t)
               PROVE  Receiving(t)' /\ Narrowed(t)' /\ (t # expiring' => error'[t] # "EOK")
    BY <1>6 DEF Sleepers
  <2>1. t \notin free /\ Holds(waiters, t)  BY <1>6
  <2>2. Receiving(t)'  BY <1>3, <2>1 DEF IInv, Sleepers, Receiving
  <2>3. CASE t \in ts
    <3>1. t = expiring'  BY <1>3, <1>4, <2>1, <2>3
    <3>2. asked'[t].all => demand'[t].set = asked'[t].set
      <4>1. ASSUME asked[t].all PROVE demand[t].set \cap now = asked[t].set
        <5>1. demand[t].set = asked[t].set /\ demand[t].all  BY <1>7, <2>3, <4>1 DEF Narrowed
        <5>2. demand[t].set \subseteq now  BY <1>7, <2>3, <5>1 DEF Satisfied
        <5> QED  BY <5>1, <5>2
      <4> QED  BY <1>3, <1>8, <2>3, <4>1
    <3>3. demand'[t].set \subseteq asked'[t].set /\ demand'[t].all = asked'[t].all
      BY <1>3, <1>7, <1>8, <2>3 DEF Narrowed
    <3>4. Narrowed(t)'  BY <3>2, <3>3 DEF Narrowed
    <3> QED  BY <2>2, <3>1, <3>4
  <2>4. CASE t \notin ts
    BY <1>3, <1>11, <2>1, <2>2, <2>4 DEF IInv, Sleepers, Narrowed
  <2> QED  BY <2>3, <2>4
<1>14. OneExpires'
  <2>1. ASSUME NEW t \in Threads, Holds(waiters', t), Raced(t)' PROVE t = expiring'
    BY <1>1, <1>3, <1>6, <2>1 DEF Raced
  <2>2. ASSUME NEW t \in armed' PROVE t \in ttmr' /\ Holds(waiters', t)
    BY <1>3, <1>4, <1>6, <2>2 DEF IInv, OneExpires
  <2>3. expiring' \notin armed'  BY <1>3 DEF IInv, OneExpires
  <2> QED  BY <2>1, <2>2, <2>3 DEF OneExpires
<1>15. ServedKeeps'
  <2>1. set' \subseteq sent'  BY <1>3 DEF IInv, ServedKeeps
  <2>2. \A t \in Served' : demand'[t].all = asked'[t].all
    BY <1>3, <1>4, <1>7, <1>8, <1>10, <1>11, <1>12 DEF IInv, ServedKeeps, Narrowed
  <2> QED  BY <2>1, <2>2 DEF ServedKeeps
<1>16. NoFlagLost'
  <2> SUFFICES ASSUME NEW x \in owed'
               PROVE  \/ x \in set' \/ x \in lost'
                      \/ \E u \in Served' : demand'[u].clear /\ x \in demand'[u].set
    BY FlagLostNext
  <2>1. CASE x \in now
    <3>1. CASE x \in ClearedFor(ts, demand')
      <4>1. PICK t \in ts : demand'[t].clear /\ x \in demand'[t].set  BY <3>1 DEF ClearedFor
      <4>2. CASE t \in free  BY <1>10, <4>1, <4>2
      <4>3. CASE t \notin free
        <5>1. t = expiring /\ Raced(t)  BY <1>4, <4>3
        <5>2. x \in ClearedFor({u \in ts : u = expiring /\ Raced(u)}, demand')
          BY <4>1, <5>1 DEF ClearedFor
        <5> QED  BY <1>3, <5>2
      <4> QED  BY <4>2, <4>3
    <3> QED  BY <1>3, <2>1, <3>1
  <2>2. CASE x \notin now
    <3>1. x \in lost \/ \E u \in Served : demand[u].clear /\ x \in demand[u].set
      BY <1>3, <2>2, FlagLost DEF IInv
    <3> QED  BY <1>3, <1>10, <1>11, <1>12, <2>2, <3>1
  <2> QED  BY <2>1, <2>2
<1>17. NoSatisfiedSleeper'
  <2> SUFFICES ASSUME NEW t \in Threads, Holds(waiters', t), t # expiring'
               PROVE  ~Satisfied(demand'[t], set')
    BY DEF NoSatisfiedSleeper
  <2>1. t \notin ts /\ Holds(waiters, t) /\ demand'[t] = demand[t]  BY <1>3, <1>4, <1>6, <1>11
  <2>2. ~Satisfied(demand[t], now)  BY <1>2, <2>1
  <2>3. set' \subseteq now  BY <1>3
  <2> QED  BY <2>1, <2>2, <2>3 DEF Satisfied
<1>18. ReceivesWhatItAsked'
  <2> SUFFICES ASSUME NEW t \in Served'
               PROVE  /\ demand'[t].set \subseteq asked'[t].set \cap sent'
                      /\ IF asked'[t].all THEN demand'[t].set = asked'[t].set
                         ELSE demand'[t].set # {}
    BY DEF ReceivesWhatItAsked
  <2>1. CASE t \in Served
    BY <1>3, <1>11, <1>12, <2>1 DEF IInv, ServedAsAsked, ReceivesWhatItAsked
  <2>2. CASE t \in free
    <3>1. asked'[t] = asked[t] /\ demand'[t].set = demand[t].set \cap now /\ Narrowed(t)
          /\ Satisfied(demand[t], now)
      BY <1>3, <1>4, <1>7, <1>8, <2>2
    <3>2. now \subseteq sent'  BY <1>3 DEF IInv, ServedKeeps
    <3> QED  BY <3>1, <3>2 DEF Narrowed, Satisfied
  <2> QED  BY <1>10, <2>1, <2>2
<1> QED  BY <1>9, <1>13, <1>14, <1>15, <1>16, <1>17, <1>18 DEF IInv, ServedAsAsked

\* Reset, detach: everybody on the list fails.
LEMMA ResumeAllStep ==
    ASSUME IInv, ThreadContext, ResumeAll({List}, "ERROR"), TypeOK',
           UNCHANGED <<pc, demand, asked, sent>>,
           \/ set' = set /\ owed' = owed /\ lost' = lost
           \/ set' = {} /\ owed' = {}
    PROVE  IInv'
<1>0. TypeOK /\ Distinct(waiters)  BY DEF IInv, Sleepers
<1> DEFINE woken == {u \in Threads : Holds(waiters, u)}
<1>1. /\ susp' = [l \in DOMAIN susp |-> IF l \in {List} THEN <<>> ELSE susp[l]]
      /\ ttmr' = ttmr \ woken
      /\ armed' = armed \ woken
      /\ error' = [u \in Threads |-> IF u \in woken THEN "ERROR" ELSE error[u]]
      /\ UNCHANGED expiring
  BY DEF ResumeAll, waiters
<1>2. waiters' = <<>>  BY <1>0, <1>1 DEF TypeOK, waiters
<1>3. Distinct(waiters') /\ \A u : ~Holds(waiters', u)  BY <1>2 DEF Distinct, Holds
<1>4. armed' = {}  BY <1>0, <1>1 DEF IInv, OneExpires, TypeOK
<1>5. OneExpires'  BY <1>3, <1>4 DEF OneExpires
<1>6. Served' = Served /\ \A u \in Served : error'[u] = error[u]
  <2>1. ASSUME NEW u \in Threads PROVE u \in Served' <=> u \in Served
    BY <1>0, <1>1, <1>3, ServedFacts, ServedFactsNext DEF Receiving
  <2>2. Served' \subseteq Threads /\ Served \subseteq Threads  BY DEF Served
  <2>3. \A u \in Served : u \in Threads /\ u \notin woken  BY <1>0, ServedFacts
  <2> QED  BY <1>1, <2>1, <2>2, <2>3
<1>7. NoFlagLost'  BY <1>6, FlagLost, FlagLostNext DEF IInv
<1> HIDE DEF woken
<1> QED  BY <1>3, <1>5, <1>6, <1>7, QuietStep

\* Unlinking a thread from every list leaves lists of threads.
LEMMA AllUnlinked ==
    ASSUME IInv, NEW t
    PROVE  [l \in DOMAIN susp |-> Unlink(susp[l], t)] \in [{List} -> Seq(Threads)]
<1>1. susp \in [{List} -> Seq(Threads)] /\ Distinct(susp[List])
  BY DEF IInv, TypeOK, Sleepers, waiters
<1>2. Unlink(susp[List], t) \in Seq(Threads)  BY <1>1, UnlinkFacts
<1> QED  BY <1>1, <1>2

\* Resumption, deletion and expiry unlink one thread, which was not served, or
\* ends, and its flags with it.
LEMMA UnlinkStep ==
    ASSUME IInv, NEW t \in Threads, TypeOK',
           susp' = [l \in DOMAIN susp |-> Unlink(susp[l], t)],
           armed' = armed \ {t}, ttmr \ {t} \subseteq ttmr', ttmr' \subseteq ttmr,
           expiring' = NoThread, ~ThreadContext => expiring = t,
           UNCHANGED <<set, sent>>, lost \subseteq lost',
           \A u \in Threads \ {t} : pc'[u] = pc[u] /\ error'[u] = error[u]
                                   /\ demand'[u] = demand[u] /\ asked'[u] = asked[u],
           \/ /\ error'[t] # "EOK" /\ owed' = owed
              /\ t \in Served /\ demand[t].clear => demand[t].set \subseteq lost'
           \/ ~Receiving(t)' /\ owed' = IF t \in Served /\ demand[t].clear
                                        THEN owed \ demand[t].set ELSE owed
    PROVE  IInv'
<1>0. TypeOK /\ Distinct(waiters)  BY DEF IInv, Sleepers
<1>1. waiters' = Unlink(waiters, t)  BY <1>0 DEF TypeOK, waiters
<1>2. Distinct(waiters') /\ \A u : Holds(waiters', u) <=> Holds(waiters, u) /\ u # t
  BY <1>0, <1>1, ListFacts, UnlinkFacts
<1>3. Served' = Served \ {t}
  <2>1. ASSUME NEW u \in Threads \ {t} PROVE u \in Served' <=> u \in Served
    BY <1>0, <1>2, ServedFacts, ServedFactsNext DEF Receiving
  <2>2. t \notin Served'  BY ServedFactsNext
  <2>3. Served' \subseteq Threads /\ Served \subseteq Threads  BY DEF Served
  <2> QED  BY <2>1, <2>2, <2>3
<1>4. OneExpires'
  <2>1. \A u \in Threads : Holds(waiters', u) => ~Raced(u)'
    BY <1>0, <1>2 DEF IInv, OneExpires, ThreadContext, Raced, TypeOK
  <2> QED  BY <1>0, <1>2, <2>1 DEF IInv, OneExpires, ThreadContext, TypeOK
<1>5. NoFlagLost'
  <2> SUFFICES ASSUME NEW x \in owed'
               PROVE  \/ x \in set' \/ x \in lost'
                      \/ \E u \in Served' : demand'[u].clear /\ x \in demand'[u].set
    BY FlagLostNext
  <2>1. /\ x \in owed
        /\ t \in Served /\ demand[t].clear /\ x \in demand[t].set => x \in lost'
    OBVIOUS
  <2>2. CASE x \in set \/ x \in lost'  BY <2>2
  <2>3. CASE x \notin set \cup lost'
    <3>1. PICK u \in Served : demand[u].clear /\ x \in demand[u].set
      BY <2>1, <2>3, FlagLost DEF IInv
    <3>2. u # t  BY <2>1, <2>3, <3>1
    <3>3. u \in Threads  BY DEF Served
    <3> QED  BY <1>3, <3>1, <3>2, <3>3
  <2> QED  BY <2>2, <2>3
<1>6. \A u \in Threads : Holds(waiters', u) \/ u \in Served' => u # t
  BY <1>2, <1>3
<1> QED  BY <1>2, <1>3, <1>4, <1>5, <1>6, QuietStep

LEMMA InvStep ==
    ASSUME IInv, [Next]_vars
    PROVE  IInv'
<1>0. TypeOK  BY DEF IInv
<1>1. ASSUME NEW t \in Threads, RecvOps(t) PROVE IInv'  BY <1>1, RecvStep
<1>2. ASSUME NEW s \in SUBSET Bits, Send(s) PROVE IInv'  BY <1>2, SendStep
<1>3. CASE Reset
  <2>1. ResumeAll({List}, "ERROR") /\ ThreadContext
        /\ UNCHANGED <<alive, pc, demand, asked, sent>> /\ set' = {} /\ owed' = {} /\ lost' = {}
    BY <1>3 DEF Reset
  <2>2. TypeOK'
    <3>1. <<>> \in Seq(Threads)  OBVIOUS
    <3>2. susp' \in [{List} -> Seq(Threads)]  BY <1>0, <2>1, <3>1 DEF ResumeAll, TypeOK
    <3> QED  BY <1>0, <2>1, <3>2 DEF ResumeAll, TypeOK, Errors
  <2> QED  BY <2>1, <2>2, ResumeAllStep
<1>4. CASE Detach
  <2>1. ResumeAll({List}, "ERROR") /\ ThreadContext /\ alive' = FALSE
        /\ UNCHANGED <<set, pc, demand, asked, sent, owed, lost>>
    BY <1>4 DEF Detach
  <2>2. TypeOK'
    <3>1. <<>> \in Seq(Threads)  OBVIOUS
    <3>2. susp' \in [{List} -> Seq(Threads)]  BY <1>0, <2>1, <3>1 DEF ResumeAll, TypeOK
    <3> QED  BY <1>0, <2>1, <3>2 DEF ResumeAll, TypeOK, Errors
  <2> QED  BY <2>1, <2>2, ResumeAllStep
<1>5. ASSUME NEW t \in Threads, TimerPop(t), UNCHANGED eventVars PROVE IInv'
  <2> USE <1>5 DEF TimerPop, eventVars
  <2>1. TypeOK'  BY <1>0 DEF TypeOK
  <2>2. waiters' = waiters /\ Distinct(waiters')  BY DEF IInv, Sleepers, waiters
  <2>3. OneExpires'  BY <2>2 DEF IInv, OneExpires, Raced, ThreadContext
  <2>4. Served' = Served
    BY <1>0, <2>1, <2>2, ServedFacts, ServedFactsNext DEF Receiving
  <2>5. NoFlagLost'  BY <2>4, FlagLost, FlagLostNext DEF IInv
  <2> QED  BY <2>1, <2>2, <2>3, <2>4, <2>5, QuietStep
<1>6. ASSUME NEW t \in Threads, ThreadResume(t), UNCHANGED eventVars PROVE IInv'
  <2> USE <1>6 DEF ThreadResume, eventVars
  <2>1. TypeOK'  BY <1>0, AllUnlinked DEF TypeOK
  <2>2. t \notin Served /\ error[t] # "EOK"
    BY <1>0, ListFacts, ServedFacts DEF IInv, Sleepers, ThreadContext
  <2> QED  BY <2>1, <2>2, UnlinkStep DEF ThreadContext
<1>7. ASSUME NEW t \in Threads, Delete(t) PROVE IInv'
  <2> USE <1>7 DEF Delete, ThreadClose, Ends
  <2>1. TypeOK'  BY <1>0, AllUnlinked DEF TypeOK, Places
  <2>2. ~Receiving(t)' /\ \A u \in Threads \ {t} :
           pc'[u] = pc[u] /\ demand'[u] = demand[u] /\ asked'[u] = asked[u]
    BY <1>0 DEF TypeOK, Receiving
  <2> QED  BY <2>1, <2>2, UnlinkStep DEF ThreadContext
<1>8. CASE Expire
  <2> USE <1>8 DEF Expire, ThreadTimeout
  <2>1. expiring \in Threads /\ expiring \notin armed
    BY <1>0 DEF IInv, OneExpires, TypeOK, ThreadContext
  <2>2. TypeOK'
    <3>1. ClearedFor(Served \cap {expiring}, demand) \subseteq Bits
      <4>1. \A t \in Served : demand[t].set \subseteq Bits
        BY <1>0, ServedFacts DEF TypeOK, Demand, NoDemand
      <4> QED  BY <4>1 DEF ClearedFor
    <3> QED  BY <1>0, <2>1, <3>1, AllUnlinked DEF TypeOK, Errors
  <2>3. error'[expiring] # "EOK" /\ \A u \in Threads \ {expiring} : error'[u] = error[u]
    BY <1>0, <2>1 DEF TypeOK
  <2>4. expiring \in Served /\ demand[expiring].clear => demand[expiring].set \subseteq lost'
    BY DEF ClearedFor
  <2>5. lost \subseteq lost'  OBVIOUS
  <2> QED  BY <2>1, <2>2, <2>3, <2>4, <2>5, UnlinkStep
<1>9. CASE UNCHANGED vars
  <2> USE <1>9 DEF vars, suspVars, eventVars
  <2>1. TypeOK'  BY <1>0 DEF TypeOK
  <2>2. OneExpires' /\ Distinct(waiters') /\ waiters' = waiters  BY <2>1, CalmStep
  <2>3. Served' = Served
    BY <1>0, <2>1, <2>2, ServedFacts, ServedFactsNext DEF Receiving
  <2>4. NoFlagLost'  BY <2>3, FlagLost, FlagLostNext DEF IInv
  <2> QED  BY <2>1, <2>2, <2>3, <2>4, QuietStep
<1> QED  BY <1>1, <1>2, <1>3, <1>4, <1>5, <1>6, <1>7, <1>8, <1>9 DEF Next, WaitEvents

-----------------------------------------------------------------------------
\* Every variable keeps its type, whatever handlers send and when.
THEOREM EventTypeCorrect == Spec => []TypeOK
<1>1. Init => IInv  BY InvInit
<1>2. IInv /\ [Next]_vars => IInv'  BY InvStep
<1>3. IInv => TypeOK  BY DEF IInv
<1> QED  BY <1>1, <1>2, <1>3, PTL DEF Spec

\* A flag that was sent stays set until a reset or until the thread that asked
\* for it to be cleared has it (rt_event_send against timeouts, deletions and
\* resumptions), unless that thread is the one about to be called back.
THEOREM NoFlagLostAlways == Spec => []NoFlagLost
<1>1. Init => IInv  BY InvInit
<1>2. IInv /\ [Next]_vars => IInv'  BY InvStep
<1>3. IInv => NoFlagLost  BY DEF IInv
<1> QED  BY <1>1, <1>2, <1>3, PTL DEF Spec

\* Nobody else sleeps for flags that are set, and whoever rt_event_send served
\* gets flags that were sent: all it asked for, or at least one.
THEOREM ServedAsAskedAlways == Spec => []ServedAsAsked
<1>1. Init => IInv  BY InvInit
<1>2. IInv /\ [Next]_vars => IInv'  BY InvStep
<1>3. IInv => ServedAsAsked  BY DEF IInv
<1> QED  BY <1>1, <1>2, <1>3, PTL DEF Spec
=============================================================================
