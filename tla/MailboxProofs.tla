---------------------------- MODULE MailboxProofs ----------------------------
(***************************************************************************)
(* Safety of the mailbox for any finite set of threads, any size and any   *)
(* mails: it is a bounded queue, and no wakeup is lost between senders,    *)
(* receivers, timeouts and resets.                                         *)
(*                                                                         *)
(* NobodyForgotten is not inductive.  It rests on: only receivers stand on *)
(* the list of receivers and only senders on that of senders, each once    *)
(* (Sleepers), so that whoever is woken comes for what the waker left; an  *)
(* armed thread timer belongs to a sleeper, and as long as no wakeup was   *)
(* lost the thread whose timer was popped still sleeps (Timers), so that a *)
(* timeout takes no wakeup back.  That the mailbox is a queue rests on the *)
(* two offsets being entry words apart (OffsetsAgree) and on senders that  *)
(* wait with a mail (Posts).                                               *)
(***************************************************************************)
EXTENDS Mailbox, WaitListProofs, FiniteSetTheorems

Lists == {"recv", "send"}

\* The list a thread waits on when it is suspended.
Side(t) == IF Receiving(t) THEN "recv" ELSE IF Sending(t) THEN "send" ELSE "none"

\* Who was woken there and has not run, and what is there for them: mails or room.
Coming(l) == {t \in Threads : Side(t) = l /\ Woken(t)}
Left(l) == IF l = "recv" THEN entry ELSE Size - entry

Sleepers ==
    /\ OnOneList(susp)
    /\ \A l \in Lists : \A t \in Threads : Holds(susp[l], t) => Side(t) = l

Timers ==
    /\ \A t \in armed : t \in ttmr /\ Suspended(t)
    /\ expiring \notin armed
    /\ ~lost /\ ~ThreadContext => Suspended(expiring) /\ expiring \in ttmr

OffsetsAgree == inOffset = (outOffset + entry) % Size

Posts == \A t \in Threads : Sending(t) => mail[t] \in Messages

Attended == \A l \in Lists : susp[l] # <<>> => Left(l) <= Cardinality(Coming(l))

Shape == TypeOK /\ Sleepers /\ Timers /\ OffsetsAgree /\ Posts
IInv == Shape /\ (~lost => Attended)

USE MessagingAssumption, NoThreadAssumption

-----------------------------------------------------------------------------
LEMMA SuspFacts ==
    ASSUME TypeOK
    PROVE  /\ susp \in [Lists -> Seq(Threads)]
           /\ \A t : Suspended(t) <=> \E l \in Lists : Holds(susp[l], t)
           /\ \A l \in Lists : susp[l] \in Seq(Threads)
           /\ \A l \in Lists : \A t : Holds(susp[l], t) => t \in Threads
<1>1. susp \in [Lists -> Seq(Threads)]  BY DEF TypeOK, Lists
<1>2. \A t : Suspended(t) <=> \E l \in Lists : Holds(susp[l], t)  BY <1>1 DEF Suspended
<1> QED  BY <1>1, <1>2, HeldIsElement

LEMMA SuspFactsNext ==
    ASSUME susp' \in [Lists -> Seq(Threads)]
    PROVE  /\ \A t : Suspended(t)' <=> \E l \in Lists : Holds(susp'[l], t)
           /\ \A l \in Lists : susp'[l] \in Seq(Threads)
  BY DEF Suspended

\* A list that loses threads only is not empty unless it was not before.
LEMMA ShrunkList ==
    ASSUME NEW f \in [Lists -> Seq(Threads)], NEW g \in [Lists -> Seq(Threads)], NEW l \in Lists,
           \A u \in Threads : Holds(g[l], u) => Holds(f[l], u), g[l] # <<>>
    PROVE  f[l] # <<>>
<1>1. f[l] \in Seq(Threads) /\ g[l] \in Seq(Threads)  OBVIOUS
<1> QED  BY <1>1, EmptyHoldsNobody

LEMMA ComingFacts ==
    ASSUME NEW l
    PROVE  /\ IsFiniteSet(Coming(l)) /\ Cardinality(Coming(l)) \in Nat
           /\ Coming(l) \in SUBSET Threads
<1>1. Coming(l) \in SUBSET Threads  BY DEF Coming
<1> QED  BY <1>1, FS_Subset, FS_CardinalityType

LEMMA ComingFactsNext ==
    ASSUME NEW l
    PROVE  /\ IsFiniteSet(Coming(l)') /\ Cardinality(Coming(l)') \in Nat
           /\ Coming(l)' \in SUBSET Threads
<1>1. Coming(l)' \in SUBSET Threads  BY DEF Coming
<1> QED  BY <1>1, FS_Subset, FS_CardinalityType

\* The two sides of Attended are the two parts of NobodyForgotten.
LEMMA AttendedFacts == (~lost => Attended) <=> NobodyForgotten
<1>1. Coming("recv") = WokenReceivers /\ Coming("send") = WokenSenders
  BY DEF Coming, WokenReceivers, WokenSenders, Side, Receiving, Sending
<1>2. Left("recv") = entry /\ Left("send") = Size - entry  BY DEF Left
<1>3. Attended <=> NoSleeperBesideMail /\ NoSleeperBesideRoom
  BY <1>1, <1>2 DEF Attended, NoSleeperBesideMail, NoSleeperBesideRoom, Lists
<1> QED  BY <1>3 DEF NobodyForgotten

-----------------------------------------------------------------------------
LEMMA InvInit == Init => IInv
<1> SUFFICES ASSUME Init PROVE IInv  OBVIOUS
<1> USE DEF Init
<1>1. TypeOK
  <2>1. <<>> \in Seq(Threads)  OBVIOUS
  <2>2. susp \in [{"recv", "send"} -> Seq(Threads)]  BY <2>1
  <2>3. 0 \in 0..Size /\ 0 \in 0..(Size - 1)  OBVIOUS
  <2>4. pool \in [0..(Size - 1) -> Messages \cup {NoMessage}] /\ mail \in [Threads -> Messages \cup {NoMessage}]
    OBVIOUS
  <2>5. pc \in [Threads -> Places] /\ error \in [Threads -> Errors]  BY DEF Errors, Places
  <2> QED  BY <2>2, <2>3, <2>4, <2>5 DEF TypeOK
<1>2. susp = [l \in Lists |-> <<>>]  BY DEF Lists
<1>3. Sleepers
  <2>1. OnOneList(susp)  BY <1>2 DEF OnOneList, Distinct, Holds
  <2>2. \A l \in Lists : \A t \in Threads : ~Holds(susp[l], t)
    <3>1. \A l \in Lists : susp[l] = <<>>  BY <1>2
    <3>2. \A t : ~Holds(<<>>, t)  BY DEF Holds
    <3> QED  BY <3>1, <3>2
  <2> QED  BY <2>1, <2>2 DEF Sleepers
<1>4. Timers  BY DEF Timers, ThreadContext
<1>5. OffsetsAgree  BY DEF OffsetsAgree
<1>6. Posts  BY DEF Posts, Sending
<1>7. Attended  BY <1>2 DEF Attended
<1> QED  BY <1>1, <1>3, <1>4, <1>5, <1>6, <1>7 DEF IInv, Shape

\* A step after which nobody sleeps who did not before, and nobody who was woken
\* is gone, unless there is nothing for them or nobody sleeps beside it.
LEMMA QuietStep ==
    ASSUME IInv, TypeOK', OffsetsAgree', Posts', Timers', OnOneList(susp'),
           \A l \in Lists : \A u \in Threads :
              Holds(susp'[l], u) => Holds(susp[l], u) /\ pc'[u] = pc[u],
           ~lost' => ~lost,
           \A l \in Lists : ~lost' =>
              \/ susp'[l] = <<>>
              \/ Left(l)' = 0
              \/ Left(l)' = Left(l) /\ \A u \in Threads : u \in Coming(l) => u \in Coming(l)'
    PROVE  IInv'
<1>0. TypeOK  BY DEF IInv, Shape
<1>1. susp \in [Lists -> Seq(Threads)] /\ susp' \in [Lists -> Seq(Threads)]
  BY <1>0, SuspFacts DEF TypeOK, Lists
<1>2. Sleepers'  BY DEF IInv, Shape, Sleepers, Side, Receiving, Sending
<1>3. ASSUME ~lost', NEW l \in Lists, susp'[l] # <<>>
      PROVE  Left(l)' <= Cardinality(Coming(l)')
  <2>1. CASE Left(l)' = 0  BY <2>1, ComingFactsNext
  <2>2. CASE Left(l)' = Left(l) /\ \A u \in Threads : u \in Coming(l) => u \in Coming(l)'
    <3>1. susp[l] # <<>>  BY <1>1, <1>3, ShrunkList
    <3>2. Left(l) <= Cardinality(Coming(l))  BY <1>3, <3>1 DEF IInv, Attended
    <3>3. Coming(l) \in SUBSET (Coming(l)')  BY <2>2, ComingFacts
    <3>4. Cardinality(Coming(l)) <= Cardinality(Coming(l)')
      BY <3>3, ComingFactsNext, FS_Subset
    <3>5. Left(l) \in Nat  BY <1>0 DEF Left, TypeOK
    <3> QED  BY <2>2, <3>2, <3>4, <3>5, ComingFacts, ComingFactsNext
  <2> QED  BY <1>3, <2>1, <2>2
<1>4. ~lost' => Attended'  BY <1>3 DEF Attended
<1> QED  BY <1>2, <1>4 DEF IInv, Shape

\* What waking the first thread of a list does to the lists and the timers.
LEMMA WakeFacts ==
    ASSUME TypeOK, Sleepers, Timers, NEW l \in Lists, WakeOne(l)
    PROVE  /\ susp' \in [Lists -> Seq(Threads)] /\ OnOneList(susp')
           /\ armed' \subseteq Threads /\ ttmr' \subseteq Threads
           /\ error' \in [Threads -> Errors]
           /\ expiring' = expiring /\ prio' = prio /\ lost' \in BOOLEAN /\ (~lost' => ~lost)
           /\ Timers'
           /\ \E w \in SUBSET Threads :
                 /\ \A k \in Lists : \A u : Holds(susp'[k], u) <=> Holds(susp[k], u) /\ u \notin w
                 /\ \A u \in Threads : error'[u] = IF u \in w THEN "EOK" ELSE error[u]
                 /\ \A u \in w : Holds(susp[l], u)
                 /\ ~lost' /\ susp[l] # <<>> => \E h : w = {h}
<1>0. /\ susp \in [Lists -> Seq(Threads)] /\ OnOneList(susp)
      /\ \A t : Suspended(t) <=> \E k \in Lists : Holds(susp[k], t)
  BY SuspFacts DEF Sleepers
<1>1. CASE susp[l] = <<>>
  <2>1. UNCHANGED <<suspVars, lost>>  BY <1>1 DEF WakeOne
  <2>2. Timers'  BY <2>1 DEF Timers, suspVars, Suspended, ThreadContext
  <2>3. {} \in SUBSET Threads  OBVIOUS
  <2> QED  BY <1>0, <1>1, <2>1, <2>2, <2>3 DEF suspVars, TypeOK
<1>2. CASE susp[l] # <<>>
  <2> DEFINE h == Head(susp[l])
             g == [susp EXCEPT ![l] = Tail(@)]
  <2>1. Dequeue(l, "EOK") /\ lost' = (lost \/ Raced(h))  BY <1>2 DEF WakeOne
  <2>2. /\ g \in [Lists -> Seq(Threads)]
        /\ OnOneList(g)
        /\ h \in Threads /\ Holds(susp[l], h)
        /\ \A k \in Lists : \A u : Holds(g[k], u) <=> Holds(susp[k], u) /\ u # h
    <3>1. g = TailOne(susp, l)  BY DEF TailOne
    <3>2. ListsOf(Threads, Lists, susp)  BY <1>0 DEF ListsOf
    <3> HIDE DEF g
    <3>3. ListsOf(Threads, Lists, g) /\ h \in Threads /\ Holds(susp[l], h)
          /\ \A k \in Lists : \A u : Holds(g[k], u) <=> Holds(susp[k], u) /\ u # h
      BY <1>2, <3>1, <3>2, TailOneFacts
    <3> QED  BY <3>3 DEF ListsOf
  <2>3. /\ ttmr' = ttmr \ {h} /\ expiring' = expiring /\ prio' = prio
        /\ armed' = IF h \in ttmr THEN armed \ {h} ELSE armed
        /\ Raced(h) => UNCHANGED <<susp, error>>
        /\ ~Raced(h) => susp' = g /\ error' = [error EXCEPT ![h] = "EOK"]
    BY <2>1 DEF Dequeue
  <2> HIDE DEF h, g
  <2>4. armed' = armed \ {h}  BY <2>3 DEF Timers
  <2>5. CASE Raced(h)
    <3>1. lost' /\ lost' \in BOOLEAN  BY <2>1, <2>5 DEF TypeOK
    <3>2. UNCHANGED <<susp, error>>  BY <2>3, <2>5
    <3>3. h \notin armed  BY <2>5 DEF Raced
    <3>4. Timers'  BY <2>3, <2>4, <3>1, <3>2, <3>3 DEF Timers, Suspended
    <3>5. {} \in SUBSET Threads  OBVIOUS
    <3> QED  BY <1>0, <2>3, <2>4, <3>1, <3>2, <3>4, <3>5 DEF TypeOK
  <2>6. CASE ~Raced(h)
    <3>1. susp' = g /\ error' = [error EXCEPT ![h] = "EOK"] /\ lost' = lost
      BY <2>1, <2>3, <2>6 DEF TypeOK
    <3>2. \A t : Suspended(t)' <=> \E k \in Lists : Holds(susp'[k], t)
      BY <2>2, <3>1, SuspFactsNext
    <3>3. Timers'
      <4>1. \A t \in armed' : t \in ttmr' /\ Suspended(t)'
        BY <1>0, <2>2, <2>3, <2>4, <3>1, <3>2 DEF Timers
      <4>2. ~lost /\ ~ThreadContext => expiring # h
        BY <2>6 DEF Timers, Raced
      <4>3. ~lost' /\ ~ThreadContext' => Suspended(expiring)' /\ expiring' \in ttmr'
        BY <1>0, <2>2, <2>3, <3>1, <3>2, <4>2 DEF Timers, ThreadContext
      <4> QED  BY <2>3, <2>4, <4>1, <4>3 DEF Timers
    <3>4. {h} \in SUBSET Threads  BY <2>2
    <3>5. error' \in [Threads -> Errors]  BY <2>2, <3>1 DEF TypeOK, Errors
    <3>6. \A u \in Threads : error'[u] = IF u \in {h} THEN "EOK" ELSE error[u]
      BY <3>1 DEF TypeOK
    <3>7. \A k \in Lists : \A u : Holds(susp'[k], u) <=> Holds(susp[k], u) /\ u \notin {h}
      BY <2>2, <3>1
    <3>8. lost' \in BOOLEAN /\ armed' \subseteq Threads /\ ttmr' \subseteq Threads
      BY <2>3, <2>4, <3>1 DEF TypeOK
    <3>9. \E w \in SUBSET Threads :
             /\ \A k \in Lists : \A u : Holds(susp'[k], u) <=> Holds(susp[k], u) /\ u \notin w
             /\ \A u \in Threads : error'[u] = IF u \in w THEN "EOK" ELSE error[u]
             /\ \A u \in w : Holds(susp[l], u)
             /\ ~lost' /\ susp[l] # <<>> => \E x : w = {x}
      <4>1. \A u \in {h} : Holds(susp[l], u)  BY <2>2
      <4>2. \E x : {h} = {x}  OBVIOUS
      <4> QED  BY <3>4, <3>6, <3>7, <4>1, <4>2
    <3> QED  BY <2>2, <2>3, <3>1, <3>3, <3>5, <3>8, <3>9
  <2> QED  BY <2>5, <2>6
<1> QED  BY <1>1, <1>2

\* A mail is put or taken, and the first of those who wait for it or for its
\* room is woken; d are the threads whose call that is, if it waited.
LEMMA PassStep ==
    ASSUME IInv, NEW l \in Lists, WakeOne(l), TypeOK', OffsetsAgree', Posts',
           NEW d \in SUBSET Threads, d = {} \/ \E t : d = {t},
           \A t \in d : ~Suspended(t) /\ Side(t) # l,
           \A t \in Threads \ d : pc'[t] = pc[t],
           Left(l)' = Left(l) + 1,
           \A k \in Lists \ {l} : Left(k)' = Left(k) - 1
    PROVE  IInv'
<1>0. TypeOK /\ Sleepers /\ Timers  BY DEF IInv, Shape
<1>1. /\ susp \in [Lists -> Seq(Threads)]
      /\ \A t : Suspended(t) <=> \E k \in Lists : Holds(susp[k], t)
  BY <1>0, SuspFacts
<1>2. /\ susp' \in [Lists -> Seq(Threads)] /\ OnOneList(susp')
      /\ Timers' /\ (~lost' => ~lost)
      /\ \A t : Suspended(t)' <=> \E k \in Lists : Holds(susp'[k], t)
  BY <1>0, WakeFacts, SuspFactsNext
<1>3. PICK w \in SUBSET Threads :
         /\ \A k \in Lists : \A u : Holds(susp'[k], u) <=> Holds(susp[k], u) /\ u \notin w
         /\ \A u \in Threads : error'[u] = IF u \in w THEN "EOK" ELSE error[u]
         /\ \A u \in w : Holds(susp[l], u)
         /\ ~lost' /\ susp[l] # <<>> => \E h : w = {h}
  BY <1>0, WakeFacts
<1>4. \A t \in Threads \ d : Side(t)' = Side(t)  BY DEF Side, Receiving, Sending
<1>5. Sleepers'  BY <1>0, <1>1, <1>2, <1>3, <1>4 DEF Sleepers
<1>6. \A u \in w : Side(u) = l /\ Suspended(u) /\ u \notin d
  BY <1>0, <1>1, <1>3 DEF Sleepers
<1>7. \A k \in Lists : Left(k) \in Int  BY <1>0 DEF Left, TypeOK
<1>8. ASSUME ~lost', NEW k \in Lists, susp'[k] # <<>>
      PROVE  Left(k)' <= Cardinality(Coming(k)')
  <2>1. susp[k] # <<>>
    <3>1. \A u \in Threads : Holds(susp'[k], u) => Holds(susp[k], u)  BY <1>3, <1>8
    <3> QED  BY <1>1, <1>2, <1>8, <3>1, ShrunkList
  <2>2. Left(k) <= Cardinality(Coming(k))  BY <1>2, <1>8, <2>1 DEF IInv, Attended
  <2>3. CASE k = l
    <3>1. PICK h : w = {h}  BY <1>3, <1>8, <2>1, <2>3
    <3>2. h \in Threads /\ h \notin Coming(l)  BY <1>6, <3>1 DEF Coming, Woken
    <3>3. Coming(l) \cup {h} \in SUBSET (Coming(l)')
      <4>1. h \in Coming(l)'
        BY <1>1, <1>2, <1>3, <1>4, <1>6, <3>1, <3>2, OneListOnly, <1>0 DEF Coming, Woken, Sleepers
      <4>2. ASSUME NEW u \in Coming(l) PROVE u \in Coming(l)'
        <5>1. u \in Threads /\ Side(u) = l /\ ~Suspended(u) /\ error[u] = "EOK"
          BY DEF Coming, Woken
        <5>2. u \notin d  BY <5>1
        <5>3. ~Suspended(u)' /\ error'[u] = "EOK"  BY <1>1, <1>2, <1>3, <5>1
        <5> QED  BY <1>4, <5>1, <5>2, <5>3 DEF Coming, Woken
      <4> QED  BY <4>1, <4>2
    <3>4. Cardinality(Coming(l) \cup {h}) = Cardinality(Coming(l)) + 1
      BY <3>2, ComingFacts, FS_AddElement
    <3>5. Cardinality(Coming(l) \cup {h}) <= Cardinality(Coming(l)')
      BY <3>3, ComingFactsNext, FS_Subset
    <3> QED  BY <1>7, <2>2, <2>3, <3>4, <3>5, ComingFacts, ComingFactsNext
  <2>4. CASE k # l
    <3>1. ASSUME NEW u \in Coming(k), u \notin d PROVE u \in Coming(k)'
      <4>1. u \in Threads /\ Side(u) = k /\ ~Suspended(u) /\ error[u] = "EOK"
        BY DEF Coming, Woken
      <4>2. ~Suspended(u)' /\ error'[u] = "EOK"  BY <1>1, <1>2, <1>3, <4>1
      <4> QED  BY <1>4, <3>1, <4>1, <4>2 DEF Coming, Woken
    <3>2. Left(k)' = Left(k) - 1  BY <2>4
    <3>3. CASE d = {}
      <4>1. Coming(k) \in SUBSET (Coming(k)')  BY <3>1, <3>3
      <4>2. Cardinality(Coming(k)) <= Cardinality(Coming(k)')
        BY <4>1, ComingFactsNext, FS_Subset
      <4> QED  BY <1>7, <2>2, <3>2, <4>2, ComingFacts, ComingFactsNext
    <3>4. ASSUME NEW t, d = {t} PROVE Left(k)' <= Cardinality(Coming(k)')
      <4>1. Coming(k) \ {t} \in SUBSET (Coming(k)')  BY <3>1, <3>4
      <4>2. Cardinality(Coming(k) \ {t}) <= Cardinality(Coming(k)')
        BY <4>1, ComingFactsNext, FS_Subset
      <4>3. Cardinality(Coming(k) \ {t}) =
              IF t \in Coming(k) THEN Cardinality(Coming(k)) - 1 ELSE Cardinality(Coming(k))
        BY ComingFacts, FS_RemoveElement
      <4> QED  BY <1>7, <2>2, <3>2, <4>2, <4>3, ComingFacts, ComingFactsNext
    <3> QED  BY <3>3, <3>4
  <2> QED  BY <2>3, <2>4
<1>9. ~lost' => Attended'  BY <1>8 DEF Attended
<1> QED  BY <1>2, <1>5, <1>9 DEF IInv, Shape

\* A wait begins, or begins anew, because there is nothing to come for.
LEMMA WaitStep ==
    ASSUME IInv, NEW t \in Threads, NEW l \in Lists, NEW timed \in BOOLEAN,
           ThreadContext, ~Suspended(t), Wait(t, l, timed), Left(l) = 0,
           pc' \in [Threads -> Places], mail' \in [Threads -> Messages \cup {NoMessage}],
           alive' \in BOOLEAN, Posts', Side(t)' = l,
           t \in Coming(l) \/ pc[t] = "idle",
           \A u \in Threads \ {t} : pc'[u] = pc[u]
    PROVE  IInv'
<1>0. TypeOK /\ Sleepers /\ Timers /\ OffsetsAgree  BY DEF IInv, Shape
<1>1. /\ susp \in [Lists -> Seq(Threads)]
      /\ \A u : Suspended(u) <=> \E k \in Lists : Holds(susp[k], u)
  BY <1>0, SuspFacts
<1>2. /\ susp' = [susp EXCEPT ![l] = Enqueue(@, t, Flag, prio)]
      /\ armed' = IF timed THEN armed \cup {t} ELSE armed \ {t}
      /\ ttmr' = IF timed THEN ttmr \cup {t} ELSE ttmr \ {t}
      /\ error' = [error EXCEPT ![t] = "EINTR"]
      /\ UNCHANGED <<expiring, prio, pool, entry, inOffset, outOffset, lost>>
  BY DEF Wait, SuspendToList, SuspendWith, boxVars
<1>3. /\ susp' \in [Lists -> Seq(Threads)] /\ OnOneList(susp')
      /\ \A k \in Lists : \A u : Holds(susp'[k], u) <=> Holds(susp[k], u) \/ (k = l /\ u = t)
  <2>1. \A k \in Lists : ~Holds(susp[k], t)  BY <1>1
  <2>2. ListsOf(Threads, Lists, susp)  BY <1>0, <1>1 DEF ListsOf, Sleepers
  <2>3. ListsOf(Threads, Lists, susp')
        /\ \A k \in Lists : \A u : Holds(susp'[k], u) <=> Holds(susp[k], u) \/ (k = l /\ u = t)
    <3>1. susp' = EnqueueOne(susp, l, t, Flag, prio)  BY <1>2 DEF EnqueueOne
    <3> QED  BY <2>1, <2>2, <3>1, EnqueueOneFacts
  <2> QED  BY <2>3 DEF ListsOf
<1>4. \A u : Suspended(u)' <=> \E k \in Lists : Holds(susp'[k], u)  BY <1>3, SuspFactsNext
<1>5. TypeOK'  BY <1>0, <1>2, <1>3 DEF TypeOK, Lists, Errors
<1>6. \A u \in Threads \ {t} : Side(u)' = Side(u)  BY DEF Side, Receiving, Sending
<1>7. Sleepers'
  <2>1. ASSUME NEW k \in Lists, NEW u \in Threads, Holds(susp'[k], u) PROVE Side(u)' = k
    <3>1. CASE u = t
      <4>1. ~Holds(susp[k], t)  BY <1>1
      <4> QED  BY <1>3, <2>1, <3>1, <4>1
    <3>2. CASE u # t  BY <1>0, <1>3, <1>6, <2>1, <3>2 DEF Sleepers
    <3> QED  BY <3>1, <3>2
  <2> QED  BY <1>3, <2>1 DEF Sleepers
<1>8. Timers'  BY <1>0, <1>1, <1>2, <1>3, <1>4 DEF Timers, ThreadContext, TypeOK
<1>9. OffsetsAgree'  BY <1>0, <1>2 DEF OffsetsAgree
<1>10. ASSUME ~lost', NEW k \in Lists, susp'[k] # <<>>
       PROVE  Left(k)' <= Cardinality(Coming(k)')
  <2>1. Left(k)' = Left(k)  BY <1>2 DEF Left
  <2>2. CASE k = l  BY <2>1, <2>2, ComingFactsNext
  <2>3. CASE k # l
    <3>1. susp[k] # <<>>  BY <1>1, <1>2, <1>10, <2>3
    <3>2. Left(k) <= Cardinality(Coming(k))  BY <1>2, <1>10, <3>1 DEF IInv, Attended
    <3>3. ASSUME NEW u \in Coming(k) PROVE u \in Coming(k)'
      <4>1. u \in Threads /\ Side(u) = k /\ ~Suspended(u) /\ error[u] = "EOK"
        BY DEF Coming, Woken
      <4>2. u # t
        BY <2>3, <4>1 DEF Coming, Side, Receiving, Sending, Lists
      <4>3. ~Suspended(u)'  BY <1>1, <1>3, <1>4, <4>1, <4>2
      <4>4. error'[u] = "EOK"  BY <1>0, <1>2, <4>1, <4>2 DEF TypeOK
      <4>5. Side(u)' = k  BY <1>6, <4>1, <4>2
      <4> QED  BY <4>1, <4>3, <4>4, <4>5 DEF Coming, Woken
    <3>4. Coming(k) \in SUBSET (Coming(k)')  BY <3>3
    <3>5. Cardinality(Coming(k)) <= Cardinality(Coming(k)')
      BY <3>4, ComingFactsNext, FS_Subset
    <3>6. Left(k) \in Int  BY <1>0 DEF Left, TypeOK
    <3> QED  BY <2>1, <3>2, <3>5, <3>6, ComingFacts, ComingFactsNext
  <2> QED  BY <2>2, <2>3
<1>11. ~lost' => Attended'  BY <1>10 DEF Attended
<1> QED  BY <1>5, <1>7, <1>8, <1>9, <1>11 DEF IInv, Shape

-----------------------------------------------------------------------------
\* The ring of words: what putting and taking do to the offsets and the contents.
LEMMA BoxFacts ==
    ASSUME TypeOK, OffsetsAgree
    PROVE  /\ IsRing(Messages \cup {NoMessage}, Size, pool, outOffset, entry)
           /\ inOffset = Wrap(outOffset + entry, Size)
           /\ Contents = RingOf(pool, outOffset, entry, Size)
           /\ Contents' = RingOf(pool', outOffset', entry', Size)
  BY DEF TypeOK, OffsetsAgree, IsRing, Wrap, Contents, RingOf

LEMMA BoxPut ==
    ASSUME TypeOK, OffsetsAgree, NEW v \in Messages,
           entry < Size,
           pool' = [pool EXCEPT ![inOffset] = v],
           inOffset' = IF inOffset + 1 >= Size THEN 0 ELSE inOffset + 1,
           entry' = entry + 1, outOffset' = outOffset
    PROVE  /\ pool' \in [0..(Size - 1) -> Messages \cup {NoMessage}]
           /\ entry' \in 0..Size /\ inOffset' \in 0..(Size - 1) /\ outOffset' \in 0..(Size - 1)
           /\ OffsetsAgree'
           /\ Len(Contents) < Size /\ Contents' = Append(Contents, v)
<1>1. /\ entry \in 0..Size /\ outOffset \in 0..(Size - 1) /\ inOffset \in 0..(Size - 1)
      /\ pool \in [0..(Size - 1) -> Messages \cup {NoMessage}]
  BY DEF TypeOK
<1>2. inOffset' = Wrap(inOffset + 1, Size)  BY <1>1, WrapSteps
<1>3. inOffset' = Wrap(outOffset' + entry', Size)
  <2>1. entry # Size  BY <1>1
  <2>2. Wrap(outOffset + (entry + 1), Size) = Wrap(Wrap(outOffset + entry, Size) + 1, Size)
    BY <1>1, <2>1, WrapSteps
  <2> QED  BY <1>2, <2>2, BoxFacts
<1>4. OffsetsAgree'  BY <1>3 DEF OffsetsAgree, Wrap
<1>5. RingElements(Messages \cup {NoMessage}, Size, pool, outOffset, entry)  BY BoxFacts, RingIsSeq
<1>6. Len(Contents) < Size  BY <1>1, <1>5, BoxFacts DEF RingElements
<1>7. Contents' = Append(Contents, v)
  <2>1. entry # Size /\ v \in Messages \cup {NoMessage}  BY <1>1
  <2>2. RingOf(Store(pool, Wrap(outOffset + entry, Size), v), outOffset, entry + 1, Size)
          = Append(RingOf(pool, outOffset, entry, Size), v)
    BY <2>1, BoxFacts, RingPut
  <2> QED  BY <2>2, BoxFacts DEF Store
<1> QED  BY <1>1, <1>4, <1>6, <1>7

LEMMA BoxTake ==
    ASSUME TypeOK, OffsetsAgree,
           entry > 0,
           outOffset' = IF outOffset + 1 >= Size THEN 0 ELSE outOffset + 1,
           entry' = entry - 1, UNCHANGED <<pool, inOffset>>
    PROVE  /\ pool' \in [0..(Size - 1) -> Messages \cup {NoMessage}]
           /\ entry' \in 0..Size /\ inOffset' \in 0..(Size - 1) /\ outOffset' \in 0..(Size - 1)
           /\ OffsetsAgree'
           /\ Contents # <<>> /\ Contents' = Tail(Contents)
<1>1. /\ entry \in 0..Size /\ outOffset \in 0..(Size - 1) /\ inOffset \in 0..(Size - 1)
      /\ pool \in [0..(Size - 1) -> Messages \cup {NoMessage}]
  BY DEF TypeOK
<1>2. outOffset' = Wrap(outOffset + 1, Size)  BY <1>1, WrapSteps
<1>3. inOffset' = Wrap(outOffset' + entry', Size)
  <2>1. entry # 0  BY <1>1
  <2>2. Wrap(Wrap(outOffset + 1, Size) + (entry - 1), Size) = Wrap(outOffset + entry, Size)
    BY <1>1, <2>1, WrapSteps
  <2> QED  BY <1>2, <2>2, BoxFacts
<1>4. OffsetsAgree'  BY <1>3 DEF OffsetsAgree, Wrap
<1>5. Contents # <<>> /\ Contents' = Tail(Contents)
  <2>1. entry # 0  BY <1>1
  <2>2. /\ RingOf(pool, outOffset, entry, Size) # <<>>
        /\ RingOf(pool, Wrap(outOffset + 1, Size), entry - 1, Size)
             = Tail(RingOf(pool, outOffset, entry, Size))
    BY <2>1, BoxFacts, RingGet
  <2> QED  BY <1>2, <2>2, BoxFacts
<1> QED  BY <1>1, <1>4, <1>5

LEMMA BoxUrgent ==
    ASSUME TypeOK, OffsetsAgree, NEW v \in Messages,
           entry < Size, NEW o, o = IF outOffset > 0 THEN outOffset - 1 ELSE Size - 1,
           outOffset' = o, pool' = [pool EXCEPT ![o] = v],
           entry' = entry + 1, inOffset' = inOffset
    PROVE  /\ pool' \in [0..(Size - 1) -> Messages \cup {NoMessage}]
           /\ entry' \in 0..Size /\ inOffset' \in 0..(Size - 1) /\ outOffset' \in 0..(Size - 1)
           /\ OffsetsAgree'
           /\ Len(Contents) < Size /\ Contents' = <<v>> \o Contents
<1>0. o = Before(outOffset, Size)  BY DEF Before
<1>1. /\ entry \in 0..Size /\ outOffset \in 0..(Size - 1) /\ inOffset \in 0..(Size - 1)
      /\ pool \in [0..(Size - 1) -> Messages \cup {NoMessage}] /\ entry # Size
  BY DEF TypeOK
<1>2. inOffset' = Wrap(outOffset' + entry', Size)
  <2>1. Wrap(Before(outOffset, Size) + (entry + 1), Size)
          = Wrap(outOffset + entry, Size)
    BY <1>1, WrapSteps
  <2> QED  BY <1>0, <2>1, BoxFacts
<1>3. OffsetsAgree'  BY <1>2 DEF OffsetsAgree, Wrap
<1>4. RingElements(Messages \cup {NoMessage}, Size, pool, outOffset, entry)  BY BoxFacts, RingIsSeq
<1>5. Len(Contents) < Size  BY <1>1, <1>4, BoxFacts DEF RingElements
<1>6. Contents' = <<v>> \o Contents
  <2>1. v \in Messages \cup {NoMessage} /\ entry # Size  BY <1>1
  <2>3. IsRing(Messages \cup {NoMessage}, Size, pool, outOffset, entry)  BY BoxFacts
  <2>2. RingOf(Store(pool, Before(outOffset, Size), v), Before(outOffset, Size), entry + 1, Size)
          = <<v>> \o RingOf(pool, outOffset, entry, Size)
    BY <2>1, <2>3, RingPutFirst
  <2> QED  BY <1>0, <2>2, BoxFacts DEF Store
<1> QED  BY <1>1, <1>3, <1>5, <1>6

-----------------------------------------------------------------------------
\* A mail goes into the box: by a call of its own (d is empty) or by the sender
\* that waited with it.
LEMMA PutStep ==
    ASSUME IInv, NEW v \in Messages, PutMail(v),
           NEW d \in SUBSET Threads, d = {} \/ \E t : d = {t},
           \A t \in d : ~Suspended(t) /\ Side(t) # "recv",
           \A t \in Threads \ d : pc'[t] = pc[t],
           pc' \in [Threads -> Places], mail' \in [Threads -> Messages \cup {NoMessage}],
           alive' = alive, Posts'
    PROVE  IInv' /\ Len(Contents) < Size /\ Contents' = Append(Contents, v)
<1>0. TypeOK /\ Sleepers /\ Timers /\ OffsetsAgree  BY DEF IInv, Shape
<1>1. /\ entry < Size /\ pool' = [pool EXCEPT ![inOffset] = v]
      /\ inOffset' = IF inOffset + 1 >= Size THEN 0 ELSE inOffset + 1
      /\ entry' = entry + 1 /\ outOffset' = outOffset /\ WakeOne("recv")
  BY DEF PutMail
<1>2. /\ pool' \in [0..(Size - 1) -> Messages \cup {NoMessage}]
      /\ entry' \in 0..Size /\ inOffset' \in 0..(Size - 1) /\ outOffset' \in 0..(Size - 1)
      /\ OffsetsAgree'
      /\ Len(Contents) < Size /\ Contents' = Append(Contents, v)
  BY <1>0, <1>1, BoxPut
<1>3. TypeOK'
  <2>1. "recv" \in Lists  BY DEF Lists
  <2>2. /\ susp' \in [{"recv", "send"} -> Seq(Threads)]
        /\ armed' \subseteq Threads /\ ttmr' \subseteq Threads
        /\ error' \in [Threads -> Errors]
        /\ expiring' = expiring /\ lost' \in BOOLEAN
    BY <1>0, <1>1, <2>1, WakeFacts DEF Lists
  <2> QED  BY <1>0, <1>2, <2>2 DEF TypeOK
<1>4. Left("recv")' = Left("recv") + 1 /\ Left("send")' = Left("send") - 1
  BY <1>0, <1>1 DEF Left, TypeOK
<1> QED  BY <1>1, <1>2, <1>3, <1>4, PassStep DEF Lists

\* A mail is taken out, by a call of its own or by a receiver that waited.
LEMMA TakeStep ==
    ASSUME IInv, TakeMail,
           NEW d \in SUBSET Threads, d = {} \/ \E t : d = {t},
           \A t \in d : ~Suspended(t) /\ Side(t) # "send",
           \A t \in Threads \ d : pc'[t] = pc[t],
           pc' \in [Threads -> Places], mail' \in [Threads -> Messages \cup {NoMessage}],
           alive' = alive, Posts'
    PROVE  IInv' /\ Contents # <<>> /\ Contents' = Tail(Contents)
<1>0. TypeOK /\ Sleepers /\ Timers /\ OffsetsAgree  BY DEF IInv, Shape
<1>1. /\ entry > 0 /\ UNCHANGED <<pool, inOffset>>
      /\ outOffset' = IF outOffset + 1 >= Size THEN 0 ELSE outOffset + 1
      /\ entry' = entry - 1 /\ WakeOne("send")
  BY DEF TakeMail
<1>2. /\ pool' \in [0..(Size - 1) -> Messages \cup {NoMessage}]
      /\ entry' \in 0..Size /\ inOffset' \in 0..(Size - 1) /\ outOffset' \in 0..(Size - 1)
      /\ OffsetsAgree'
      /\ Contents # <<>> /\ Contents' = Tail(Contents)
  BY <1>0, <1>1, BoxTake
<1>3. TypeOK'
  <2>1. "send" \in Lists  BY DEF Lists
  <2>2. /\ susp' \in [{"recv", "send"} -> Seq(Threads)]
        /\ armed' \subseteq Threads /\ ttmr' \subseteq Threads
        /\ error' \in [Threads -> Errors]
        /\ expiring' = expiring /\ lost' \in BOOLEAN
    BY <1>0, <1>1, <2>1, WakeFacts DEF Lists
  <2> QED  BY <1>0, <1>2, <2>2 DEF TypeOK
<1>4. Left("send")' = Left("send") + 1 /\ Left("recv")' = Left("recv") - 1
  BY <1>0, <1>1 DEF Left, TypeOK
<1> QED  BY <1>1, <1>2, <1>3, <1>4, PassStep DEF Lists

\* Calls of running threads and of interrupt handlers that need not wait.
LEMMA PassingStep ==
    ASSUME IInv, Recv \/ \E v \in Messages : Send(v) \/ Urgent(v)
    PROVE  IInv' /\ Box!QueueNext
<1>0. TypeOK /\ Sleepers /\ Timers /\ OffsetsAgree /\ Posts  BY DEF IInv, Shape
<1> USE DEF Box!QueueNext, Box!Put, Box!Get, Box!PutFirst
<1>1. ASSUME UNCHANGED <<pc, mail>> PROVE Posts'  BY <1>0, <1>1 DEF Posts, Sending
<1>2. {} \in SUBSET Threads  OBVIOUS
<1>3. CASE Recv
  <2>1. TakeMail /\ UNCHANGED <<alive, pc, mail>>  BY <1>3 DEF Recv
  <2>2. IInv' /\ Contents # <<>> /\ Contents' = Tail(Contents)
    BY <1>0, <1>1, <1>2, <2>1, TakeStep DEF TypeOK
  <2> QED  BY <2>2
<1>4. ASSUME NEW v \in Messages, Send(v) PROVE IInv' /\ Box!QueueNext
  <2>1. PutMail(v) /\ UNCHANGED <<alive, pc, mail>>  BY <1>4 DEF Send
  <2>2. IInv' /\ Len(Contents) < Size /\ Contents' = Append(Contents, v)
    BY <1>0, <1>1, <1>2, <2>1, PutStep DEF TypeOK
  <2> QED  BY <2>2
<1>5. ASSUME NEW v \in Messages, Urgent(v) PROVE IInv' /\ Box!QueueNext
  <2> DEFINE o == IF outOffset > 0 THEN outOffset - 1 ELSE Size - 1
  <2>1. /\ entry < Size /\ outOffset' = o /\ pool' = [pool EXCEPT ![o] = v]
        /\ entry' = entry + 1 /\ WakeOne("recv")
        /\ UNCHANGED <<inOffset, alive, pc, mail>>
    BY <1>5 DEF Urgent
  <2>2. /\ pool' \in [0..(Size - 1) -> Messages \cup {NoMessage}]
        /\ entry' \in 0..Size /\ inOffset' \in 0..(Size - 1) /\ outOffset' \in 0..(Size - 1)
        /\ OffsetsAgree'
        /\ Len(Contents) < Size /\ Contents' = <<v>> \o Contents
    BY <1>0, <2>1, BoxUrgent
  <2> HIDE DEF o
  <2>3. "recv" \in Lists  BY DEF Lists
  <2>4. TypeOK'
    <3>1. /\ susp' \in [{"recv", "send"} -> Seq(Threads)]
          /\ armed' \subseteq Threads /\ ttmr' \subseteq Threads
          /\ error' \in [Threads -> Errors]
          /\ expiring' = expiring /\ lost' \in BOOLEAN
      BY <1>0, <2>1, <2>3, WakeFacts DEF Lists
    <3> QED  BY <1>0, <2>1, <2>2, <3>1 DEF TypeOK
  <2>5. Left("recv")' = Left("recv") + 1 /\ Left("send")' = Left("send") - 1
    BY <1>0, <2>1 DEF Left, TypeOK
  <2>6. IInv'  BY <1>1, <1>2, <2>1, <2>2, <2>4, <2>5, PassStep DEF Lists
  <2> QED  BY <2>2, <2>6
<1> QED  BY <1>3, <1>4, <1>5

\* What a step that leaves the box alone does to the queue.
LEMMA SameContents == UNCHANGED boxVars => UNCHANGED Contents
  BY DEF boxVars, Contents

\* A call that waited ends.
LEMMA DoneFacts ==
    ASSUME TypeOK, Posts, NEW t \in Threads, Done(t)
    PROVE  /\ pc' \in [Threads -> Places] /\ mail' \in [Threads -> Messages \cup {NoMessage}]
           /\ Posts' /\ alive' = alive
           /\ \A u \in Threads \ {t} : pc'[u] = pc[u]
           /\ Side(t)' = "none"
<1>1. /\ pc' = [pc EXCEPT ![t] = "idle"] /\ mail' = [mail EXCEPT ![t] = NoMessage] /\ alive' = alive
  BY DEF Done
<1>2. pc' \in [Threads -> Places] /\ mail' \in [Threads -> Messages \cup {NoMessage}]
  BY <1>1 DEF TypeOK, Places
<1>3. pc'[t] = "idle" /\ \A u \in Threads \ {t} : pc'[u] = pc[u] /\ mail'[u] = mail[u]
  BY <1>1 DEF TypeOK
<1>4. Posts'  BY <1>3 DEF Posts, Sending
<1> QED  BY <1>1, <1>2, <1>3, <1>4 DEF Side, Receiving, Sending

LEMMA ThreadStep ==
    ASSUME IInv, NEW t \in Threads, ThreadOps(t)
    PROVE  IInv' /\ (Box!QueueNext \/ UNCHANGED Contents)
<1>0. TypeOK /\ Sleepers /\ Timers /\ OffsetsAgree /\ Posts  BY DEF IInv, Shape
<1>1. /\ susp \in [Lists -> Seq(Threads)]
      /\ \A u : Suspended(u) <=> \E k \in Lists : Holds(susp[k], u)
  BY <1>0, SuspFacts
<1>2. pc[t] = "idle" => ~Suspended(t)
  BY <1>0, <1>1 DEF Sleepers, Lists, Side, Receiving, Sending
<1>3. ASSUME NEW timed \in BOOLEAN, RecvBlocks(t, timed) PROVE IInv' /\ UNCHANGED Contents
  <2>1. /\ ThreadContext /\ pc[t] = "idle" /\ entry = 0 /\ Wait(t, "recv", timed)
        /\ pc' = [pc EXCEPT ![t] = IF timed THEN "timedrecv" ELSE "recv"]
        /\ UNCHANGED <<alive, mail>>
    BY <1>3 DEF RecvBlocks
  <2>2. pc' \in [Threads -> Places]  BY <1>0, <2>1 DEF TypeOK, Places
  <2>3. Receiving(t)' /\ ~Sending(t)' /\ \A u \in Threads \ {t} : pc'[u] = pc[u]
    BY <1>0, <2>1 DEF TypeOK, Receiving, Sending
  <2>4. Side(t)' = "recv"  BY <2>3 DEF Side
  <2>5. Posts'  BY <1>0, <2>1, <2>3 DEF Posts, Sending
  <2>6. "recv" \in Lists /\ Left("recv") = 0  BY <2>1 DEF Lists, Left
  <2>7. IInv'  BY <1>0, <1>2, <2>1, <2>2, <2>3, <2>4, <2>5, <2>6, WaitStep DEF TypeOK
  <2> QED  BY <2>1, <2>7, SameContents DEF Wait
<1>4. ASSUME NEW v \in Messages, NEW timed \in BOOLEAN, SendBlocks(t, v, timed)
      PROVE  IInv' /\ UNCHANGED Contents
  <2>1. /\ ThreadContext /\ pc[t] = "idle" /\ entry = Size /\ Wait(t, "send", timed)
        /\ pc' = [pc EXCEPT ![t] = IF timed THEN "timedsend" ELSE "send"]
        /\ mail' = [mail EXCEPT ![t] = v] /\ alive' = alive
    BY <1>4 DEF SendBlocks
  <2>2. pc' \in [Threads -> Places] /\ mail' \in [Threads -> Messages \cup {NoMessage}]
    BY <1>0, <2>1 DEF TypeOK, Places
  <2>3. /\ ~Receiving(t)' /\ Sending(t)' /\ mail'[t] = v
        /\ \A u \in Threads \ {t} : pc'[u] = pc[u] /\ mail'[u] = mail[u]
    BY <1>0, <2>1 DEF TypeOK, Receiving, Sending
  <2>4. Side(t)' = "send"  BY <2>3 DEF Side
  <2>5. Posts'  BY <1>0, <2>3 DEF Posts, Sending
  <2>6. "send" \in Lists /\ Left("send") = 0  BY <2>1 DEF Lists, Left
  <2>7. ~Suspended(t) /\ alive' \in BOOLEAN  BY <1>0, <1>2, <2>1 DEF TypeOK
  <2>8. \A u \in Threads \ {t} : pc'[u] = pc[u]  BY <2>3
  <2>9. IInv'  BY <2>1, <2>2, <2>4, <2>5, <2>6, <2>7, <2>8, WaitStep
  <2> QED  BY <2>1, <2>9, SameContents DEF Wait
<1>5. CASE WaitFails(t)
  <2>1. /\ error[t] # "EOK" /\ ~Suspended(t) /\ Done(t) /\ UNCHANGED <<suspVars, boxVars, lost>>
    BY <1>5 DEF WaitFails, Runs
  <2>2. /\ pc' \in [Threads -> Places] /\ mail' \in [Threads -> Messages \cup {NoMessage}]
        /\ Posts' /\ alive' = alive
        /\ \A u \in Threads \ {t} : pc'[u] = pc[u]
    BY <1>0, <2>1, DoneFacts
  <2>3. TypeOK'  BY <1>0, <2>1, <2>2 DEF TypeOK, suspVars, boxVars
  <2>4. Timers' /\ OffsetsAgree' /\ OnOneList(susp')
    BY <1>0, <2>1 DEF Timers, OffsetsAgree, Sleepers, suspVars, boxVars, Suspended, ThreadContext
  <2>5. \A l \in Lists : Left(l)' = Left(l)  BY <2>1 DEF Left, boxVars
  <2>6. \A l \in Lists : \A u \in Threads : u \in Coming(l) => u \in Coming(l)'
    BY <2>1, <2>2 DEF Coming, Woken, Side, Receiving, Sending, Suspended, suspVars
  <2>7. \A l \in Lists : \A u \in Threads :
           Holds(susp'[l], u) => Holds(susp[l], u) /\ pc'[u] = pc[u]
    BY <1>1, <2>1, <2>2 DEF suspVars
  <2>8. lost' = lost  BY <2>1
  <2>9. IInv'  BY <2>2, <2>3, <2>4, <2>5, <2>6, <2>7, <2>8, QuietStep
  <2> QED  BY <2>1, <2>9, SameContents
<1>6. CASE RecvResumes(t)
  <2>1. TakeMail /\ Done(t) /\ ~Suspended(t) /\ Receiving(t)  BY <1>6 DEF RecvResumes, Runs
  <2>2. /\ pc' \in [Threads -> Places] /\ mail' \in [Threads -> Messages \cup {NoMessage}]
        /\ Posts' /\ alive' = alive
        /\ \A u \in Threads \ {t} : pc'[u] = pc[u]
    BY <1>0, <2>1, DoneFacts
  <2>3. Side(t) # "send"  BY <2>1 DEF Side
  <2>4. {t} \in SUBSET Threads  OBVIOUS
  <2>5. \A u \in {t} : ~Suspended(u) /\ Side(u) # "send"  BY <2>1, <2>3
  <2>6. IInv' /\ Contents # <<>> /\ Contents' = Tail(Contents)
    BY <2>1, <2>2, <2>4, <2>5, TakeStep
  <2> QED  BY <2>6 DEF Box!QueueNext, Box!Get
<1>7. CASE SendResumes(t)
  <2>1. PutMail(mail[t]) /\ Done(t) /\ ~Suspended(t) /\ Sending(t)  BY <1>7 DEF SendResumes, Runs
  <2>2. /\ pc' \in [Threads -> Places] /\ mail' \in [Threads -> Messages \cup {NoMessage}]
        /\ Posts' /\ alive' = alive
        /\ \A u \in Threads \ {t} : pc'[u] = pc[u]
    BY <1>0, <2>1, DoneFacts
  <2>3. Side(t) # "recv"  BY <2>1 DEF Side, Sending, Receiving
  <2>4. {t} \in SUBSET Threads /\ mail[t] \in Messages  BY <1>0, <2>1 DEF Posts
  <2>5. \A u \in {t} : ~Suspended(u) /\ Side(u) # "recv"  BY <2>1, <2>3
  <2>6. IInv' /\ Len(Contents) < Size /\ Contents' = Append(Contents, mail[t])
    BY <2>1, <2>2, <2>4, <2>5, PutStep
  <2> QED  BY <2>4, <2>6 DEF Box!QueueNext, Box!Put
<1>8. CASE WaitsAgain(t)
  <2> DEFINE l == IF Receiving(t) THEN "recv" ELSE "send"
  <2>1. /\ ThreadContext /\ ~Suspended(t) /\ error[t] = "EOK"
        /\ Receiving(t) \/ Sending(t)
        /\ Receiving(t) => entry = 0
        /\ Sending(t) => entry = Size
        /\ Wait(t, l, Timed(t)) /\ UNCHANGED <<alive, pc, mail>>
    BY <1>8 DEF WaitsAgain, Outrun, Runs
  <2>2. l \in Lists /\ Left(l) = 0 /\ Side(t) = l  BY <2>1 DEF Lists, Left, Side
  <2>3. Timed(t) \in BOOLEAN  BY DEF Timed
  <2>4. t \in Coming(l)  BY <2>1, <2>2 DEF Coming, Woken
  <2>5. Side(t)' = l /\ Posts'  BY <1>0, <2>1, <2>2 DEF Side, Receiving, Sending, Posts
  <2>6. \A u \in Threads \ {t} : pc'[u] = pc[u]  BY <2>1
  <2>7. /\ pc' \in [Threads -> Places] /\ mail' \in [Threads -> Messages \cup {NoMessage}]
        /\ alive' \in BOOLEAN
    BY <1>0, <2>1 DEF TypeOK
  <2> HIDE DEF l
  <2>8. IInv'  BY <2>1, <2>2, <2>3, <2>4, <2>5, <2>6, <2>7, WaitStep
  <2> QED  BY <2>1, <2>8, SameContents DEF Wait
<1>9. CASE TimeIsUp(t)
  <2>1. /\ ~Suspended(t) /\ error[t] = "EOK"
        /\ Receiving(t) \/ Sending(t)
        /\ Receiving(t) => entry = 0
        /\ Sending(t) => entry = Size
        /\ error' = [error EXCEPT ![t] = IF Receiving(t) THEN "ETIMEOUT" ELSE "EINTR"]
        /\ Done(t) /\ UNCHANGED <<susp, armed, ttmr, expiring, prio, lost, boxVars>>
    BY <1>9 DEF TimeIsUp, Outrun, Runs
  <2>2. /\ pc' \in [Threads -> Places] /\ mail' \in [Threads -> Messages \cup {NoMessage}]
        /\ Posts' /\ alive' = alive
        /\ \A u \in Threads \ {t} : pc'[u] = pc[u]
    BY <1>0, <2>1, DoneFacts
  <2>3. error' \in [Threads -> Errors] /\ \A u \in Threads \ {t} : error'[u] = error[u]
    BY <1>0, <2>1 DEF TypeOK, Errors
  <2>4. TypeOK'  BY <1>0, <2>1, <2>2, <2>3 DEF TypeOK, boxVars
  <2>5. Timers' /\ OffsetsAgree' /\ OnOneList(susp')
    BY <1>0, <2>1 DEF Timers, OffsetsAgree, Sleepers, boxVars, Suspended, ThreadContext
  <2>6. \A l \in Lists : \A u \in Threads :
           Holds(susp'[l], u) => Holds(susp[l], u) /\ pc'[u] = pc[u]
    BY <1>1, <2>1, <2>2
  <2>7. ASSUME NEW l \in Lists
        PROVE  Left(l)' = 0 \/ (Left(l)' = Left(l) /\ \A u \in Threads : u \in Coming(l) => u \in Coming(l)')
    <3>1. Left(l)' = Left(l)  BY <2>1 DEF Left, boxVars
    <3>2. CASE Side(t) = l
      <4>1. Left(l) = 0  BY <2>1, <3>2 DEF Left, Side, Lists
      <4> QED  BY <3>1, <4>1
    <3>3. CASE Side(t) # l
      <4>1. ASSUME NEW u \in Threads, u \in Coming(l) PROVE u \in Coming(l)'
        <5>1. u # t  BY <3>3, <4>1 DEF Coming
        <5> QED  BY <2>1, <2>2, <2>3, <4>1, <5>1
                 DEF Coming, Woken, Side, Receiving, Sending, Suspended
      <4> QED  BY <3>1, <4>1
    <3> QED  BY <3>2, <3>3
  <2>8. IInv'  BY <2>1, <2>2, <2>4, <2>5, <2>6, <2>7, QuietStep
  <2> QED  BY <2>1, <2>8, SameContents
<1> QED  BY <1>3, <1>4, <1>5, <1>6, <1>7, <1>8, <1>9 DEF ThreadOps
-----------------------------------------------------------------------------
\* A thread is unlinked from the list that holds it, if one does.
LEMMA UnlinkStep ==
    ASSUME TypeOK, Sleepers, NEW t, susp' = [l \in DOMAIN susp |-> Unlink(susp[l], t)]
    PROVE  /\ susp' \in [Lists -> Seq(Threads)] /\ OnOneList(susp')
           /\ \A l \in Lists : \A u : Holds(susp'[l], u) <=> Holds(susp[l], u) /\ u # t
           /\ \A u : Suspended(u)' <=> Suspended(u) /\ u # t
<1>1. ListsOf(Threads, Lists, susp)  BY SuspFacts DEF ListsOf, Sleepers
<1>2. susp' = UnlinkAll(susp, t)  BY DEF UnlinkAll
<1>3. /\ ListsOf(Threads, Lists, susp')
      /\ \A l \in Lists : \A u : Holds(susp'[l], u) <=> Holds(susp[l], u) /\ u # t
  BY <1>1, <1>2, UnlinkAllFacts
<1>4. susp' \in [Lists -> Seq(Threads)] /\ OnOneList(susp')  BY <1>3 DEF ListsOf
<1> QED  BY <1>3, <1>4, SuspFacts, SuspFactsNext

\* Timeouts, resumed threads and deleted threads.
LEMMA WaitEventStep ==
    ASSUME IInv,
           \/ ThreadTimeout /\ UNCHANGED mbVars
           \/ \E t \in Threads : WaitEvents(t)
    PROVE  IInv' /\ UNCHANGED Contents
<1>0. TypeOK /\ Sleepers /\ Timers /\ OffsetsAgree /\ Posts  BY DEF IInv, Shape
<1>1. /\ susp \in [Lists -> Seq(Threads)] /\ OnOneList(susp)
      /\ \A u : Suspended(u) <=> \E k \in Lists : Holds(susp[k], u)
  BY <1>0, SuspFacts DEF Sleepers
<1>2. ASSUME UNCHANGED boxVars
      PROVE  /\ OffsetsAgree' /\ UNCHANGED Contents
             /\ \A l \in Lists : Left(l)' = Left(l)
             /\ pool' = pool /\ entry' = entry /\ inOffset' = inOffset /\ outOffset' = outOffset
  BY <1>0, <1>2, SameContents DEF OffsetsAgree, Left, boxVars
<1>3. CASE ThreadTimeout /\ UNCHANGED mbVars
  <2>1. /\ ~ThreadContext /\ expiring' = NoThread
        /\ error' = [error EXCEPT ![expiring] = "ETIMEOUT"]
        /\ susp' = [l \in DOMAIN susp |-> Unlink(susp[l], expiring)]
        /\ UNCHANGED <<armed, ttmr, prio, boxVars, alive, pc, mail, lost>>
    BY <1>3 DEF ThreadTimeout, mbVars
  <2>2. /\ susp' \in [Lists -> Seq(Threads)] /\ OnOneList(susp')
        /\ \A l \in Lists : \A u : Holds(susp'[l], u) <=> Holds(susp[l], u) /\ u # expiring
        /\ \A u : Suspended(u)' <=> Suspended(u) /\ u # expiring
    BY <1>0, <2>1, UnlinkStep
  <2>3. TypeOK'  BY <1>0, <1>2, <2>1, <2>2 DEF TypeOK, Lists, Errors
  <2>4. Timers'  BY <1>0, <2>1, <2>2 DEF Timers, ThreadContext, TypeOK
  <2>5. Posts'  BY <1>0, <2>1 DEF Posts, Sending
  <2>6. ASSUME ~lost', NEW l \in Lists, NEW u \in Threads, u \in Coming(l) PROVE u \in Coming(l)'
    <3>1. u # expiring  BY <1>0, <2>1, <2>6 DEF Timers, Coming, Woken
    <3>2. error'[u] = error[u]  BY <1>0, <2>1, <3>1 DEF TypeOK
    <3> QED  BY <2>1, <2>2, <2>6, <3>2 DEF Coming, Woken, Side, Receiving, Sending
  <2>7. IInv'  BY <1>2, <2>1, <2>2, <2>3, <2>4, <2>5, <2>6, QuietStep
  <2> QED  BY <1>2, <2>1, <2>7
<1>4. ASSUME NEW t \in Threads, TimerPop(t), UNCHANGED mbVars PROVE IInv' /\ UNCHANGED Contents
  <2>1. /\ ThreadContext /\ t \in armed /\ armed' = armed \ {t} /\ expiring' = t
        /\ UNCHANGED <<susp, ttmr, error, prio, boxVars, alive, pc, mail, lost>>
    BY <1>4 DEF TimerPop, mbVars
  <2>2. TypeOK'  BY <1>0, <1>2, <2>1 DEF TypeOK
  <2>3. Timers'  BY <1>0, <2>1 DEF Timers, ThreadContext, Suspended
  <2>4. Posts' /\ OnOneList(susp')  BY <1>0, <1>1, <2>1 DEF Posts, Sending
  <2>5. \A l \in Lists : Coming(l)' = Coming(l)
    BY <2>1 DEF Coming, Woken, Side, Receiving, Sending, Suspended
  <2>6. IInv'  BY <1>2, <2>1, <2>2, <2>3, <2>4, <2>5, QuietStep
  <2> QED  BY <1>2, <2>1, <2>6
<1>5. ASSUME NEW t \in Threads, ThreadResume(t), UNCHANGED mbVars PROVE IInv' /\ UNCHANGED Contents
  <2>1. /\ ThreadContext /\ Suspended(t)
        /\ susp' = [l \in DOMAIN susp |-> Unlink(susp[l], t)]
        /\ ttmr' = ttmr \ {t} /\ armed' = armed \ {t}
        /\ UNCHANGED <<error, expiring, prio, boxVars, alive, pc, mail, lost>>
    BY <1>5 DEF ThreadResume, mbVars
  <2>2. /\ susp' \in [Lists -> Seq(Threads)] /\ OnOneList(susp')
        /\ \A l \in Lists : \A u : Holds(susp'[l], u) <=> Holds(susp[l], u) /\ u # t
        /\ \A u : Suspended(u)' <=> Suspended(u) /\ u # t
    BY <1>0, <2>1, UnlinkStep
  <2>3. TypeOK'  BY <1>0, <1>2, <2>1, <2>2 DEF TypeOK, Lists
  <2>4. Timers'  BY <1>0, <2>1, <2>2 DEF Timers, ThreadContext, TypeOK
  <2>5. Posts'  BY <1>0, <2>1 DEF Posts, Sending
  <2>6. ASSUME NEW l \in Lists, NEW u \in Threads, u \in Coming(l) PROVE u \in Coming(l)'
    BY <2>1, <2>2, <2>6 DEF Coming, Woken, Side, Receiving, Sending
  <2>7. IInv'  BY <1>2, <2>1, <2>2, <2>3, <2>4, <2>5, <2>6, QuietStep
  <2> QED  BY <1>2, <2>1, <2>7
<1>6. ASSUME NEW t \in Threads, Delete(t) PROVE IInv' /\ UNCHANGED Contents
  <2>1. /\ ThreadContext
        /\ susp' = [l \in DOMAIN susp |-> Unlink(susp[l], t)]
        /\ armed' = armed \ {t}
        /\ pc' = [pc EXCEPT ![t] = "dead"]
        /\ lost' = (lost \/ t \in WokenReceivers \cup WokenSenders)
        /\ UNCHANGED <<ttmr, error, expiring, prio, boxVars, alive, mail>>
    BY <1>6 DEF Delete, ThreadClose
  <2>2. /\ susp' \in [Lists -> Seq(Threads)] /\ OnOneList(susp')
        /\ \A l \in Lists : \A u : Holds(susp'[l], u) <=> Holds(susp[l], u) /\ u # t
        /\ \A u : Suspended(u)' <=> Suspended(u) /\ u # t
    BY <1>0, <2>1, UnlinkStep
  <2>3. /\ pc' \in [Threads -> Places] /\ pc'[t] = "dead"
        /\ \A u \in Threads \ {t} : pc'[u] = pc[u]
    BY <1>0, <2>1 DEF TypeOK, Places
  <2>4. lost' \in BOOLEAN  BY <1>0, <2>1 DEF TypeOK
  <2>5. TypeOK'  BY <1>0, <1>2, <2>1, <2>2, <2>3, <2>4 DEF TypeOK, Lists
  <2>6. Timers'  BY <1>0, <2>1, <2>2 DEF Timers, ThreadContext, TypeOK
  <2>7. Posts'  BY <1>0, <2>1, <2>3 DEF Posts, Sending
  <2>8. ASSUME ~lost', NEW l \in Lists, NEW u \in Threads, u \in Coming(l) PROVE u \in Coming(l)'
    <3>1. u # t
      BY <2>1, <2>8 DEF Coming, WokenReceivers, WokenSenders, Side, Lists
    <3> QED  BY <2>1, <2>2, <2>3, <2>8, <3>1 DEF Coming, Woken, Side, Receiving, Sending
  <2>9. \A l \in Lists : \A u \in Threads :
           Holds(susp'[l], u) => Holds(susp[l], u) /\ pc'[u] = pc[u]
    BY <2>2, <2>3
  <2>10. IInv'  BY <1>2, <2>1, <2>2, <2>5, <2>6, <2>7, <2>8, <2>9, QuietStep
  <2> QED  BY <1>2, <2>1, <2>10
<1> QED  BY <1>3, <1>4, <1>5, <1>6 DEF WaitEvents

\* The mailbox is reset or goes away: everybody who sleeps is told.
LEMMA EverybodyResumed ==
    ASSUME IInv, Reset \/ Detach
    PROVE  IInv' /\ (Box!QueueNext \/ UNCHANGED Contents)
<1>0. TypeOK /\ Sleepers /\ Timers /\ OffsetsAgree /\ Posts  BY DEF IInv, Shape
<1>1. /\ ResumeAll(Lists, "ERROR") /\ ThreadContext
      /\ UNCHANGED <<pool, pc, mail, lost>> /\ alive' \in BOOLEAN
  BY <1>0 DEF Reset, Detach, Lists, boxVars, TypeOK
<1>2. /\ susp' = EmptySome(susp, Lists)
      /\ \E w : ttmr' = ttmr \ w /\ armed' = armed \ w
                 /\ (\A t \in Threads : t \in w <=> \E l \in Lists : Holds(susp[l], t))
                 /\ error' = [t \in Threads |-> IF t \in w THEN "ERROR" ELSE error[t]]
      /\ expiring' = expiring
  BY <1>1 DEF ResumeAll, EmptySome
<1>3. /\ susp \in [Lists -> Seq(Threads)]
      /\ \A u : Suspended(u) <=> \E k \in Lists : Holds(susp[k], u)
      /\ ListsOf(Threads, Lists, susp)
  BY <1>0, SuspFacts DEF Sleepers, ListsOf
<1>4. /\ susp' \in [Lists -> Seq(Threads)] /\ OnOneList(susp')
      /\ \A l \in Lists : \A u \in Threads : ~Holds(susp'[l], u)
      /\ \A l \in Lists : susp'[l] = <<>>
  <2>1. ListsOf(Threads, Lists, susp')  BY <1>2, <1>3, EmptySomeFacts
  <2>2. \A l \in Lists : susp'[l] = <<>>  BY <1>2, <1>3 DEF EmptySome
  <2> QED  BY <2>1, <2>2, EmptyHoldsNobody DEF ListsOf
<1>5. error' \in [Threads -> Errors] /\ armed' \subseteq Threads /\ ttmr' \subseteq Threads
  BY <1>0, <1>2 DEF TypeOK, Errors
<1>6. armed' = {}  BY <1>0, <1>2, <1>3 DEF Timers, TypeOK
<1>7. Timers'  BY <1>1, <1>2, <1>6 DEF Timers, ThreadContext
<1>8. Posts'  BY <1>0, <1>1 DEF Posts, Sending
<1>9. CASE Reset
  <2>1. entry' = 0 /\ inOffset' = 0 /\ outOffset' = 0  BY <1>9 DEF Reset
  <2>2. 0 \in 0..Size /\ 0 \in 0..(Size - 1)  OBVIOUS
  <2>3. TypeOK'  BY <1>0, <1>1, <1>2, <1>4, <1>5, <2>1, <2>2 DEF TypeOK, Lists
  <2>4. OffsetsAgree'  BY <2>1 DEF OffsetsAgree
  <2>5. IInv'  BY <1>1, <1>4, <1>7, <1>8, <2>3, <2>4, QuietStep
  <2>6. Contents' = <<>>  BY <2>1 DEF Contents
  <2> QED  BY <2>5, <2>6 DEF Box!QueueNext, Box!Clear
<1>10. CASE Detach
  <2>1. UNCHANGED boxVars  BY <1>10 DEF Detach
  <2>2. TypeOK'  BY <1>0, <1>1, <1>2, <1>4, <1>5, <2>1 DEF TypeOK, Lists, boxVars
  <2>3. OffsetsAgree'  BY <1>0, <2>1 DEF OffsetsAgree, boxVars
  <2>4. IInv'  BY <1>1, <1>4, <1>7, <1>8, <2>2, <2>3, QuietStep
  <2> QED  BY <2>1, <2>4, SameContents
<1> QED  BY <1>9, <1>10

LEMMA InvStep == IInv /\ [Next]_vars => IInv' /\ [Box!QueueNext]_Contents
<1> SUFFICES ASSUME IInv, [Next]_vars PROVE IInv' /\ (Box!QueueNext \/ UNCHANGED Contents)
  OBVIOUS
<1>1. ASSUME NEW t \in Threads, ThreadOps(t) PROVE IInv' /\ (Box!QueueNext \/ UNCHANGED Contents)
  BY <1>1, ThreadStep
<1>2. CASE \E t \in Threads : WaitEvents(t)  BY <1>2, WaitEventStep
<1>3. CASE \E v \in Messages : Send(v) \/ Urgent(v)  BY <1>3, PassingStep
<1>4. CASE Recv  BY <1>4, PassingStep
<1>5. CASE UNCHANGED vars
  <2>1. UNCHANGED <<suspVars, boxVars, alive, pc, mail, lost>>  BY <1>5 DEF vars, mbVars
  <2>2. TypeOK'  BY <2>1 DEF IInv, Shape, TypeOK, suspVars, boxVars
  <2>3. Sleepers' /\ Timers'
    BY <2>1 DEF IInv, Shape, Sleepers, Timers, Side, Receiving, Sending, Suspended,
                ThreadContext, suspVars
  <2>4. OffsetsAgree' /\ Posts'
    BY <2>1 DEF IInv, Shape, OffsetsAgree, Posts, Sending, boxVars
  <2>5. (~lost => Attended)'
    BY <2>1 DEF IInv, Attended, Left, Coming, Woken, Side, Receiving, Sending, Suspended,
                suspVars, boxVars
  <2> QED  BY <2>1, <2>2, <2>3, <2>4, <2>5, SameContents DEF IInv, Shape
<1>6. CASE RecvFails \/ SendFails  BY <1>5, <1>6 DEF RecvFails, SendFails
<1>7. CASE Reset \/ Detach  BY <1>7, EverybodyResumed
<1>8. CASE ThreadTimeout /\ UNCHANGED mbVars  BY <1>8, WaitEventStep
<1> QED  BY <1>1, <1>2, <1>3, <1>4, <1>5, <1>6, <1>7, <1>8 DEF Next

-----------------------------------------------------------------------------
\* What a mailbox keeps in its fields and its two suspend lists has its type.
THEOREM MailboxTypeCorrect == Spec => []TypeOK
<1>1. IInv /\ [Next]_vars => IInv'  BY InvStep
<1>2. IInv => TypeOK  BY DEF IInv, Shape
<1> QED  BY InvInit, <1>1, <1>2, PTL DEF Spec

\* No wakeup is lost: while receivers sleep every mail has somebody awake coming
\* for it, and while senders sleep every free slot has.
THEOREM NobodyForgottenAlways == Spec => []NobodyForgotten
<1>1. IInv /\ [Next]_vars => IInv'  BY InvStep
<1>2. IInv => NobodyForgotten  BY AttendedFacts DEF IInv
<1> QED  BY InvInit, <1>1, <1>2, PTL DEF Spec

\* The mailbox implements a bounded queue: every step of rt_mb_send_wait,
\* rt_mb_urgent, rt_mb_recv and RT_IPC_CMD_RESET is a step of the queue, and no
\* other step touches its contents.
THEOREM MailboxRefinesQueue == Spec => RefinesQueue
<1>1. Init => Box!QueueInit
  <2>1. Init => Contents = <<>>  BY DEF Init, Contents
  <2> QED  BY <2>1 DEF Box!QueueInit
<1>2. IInv /\ [Next]_vars => IInv'  BY InvStep
<1>3. IInv /\ [Next]_vars => [Box!QueueNext]_Contents  BY InvStep
<1> QED  BY InvInit, <1>1, <1>2, <1>3, PTL DEF Spec, RefinesQueue, Box!QueueSpec
=============================================================================
