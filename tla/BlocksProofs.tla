----------------------------- MODULE BlocksProofs -----------------------------
(***************************************************************************)
(* Safety of a memory pool and a data queue at work together, for any      *)
(* finite sets of threads and blocks, any size and any low water mark: no  *)
(* block is in two hands, the ring is a bounded FIFO queue, and no wakeup  *)
(* is lost.                                                                *)
(*                                                                         *)
(* None of these is inductive.  That blocks are in one hand rests on the   *)
(* hands of those who wait (Hands: who waits to push has a block, who      *)
(* waits for a block or an item has none), and on the ring, whose two      *)
(* flags must tell full from empty when its indices meet (RingSound).      *)
(* That no wakeup is lost rests on: each list holds only threads that wait *)
(* there, once (Sleepers); an armed thread timer belongs to a sleeper, and *)
(* as long as no wakeup was lost the thread whose timer was popped still   *)
(* sleeps (Timers); and a reset, which leaves its waiters asleep for a     *)
(* while beside a queue that interrupt handlers fill again, fails those    *)
(* who wait to push after all who wait to pop (ResetOrder).                *)
(***************************************************************************)
EXTENDS Blocks, WaitListProofs, FiniteSetTheorems

RingSound ==
    /\ ~(isEmpty /\ isFull)
    /\ putIndex = getIndex <=> isEmpty \/ isFull

\* Blocks are on the chain fr, in the ring with contents cs, or in one of the
\* hands hv.
OneHand(fr, cs, hv) ==
    /\ fr \in Seq(Blocks) /\ cs \in Seq(Blocks) /\ hv \in [Actors -> Blocks \cup {NoBlock}]
    /\ Distinct(fr) /\ Distinct(cs)
    /\ \A b \in Blocks : Holds(fr, b) => ~Holds(cs, b)
    /\ \A a \in Actors : hv[a] \in Blocks => ~Holds(fr, hv[a]) /\ ~Holds(cs, hv[a])
    /\ \A a, c \in Actors : hv[a] \in Blocks /\ hv[a] = hv[c] => a = c

Hands ==
    \A t \in Threads : /\ pc[t] = "push" => have[t] # NoBlock
                       /\ pc[t] \in {"alloc", "pop"} => have[t] = NoBlock

Sleepers ==
    /\ OnOneList(susp)
    /\ \A l \in Lists : \A t \in Threads : Holds(susp[l], t) => pc[t] = l

Timers ==
    /\ \A t \in armed : t \in ttmr /\ Suspended(t)
    /\ expiring \notin armed
    /\ ~lost /\ ~ThreadContext => Suspended(expiring) /\ expiring \in ttmr

ResetOrder == resetting = "push" => susp["pop"] = <<>>

\* What there is for those who wait: blocks, items, or how far the queue is
\* below the length at which pushers may sleep.  During a reset the queue is not
\* watched.
Mark == IF Lwm < Size THEN Lwm + 1 ELSE Size
Left(l) ==
    CASE l = "alloc" -> Len(free)
      [] l = "pop" -> QueueLen
      [] l = "push" -> Mark - QueueLen

Watched == {"alloc"} \cup (IF resetting \in {"no", "closing"} THEN {"push", "pop"} ELSE {})

Attended == \A l \in Watched : susp[l] # <<>> => Left(l) <= Cardinality(Woken(l))

\* The two halves of TypeOK.
SuspTyped ==
    /\ susp \in [Lists -> Seq(Threads)]
    /\ armed \subseteq Threads /\ ttmr \subseteq Threads
    /\ error \in [Threads -> Errors]
    /\ expiring \in Threads \cup {NoThread}
    /\ lost \in BOOLEAN

DataTyped ==
    /\ free \in Seq(Blocks)
    /\ slots \in [0..(Size - 1) -> Blocks \cup {NoItem}]
    /\ putIndex \in 0..(Size - 1) /\ getIndex \in 0..(Size - 1)
    /\ isEmpty \in BOOLEAN /\ isFull \in BOOLEAN
    /\ poolAlive \in BOOLEAN /\ queueAlive \in BOOLEAN
    /\ resetting \in {"no", "cleared", "closing"} \cup Lists
    /\ have \in [Actors -> Blocks \cup {NoBlock}]
    /\ pc \in [Threads -> Lists \cup {"idle", "dead"}]
    /\ timed \subseteq Threads

Data == DataTyped /\ RingSound /\ OneHand(free, Contents, have) /\ Hands
Shape == SuspTyped /\ Data /\ Sleepers /\ Timers /\ ResetOrder
IInv == Shape /\ (~lost => Attended)

USE BlocksAssumption, QueueAssumption, PoolAssumption, NoThreadAssumption

-----------------------------------------------------------------------------
LEMMA TypeHalves == TypeOK <=> SuspTyped /\ DataTyped
<1>1. {isEmpty, isFull, poolAlive, queueAlive, lost} \subseteq BOOLEAN <=>
        /\ isEmpty \in BOOLEAN /\ isFull \in BOOLEAN /\ poolAlive \in BOOLEAN
        /\ queueAlive \in BOOLEAN /\ lost \in BOOLEAN
  OBVIOUS
<1> QED  BY <1>1 DEF TypeOK, SuspTyped, DataTyped

LEMMA SuspFacts ==
    ASSUME SuspTyped
    PROVE  /\ susp \in [Lists -> Seq(Threads)]
           /\ \A t : Suspended(t) <=> \E l \in Lists : Holds(susp[l], t)
           /\ \A l \in Lists : susp[l] \in Seq(Threads)
           /\ \A l \in Lists : \A t : Holds(susp[l], t) => t \in Threads
<1>1. susp \in [Lists -> Seq(Threads)]  BY DEF SuspTyped
<1>2. \A t : Suspended(t) <=> \E l \in Lists : Holds(susp[l], t)  BY <1>1 DEF Suspended
<1> QED  BY <1>1, <1>2, HeldIsElement

LEMMA SuspFactsNext ==
    ASSUME susp' \in [Lists -> Seq(Threads)]
    PROVE  /\ \A t : Suspended(t)' <=> \E l \in Lists : Holds(susp'[l], t)
           /\ \A l \in Lists : susp'[l] \in Seq(Threads)
  BY DEF Suspended

LEMMA ShrunkList ==
    ASSUME NEW f \in [Lists -> Seq(Threads)], NEW g \in [Lists -> Seq(Threads)], NEW l \in Lists,
           \A u \in Threads : Holds(g[l], u) => Holds(f[l], u), g[l] # <<>>
    PROVE  f[l] # <<>>
<1>1. f[l] \in Seq(Threads) /\ g[l] \in Seq(Threads)  OBVIOUS
<1> QED  BY <1>1, EmptyHoldsNobody

LEMMA WokenFacts ==
    ASSUME NEW l
    PROVE  /\ IsFiniteSet(Woken(l)) /\ Cardinality(Woken(l)) \in Nat
           /\ Woken(l) \in SUBSET Threads
           /\ IsFiniteSet(Woken(l)') /\ Cardinality(Woken(l)') \in Nat
           /\ Woken(l)' \in SUBSET Threads
<1>1. Woken(l) \in SUBSET Threads /\ Woken(l)' \in SUBSET Threads  BY DEF Woken
<1> QED  BY <1>1, FS_Subset, FS_CardinalityType

-----------------------------------------------------------------------------
\* The ring: its two flags and two indices tell its length.
LEMMA LenFacts ==
    ASSUME DataTyped, RingSound
    PROVE  /\ QueueLen \in 0..Size
           /\ isEmpty <=> QueueLen = 0
           /\ isFull <=> QueueLen = Size
           /\ putIndex = Wrap(getIndex + QueueLen, Size)
<1>1. /\ putIndex \in 0..(Size - 1) /\ getIndex \in 0..(Size - 1)
      /\ isEmpty \in BOOLEAN /\ isFull \in BOOLEAN
  BY DEF DataTyped
<1>2. QueueLen \in 0..Size /\ (isEmpty <=> QueueLen = 0) /\ (isFull <=> QueueLen = Size)
  BY <1>1 DEF QueueLen, RingSound
<1>3. putIndex = Wrap(getIndex + QueueLen, Size)
  <2> DEFINE e == getIndex + QueueLen
  <2>1. e \in 0..(2 * Size - 1)  BY <1>1, <1>2
  <2> HIDE DEF e
  <2>2. Wrap(e, Size) = IF e < Size THEN e ELSE e - Size  BY <2>1, WrapFacts
  <2> USE DEF e
  <2> QED  BY <1>1, <2>2 DEF QueueLen, RingSound
<1> QED  BY <1>2, <1>3

LEMMA ContentsFacts ==
    ASSUME DataTyped, RingSound
    PROVE  /\ IsRing(Blocks \cup {NoItem}, Size, slots, getIndex, QueueLen)
           /\ Len(Contents) = QueueLen
           /\ Contents = RingOf(slots, getIndex, QueueLen, Size)
           /\ Contents' = RingOf(slots', getIndex', QueueLen', Size)
<1>1. IsRing(Blocks \cup {NoItem}, Size, slots, getIndex, QueueLen)
  BY LenFacts DEF DataTyped, IsRing
<1>2. /\ Contents = RingOf(slots, getIndex, QueueLen, Size)
      /\ Contents' = RingOf(slots', getIndex', QueueLen', Size)
  BY DEF Contents, RingOf, Wrap
<1>3. RingElements(Blocks \cup {NoItem}, Size, slots, getIndex, QueueLen)  BY <1>1, RingIsSeq
<1> QED  BY <1>1, <1>2, <1>3 DEF RingElements

LEMMA RingPutStep ==
    ASSUME DataTyped, RingSound, NEW v \in Blocks, PutItem(v)
    PROVE  /\ slots' \in [0..(Size - 1) -> Blocks \cup {NoItem}]
           /\ putIndex' \in 0..(Size - 1) /\ getIndex' \in 0..(Size - 1)
           /\ isEmpty' \in BOOLEAN /\ isFull' \in BOOLEAN
           /\ queueAlive' = queueAlive /\ resetting' = resetting /\ WakeFirst("pop")
           /\ RingSound' /\ QueueLen' = QueueLen + 1
           /\ Len(Contents) < Size /\ Contents' = Append(Contents, v)
<1>1. /\ putIndex \in 0..(Size - 1) /\ getIndex \in 0..(Size - 1)
      /\ isEmpty \in BOOLEAN /\ isFull \in BOOLEAN
      /\ slots \in [0..(Size - 1) -> Blocks \cup {NoItem}]
  BY DEF DataTyped
<1>2. /\ ~isFull /\ slots' = [slots EXCEPT ![putIndex] = v]
      /\ putIndex' = IF putIndex + 1 = Size THEN 0 ELSE putIndex + 1
      /\ isEmpty' = FALSE /\ isFull' = (putIndex' = getIndex)
      /\ getIndex' = getIndex /\ queueAlive' = queueAlive /\ resetting' = resetting
      /\ WakeFirst("pop")
  BY DEF PutItem, Wrapped
<1>3. putIndex' \in 0..(Size - 1)  BY <1>1, <1>2
<1>4. RingSound' /\ QueueLen' = QueueLen + 1
  <2>1. ~isEmpty' /\ (isFull' <=> putIndex' = getIndex')  BY <1>2
  <2>2. RingSound'  BY <2>1 DEF RingSound
  <2>3. QueueLen' = IF putIndex' > getIndex THEN putIndex' - getIndex ELSE Size + putIndex' - getIndex
    BY <1>2, <2>1 DEF QueueLen
  <2>4. CASE isEmpty  BY <1>1, <1>2, <2>2, <2>3, <2>4 DEF RingSound, QueueLen
  <2>5. CASE ~isEmpty  BY <1>1, <1>2, <2>2, <2>3, <2>5 DEF RingSound, QueueLen
  <2> QED  BY <2>2, <2>4, <2>5
<1>5. Contents' = Append(Contents, v)
  <2>1. QueueLen # Size /\ v \in Blocks \cup {NoItem}  BY <1>2, LenFacts
  <2>2. IsRing(Blocks \cup {NoItem}, Size, slots, getIndex, QueueLen)  BY ContentsFacts
  <2>3. RingOf(Store(slots, Wrap(getIndex + QueueLen, Size), v), getIndex, QueueLen + 1, Size)
          = Append(RingOf(slots, getIndex, QueueLen, Size), v)
    BY <2>1, <2>2, RingPut
  <2>4. slots' = Store(slots, Wrap(getIndex + QueueLen, Size), v)
    BY <1>2, LenFacts DEF Store
  <2> QED  BY <1>2, <1>4, <2>3, <2>4, ContentsFacts
<1>6. Len(Contents) < Size  BY <1>2, LenFacts, ContentsFacts
<1> QED  BY <1>1, <1>2, <1>3, <1>4, <1>5, <1>6

LEMMA RingGetStep ==
    ASSUME DataTyped, RingSound, GetItem
    PROVE  /\ putIndex' \in 0..(Size - 1) /\ getIndex' \in 0..(Size - 1)
           /\ isEmpty' \in BOOLEAN /\ isFull' \in BOOLEAN /\ slots' = slots
           /\ queueAlive' = queueAlive /\ resetting' = resetting
           /\ RingSound' /\ QueueLen' = QueueLen - 1
           /\ Contents # <<>> /\ Contents' = Tail(Contents) /\ FirstItem = Head(Contents)
<1>1. /\ putIndex \in 0..(Size - 1) /\ getIndex \in 0..(Size - 1)
      /\ isEmpty \in BOOLEAN /\ isFull \in BOOLEAN
      /\ slots \in [0..(Size - 1) -> Blocks \cup {NoItem}]
  BY DEF DataTyped
<1>2. /\ ~isEmpty /\ getIndex' = IF getIndex + 1 = Size THEN 0 ELSE getIndex + 1
      /\ isFull' = FALSE /\ isEmpty' = (putIndex = getIndex')
      /\ slots' = slots /\ putIndex' = putIndex /\ queueAlive' = queueAlive
      /\ resetting' = resetting
  BY DEF GetItem, Wrapped
<1>3. getIndex' \in 0..(Size - 1)  BY <1>1, <1>2
<1>4. RingSound' /\ QueueLen' = QueueLen - 1
  <2>1. ~isFull' /\ (isEmpty' <=> putIndex' = getIndex')  BY <1>2
  <2>2. RingSound'  BY <2>1 DEF RingSound
  <2>3. QueueLen = IF putIndex > getIndex THEN putIndex - getIndex ELSE Size + putIndex - getIndex
    BY <1>2 DEF QueueLen
  <2>4. CASE putIndex = getIndex'
    BY <1>1, <1>2, <2>1, <2>2, <2>3, <2>4 DEF QueueLen
  <2>5. CASE putIndex # getIndex'
    BY <1>1, <1>2, <2>1, <2>2, <2>3, <2>5 DEF QueueLen
  <2> QED  BY <2>2, <2>4, <2>5
<1>5. QueueLen \in 0..Size /\ QueueLen # 0  BY <1>2, LenFacts
<1>6. IsRing(Blocks \cup {NoItem}, Size, slots, getIndex, QueueLen)  BY ContentsFacts
<1>7. Contents # <<>> /\ Contents' = Tail(Contents)
  <2>1. getIndex' = Wrap(getIndex + 1, Size)  BY <1>1, <1>2, <1>5, WrapSteps
  <2>2. /\ RingOf(slots, getIndex, QueueLen, Size) # <<>>
        /\ RingOf(slots, Wrap(getIndex + 1, Size), QueueLen - 1, Size)
             = Tail(RingOf(slots, getIndex, QueueLen, Size))
    BY <1>5, <1>6, RingGet
  <2> QED  BY <1>2, <1>4, <2>1, <2>2, ContentsFacts
<1>8. FirstItem = Head(Contents)
  <2>1. RingElements(Blocks \cup {NoItem}, Size, slots, getIndex, QueueLen)
    BY <1>6, RingIsSeq
  <2>2. Contents[1] = slots[Wrap(getIndex + 1 - 1, Size)] /\ Contents \in Seq(Blocks \cup {NoItem})
    BY <1>5, <2>1, ContentsFacts DEF RingElements
  <2>3. getIndex + 1 - 1 = getIndex /\ getIndex \in 0..(2 * Size - 1)  BY <1>1
  <2>4. Wrap(getIndex, Size) = getIndex  BY <1>1, <2>3, WrapFacts
  <2> QED  BY <1>7, <2>2, <2>3, <2>4, HeadTailProperties DEF FirstItem
<1> QED  BY <1>1, <1>2, <1>3, <1>4, <1>7, <1>8
-----------------------------------------------------------------------------
\* What the four ways of a block do to who has it.
LEMMA TakeOneHand ==
    ASSUME NEW fr, NEW cs, NEW hv, OneHand(fr, cs, hv), fr # <<>>,
           NEW a \in Actors, hv[a] = NoBlock
    PROVE  OneHand(Tail(fr), cs, [hv EXCEPT ![a] = Head(fr)]) /\ Head(fr) \in Blocks
<1> DEFINE g == [hv EXCEPT ![a] = Head(fr)]
<1>1. /\ Head(fr) \in Blocks /\ Holds(fr, Head(fr))
      /\ Tail(fr) \in Seq(Blocks) /\ Distinct(Tail(fr))
      /\ \A u : Holds(Tail(fr), u) <=> Holds(fr, u) /\ u # Head(fr)
  BY TailFacts DEF OneHand
<1>2. g \in [Actors -> Blocks \cup {NoBlock}]  BY <1>1 DEF OneHand
<1>3. g[a] = Head(fr) /\ \A c \in Actors \ {a} : g[c] = hv[c]  BY DEF OneHand
<1> HIDE DEF g
<1>4. ~Holds(cs, Head(fr)) /\ \A c \in Actors : hv[c] # Head(fr)  BY <1>1 DEF OneHand
<1>5. \A c \in Actors : g[c] \in Blocks => ~Holds(Tail(fr), g[c]) /\ ~Holds(cs, g[c])
  BY <1>1, <1>3, <1>4 DEF OneHand
<1>6. \A c, d \in Actors : g[c] \in Blocks /\ g[c] = g[d] => c = d
  BY <1>1, <1>3, <1>4 DEF OneHand
<1> QED  BY <1>1, <1>2, <1>5, <1>6 DEF OneHand, g

LEMMA GiveOneHand ==
    ASSUME NEW fr, NEW cs, NEW hv, OneHand(fr, cs, hv), NEW a \in Actors, hv[a] # NoBlock
    PROVE  /\ OneHand(<<hv[a]>> \o fr, cs, [hv EXCEPT ![a] = NoBlock])
           /\ Len(<<hv[a]>> \o fr) = Len(fr) + 1
<1> DEFINE g == [hv EXCEPT ![a] = NoBlock]
           b == hv[a]
           q == <<b>> \o fr
<1>1. b \in Blocks /\ ~Holds(fr, b) /\ ~Holds(cs, b)  BY DEF OneHand
<1>2. g \in [Actors -> Blocks \cup {NoBlock}]  BY DEF OneHand
<1>3. g[a] = NoBlock /\ \A c \in Actors \ {a} : g[c] = hv[c]  BY DEF OneHand
<1>4. \A c \in Actors \ {a} : hv[c] # b  BY <1>1 DEF OneHand
<1> HIDE DEF g, b
<1>5. /\ q \in Seq(Blocks) /\ Distinct(q) /\ Len(q) = Len(fr) + 1
      /\ \A u : Holds(q, u) <=> Holds(fr, u) \/ u = b
  BY <1>1, PrependFacts DEF OneHand
<1> HIDE DEF q
<1>6. \A c \in Actors : g[c] \in Blocks => ~Holds(q, g[c]) /\ ~Holds(cs, g[c])
  BY <1>3, <1>4, <1>5 DEF OneHand
<1>7. \A c, d \in Actors : g[c] \in Blocks /\ g[c] = g[d] => c = d
  BY <1>3 DEF OneHand
<1>8. \A u \in Blocks : Holds(q, u) => ~Holds(cs, u)  BY <1>1, <1>5 DEF OneHand
<1> QED  BY <1>2, <1>5, <1>6, <1>7, <1>8 DEF OneHand, g, b, q

LEMMA PutOneHand ==
    ASSUME NEW fr, NEW cs, NEW hv, OneHand(fr, cs, hv), NEW a \in Actors, hv[a] # NoBlock
    PROVE  OneHand(fr, Append(cs, hv[a]), [hv EXCEPT ![a] = NoBlock]) /\ hv[a] \in Blocks
<1> DEFINE g == [hv EXCEPT ![a] = NoBlock]
           b == hv[a]
           q == Append(cs, b)
<1>1. b \in Blocks /\ ~Holds(fr, b) /\ ~Holds(cs, b)  BY DEF OneHand
<1>2. g \in [Actors -> Blocks \cup {NoBlock}]  BY DEF OneHand
<1>3. g[a] = NoBlock /\ \A c \in Actors \ {a} : g[c] = hv[c]  BY DEF OneHand
<1>4. \A c \in Actors \ {a} : hv[c] # b  BY <1>1 DEF OneHand
<1> HIDE DEF g, b
<1>5. /\ q \in Seq(Blocks) /\ Distinct(q)
      /\ \A u : Holds(q, u) <=> Holds(cs, u) \/ u = b
  BY <1>1, AppendFacts DEF OneHand
<1> HIDE DEF q
<1>6. \A c \in Actors : g[c] \in Blocks => ~Holds(fr, g[c]) /\ ~Holds(q, g[c])
  BY <1>3, <1>4, <1>5 DEF OneHand
<1>7. \A c, d \in Actors : g[c] \in Blocks /\ g[c] = g[d] => c = d
  BY <1>3 DEF OneHand
<1>8. \A u \in Blocks : Holds(fr, u) => ~Holds(q, u)  BY <1>1, <1>5 DEF OneHand
<1> QED  BY <1>1, <1>2, <1>5, <1>6, <1>7, <1>8 DEF OneHand, g, b, q

LEMMA GetOneHand ==
    ASSUME NEW fr, NEW cs, NEW hv, OneHand(fr, cs, hv), cs # <<>>,
           NEW a \in Actors, hv[a] = NoBlock
    PROVE  OneHand(fr, Tail(cs), [hv EXCEPT ![a] = Head(cs)])
<1> DEFINE g == [hv EXCEPT ![a] = Head(cs)]
<1>1. /\ Head(cs) \in Blocks /\ Holds(cs, Head(cs))
      /\ Tail(cs) \in Seq(Blocks) /\ Distinct(Tail(cs))
      /\ \A u : Holds(Tail(cs), u) <=> Holds(cs, u) /\ u # Head(cs)
  BY TailFacts DEF OneHand
<1>2. g \in [Actors -> Blocks \cup {NoBlock}]  BY <1>1 DEF OneHand
<1>3. g[a] = Head(cs) /\ \A c \in Actors \ {a} : g[c] = hv[c]  BY DEF OneHand
<1> HIDE DEF g
<1>4. ~Holds(fr, Head(cs)) /\ \A c \in Actors : hv[c] # Head(cs)  BY <1>1 DEF OneHand
<1>5. \A c \in Actors : g[c] \in Blocks => ~Holds(fr, g[c]) /\ ~Holds(Tail(cs), g[c])
  BY <1>1, <1>3, <1>4 DEF OneHand
<1>6. \A c, d \in Actors : g[c] \in Blocks /\ g[c] = g[d] => c = d
  BY <1>1, <1>3, <1>4 DEF OneHand
<1> QED  BY <1>1, <1>2, <1>5, <1>6 DEF OneHand, g

\* A ring that was reset has lost its blocks, not doubled them.
LEMMA ClearOneHand ==
    ASSUME NEW fr, NEW cs, NEW hv, OneHand(fr, cs, hv)
    PROVE  OneHand(fr, <<>>, hv)
<1>1. <<>> \in Seq(Blocks) /\ Distinct(<<>>) /\ \A u : ~Holds(<<>>, u)  BY DEF Distinct, Holds
<1> QED  BY <1>1 DEF OneHand

\* What the property says of the cardinality of HeldBy.
LEMMA ExclusiveFacts == OneHand(free, Contents, have) => BlocksExclusive
<1> SUFFICES ASSUME OneHand(free, Contents, have) PROVE BlocksExclusive  OBVIOUS
<1>1. \A b : InRing(b) <=> Holds(Contents, b)  BY DEF InRing, Holds
<1>2. ASSUME NEW b \in Blocks PROVE Cardinality(HeldBy(b)) <= 1
  <2>1. CASE HeldBy(b) = {}  BY <2>1, FS_EmptySet
  <2>2. ASSUME NEW a, a \in HeldBy(b) PROVE Cardinality(HeldBy(b)) <= 1
    <3>1. HeldBy(b) = {a}  BY <2>2 DEF HeldBy, OneHand
    <3>2. Cardinality({a}) = 1  BY FS_Singleton, Zenon
    <3> QED  BY <3>1, <3>2
  <2> QED  BY <2>1, <2>2
<1>3. ASSUME NEW b \in Blocks, Holds(free, b) \/ Holds(Contents, b) PROVE HeldBy(b) = {}
  BY <1>3 DEF HeldBy, OneHand
<1> QED  BY <1>1, <1>2, <1>3 DEF BlocksExclusive, OneHand
-----------------------------------------------------------------------------
LEMMA InvInit == Init => IInv
<1> SUFFICES ASSUME Init PROVE IInv  OBVIOUS
<1> USE DEF Init, PoolInit, RingInit
<1>1. free \in Seq(Blocks) /\ Distinct(free)
  <2> DEFINE n == Cardinality(Blocks)
  <2>1. n \in Nat  BY FS_CardinalityType
  <2>2. free \in [1..n -> Blocks] /\ Distinct(free)  OBVIOUS
  <2> HIDE DEF n, Init, PoolInit, RingInit
  <2> QED  BY <2>1, <2>2, SeqDef
<1>2. TypeOK
  <2>1. <<>> \in Seq(Threads)  OBVIOUS
  <2>2. susp \in [Lists -> Seq(Threads)]  BY <2>1
  <2>3. 0 \in 0..(Size - 1)  OBVIOUS
  <2>4. /\ slots \in [0..(Size - 1) -> Blocks \cup {NoItem}]
        /\ have \in [Actors -> Blocks \cup {NoBlock}]
    OBVIOUS
  <2>5. pc \in [Threads -> Lists \cup {"idle", "dead"}] /\ error \in [Threads -> Errors]
    BY DEF Errors
  <2>6. {isEmpty, isFull, poolAlive, queueAlive, lost} \subseteq BOOLEAN  OBVIOUS
  <2> QED  BY <1>1, <2>2, <2>3, <2>4, <2>5, <2>6 DEF TypeOK
<1>3. QueueLen = 0 /\ RingSound  BY DEF QueueLen, RingSound
<1>4. OneHand(free, Contents, have)
  <2>1. Contents = <<>>  BY <1>3 DEF Contents
  <2>2. <<>> \in Seq(Blocks) /\ Distinct(<<>>) /\ \A u : ~Holds(<<>>, u)  BY DEF Distinct, Holds
  <2>3. have \in [Actors -> Blocks \cup {NoBlock}] /\ \A a \in Actors : have[a] \notin Blocks
    OBVIOUS
  <2> HIDE DEF Init, PoolInit, RingInit
  <2> QED  BY <1>1, <2>1, <2>2, <2>3 DEF OneHand
<1>5. Hands  BY DEF Hands
<1>6. Sleepers
  <2>1. OnOneList(susp)  BY DEF OnOneList, Distinct, Holds
  <2>2. \A l \in Lists : susp[l] = <<>>  OBVIOUS
  <2>3. \A t : ~Holds(<<>>, t)  BY DEF Holds
  <2> QED  BY <2>1, <2>2, <2>3 DEF Sleepers
<1>7. Timers  BY DEF Timers, ThreadContext
<1>8. ResetOrder  BY DEF ResetOrder
<1>9. Attended
  <2>1. \A l \in Watched : susp[l] = <<>>  BY DEF Watched, Lists
  <2> QED  BY <2>1 DEF Attended
<1> QED  BY <1>2, <1>3, <1>4, <1>5, <1>6, <1>7, <1>8, <1>9, TypeHalves DEF IInv, Shape, Data

\* Three ways in which a list whose waiters were attended to stays so: nothing
\* was added and nobody woken is gone; one was added and one more is awake; one
\* was taken away by one of those who were awake.
LEMMA StillAttended ==
    ASSUME NEW l, Left(l) \in Int, Left(l)' \in Int,
           Left(l) <= Cardinality(Woken(l)),
           \/ Left(l)' <= Left(l) /\ \A u \in Threads : u \in Woken(l) => u \in Woken(l)'
           \/ /\ Left(l)' <= Left(l) + 1
              /\ \E h \in Threads : h \notin Woken(l) /\ h \in Woken(l)'
              /\ \A u \in Threads : u \in Woken(l) => u \in Woken(l)'
           \/ /\ Left(l)' <= Left(l) - 1
              /\ \E t : \A u \in Threads \ {t} : u \in Woken(l) => u \in Woken(l)'
    PROVE  Left(l)' <= Cardinality(Woken(l)')
<1>1. CASE Left(l)' <= Left(l) /\ \A u \in Threads : u \in Woken(l) => u \in Woken(l)'
  <2>1. Woken(l) \in SUBSET (Woken(l)')  BY <1>1, WokenFacts
  <2>2. Cardinality(Woken(l)) <= Cardinality(Woken(l)')  BY <2>1, WokenFacts, FS_Subset
  <2> QED  BY <1>1, <2>2, WokenFacts
<1>2. CASE /\ Left(l)' <= Left(l) + 1
           /\ \E h \in Threads : h \notin Woken(l) /\ h \in Woken(l)'
           /\ \A u \in Threads : u \in Woken(l) => u \in Woken(l)'
  <2>1. PICK h \in Threads : h \notin Woken(l) /\ h \in Woken(l)'  BY <1>2
  <2>2. Woken(l) \cup {h} \in SUBSET (Woken(l)')  BY <1>2, <2>1, WokenFacts
  <2>3. Cardinality(Woken(l) \cup {h}) <= Cardinality(Woken(l)')
    BY <2>2, WokenFacts, FS_Subset
  <2>4. Cardinality(Woken(l) \cup {h}) = Cardinality(Woken(l)) + 1
    BY <2>1, WokenFacts, FS_AddElement
  <2> QED  BY <1>2, <2>3, <2>4, WokenFacts
<1>3. CASE /\ Left(l)' <= Left(l) - 1
           /\ \E t : \A u \in Threads \ {t} : u \in Woken(l) => u \in Woken(l)'
  <2>1. PICK t : \A u \in Threads \ {t} : u \in Woken(l) => u \in Woken(l)'  BY <1>3
  <2>2. Woken(l) \ {t} \in SUBSET (Woken(l)')  BY <2>1, WokenFacts
  <2>3. Cardinality(Woken(l) \ {t}) <= Cardinality(Woken(l)')
    BY <2>2, WokenFacts, FS_Subset
  <2>4. Cardinality(Woken(l) \ {t}) =
          IF t \in Woken(l) THEN Cardinality(Woken(l)) - 1 ELSE Cardinality(Woken(l))
    BY WokenFacts, FS_RemoveElement
  <2> QED  BY <1>3, <2>3, <2>4, WokenFacts
<1> QED  BY <1>1, <1>2, <1>3

LEMMA LeftFacts ==
    ASSUME NEW l \in Lists
    PROVE  /\ DataTyped /\ RingSound => Left(l) \in Int
           /\ DataTyped' /\ RingSound' => Left(l)' \in Int
<1>1. DataTyped /\ RingSound => QueueLen \in 0..Size  BY LenFacts
<1>2. ASSUME DataTyped', RingSound' PROVE QueueLen' \in 0..Size
  <2>1. /\ putIndex' \in 0..(Size - 1) /\ getIndex' \in 0..(Size - 1)
        /\ isEmpty' \in BOOLEAN /\ isFull' \in BOOLEAN
    BY <1>2 DEF DataTyped
  <2>2. QueueLen' = IF isEmpty' THEN 0
                    ELSE IF putIndex' > getIndex' THEN putIndex' - getIndex'
                    ELSE Size + putIndex' - getIndex'
    BY DEF QueueLen
  <2>3. \A p, g \in 0..(Size - 1) : /\ p > g => p - g \in 0..Size
                                    /\ ~(p > g) => Size + p - g \in 0..Size
    OBVIOUS
  <2>4. /\ putIndex' > getIndex' => putIndex' - getIndex' \in 0..Size
        /\ ~(putIndex' > getIndex') => Size + putIndex' - getIndex' \in 0..Size
    BY <2>1, <2>3
  <2>5. 0 \in 0..Size  OBVIOUS
  <2> QED  BY <2>2, <2>3, <2>4, <2>5
<1>3. Mark \in Int  BY DEF Mark
<1>4. DataTyped => Len(free) \in Int  BY LenProperties DEF DataTyped
<1>5. DataTyped' => Len(free') \in Int  BY LenProperties DEF DataTyped
<1> QED  BY <1>1, <1>2, <1>3, <1>4, <1>5 DEF Left, Lists
-----------------------------------------------------------------------------
\* A step after which nobody sleeps who did not before, and nobody who was woken
\* is gone, unless there is nothing for them or nobody sleeps beside it.
LEMMA QuietStep ==
    ASSUME IInv, SuspTyped', Data', Timers', ResetOrder', OnOneList(susp'),
           \A l \in Lists : \A u \in Threads :
              Holds(susp'[l], u) => Holds(susp[l], u) /\ pc'[u] = pc[u],
           ~lost' => ~lost,
           \A l \in Lists : ~lost' /\ l \in Watched' =>
              \/ susp'[l] = <<>>
              \/ Left(l)' <= 0
              \/ /\ l \in Watched /\ Left(l)' <= Left(l)
                 /\ \A u \in Threads : u \in Woken(l) => u \in Woken(l)'
    PROVE  IInv'
<1>1. susp \in [Lists -> Seq(Threads)] /\ susp' \in [Lists -> Seq(Threads)]
  BY DEF IInv, Shape, SuspTyped
<1>2. Sleepers'  BY DEF IInv, Shape, Sleepers
<1>3. Watched' \in SUBSET Lists  BY DEF Watched, Lists
<1>4. ASSUME ~lost', NEW l \in Lists, l \in Watched', susp'[l] # <<>>
      PROVE  Left(l)' <= Cardinality(Woken(l)')
  <2>0. Left(l) \in Int /\ Left(l)' \in Int  BY LeftFacts DEF IInv, Shape, Data
  <2>1. CASE Left(l)' <= 0  BY <2>0, <2>1, WokenFacts
  <2>2. CASE /\ l \in Watched /\ Left(l)' <= Left(l)
             /\ \A u \in Threads : u \in Woken(l) => u \in Woken(l)'
    <3>1. susp[l] # <<>>  BY <1>1, <1>4, ShrunkList
    <3>2. Left(l) <= Cardinality(Woken(l))  BY <1>4, <2>2, <3>1 DEF IInv, Attended
    <3> QED  BY <2>0, <2>2, <3>2, StillAttended
  <2> QED  BY <1>4, <2>1, <2>2
<1>5. ~lost' => Attended'  BY <1>3, <1>4 DEF Attended
<1> QED  BY <1>2, <1>5 DEF IInv, Shape

\* A waker of list l, or of none.
Wakes(l) ==
    IF l \in Lists THEN WakeFirst(l) /\ lost' = (lost \/ Misses(l))
    ELSE UNCHANGED <<suspVars, lost>>

LEMMA WakeFacts ==
    ASSUME SuspTyped, Sleepers, Timers, NEW l, Wakes(l)
    PROVE  /\ SuspTyped' /\ OnOneList(susp')
           /\ expiring' = expiring /\ (~lost' => ~lost)
           /\ Timers'
           /\ \E w \in SUBSET Threads :
                 /\ \A k \in Lists : \A u : Holds(susp'[k], u) <=> Holds(susp[k], u) /\ u \notin w
                 /\ \A u \in Threads : error'[u] = IF u \in w THEN "EOK" ELSE error[u]
                 /\ \A u \in w : l \in Lists /\ Holds(susp[l], u)
                 /\ ~lost' /\ l \in Lists /\ susp[l] # <<>> => \E h : w = {h}
<1>0. /\ susp \in [Lists -> Seq(Threads)] /\ OnOneList(susp)
      /\ \A t : Suspended(t) <=> \E k \in Lists : Holds(susp[k], t)
  BY SuspFacts DEF Sleepers
<1>1. CASE l \notin Lists \/ susp[l] = <<>>
  <2>1. UNCHANGED <<suspVars, lost>>
    BY <1>1 DEF Wakes, WakeFirst, Misses, SuspTyped
  <2>2. Timers'  BY <2>1 DEF Timers, suspVars, Suspended, ThreadContext
  <2>3. {} \in SUBSET Threads  OBVIOUS
  <2> QED  BY <1>0, <1>1, <2>1, <2>2, <2>3 DEF suspVars, SuspTyped
<1>2. CASE l \in Lists /\ susp[l] # <<>>
  <2> DEFINE h == Head(susp[l])
             g == [susp EXCEPT ![l] = Tail(@)]
  <2>1. Dequeue(l, "EOK") /\ lost' = (lost \/ Raced(h))
    BY <1>2 DEF Wakes, WakeFirst, Misses
  <2>2. /\ g \in [Lists -> Seq(Threads)]
        /\ OnOneList(g)
        /\ h \in Threads /\ Holds(susp[l], h)
        /\ \A k \in Lists : \A u : Holds(g[k], u) <=> Holds(susp[k], u) /\ u # h
    <3>1. g = TailOne(susp, l)  BY DEF TailOne
    <3>2. ListsOf(Threads, Lists, susp)  BY <1>0 DEF ListsOf
    <3> HIDE DEF g
    <3>3. ListsOf(Threads, Lists, g) /\ h \in Threads /\ Holds(susp[l], h)
          /\ \A k \in Lists : \A u : Holds(g[k], u) <=> Holds(susp[k], u) /\ u # h
      BY <1>2, <3>1, <3>2, TailOneFacts
    <3> QED  BY <3>3 DEF ListsOf
  <2>3. /\ ttmr' = ttmr \ {h} /\ expiring' = expiring
        /\ armed' = IF h \in ttmr THEN armed \ {h} ELSE armed
        /\ Raced(h) => UNCHANGED <<susp, error>>
        /\ ~Raced(h) => susp' = g /\ error' = [error EXCEPT ![h] = "EOK"]
    BY <2>1 DEF Dequeue
  <2> HIDE DEF h, g
  <2>4. armed' = armed \ {h}  BY <2>3 DEF Timers
  <2>5. CASE Raced(h)
    <3>1. lost' /\ lost' \in BOOLEAN  BY <2>1, <2>5 DEF SuspTyped
    <3>2. UNCHANGED <<susp, error>>  BY <2>3, <2>5
    <3>3. h \notin armed  BY <2>5 DEF Raced
    <3>4. Timers'  BY <2>3, <2>4, <3>1, <3>2, <3>3 DEF Timers, Suspended
    <3>5. {} \in SUBSET Threads  OBVIOUS
    <3> QED  BY <1>0, <2>3, <2>4, <3>1, <3>2, <3>4, <3>5 DEF SuspTyped
  <2>6. CASE ~Raced(h)
    <3>1. susp' = g /\ error' = [error EXCEPT ![h] = "EOK"] /\ lost' = lost
      BY <2>1, <2>3, <2>6 DEF SuspTyped
    <3>2. \A t : Suspended(t)' <=> \E k \in Lists : Holds(susp'[k], t)
      BY <2>2, <3>1, SuspFactsNext
    <3>3. Timers'
      <4>1. \A t \in armed' : t \in ttmr' /\ Suspended(t)'
        BY <1>0, <2>2, <2>3, <2>4, <3>1, <3>2 DEF Timers
      <4>2. ~lost /\ ~ThreadContext => expiring # h
        BY <2>6 DEF Timers, Raced
      <4>3. ~lost' /\ ~ThreadContext' => Suspended(expiring)' /\ expiring' \in ttmr'
        BY <1>0, <2>2, <2>3, <3>1, <3>2, <4>2 DEF Timers, ThreadContext
      <4> QED  BY <2>3, <2>4, <4>1, <4>3 DEF Timers
    <3>4. {h} \in SUBSET Threads  BY <2>2
    <3>5. error' \in [Threads -> Errors]  BY <2>2, <3>1 DEF SuspTyped, Errors
    <3>6. \A u \in Threads : error'[u] = IF u \in {h} THEN "EOK" ELSE error[u]
      BY <3>1 DEF SuspTyped
    <3>7. \A k \in Lists : \A u : Holds(susp'[k], u) <=> Holds(susp[k], u) /\ u \notin {h}
      BY <2>2, <3>1
    <3>8. SuspTyped'  BY <2>2, <2>3, <2>4, <3>1, <3>5 DEF SuspTyped
    <3>9. \E w \in SUBSET Threads :
             /\ \A k \in Lists : \A u : Holds(susp'[k], u) <=> Holds(susp[k], u) /\ u \notin w
             /\ \A u \in Threads : error'[u] = IF u \in w THEN "EOK" ELSE error[u]
             /\ \A u \in w : l \in Lists /\ Holds(susp[l], u)
             /\ ~lost' /\ l \in Lists /\ susp[l] # <<>> => \E x : w = {x}
      <4>1. \A u \in {h} : l \in Lists /\ Holds(susp[l], u)  BY <1>2, <2>2
      <4>2. \E x : {h} = {x}  OBVIOUS
      <4> QED  BY <3>4, <3>6, <3>7, <4>1, <4>2
    <3> QED  BY <2>2, <2>3, <3>1, <3>3, <3>8, <3>9
  <2> QED  BY <2>5, <2>6
<1> QED  BY <1>1, <1>2

\* A block or an item is put or taken, and the first of those who wait on list l
\* is woken, or nobody; d are the threads whose call that is, if it waited.
LEMMA PassStep ==
    ASSUME IInv, NEW l, Wakes(l), Data', resetting' = resetting,
           NEW d \in SUBSET Threads, d = {} \/ \E t : d = {t},
           \A t \in d : ~Suspended(t),
           \A t \in Threads \ d : pc'[t] = pc[t],
           l \in Lists => Left(l)' <= Left(l) + 1 /\ \A t \in d : pc[t] # l,
           \A k \in Lists \ {l} :
              \/ Left(k)' <= 0
              \/ Left(k)' <= Left(k) /\ \A t \in d : pc[t] # k
              \/ Left(k)' <= Left(k) - 1
    PROVE  IInv'
<1>0. SuspTyped /\ Data /\ Sleepers /\ Timers /\ ResetOrder  BY DEF IInv, Shape
<1>1. /\ susp \in [Lists -> Seq(Threads)]
      /\ \A t : Suspended(t) <=> \E k \in Lists : Holds(susp[k], t)
  BY <1>0, SuspFacts
<1>2. /\ SuspTyped' /\ susp' \in [Lists -> Seq(Threads)] /\ OnOneList(susp')
      /\ Timers' /\ (~lost' => ~lost)
      /\ \A t : Suspended(t)' <=> \E k \in Lists : Holds(susp'[k], t)
  BY <1>0, WakeFacts, SuspFactsNext DEF SuspTyped
<1>3. PICK w \in SUBSET Threads :
         /\ \A k \in Lists : \A u : Holds(susp'[k], u) <=> Holds(susp[k], u) /\ u \notin w
         /\ \A u \in Threads : error'[u] = IF u \in w THEN "EOK" ELSE error[u]
         /\ \A u \in w : l \in Lists /\ Holds(susp[l], u)
         /\ ~lost' /\ l \in Lists /\ susp[l] # <<>> => \E h : w = {h}
  BY <1>0, WakeFacts
<1>4. Sleepers'  BY <1>0, <1>1, <1>2, <1>3 DEF Sleepers
<1>5. \A u \in w : pc[u] = l /\ Suspended(u) /\ u \notin d
  BY <1>0, <1>1, <1>3 DEF Sleepers
<1>6. ResetOrder'
  <2>1. ASSUME resetting = "push" PROVE susp'["pop"] = <<>>
    <3>1. "pop" \in Lists /\ susp["pop"] = <<>>  BY <1>0, <2>1 DEF ResetOrder, Lists
    <3>2. \A u \in Threads : Holds(susp'["pop"], u) => Holds(susp["pop"], u)
      BY <1>3, <3>1
    <3>3. susp["pop"] \in Seq(Threads) /\ susp'["pop"] \in Seq(Threads)  BY <1>1, <1>2, <3>1
    <3> QED  BY <3>1, <3>2, <3>3, EmptyHoldsNobody
  <2> QED  BY <2>1 DEF ResetOrder
<1>7. Watched' = Watched /\ Watched \in SUBSET Lists  BY DEF Watched, Lists
<1>8. ASSUME ~lost', NEW k \in Lists, k \in Watched, susp'[k] # <<>>
      PROVE  Left(k)' <= Cardinality(Woken(k)')
  <2>0. Left(k) \in Int /\ Left(k)' \in Int  BY <1>0, LeftFacts DEF Data
  <2>1. susp[k] # <<>>  BY <1>1, <1>2, <1>3, <1>8, ShrunkList
  <2>2. Left(k) <= Cardinality(Woken(k))  BY <1>2, <1>8, <2>1 DEF IInv, Attended
  <2>3. ASSUME NEW u \in Threads, u \notin d, u \in Woken(k) PROVE u \in Woken(k)'
    <3>1. pc[u] = k /\ ~Suspended(u) /\ error[u] = "EOK"  BY <2>3 DEF Woken
    <3>2. ~Suspended(u)' /\ error'[u] = "EOK"  BY <1>1, <1>2, <1>3, <3>1
    <3> QED  BY <2>3, <3>1, <3>2 DEF Woken
  <2>4. ASSUME \A t \in d : pc[t] # k, NEW u \in Threads, u \in Woken(k) PROVE u \in Woken(k)'
    BY <2>3, <2>4 DEF Woken
  <2>5. CASE k = l
    <3>1. PICK h : w = {h}  BY <1>3, <1>8, <2>1, <2>5
    <3>2. h \in Threads /\ h \notin Woken(l)  BY <1>5, <3>1 DEF Woken
    <3>3. h \in Woken(l)'
      <4>1. ~Suspended(h)'
        BY <1>0, <1>1, <1>2, <1>3, <1>5, <3>1, OneListOnly DEF Sleepers
      <4>2. pc'[h] = l /\ error'[h] = "EOK"  BY <1>3, <1>5, <3>1, <3>2
      <4> QED  BY <3>2, <4>1, <4>2 DEF Woken
    <3>4. Left(k)' <= Left(k) + 1 /\ \A t \in d : pc[t] # k  BY <2>5
    <3>5. \A u \in Threads : u \in Woken(k) => u \in Woken(k)'  BY <2>4, <3>4
    <3> QED  BY <2>0, <2>2, <2>5, <3>2, <3>3, <3>4, <3>5, StillAttended
  <2>6. CASE k # l
    <3>1. CASE Left(k)' <= 0  BY <2>0, <3>1, WokenFacts
    <3>2. CASE Left(k)' <= Left(k) /\ \A t \in d : pc[t] # k
      <4>1. \A u \in Threads : u \in Woken(k) => u \in Woken(k)'  BY <2>4, <3>2
      <4> QED  BY <2>0, <2>2, <3>2, <4>1, StillAttended
    <3>3. CASE Left(k)' <= Left(k) - 1
      <4>1. \E t : \A u \in Threads \ {t} : u \in Woken(k) => u \in Woken(k)'
        BY <2>3
      <4> QED  BY <2>0, <2>2, <3>3, <4>1, StillAttended
    <3> QED  BY <2>6, <3>1, <3>2, <3>3
  <2> QED  BY <2>5, <2>6
<1>9. ~lost' => Attended'  BY <1>7, <1>8 DEF Attended
<1> QED  BY <1>2, <1>4, <1>6, <1>9 DEF IInv, Shape

\* The same for the waiter t, which has what it waited for and goes.
LEMMA PassOne ==
    ASSUME IInv, NEW l, Wakes(l), Data', resetting' = resetting,
           NEW t \in Threads, ~Suspended(t),
           \A u \in Threads \ {t} : pc'[u] = pc[u],
           l \in Lists => Left(l)' <= Left(l) + 1 /\ pc[t] # l,
           \A k \in Lists \ {l} :
              \/ Left(k)' <= 0
              \/ Left(k)' <= Left(k) /\ pc[t] # k
              \/ Left(k)' <= Left(k) - 1
    PROVE  IInv'
<1> DEFINE d == {t}
<1>1. d \in SUBSET Threads /\ \E x : d = {x}  OBVIOUS
<1>2. \A x : x \in d <=> x = t  OBVIOUS
<1> HIDE DEF d
<1>3. \A x \in d : ~Suspended(x)  BY <1>2
<1>4. \A x \in Threads \ d : pc'[x] = pc[x]  BY <1>2
<1>5. l \in Lists => Left(l)' <= Left(l) + 1 /\ \A x \in d : pc[x] # l  BY <1>2
<1>6. \A k \in Lists \ {l} :
         \/ Left(k)' <= 0
         \/ Left(k)' <= Left(k) /\ \A x \in d : pc[x] # k
         \/ Left(k)' <= Left(k) - 1
  BY <1>2
<1> QED  BY <1>1, <1>3, <1>4, <1>5, <1>6, PassStep

\* A wait begins, or begins anew, because there is nothing to come for.
LEMMA WaitStep ==
    ASSUME IInv, NEW t \in Threads, NEW l \in Lists, NEW tm \in BOOLEAN,
           ThreadsRun, ~Suspended(t), SuspendWith(t, l, "FIFO", tm, "EOK"), Left(l) <= 0,
           UNCHANGED <<lost, poolVars, queueVars>>,
           Data', pc'[t] = l, pc[t] \in {l, "idle"},
           \A u \in Threads \ {t} : pc'[u] = pc[u]
    PROVE  IInv'
<1>0. SuspTyped /\ Data /\ Sleepers /\ Timers /\ ResetOrder  BY DEF IInv, Shape
<1>1. /\ susp \in [Lists -> Seq(Threads)]
      /\ \A u : Suspended(u) <=> \E k \in Lists : Holds(susp[k], u)
  BY <1>0, SuspFacts
<1>2. /\ susp' = [susp EXCEPT ![l] = Enqueue(@, t, "FIFO", prio)]
      /\ armed' = IF tm THEN armed \cup {t} ELSE armed \ {t}
      /\ ttmr' = IF tm THEN ttmr \cup {t} ELSE ttmr \ {t}
      /\ error' = [error EXCEPT ![t] = "EOK"]
      /\ UNCHANGED <<expiring, lost, free, slots, putIndex, getIndex, isEmpty, isFull, resetting>>
      /\ ThreadContext /\ resetting \in {"no", "cleared", "closing"}
  BY DEF SuspendWith, poolVars, queueVars, ringVars, ThreadsRun
<1>3. /\ susp' \in [Lists -> Seq(Threads)] /\ OnOneList(susp')
      /\ \A k \in Lists : \A u : Holds(susp'[k], u) <=> Holds(susp[k], u) \/ (k = l /\ u = t)
  <2>1. \A k \in Lists : ~Holds(susp[k], t)  BY <1>1
  <2>2. ListsOf(Threads, Lists, susp)  BY <1>0, <1>1 DEF ListsOf, Sleepers
  <2>3. ListsOf(Threads, Lists, susp')
        /\ \A k \in Lists : \A u : Holds(susp'[k], u) <=> Holds(susp[k], u) \/ (k = l /\ u = t)
    <3>1. susp' = EnqueueOne(susp, l, t, "FIFO", prio)  BY <1>2 DEF EnqueueOne
    <3> QED  BY <2>1, <2>2, <3>1, EnqueueOneFacts
  <2> QED  BY <2>3 DEF ListsOf
<1>4. \A u : Suspended(u)' <=> \E k \in Lists : Holds(susp'[k], u)  BY <1>3, SuspFactsNext
<1>5. SuspTyped'  BY <1>0, <1>2, <1>3 DEF SuspTyped, Errors
<1>6. Sleepers'
  <2>1. ASSUME NEW k \in Lists, NEW u \in Threads, Holds(susp'[k], u) PROVE pc'[u] = k
    <3>1. CASE u = t
      <4>1. ~Holds(susp[k], t)  BY <1>1
      <4> QED  BY <1>3, <2>1, <3>1, <4>1
    <3>2. CASE u # t  BY <1>0, <1>3, <2>1, <3>2 DEF Sleepers
    <3> QED  BY <3>1, <3>2
  <2> QED  BY <1>3, <2>1 DEF Sleepers
<1>7. Timers'  BY <1>0, <1>1, <1>2, <1>3, <1>4 DEF Timers, ThreadContext, SuspTyped
<1>8. ResetOrder'  BY <1>2 DEF ResetOrder
<1>9. Watched' = Watched /\ Watched \in SUBSET Lists  BY <1>2 DEF Watched, Lists
<1>10. \A k \in Lists : Left(k)' = Left(k)  BY <1>2 DEF Left, QueueLen
<1>11. ASSUME ~lost', NEW k \in Lists, k \in Watched, susp'[k] # <<>>
       PROVE  Left(k)' <= Cardinality(Woken(k)')
  <2>0. Left(k) \in Int  BY <1>0, LeftFacts DEF Data
  <2>1. CASE k = l  BY <1>10, <2>0, <2>1, WokenFacts
  <2>2. CASE k # l
    <3>1. susp[k] # <<>>  BY <1>1, <1>2, <1>11, <2>2
    <3>2. Left(k) <= Cardinality(Woken(k))  BY <1>2, <1>11, <3>1 DEF IInv, Attended
    <3>3. ASSUME NEW u \in Threads, u \in Woken(k) PROVE u \in Woken(k)'
      <4>1. pc[u] = k /\ ~Suspended(u) /\ error[u] = "EOK"  BY <3>3 DEF Woken
      <4>2. u # t  BY <2>2, <4>1 DEF Lists
      <4>3. ~Suspended(u)'  BY <1>1, <1>3, <1>4, <4>1, <4>2
      <4>4. error'[u] = "EOK"  BY <1>0, <1>2, <4>1, <4>2 DEF SuspTyped
      <4> QED  BY <4>1, <4>2, <4>3, <4>4 DEF Woken
    <3> QED  BY <1>10, <2>0, <3>2, <3>3, StillAttended
  <2> QED  BY <2>1, <2>2
<1>12. ~lost' => Attended'  BY <1>9, <1>11 DEF Attended
<1> QED  BY <1>5, <1>6, <1>7, <1>8, <1>12 DEF IInv, Shape
-----------------------------------------------------------------------------
\* What the four ways of a block do to the data.
LEMMA TakeData ==
    ASSUME Data, TakeBlock, NEW a \in Actors, have[a] = NoBlock,
           have' = [have EXCEPT ![a] = Head(free)], UNCHANGED queueVars,
           pc' \in [Threads -> Lists \cup {"idle", "dead"}], timed' \subseteq Threads,
           \A t \in Threads : pc'[t] \in {"idle", "dead"} \/ (pc'[t] = pc[t] /\ t # a)
    PROVE  Data' /\ Len(free)' = Len(free) - 1 /\ QueueLen' = QueueLen /\ Contents' = Contents
<1>0. DataTyped /\ RingSound /\ OneHand(free, Contents, have) /\ Hands  BY DEF Data
<1>1. /\ free # <<>> /\ free' = Tail(free) /\ poolAlive' = poolAlive
      /\ UNCHANGED <<slots, putIndex, getIndex, isEmpty, isFull, queueAlive, resetting>>
  BY DEF TakeBlock, queueVars, ringVars
<1>2. QueueLen' = QueueLen /\ Contents' = Contents /\ RingSound'
  BY <1>0, <1>1 DEF QueueLen, Contents, RingSound
<1>3. OneHand(free', Contents', have') /\ Head(free) \in Blocks
  BY <1>0, <1>1, <1>2, TakeOneHand
<1>4. /\ free' \in Seq(Blocks) /\ have' \in [Actors -> Blocks \cup {NoBlock}]
      /\ Len(free') = Len(free) - 1
  BY <1>0, <1>1, <1>3, HeadTailProperties DEF OneHand, DataTyped
<1>5. DataTyped'  BY <1>0, <1>1, <1>4 DEF DataTyped
<1>6. \A c \in Actors \ {a} : have'[c] = have[c]  BY <1>0 DEF DataTyped
<1>7. Hands'  BY <1>0, <1>6 DEF Hands, Actors
<1> QED  BY <1>2, <1>3, <1>4, <1>5, <1>7 DEF Data

LEMMA GiveData ==
    ASSUME Data, NEW a \in Actors, GiveBlock(have[a]), have[a] # NoBlock,
           have' = [have EXCEPT ![a] = NoBlock], UNCHANGED <<queueVars, pc, timed>>,
           a # Isr => pc[a] = "idle"
    PROVE  Data' /\ Len(free)' = Len(free) + 1 /\ QueueLen' = QueueLen /\ Contents' = Contents
<1>0. DataTyped /\ RingSound /\ OneHand(free, Contents, have) /\ Hands  BY DEF Data
<1>1. /\ free' = <<have[a]>> \o free /\ poolAlive' = poolAlive
      /\ UNCHANGED <<slots, putIndex, getIndex, isEmpty, isFull, queueAlive, resetting, pc, timed>>
  BY DEF GiveBlock, queueVars, ringVars
<1>2. QueueLen' = QueueLen /\ Contents' = Contents /\ RingSound'
  BY <1>0, <1>1 DEF QueueLen, Contents, RingSound
<1>3. OneHand(free', Contents', have') /\ Len(free') = Len(free) + 1
  BY <1>0, <1>1, <1>2, GiveOneHand
<1>4. free' \in Seq(Blocks) /\ have' \in [Actors -> Blocks \cup {NoBlock}]
  BY <1>3 DEF OneHand
<1>5. DataTyped'  BY <1>0, <1>1, <1>4 DEF DataTyped
<1>6. \A c \in Actors \ {a} : have'[c] = have[c]  BY <1>0 DEF DataTyped
<1>7. Hands'  BY <1>0, <1>1, <1>6 DEF Hands, Actors
<1> QED  BY <1>2, <1>3, <1>5, <1>7 DEF Data

LEMMA PutData ==
    ASSUME Data, NEW a \in Actors, PutItem(have[a]), have[a] # NoBlock,
           have' = [have EXCEPT ![a] = NoBlock], UNCHANGED poolVars,
           pc' \in [Threads -> Lists \cup {"idle", "dead"}], timed' \subseteq Threads,
           \A t \in Threads : pc'[t] \in {"idle", "dead"} \/ (pc'[t] = pc[t] /\ t # a)
    PROVE  /\ Data' /\ free' = free /\ QueueLen' = QueueLen + 1 /\ resetting' = resetting
           /\ Ring!Put(have[a]) /\ have[a] \in Blocks /\ WakeFirst("pop")
<1>0. DataTyped /\ RingSound /\ OneHand(free, Contents, have) /\ Hands  BY DEF Data
<1>1. have[a] \in Blocks /\ free' = free /\ poolAlive' = poolAlive
  BY <1>0, PutOneHand DEF poolVars
<1>2. /\ slots' \in [0..(Size - 1) -> Blocks \cup {NoItem}]
      /\ putIndex' \in 0..(Size - 1) /\ getIndex' \in 0..(Size - 1)
      /\ isEmpty' \in BOOLEAN /\ isFull' \in BOOLEAN
      /\ queueAlive' = queueAlive /\ resetting' = resetting /\ WakeFirst("pop")
      /\ RingSound' /\ QueueLen' = QueueLen + 1
      /\ Len(Contents) < Size /\ Contents' = Append(Contents, have[a])
  BY <1>0, <1>1, RingPutStep
<1>3. OneHand(free', Contents', have')  BY <1>0, <1>1, <1>2, PutOneHand
<1>4. have' \in [Actors -> Blocks \cup {NoBlock}]  BY <1>3 DEF OneHand
<1>5. DataTyped'  BY <1>0, <1>1, <1>2, <1>4 DEF DataTyped
<1>6. \A c \in Actors \ {a} : have'[c] = have[c]  BY <1>0 DEF DataTyped
<1>7. Hands'  BY <1>0, <1>6 DEF Hands, Actors
<1> QED  BY <1>1, <1>2, <1>3, <1>5, <1>7 DEF Data, Ring!Put

LEMMA GetData ==
    ASSUME Data, NEW a \in Actors, GetItem, have[a] = NoBlock,
           have' = [have EXCEPT ![a] = FirstItem], UNCHANGED poolVars,
           pc' \in [Threads -> Lists \cup {"idle", "dead"}], timed' \subseteq Threads,
           \A t \in Threads : pc'[t] \in {"idle", "dead"} \/ (pc'[t] = pc[t] /\ t # a)
    PROVE  /\ Data' /\ free' = free /\ QueueLen' = QueueLen - 1 /\ resetting' = resetting
           /\ Ring!Get
<1>0. DataTyped /\ RingSound /\ OneHand(free, Contents, have) /\ Hands  BY DEF Data
<1>1. free' = free /\ poolAlive' = poolAlive  BY DEF poolVars
<1>2. /\ putIndex' \in 0..(Size - 1) /\ getIndex' \in 0..(Size - 1)
      /\ isEmpty' \in BOOLEAN /\ isFull' \in BOOLEAN /\ slots' = slots
      /\ queueAlive' = queueAlive /\ resetting' = resetting
      /\ RingSound' /\ QueueLen' = QueueLen - 1
      /\ Contents # <<>> /\ Contents' = Tail(Contents) /\ FirstItem = Head(Contents)
  BY <1>0, RingGetStep
<1>3. OneHand(free', Contents', have')  BY <1>0, <1>1, <1>2, GetOneHand
<1>4. have' \in [Actors -> Blocks \cup {NoBlock}]  BY <1>3 DEF OneHand
<1>5. DataTyped'  BY <1>0, <1>1, <1>2, <1>4 DEF DataTyped
<1>6. \A c \in Actors \ {a} : have'[c] = have[c]  BY <1>0 DEF DataTyped
<1>7. Hands'  BY <1>0, <1>6 DEF Hands, Actors
<1> QED  BY <1>1, <1>2, <1>3, <1>5, <1>7 DEF Data, Ring!Get
-----------------------------------------------------------------------------
\* What every step does to the queue: FifoSpec's next-state relation.
QueueStep ==
    Ring!Get \/ Ring!Clear \/ (\E v \in Blocks : Ring!Put(v)) \/ UNCHANGED Contents

\* What the calls leave for those who wait.
LEMMA LeftSteps ==
    ASSUME DataTyped, RingSound
    PROVE  /\ Left("alloc")' = Len(free)' /\ Left("alloc") = Len(free) /\ Len(free) \in Nat
           /\ Left("pop")' = QueueLen' /\ Left("pop") = QueueLen
           /\ Left("push")' = Mark - QueueLen' /\ Left("push") = Mark - QueueLen
           /\ QueueLen \in 0..Size /\ Mark \in 0..Size
           /\ ~ReachesMark => Mark - (QueueLen - 1) <= 0
           /\ \A k : k \in Lists <=> k = "alloc" \/ k = "push" \/ k = "pop"
           /\ "none" \notin Lists /\ {} \in SUBSET Threads
<1>1. QueueLen \in 0..Size  BY LenFacts
<1>2. Mark \in 0..Size  BY DEF Mark
<1>3. ~ReachesMark => Mark - (QueueLen - 1) <= 0  BY <1>1 DEF ReachesMark, Mark
<1>4. \A k : k \in Lists <=> k = "alloc" \/ k = "push" \/ k = "pop"  BY DEF Lists
<1>5. Len(free) \in Nat  BY LenProperties DEF DataTyped
<1>6. /\ Left("alloc")' = Len(free)' /\ Left("alloc") = Len(free)
      /\ Left("pop")' = QueueLen' /\ Left("pop") = QueueLen
      /\ Left("push")' = Mark - QueueLen' /\ Left("push") = Mark - QueueLen
  BY DEF Left, Mark
<1> QED  BY <1>1, <1>2, <1>3, <1>4, <1>5, <1>6

\* As PassStep, when no waiting call is at its end.
LEMMA SectionStep ==
    ASSUME IInv, NEW l, Wakes(l), Data', resetting' = resetting, pc' = pc,
           l \in Lists => Left(l)' <= Left(l) + 1,
           \A k \in Lists \ {l} : Left(k)' <= 0 \/ Left(k)' <= Left(k)
    PROVE  IInv'
<1> DEFINE d == {}
<1>1. /\ d \in SUBSET Threads /\ d = {}
      /\ \A t \in d : ~Suspended(t)
      /\ \A t \in Threads \ d : pc'[t] = pc[t]
      /\ \A k : \A t \in d : pc[t] # k
  OBVIOUS
<1> HIDE DEF d
<1>2. l \in Lists => Left(l)' <= Left(l) + 1 /\ \A t \in d : pc[t] # l  BY <1>1
<1>3. \A k \in Lists \ {l} :
         \/ Left(k)' <= 0
         \/ Left(k)' <= Left(k) /\ \A t \in d : pc[t] # k
         \/ Left(k)' <= Left(k) - 1
  BY <1>1
<1> QED  BY <1>1, <1>2, <1>3, PassStep

LEMMA CallStep ==
    ASSUME IInv, NEW a \in Actors, Alloc(a) \/ Free(a) \/ Push(a) \/ Pop(a)
    PROVE  IInv' /\ QueueStep
<1>0. /\ SuspTyped /\ Data /\ DataTyped /\ RingSound /\ Hands
      /\ pc \in [Threads -> Lists \cup {"idle", "dead"}] /\ timed \subseteq Threads
  BY DEF IInv, Shape, Data, DataTyped
<1>1. Acts(a) /\ UNCHANGED <<pc, timed>>  BY DEF Alloc, Free, Push, Pop
<1>2. /\ a # Isr => pc[a] = "idle"
      /\ \A t \in Threads : pc'[t] \in {"idle", "dead"} \/ (pc'[t] = pc[t] /\ t # a)
  BY <1>1 DEF Acts
<1>3. /\ Left("alloc")' = Len(free)' /\ Left("alloc") = Len(free) /\ Len(free) \in Nat
      /\ Left("pop")' = QueueLen' /\ Left("pop") = QueueLen
      /\ Left("push")' = Mark - QueueLen' /\ Left("push") = Mark - QueueLen
      /\ QueueLen \in 0..Size /\ Mark \in 0..Size
      /\ ~ReachesMark => Mark - (QueueLen - 1) <= 0
      /\ \A k : k \in Lists <=> k = "alloc" \/ k = "push" \/ k = "pop"
      /\ "none" \notin Lists /\ {} \in SUBSET Threads
  BY <1>0, LeftSteps
<1>4. CASE Alloc(a)
  <2>1. /\ have[a] = NoBlock /\ TakeBlock /\ have' = [have EXCEPT ![a] = Head(free)]
        /\ UNCHANGED <<queueVars, pc, timed, lost>>
    BY <1>4 DEF Alloc
  <2>2. Data' /\ Len(free)' = Len(free) - 1 /\ QueueLen' = QueueLen /\ Contents' = Contents
    BY <1>0, <1>2, <2>1, TakeData
  <2>3. Wakes("none") /\ resetting' = resetting  BY <1>3, <2>1 DEF Wakes, TakeBlock, queueVars
  <2>4. \A k \in Lists : Left(k)' <= Left(k)
    BY <1>3, <2>2
  <2>5. IInv'  BY <1>3, <2>1, <2>2, <2>3, <2>4, SectionStep
  <2> QED  BY <2>2, <2>5 DEF QueueStep
<1>5. CASE Free(a)
  <2>1. /\ have[a] # NoBlock /\ GiveBlock(have[a]) /\ have' = [have EXCEPT ![a] = NoBlock]
        /\ lost' = (lost \/ Misses("alloc")) /\ UNCHANGED <<queueVars, pc, timed>>
    BY <1>5 DEF Free
  <2>2. Data' /\ Len(free)' = Len(free) + 1 /\ QueueLen' = QueueLen /\ Contents' = Contents
    BY <1>0, <1>2, <2>1, GiveData
  <2>3. Wakes("alloc") /\ resetting' = resetting  BY <1>3, <2>1 DEF Wakes, GiveBlock, queueVars
  <2>4. Left("alloc")' <= Left("alloc") + 1 /\ \A k \in Lists \ {"alloc"} : Left(k)' <= Left(k)
    BY <1>3, <2>2
  <2>5. IInv'  BY <1>3, <2>1, <2>2, <2>3, <2>4, SectionStep
  <2> QED  BY <2>2, <2>5 DEF QueueStep
<1>6. CASE Push(a)
  <2>1. /\ have[a] # NoBlock /\ PutItem(have[a]) /\ have' = [have EXCEPT ![a] = NoBlock]
        /\ lost' = (lost \/ Misses("pop")) /\ UNCHANGED <<poolVars, pc, timed>>
    BY <1>6 DEF Push
  <2>2. /\ Data' /\ free' = free /\ QueueLen' = QueueLen + 1 /\ resetting' = resetting
        /\ Ring!Put(have[a]) /\ have[a] \in Blocks /\ WakeFirst("pop")
    BY <1>0, <1>2, <2>1, PutData
  <2>3. Wakes("pop")  BY <1>3, <2>1, <2>2 DEF Wakes
  <2>4. Left("pop")' <= Left("pop") + 1 /\ \A k \in Lists \ {"pop"} : Left(k)' <= Left(k)
    BY <1>3, <2>2
  <2>5. IInv'  BY <1>3, <2>1, <2>2, <2>3, <2>4, SectionStep
  <2> QED  BY <2>2, <2>5 DEF QueueStep
<1>7. CASE Pop(a)
  <2>1. /\ have[a] = NoBlock /\ GetItem /\ have' = [have EXCEPT ![a] = FirstItem]
        /\ lost' = (lost \/ (ReachesMark /\ Misses("push"))) /\ UNCHANGED <<poolVars, pc, timed>>
    BY <1>7 DEF Pop
  <2>2. /\ Data' /\ free' = free /\ QueueLen' = QueueLen - 1 /\ resetting' = resetting
        /\ Ring!Get
    BY <1>0, <1>2, <2>1, GetData
  <2>3. CASE ReachesMark
    <3>1. Wakes("push")  BY <1>3, <2>1, <2>3 DEF Wakes, GetItem
    <3>2. Left("push")' <= Left("push") + 1 /\ \A k \in Lists \ {"push"} : Left(k)' <= Left(k)
      BY <1>3, <2>2
    <3>3. IInv'  BY <1>3, <2>1, <2>2, <3>1, <3>2, SectionStep
    <3> QED  BY <2>2, <3>3 DEF QueueStep
  <2>4. CASE ~ReachesMark
    <3>1. Wakes("none")  BY <1>0, <1>3, <2>1, <2>4 DEF Wakes, GetItem, SuspTyped
    <3>2. \A k \in Lists : Left(k)' <= 0 \/ Left(k)' <= Left(k)
      BY <1>3, <2>2, <2>4
    <3>3. IInv'  BY <1>3, <2>1, <2>2, <3>1, <3>2, SectionStep
    <3> QED  BY <2>2, <3>3 DEF QueueStep
  <2> QED  BY <2>3, <2>4
<1> QED  BY <1>4, <1>5, <1>6, <1>7
-----------------------------------------------------------------------------
\* A step that leaves pool, queue and hands alone, and only ends calls or begins
\* such that fit the hands.
LEMMA KeptData ==
    ASSUME Data, UNCHANGED <<poolVars, queueVars, have>>,
           pc' \in [Threads -> Lists \cup {"idle", "dead"}], timed' \subseteq Threads,
           \A t \in Threads : \/ pc'[t] \in {"idle", "dead"}
                              \/ pc'[t] = pc[t]
                              \/ pc'[t] = "push" /\ have[t] # NoBlock
                              \/ pc'[t] \in {"alloc", "pop"} /\ have[t] = NoBlock
    PROVE  /\ Data' /\ Contents' = Contents
           /\ Watched' = Watched /\ resetting' = resetting
           /\ \A k \in Lists : Left(k)' = Left(k)
<1>0. DataTyped /\ RingSound /\ OneHand(free, Contents, have) /\ Hands  BY DEF Data
<1>1. UNCHANGED <<free, poolAlive, slots, putIndex, getIndex, isEmpty, isFull, queueAlive,
                  resetting, have>>
  BY DEF poolVars, queueVars, ringVars
<1>2. QueueLen' = QueueLen /\ Contents' = Contents /\ RingSound' /\ Watched' = Watched
  BY <1>0, <1>1 DEF QueueLen, Contents, RingSound, Watched
<1>3. DataTyped'  BY <1>0, <1>1 DEF DataTyped
<1>4. Hands'  BY <1>0, <1>1 DEF Hands
<1>5. \A k \in Lists : Left(k)' = Left(k)  BY <1>1, <1>2 DEF Left, Mark
<1> QED  BY <1>0, <1>1, <1>2, <1>3, <1>4, <1>5 DEF Data

\* A step that leaves the lists and timers alone.
LEMMA KeptSusp ==
    ASSUME SuspTyped, Sleepers, Timers, UNCHANGED <<suspVars, lost>>
    PROVE  /\ SuspTyped' /\ Timers' /\ OnOneList(susp') /\ (~lost' => ~lost)
           /\ susp' = susp /\ error' = error /\ (ThreadContext' <=> ThreadContext)
           /\ \A t : Suspended(t)' <=> Suspended(t)
<1>1. UNCHANGED <<susp, armed, ttmr, error, expiring, prio, lost>>  BY DEF suspVars
<1> QED  BY <1>1 DEF SuspTyped, Timers, Sleepers, Suspended, ThreadContext

\* A thread is unlinked from the list that holds it, if one does.
LEMMA UnlinkStep ==
    ASSUME SuspTyped, Sleepers, NEW t, susp' = [l \in DOMAIN susp |-> Unlink(susp[l], t)]
    PROVE  /\ susp' \in [Lists -> Seq(Threads)] /\ OnOneList(susp')
           /\ \A l \in Lists : \A u : Holds(susp'[l], u) <=> Holds(susp[l], u) /\ u # t
           /\ \A u : Suspended(u)' <=> Suspended(u) /\ u # t
           /\ \A l \in Lists : susp[l] = <<>> => susp'[l] = <<>>
<1>1. ListsOf(Threads, Lists, susp)  BY SuspFacts DEF ListsOf, Sleepers
<1>2. susp' = UnlinkAll(susp, t)  BY DEF UnlinkAll
<1>3. /\ ListsOf(Threads, Lists, susp')
      /\ \A l \in Lists : \A u : Holds(susp'[l], u) <=> Holds(susp[l], u) /\ u # t
  BY <1>1, <1>2, UnlinkAllFacts
<1>4. susp' \in [Lists -> Seq(Threads)] /\ OnOneList(susp')  BY <1>3 DEF ListsOf
<1>5. ASSUME NEW l \in Lists, susp[l] = <<>> PROVE susp'[l] = <<>>
  <2>1. \A u : ~Holds(<<>>, u)  BY DEF Holds
  <2>2. susp'[l] \in Seq(Threads) /\ \A u \in Threads : ~Holds(susp'[l], u)
    BY <1>3, <1>4, <1>5, <2>1
  <2> QED  BY <2>2, EmptyHoldsNobody
<1> QED  BY <1>3, <1>4, <1>5, SuspFacts, SuspFactsNext

\* A thread waits, or waits again.
LEMMA WaitsStep ==
    ASSUME IInv, NEW t \in Threads, NEW l \in Lists, NEW tm \in BOOLEAN,
           ThreadsRun, ~Suspended(t), Waits(t, l, tm), UNCHANGED <<have, lost>>,
           pc' \in [Threads -> Lists \cup {"idle", "dead"}], timed' \subseteq Threads,
           pc'[t] = l, pc[t] \in {l, "idle"},
           \A u \in Threads \ {t} : pc'[u] = pc[u]
    PROVE  IInv' /\ UNCHANGED Contents
<1>0. Data /\ DataTyped /\ RingSound  BY DEF IInv, Shape, Data
<1>1. UNCHANGED <<poolVars, queueVars>> /\ SuspendWith(t, l, "FIFO", tm, "EOK")
  BY DEF Waits, WaitForBlock, WaitForRoom, WaitForItem
<1>2. /\ Left("alloc") = Len(free) /\ Left("pop") = QueueLen /\ Left("push") = Mark - QueueLen
      /\ QueueLen \in 0..Size /\ Mark \in 0..Size
  BY <1>0, LeftSteps
<1>3. Left(l) <= 0
  <2>1. CASE l = "alloc"
    <3>1. free = <<>>  BY <2>1 DEF Waits, WaitForBlock
    <3> QED  BY <1>2, <2>1, <3>1
  <2>2. CASE l = "push"
    <3>1. QueueLen = Size  BY <1>0, <2>2, LenFacts DEF Waits, WaitForRoom
    <3> QED  BY <1>2, <2>2, <3>1
  <2>3. CASE l = "pop"
    <3>1. QueueLen = 0  BY <1>0, <2>3, LenFacts DEF Waits, WaitForItem
    <3> QED  BY <1>2, <2>3, <3>1
  <2> QED  BY <2>1, <2>2, <2>3 DEF Lists
<1>4. \/ l = "push" /\ have[t] # NoBlock
      \/ l \in {"alloc", "pop"} /\ have[t] = NoBlock
  BY DEF Waits
<1>5. Data' /\ Contents' = Contents  BY <1>0, <1>1, <1>4, KeptData
<1>6. IInv'  BY <1>1, <1>3, <1>5, WaitStep
<1> QED  BY <1>5, <1>6

LEMMA ReturnsFacts ==
    ASSUME DataTyped, NEW t \in Threads, Returns(t)
    PROVE  /\ pc' \in [Threads -> Lists \cup {"idle", "dead"}] /\ timed' \subseteq Threads
           /\ pc'[t] = "idle" /\ \A u \in Threads \ {t} : pc'[u] = pc[u]
  BY DEF DataTyped, Returns

\* A waiter runs again and has what it waited for, or has not.
LEMMA ResumeStep ==
    ASSUME IInv, NEW t \in Threads, AllocResumes(t) \/ PushResumes(t) \/ PopResumes(t)
    PROVE  IInv' /\ QueueStep
<1>0. SuspTyped /\ Data /\ DataTyped /\ RingSound /\ Hands  BY DEF IInv, Shape, Data
<1>1. Returns(t) /\ ~Suspended(t) /\ t \in Actors
  BY DEF AllocResumes, PushResumes, PopResumes, Runs, Actors
<1>2. /\ pc' \in [Threads -> Lists \cup {"idle", "dead"}] /\ timed' \subseteq Threads
      /\ pc'[t] = "idle" /\ \A u \in Threads \ {t} : pc'[u] = pc[u]
  BY <1>0, <1>1, ReturnsFacts
<1>3. \A u \in Threads : pc'[u] \in {"idle", "dead"} \/ (pc'[u] = pc[u] /\ u # t)  BY <1>2
<1>4. /\ Left("alloc")' = Len(free)' /\ Left("alloc") = Len(free) /\ Len(free) \in Nat
      /\ Left("pop")' = QueueLen' /\ Left("pop") = QueueLen
      /\ Left("push")' = Mark - QueueLen' /\ Left("push") = Mark - QueueLen
      /\ QueueLen \in 0..Size /\ Mark \in 0..Size
      /\ ~ReachesMark => Mark - (QueueLen - 1) <= 0
      /\ \A k : k \in Lists <=> k = "alloc" \/ k = "push" \/ k = "pop"
      /\ "none" \notin Lists
  BY <1>0, LeftSteps
<1>5. CASE AllocResumes(t)
  <2>1. /\ pc[t] = "alloc" /\ TakeBlock /\ have' = [have EXCEPT ![t] = Head(free)]
        /\ UNCHANGED <<queueVars, lost>>
    BY <1>5 DEF AllocResumes
  <2>2. have[t] = NoBlock  BY <1>0, <2>1 DEF Hands
  <2>3. Data' /\ Len(free)' = Len(free) - 1 /\ QueueLen' = QueueLen /\ Contents' = Contents
    BY <1>0, <1>1, <1>2, <1>3, <2>1, <2>2, TakeData
  <2>4. Wakes("none") /\ resetting' = resetting  BY <1>4, <2>1 DEF Wakes, TakeBlock, queueVars
  <2>5. \A k \in Lists : \/ Left(k)' <= Left(k) /\ pc[t] # k
                         \/ Left(k)' <= Left(k) - 1
    BY <1>4, <2>1, <2>3
  <2>6. IInv'  BY <1>1, <1>2, <1>4, <2>3, <2>4, <2>5, PassOne
  <2> QED  BY <2>3, <2>6 DEF QueueStep
<1>6. CASE PushResumes(t)
  <2>1. /\ pc[t] = "push" /\ PutItem(have[t]) /\ have' = [have EXCEPT ![t] = NoBlock]
        /\ lost' = (lost \/ Misses("pop")) /\ UNCHANGED poolVars
    BY <1>6 DEF PushResumes
  <2>2. have[t] # NoBlock  BY <1>0, <2>1 DEF Hands
  <2>3. /\ Data' /\ free' = free /\ QueueLen' = QueueLen + 1 /\ resetting' = resetting
        /\ Ring!Put(have[t]) /\ have[t] \in Blocks /\ WakeFirst("pop")
    BY <1>0, <1>1, <1>2, <1>3, <2>1, <2>2, PutData
  <2>4. Wakes("pop")  BY <1>4, <2>1, <2>3 DEF Wakes
  <2>5. /\ Left("pop")' <= Left("pop") + 1 /\ pc[t] # "pop"
        /\ \A k \in Lists \ {"pop"} : \/ Left(k)' <= Left(k) /\ pc[t] # k
                                      \/ Left(k)' <= Left(k) - 1
    BY <1>4, <2>1, <2>3
  <2>6. IInv'  BY <1>1, <1>2, <1>4, <2>3, <2>4, <2>5, PassOne
  <2> QED  BY <2>3, <2>6 DEF QueueStep
<1>7. CASE PopResumes(t)
  <2>1. /\ pc[t] = "pop" /\ GetItem /\ have' = [have EXCEPT ![t] = FirstItem]
        /\ lost' = (lost \/ (ReachesMark /\ Misses("push"))) /\ UNCHANGED poolVars
    BY <1>7 DEF PopResumes
  <2>2. have[t] = NoBlock  BY <1>0, <2>1 DEF Hands
  <2>3. /\ Data' /\ free' = free /\ QueueLen' = QueueLen - 1 /\ resetting' = resetting
        /\ Ring!Get
    BY <1>0, <1>1, <1>2, <1>3, <2>1, <2>2, GetData
  <2>4. CASE ReachesMark
    <3>1. Wakes("push")  BY <1>4, <2>1, <2>4 DEF Wakes, GetItem
    <3>2. /\ Left("push")' <= Left("push") + 1 /\ pc[t] # "push"
          /\ \A k \in Lists \ {"push"} : \/ Left(k)' <= Left(k) /\ pc[t] # k
                                         \/ Left(k)' <= Left(k) - 1
      BY <1>4, <2>1, <2>3
    <3>3. IInv'  BY <1>1, <1>2, <1>4, <2>3, <3>1, <3>2, PassOne
    <3> QED  BY <2>3, <3>3 DEF QueueStep
  <2>5. CASE ~ReachesMark
    <3>1. Wakes("none")  BY <1>0, <1>4, <2>1, <2>5 DEF Wakes, GetItem, SuspTyped
    <3>2. \A k \in Lists : \/ Left(k)' <= 0
                           \/ Left(k)' <= Left(k) /\ pc[t] # k
                           \/ Left(k)' <= Left(k) - 1
      BY <1>4, <2>1, <2>3, <2>5
    <3>3. IInv'  BY <1>1, <1>2, <1>4, <2>3, <3>1, <3>2, PassOne
    <3> QED  BY <2>3, <3>3 DEF QueueStep
  <2> QED  BY <2>4, <2>5
<1> QED  BY <1>5, <1>6, <1>7

LEMMA ThreadStep ==
    ASSUME IInv, NEW t \in Threads, ThreadOps(t)
    PROVE  IInv' /\ QueueStep
<1>0. /\ SuspTyped /\ Data /\ DataTyped /\ RingSound /\ Sleepers /\ Timers /\ ResetOrder
  BY DEF IInv, Shape, Data
<1>1. /\ susp \in [Lists -> Seq(Threads)]
      /\ \A u : Suspended(u) <=> \E k \in Lists : Holds(susp[k], u)
  BY <1>0, SuspFacts
<1>2. pc[t] = "idle" => ~Suspended(t)  BY <1>0, <1>1 DEF Sleepers, Lists
<1>3. ASSUME NEW l \in Lists, NEW tm \in BOOLEAN, Call(t, l, tm) PROVE IInv' /\ UNCHANGED Contents
  <2>1. /\ ThreadsRun /\ pc[t] = "idle" /\ Waits(t, l, tm) /\ pc' = [pc EXCEPT ![t] = l]
        /\ timed' = IF tm THEN timed \cup {t} ELSE timed \ {t}
        /\ UNCHANGED <<have, lost>>
    BY <1>3 DEF Call
  <2>2. /\ pc' \in [Threads -> Lists \cup {"idle", "dead"}] /\ timed' \subseteq Threads
        /\ pc'[t] = l /\ \A u \in Threads \ {t} : pc'[u] = pc[u]
    BY <1>0, <2>1 DEF DataTyped
  <2> QED  BY <1>2, <2>1, <2>2, WaitsStep
<1>4. CASE WaitsAgain(t)
  <2>1. /\ ThreadsRun /\ pc[t] \in Lists /\ ~Suspended(t) /\ Waits(t, pc[t], t \in timed)
        /\ UNCHANGED <<have, pc, timed, lost>>
    BY <1>4 DEF WaitsAgain, Runs
  <2>2. (t \in timed) \in BOOLEAN  OBVIOUS
  <2>3. /\ pc' \in [Threads -> Lists \cup {"idle", "dead"}] /\ timed' \subseteq Threads
        /\ pc'[t] = pc[t] /\ \A u \in Threads \ {t} : pc'[u] = pc[u]
    BY <1>0, <2>1 DEF DataTyped
  <2> QED  BY <2>1, <2>2, <2>3, WaitsStep DEF QueueStep
<1>5. CASE WaitFails(t) \/ TimeIsUp(t)
  <2>1. /\ Returns(t) /\ ~Suspended(t)
        /\ error[t] # "EOK" \/ (pc[t] = "alloc" /\ free = <<>>)
        /\ UNCHANGED <<suspVars, poolVars, queueVars, have, lost>>
    BY <1>5 DEF WaitFails, TimeIsUp, Runs
  <2>2. /\ pc' \in [Threads -> Lists \cup {"idle", "dead"}] /\ timed' \subseteq Threads
        /\ pc'[t] = "idle" /\ \A u \in Threads \ {t} : pc'[u] = pc[u]
    BY <1>0, <2>1, ReturnsFacts
  <2>3. /\ Data' /\ Contents' = Contents /\ Watched' = Watched /\ resetting' = resetting
        /\ \A k \in Lists : Left(k)' = Left(k)
    BY <1>0, <2>1, <2>2, KeptData
  <2>4. /\ SuspTyped' /\ Timers' /\ OnOneList(susp') /\ (~lost' => ~lost)
        /\ susp' = susp /\ error' = error
        /\ \A u : Suspended(u)' <=> Suspended(u)
    BY <1>0, <2>1, KeptSusp
  <2>5. ResetOrder'  BY <1>0, <2>3, <2>4 DEF ResetOrder
  <2>6. \A k \in Lists : Left(k) \in Int  BY <1>0, LeftFacts
  <2>7. ASSUME NEW k \in Lists
        PROVE  Left(k)' <= 0 \/ (Left(k)' <= Left(k) /\ \A u \in Threads : u \in Woken(k) => u \in Woken(k)')
    <3>1. CASE t \notin Woken(k)
      <4>1. \A u \in Threads : u \in Woken(k) => u \in Woken(k)'
        BY <2>2, <2>4, <3>1 DEF Woken
      <4> QED  BY <2>3, <2>6, <4>1
    <3>2. CASE t \in Woken(k)
      <4>1. k = "alloc" /\ free = <<>>  BY <2>1, <3>2 DEF Woken
      <4>2. Left(k) = 0  BY <4>1 DEF Left
      <4> QED  BY <2>3, <4>2
    <3> QED  BY <3>1, <3>2
  <2>8. \A k \in Lists : \A u \in Threads :
           Holds(susp'[k], u) => Holds(susp[k], u) /\ pc'[u] = pc[u]
    BY <1>1, <2>1, <2>2, <2>4
  <2>9. IInv'  BY <2>3, <2>4, <2>5, <2>7, <2>8, QuietStep
  <2> QED  BY <2>3, <2>9 DEF QueueStep
<1>6. CASE Delete(t)
  <2>1. /\ ThreadContext
        /\ susp' = [l \in DOMAIN susp |-> Unlink(susp[l], t)]
        /\ armed' = armed \ {t}
        /\ lost' = (lost \/ \E l \in Lists : t \in Woken(l))
        /\ pc' = [pc EXCEPT ![t] = "dead"] /\ timed' = timed \ {t}
        /\ UNCHANGED <<ttmr, error, expiring, prio, poolVars, queueVars, have>>
    BY <1>6 DEF Delete, ThreadClose
  <2>2. /\ susp' \in [Lists -> Seq(Threads)] /\ OnOneList(susp')
        /\ \A l \in Lists : \A u : Holds(susp'[l], u) <=> Holds(susp[l], u) /\ u # t
        /\ \A u : Suspended(u)' <=> Suspended(u) /\ u # t
        /\ \A l \in Lists : susp[l] = <<>> => susp'[l] = <<>>
    BY <1>0, <2>1, UnlinkStep
  <2>3. /\ pc' \in [Threads -> Lists \cup {"idle", "dead"}] /\ timed' \subseteq Threads
        /\ pc'[t] = "dead" /\ \A u \in Threads \ {t} : pc'[u] = pc[u]
    BY <1>0, <2>1 DEF DataTyped
  <2>4. /\ Data' /\ Contents' = Contents /\ Watched' = Watched /\ resetting' = resetting
        /\ \A k \in Lists : Left(k)' = Left(k)
    BY <1>0, <2>1, <2>3, KeptData
  <2>5. lost' \in BOOLEAN /\ (~lost' => ~lost)  BY <1>0, <2>1 DEF SuspTyped
  <2>6. SuspTyped'  BY <1>0, <2>1, <2>2, <2>5 DEF SuspTyped
  <2>7. Timers'  BY <1>0, <2>1, <2>2 DEF Timers, ThreadContext, SuspTyped
  <2>8. ResetOrder'  BY <1>0, <2>2, <2>4 DEF ResetOrder, Lists
  <2>9. \A k \in Lists : Left(k) \in Int  BY <1>0, LeftFacts
  <2>10. ASSUME ~lost', NEW k \in Lists, NEW u \in Threads, u \in Woken(k) PROVE u \in Woken(k)'
    <3>1. u # t  BY <2>1, <2>10
    <3> QED  BY <2>1, <2>2, <2>3, <2>10, <3>1 DEF Woken
  <2>11. \A k \in Lists : \A u \in Threads :
            Holds(susp'[k], u) => Holds(susp[k], u) /\ pc'[u] = pc[u]
    BY <2>2, <2>3
  <2>12. IInv'  BY <2>2, <2>4, <2>5, <2>6, <2>7, <2>8, <2>9, <2>10, <2>11, QuietStep
  <2> QED  BY <2>4, <2>12 DEF QueueStep
<1>7. CASE AllocResumes(t) \/ PushResumes(t) \/ PopResumes(t)  BY <1>7, ResumeStep
<1> QED  BY <1>3, <1>4, <1>5, <1>6, <1>7 DEF ThreadOps, QueueStep

-----------------------------------------------------------------------------
\* The timeout interrupt, and a thread that resumes another.
LEMMA WaitEventStep ==
    ASSUME IInv, WaitEvents
    PROVE  IInv' /\ QueueStep
<1>0. /\ SuspTyped /\ Data /\ DataTyped /\ RingSound /\ Sleepers /\ Timers /\ ResetOrder
  BY DEF IInv, Shape, Data
<1>1. /\ susp \in [Lists -> Seq(Threads)] /\ OnOneList(susp)
      /\ \A u : Suspended(u) <=> \E k \in Lists : Holds(susp[k], u)
  BY <1>0, SuspFacts DEF Sleepers
<1>2. UNCHANGED <<poolVars, queueVars, have, pc, timed, lost>>  BY DEF WaitEvents, userVars
<1>3. /\ Data' /\ Contents' = Contents /\ Watched' = Watched /\ resetting' = resetting
      /\ \A k \in Lists : Left(k)' = Left(k)
  <2>1. pc \in [Threads -> Lists \cup {"idle", "dead"}] /\ timed \subseteq Threads
    BY <1>0 DEF DataTyped
  <2> QED  BY <1>0, <1>2, <2>1, KeptData
<1>4. \A k \in Lists : Left(k) \in Int  BY <1>0, LeftFacts
<1>5. CASE ThreadTimeout
  <2>1. /\ ~ThreadContext /\ expiring' = NoThread
        /\ error' = [error EXCEPT ![expiring] = "ETIMEOUT"]
        /\ susp' = [l \in DOMAIN susp |-> Unlink(susp[l], expiring)]
        /\ UNCHANGED <<armed, ttmr, prio>>
    BY <1>5 DEF ThreadTimeout
  <2>2. /\ susp' \in [Lists -> Seq(Threads)] /\ OnOneList(susp')
        /\ \A l \in Lists : \A u : Holds(susp'[l], u) <=> Holds(susp[l], u) /\ u # expiring
        /\ \A u : Suspended(u)' <=> Suspended(u) /\ u # expiring
        /\ \A l \in Lists : susp[l] = <<>> => susp'[l] = <<>>
    BY <1>0, <2>1, UnlinkStep
  <2>3. SuspTyped'  BY <1>0, <1>2, <2>1, <2>2 DEF SuspTyped, Errors
  <2>4. Timers'  BY <1>0, <2>1, <2>2 DEF Timers, ThreadContext, SuspTyped
  <2>5. ResetOrder'  BY <1>0, <1>3, <2>2 DEF ResetOrder, Lists
  <2>6. ASSUME ~lost', NEW k \in Lists, NEW u \in Threads, u \in Woken(k) PROVE u \in Woken(k)'
    <3>1. u # expiring  BY <1>0, <1>2, <2>1, <2>6 DEF Timers, Woken
    <3>2. error'[u] = error[u]  BY <1>0, <2>1, <3>1 DEF SuspTyped
    <3> QED  BY <1>2, <2>2, <2>6, <3>2 DEF Woken
  <2>7. IInv'  BY <1>2, <1>3, <1>4, <2>2, <2>3, <2>4, <2>5, <2>6, QuietStep
  <2> QED  BY <1>3, <2>7 DEF QueueStep
<1>6. ASSUME NEW t \in Threads, TimerPop(t) PROVE IInv' /\ QueueStep
  <2>1. /\ ThreadContext /\ t \in armed /\ armed' = armed \ {t} /\ expiring' = t
        /\ UNCHANGED <<susp, ttmr, error, prio>>
    BY <1>6 DEF TimerPop
  <2>2. SuspTyped'  BY <1>0, <1>2, <2>1 DEF SuspTyped
  <2>3. Timers'  BY <1>0, <2>1 DEF Timers, ThreadContext, Suspended
  <2>4. ResetOrder' /\ OnOneList(susp')  BY <1>0, <1>1, <1>3, <2>1 DEF ResetOrder
  <2>5. \A k \in Lists : Woken(k)' = Woken(k)  BY <1>2, <2>1 DEF Woken, Suspended
  <2>6. IInv'  BY <1>2, <1>3, <1>4, <2>1, <2>2, <2>3, <2>4, <2>5, QuietStep
  <2> QED  BY <1>3, <2>6 DEF QueueStep
<1>7. ASSUME NEW t \in Threads, ThreadResume(t) PROVE IInv' /\ QueueStep
  <2>1. /\ ThreadContext /\ Suspended(t)
        /\ susp' = [l \in DOMAIN susp |-> Unlink(susp[l], t)]
        /\ ttmr' = ttmr \ {t} /\ armed' = armed \ {t}
        /\ UNCHANGED <<error, expiring, prio>>
    BY <1>7 DEF ThreadResume
  <2>2. /\ susp' \in [Lists -> Seq(Threads)] /\ OnOneList(susp')
        /\ \A l \in Lists : \A u : Holds(susp'[l], u) <=> Holds(susp[l], u) /\ u # t
        /\ \A u : Suspended(u)' <=> Suspended(u) /\ u # t
        /\ \A l \in Lists : susp[l] = <<>> => susp'[l] = <<>>
    BY <1>0, <2>1, UnlinkStep
  <2>3. SuspTyped'  BY <1>0, <1>2, <2>1, <2>2 DEF SuspTyped
  <2>4. Timers'  BY <1>0, <2>1, <2>2 DEF Timers, ThreadContext, SuspTyped
  <2>5. ResetOrder'  BY <1>0, <1>3, <2>2 DEF ResetOrder, Lists
  <2>6. ASSUME NEW k \in Lists, NEW u \in Threads, u \in Woken(k) PROVE u \in Woken(k)'
    BY <1>2, <2>1, <2>2, <2>6 DEF Woken
  <2>7. IInv'  BY <1>2, <1>3, <1>4, <2>2, <2>3, <2>4, <2>5, <2>6, QuietStep
  <2> QED  BY <1>3, <2>7 DEF QueueStep
<1> QED  BY <1>5, <1>6, <1>7 DEF WaitEvents

\* The stages of a reset but the failing of a waiter touch no list.
LEMMA StageStep ==
    ASSUME IInv, ClearRing \/ CloseQueue \/ LockForReset \/ ListFailed,
           UNCHANGED <<poolVars, userVars>>
    PROVE  IInv' /\ QueueStep
<1>0. /\ SuspTyped /\ Data /\ DataTyped /\ RingSound /\ Sleepers /\ Timers /\ ResetOrder
      /\ OneHand(free, Contents, have) /\ Hands
  BY DEF IInv, Shape, Data
<1>1. /\ susp \in [Lists -> Seq(Threads)]
      /\ \A u : Suspended(u) <=> \E k \in Lists : Holds(susp[k], u)
  BY <1>0, SuspFacts
<1>2. UNCHANGED <<suspVars, free, poolAlive, have, pc, timed, lost, slots>>
  BY DEF ClearRing, CloseQueue, LockForReset, ListFailed, poolVars, userVars, ringVars
<1>3. /\ SuspTyped' /\ Timers' /\ OnOneList(susp')
      /\ susp' = susp /\ error' = error /\ \A u : Suspended(u)' <=> Suspended(u)
  BY <1>0, <1>2, KeptSusp
<1>4. \A k \in Lists : Woken(k)' = Woken(k)  BY <1>2, <1>3 DEF Woken
<1>5. \A k \in Lists : \A u \in Threads :
         Holds(susp'[k], u) => Holds(susp[k], u) /\ pc'[u] = pc[u]
  BY <1>2, <1>3
<1>6. Hands'  BY <1>0, <1>2 DEF Hands
<1>7. \A k \in Lists : Left(k) \in Int  BY <1>0, LeftFacts
<1>8. Left("alloc")' = Left("alloc") /\ "alloc" \in Watched  BY <1>2 DEF Left, Watched
<1>9. CASE ClearRing
  <2>1. /\ putIndex' = 0 /\ getIndex' = 0 /\ isEmpty' = TRUE /\ isFull' = FALSE
        /\ resetting' = "cleared" /\ queueAlive' = queueAlive
    BY <1>9 DEF ClearRing
  <2>2. RingSound'  BY <2>1 DEF RingSound
  <2>3. Contents' = <<>>  BY <2>1 DEF Contents, QueueLen
  <2>4. OneHand(free', Contents', have')  BY <1>0, <1>2, <2>3, ClearOneHand
  <2>5. 0 \in 0..(Size - 1)  OBVIOUS
  <2>6. DataTyped'  BY <1>0, <1>2, <2>1, <2>5 DEF DataTyped
  <2>7. Data'  BY <1>6, <2>2, <2>4, <2>6 DEF Data
  <2>8. ResetOrder' /\ Watched' = {"alloc"}  BY <2>1 DEF ResetOrder, Watched
  <2>9. IInv'  BY <1>2, <1>3, <1>4, <1>5, <1>7, <1>8, <2>7, <2>8, QuietStep
  <2> QED  BY <2>3, <2>9 DEF QueueStep, Ring!Clear
<1>10. ASSUME UNCHANGED ringVars, queueAlive' \in BOOLEAN,
              resetting' \in {"no", "cleared", "closing"} \cup Lists,
              ResetOrder',
              \/ Watched' = {"alloc"} \/ Watched' = Watched
              \/ \A k \in Watched' : k # "alloc" => susp[k] = <<>>
       PROVE  IInv' /\ QueueStep
  <2>1. UNCHANGED <<putIndex, getIndex, isEmpty, isFull>>  BY <1>10 DEF ringVars
  <2>2. QueueLen' = QueueLen /\ Contents' = Contents /\ RingSound'
    BY <1>0, <1>2, <2>1 DEF QueueLen, Contents, RingSound
  <2>3. DataTyped'  BY <1>0, <1>2, <1>10, <2>1 DEF DataTyped
  <2>4. Data'  BY <1>0, <1>2, <1>6, <2>2, <2>3 DEF Data
  <2>5. \A k \in Lists : Left(k)' = Left(k)  BY <1>2, <2>2 DEF Left, Mark
  <2>6. \A k \in Lists : k \in Watched' => k \in Watched \/ susp'[k] = <<>>
    BY <1>3, <1>8, <1>10
  <2>7. IInv'  BY <1>2, <1>3, <1>4, <1>5, <1>7, <1>10, <2>4, <2>5, <2>6, QuietStep
  <2> QED  BY <2>2, <2>7 DEF QueueStep
<1>11. CASE CloseQueue
  <2>1. /\ UNCHANGED ringVars /\ queueAlive' = FALSE /\ resetting = "closing" /\ resetting' = "no"
    BY <1>11 DEF CloseQueue
  <2>2. ResetOrder' /\ Watched' = Watched  BY <2>1 DEF ResetOrder, Watched
  <2> QED  BY <1>10, <2>1, <2>2
<1>12. CASE LockForReset
  <2>1. UNCHANGED <<ringVars, queueAlive>> /\ resetting' = "pop"  BY <1>12 DEF LockForReset
  <2>2. ResetOrder' /\ Watched' = {"alloc"} /\ "pop" \in Lists
    BY <2>1 DEF ResetOrder, Watched, Lists
  <2> QED  BY <1>0, <1>10, <2>1, <2>2 DEF DataTyped
<1>13. CASE ListFailed
  <2>1. /\ UNCHANGED <<ringVars, queueAlive>> /\ susp[resetting] = <<>>
        /\ \/ resetting = "pop" /\ resetting' = "push"
           \/ resetting = "push" /\ resetting' \in {"no", "closing"}
    BY <1>13 DEF ListFailed
  <2>2. CASE resetting = "pop" /\ resetting' = "push"
    <3>1. ResetOrder' /\ Watched' = {"alloc"} /\ "push" \in Lists
      BY <1>3, <2>1, <2>2 DEF ResetOrder, Watched, Lists
    <3> QED  BY <1>0, <1>10, <2>1, <2>2, <3>1 DEF DataTyped
  <2>3. CASE resetting = "push" /\ resetting' \in {"no", "closing"}
    <3>1. susp["push"] = <<>> /\ susp["pop"] = <<>>  BY <1>0, <2>1, <2>3 DEF ResetOrder
    <3>2. ResetOrder'  BY <2>3 DEF ResetOrder
    <3>3. \A k \in Watched' : k # "alloc" => susp[k] = <<>>  BY <3>1 DEF Watched
    <3> QED  BY <1>0, <1>10, <2>1, <2>3, <3>2, <3>3 DEF DataTyped
  <2> QED  BY <2>1, <2>2, <2>3
<1> QED  BY <1>9, <1>11, <1>12, <1>13

\* A reset fails the first of its waiters.
LEMMA FailStep ==
    ASSUME IInv, ThreadContext, FailWaiter, UNCHANGED <<poolVars, userVars>>
    PROVE  IInv' /\ QueueStep
<1>0. /\ SuspTyped /\ Data /\ DataTyped /\ RingSound /\ Sleepers /\ Timers /\ ResetOrder
  BY DEF IInv, Shape, Data
<1>1. /\ susp \in [Lists -> Seq(Threads)] /\ OnOneList(susp)
      /\ \A u : Suspended(u) <=> \E k \in Lists : Holds(susp[k], u)
  BY <1>0, SuspFacts DEF Sleepers
<1> DEFINE l == resetting
           h == Head(susp[l])
           g == [susp EXCEPT ![l] = Tail(@)]
<1>2. /\ l \in {"pop", "push"} /\ l \in Lists /\ susp[l] # <<>> /\ Dequeue(l, "ERROR")
      /\ UNCHANGED <<queueVars, poolVars, have, pc, timed, lost>>
  BY DEF FailWaiter, userVars, Lists
<1>3. /\ g \in [Lists -> Seq(Threads)] /\ OnOneList(g)
      /\ h \in Threads /\ Holds(susp[l], h)
      /\ \A k \in Lists : \A u : Holds(g[k], u) <=> Holds(susp[k], u) /\ u # h
  <2>1. g = TailOne(susp, l)  BY DEF TailOne
  <2>2. ListsOf(Threads, Lists, susp)  BY <1>1 DEF ListsOf
  <2> HIDE DEF g
  <2>3. ListsOf(Threads, Lists, g) /\ h \in Threads /\ Holds(susp[l], h)
        /\ \A k \in Lists : \A u : Holds(g[k], u) <=> Holds(susp[k], u) /\ u # h
    BY <1>2, <2>1, <2>2, TailOneFacts
  <2> QED  BY <2>3 DEF ListsOf
<1>4. /\ ttmr' = ttmr \ {h} /\ expiring' = expiring
      /\ armed' = IF h \in ttmr THEN armed \ {h} ELSE armed
      /\ Raced(h) => UNCHANGED <<susp, error>>
      /\ ~Raced(h) => susp' = g /\ error' = [error EXCEPT ![h] = "ERROR"]
  BY <1>2 DEF Dequeue
<1>5. pc[h] = l /\ l # "alloc"  BY <1>0, <1>2, <1>3 DEF Sleepers
<1> HIDE DEF h, g, l
<1>6. armed' = armed \ {h}  BY <1>0, <1>4 DEF Timers
<1>7. /\ susp' \in [Lists -> Seq(Threads)] /\ OnOneList(susp')
      /\ \A k \in Lists : \A u : Holds(susp'[k], u) => Holds(susp[k], u)
      /\ \A k \in Lists : \A u : Holds(susp[k], u) /\ u # h => Holds(susp'[k], u)
      /\ \A u \in Threads : u # h => error'[u] = error[u]
      /\ error' \in [Threads -> Errors]
  <2>1. CASE Raced(h)  BY <1>0, <1>1, <1>4, <2>1 DEF SuspTyped
  <2>2. CASE ~Raced(h)  BY <1>0, <1>1, <1>3, <1>4, <2>2 DEF SuspTyped, Errors
  <2> QED  BY <2>1, <2>2
<1>8. \A u : Suspended(u)' <=> \E k \in Lists : Holds(susp'[k], u)  BY <1>7, SuspFactsNext
<1>9. SuspTyped'  BY <1>0, <1>2, <1>4, <1>6, <1>7 DEF SuspTyped
<1>10. Timers'
  <2>1. ASSUME NEW u \in armed' PROVE u \in ttmr' /\ Suspended(u)'
    <3>1. u \in armed /\ u # h  BY <1>6
    <3> QED  BY <1>0, <1>1, <1>4, <1>7, <1>8, <3>1 DEF Timers
  <2>2. ThreadContext' /\ expiring' \notin armed'
    BY <1>0, <1>4, <1>6 DEF ThreadContext, Timers
  <2> QED  BY <2>1, <2>2 DEF Timers
<1>11. /\ Data' /\ Contents' = Contents /\ Watched' = Watched /\ resetting' = resetting
       /\ \A k \in Lists : Left(k)' = Left(k)
  <2>1. pc \in [Threads -> Lists \cup {"idle", "dead"}] /\ timed \subseteq Threads
    BY <1>0 DEF DataTyped
  <2> QED  BY <1>0, <1>2, <2>1, KeptData
<1>12. ResetOrder'
  <2>1. ASSUME resetting = "push" PROVE susp'["pop"] = <<>>
    <3>1. "pop" \in Lists /\ susp["pop"] = <<>>  BY <1>0, <2>1 DEF ResetOrder, Lists
    <3>2. \A u \in Threads : Holds(susp'["pop"], u) => Holds(susp["pop"], u)
      BY <1>7, <3>1
    <3>3. susp["pop"] \in Seq(Threads) /\ susp'["pop"] \in Seq(Threads)  BY <1>1, <1>7, <3>1
    <3> QED  BY <3>1, <3>2, <3>3, EmptyHoldsNobody
  <2> QED  BY <1>11, <2>1 DEF ResetOrder
<1>13. Watched = {"alloc"}  BY <1>2 DEF Watched, l
<1>14. \A k \in Lists : Left(k) \in Int  BY <1>0, LeftFacts
<1>15. ASSUME NEW u \in Threads, u \in Woken("alloc") PROVE u \in Woken("alloc")'
  <2>1. u # h /\ pc[u] = "alloc" /\ ~Suspended(u) /\ error[u] = "EOK"
    BY <1>5, <1>15 DEF Woken
  <2>2. ~Suspended(u)'  BY <1>1, <1>7, <1>8, <2>1
  <2> QED  BY <1>2, <1>7, <2>1, <2>2 DEF Woken
<1>16. \A k \in Lists : \A u \in Threads :
          Holds(susp'[k], u) => Holds(susp[k], u) /\ pc'[u] = pc[u]
  BY <1>2, <1>7
<1>17. IInv'
  BY <1>2, <1>7, <1>9, <1>10, <1>11, <1>12, <1>13, <1>14, <1>15, <1>16, QuietStep
<1> QED  BY <1>11, <1>17 DEF QueueStep

\* rt_mp_detach fails everybody who waits for a block.
LEMMA DetachStep ==
    ASSUME IInv, Detach
    PROVE  IInv' /\ QueueStep
<1>0. /\ SuspTyped /\ Data /\ DataTyped /\ RingSound /\ Sleepers /\ Timers /\ ResetOrder
      /\ OneHand(free, Contents, have) /\ Hands
  BY DEF IInv, Shape, Data
<1>1. /\ ResumeAll({"alloc"}, "ERROR") /\ ThreadContext
      /\ UNCHANGED <<free, queueVars, userVars>> /\ poolAlive' = FALSE
  BY DEF Detach, DetachPool, ThreadsRun
<1>2. UNCHANGED <<free, slots, putIndex, getIndex, isEmpty, isFull, queueAlive, resetting,
                  have, pc, timed, lost>>
  BY <1>1 DEF queueVars, ringVars, userVars
<1>3. PICK w : /\ ttmr' = ttmr \ w /\ armed' = armed \ w
               /\ \A t \in Threads : t \in w <=> Holds(susp["alloc"], t)
               /\ error' = [t \in Threads |-> IF t \in w THEN "ERROR" ELSE error[t]]
  BY <1>1 DEF ResumeAll
<1>4. susp' = EmptySome(susp, {"alloc"}) /\ expiring' = expiring
  BY <1>1 DEF ResumeAll, EmptySome
<1>5. /\ susp \in [Lists -> Seq(Threads)]
      /\ \A u : Suspended(u) <=> \E k \in Lists : Holds(susp[k], u)
      /\ ListsOf(Threads, Lists, susp) /\ "alloc" \in Lists
  BY <1>0, SuspFacts DEF Sleepers, ListsOf, Lists
<1>6. /\ susp' \in [Lists -> Seq(Threads)] /\ OnOneList(susp')
      /\ \A k \in Lists : susp'[k] = IF k = "alloc" THEN <<>> ELSE susp[k]
      /\ \A k \in Lists : \A u : Holds(susp'[k], u) <=> Holds(susp[k], u) /\ k # "alloc"
  <2> DEFINE ls == {"alloc"}
  <2>1. \A k : k \in ls <=> k = "alloc"  OBVIOUS
  <2>2. susp' = EmptySome(susp, ls)  BY <1>4
  <2> HIDE DEF ls
  <2>3. ListsOf(Threads, Lists, susp)  BY <1>5
  <2>4. ListsOf(Threads, Lists, EmptySome(susp, ls))  BY <2>3, EmptySomeFacts
  <2>5. \A k \in Lists : EmptySome(susp, ls)[k] = IF k \in ls THEN <<>> ELSE susp[k]
    BY <2>3, EmptySomeFacts
  <2>6. \A k \in Lists : \A u :
           Holds(EmptySome(susp, ls)[k], u) <=> Holds(susp[k], u) /\ k \notin ls
    BY <2>3, EmptySomeFacts
  <2>7. /\ ListsOf(Threads, Lists, susp')
        /\ \A k \in Lists : susp'[k] = IF k \in ls THEN <<>> ELSE susp[k]
        /\ \A k \in Lists : \A u : Holds(susp'[k], u) <=> Holds(susp[k], u) /\ k \notin ls
    BY <2>2, <2>4, <2>5, <2>6
  <2> QED  BY <2>1, <2>7 DEF ListsOf
<1>7. \A u : Suspended(u)' <=> \E k \in Lists : Holds(susp'[k], u)  BY <1>6, SuspFactsNext
<1>8. SuspTyped'  BY <1>0, <1>2, <1>3, <1>4, <1>6 DEF SuspTyped, Errors
<1>9. Timers'
  <2>1. ASSUME NEW u \in armed' PROVE u \in ttmr' /\ Suspended(u)'
    <3>1. u \in armed /\ u \notin w /\ u \in Threads  BY <1>0, <1>3 DEF SuspTyped
    <3>2. u \in ttmr /\ Suspended(u)  BY <1>0, <3>1 DEF Timers
    <3>3. PICK k \in Lists : Holds(susp[k], u)  BY <1>5, <3>2
    <3>4. k # "alloc"  BY <1>3, <3>1, <3>3
    <3> QED  BY <1>3, <1>6, <1>7, <3>1, <3>2, <3>3, <3>4
  <2> QED  BY <1>0, <1>1, <1>3, <1>4, <2>1 DEF Timers, ThreadContext
<1>10. QueueLen' = QueueLen /\ Contents' = Contents /\ RingSound' /\ Watched' = Watched
  BY <1>0, <1>2 DEF QueueLen, Contents, RingSound, Watched
<1>11. DataTyped'  BY <1>0, <1>1, <1>2 DEF DataTyped
<1>12. Hands'  BY <1>0, <1>2 DEF Hands
<1>13. Data'  BY <1>0, <1>2, <1>10, <1>11, <1>12 DEF Data
<1>14. ResetOrder'  BY <1>0, <1>2, <1>6 DEF ResetOrder, Lists
<1>15. \A k \in Lists : Left(k) \in Int /\ Left(k)' = Left(k)
  BY <1>0, <1>2, <1>10, LeftFacts DEF Left, Mark
<1>16. ASSUME NEW k \in Lists, k # "alloc", NEW u \in Threads, u \in Woken(k) PROVE u \in Woken(k)'
  <2>1. pc[u] = k /\ ~Suspended(u) /\ error[u] = "EOK"  BY <1>16 DEF Woken
  <2>2. ~Suspended(u)' /\ u \notin w  BY <1>3, <1>5, <1>6, <1>7, <2>1
  <2> QED  BY <1>2, <1>3, <2>1, <2>2 DEF Woken
<1>17. \A k \in Lists : \A u \in Threads :
          Holds(susp'[k], u) => Holds(susp[k], u) /\ pc'[u] = pc[u]
  BY <1>2, <1>6
<1>18. IInv'
  BY <1>2, <1>6, <1>8, <1>9, <1>10, <1>13, <1>14, <1>15, <1>16, <1>17, QuietStep
<1> QED  BY <1>10, <1>18 DEF QueueStep

LEMMA InvStep == IInv /\ [Next]_vars => IInv' /\ QueueStep
<1> SUFFICES ASSUME IInv, [Next]_vars PROVE IInv' /\ QueueStep  OBVIOUS
<1>1. ASSUME NEW a \in Actors, Alloc(a) \/ Free(a) \/ Push(a) \/ Pop(a)
      PROVE  IInv' /\ QueueStep
  BY <1>1, CallStep
<1>2. ASSUME NEW t \in Threads, ThreadOps(t) PROVE IInv' /\ QueueStep  BY <1>2, ThreadStep
<1>3. CASE Reset
  <2>1. CASE FailWaiter /\ ThreadContext  BY <1>3, <2>1, FailStep DEF Reset
  <2>2. CASE ClearRing \/ CloseQueue \/ LockForReset \/ ListFailed
    BY <1>3, <2>2, StageStep DEF Reset
  <2> QED  BY <1>3, <2>1, <2>2 DEF Reset
<1>4. CASE Detach  BY <1>4, DetachStep
<1>5. CASE WaitEvents  BY <1>5, WaitEventStep
<1>6. CASE UNCHANGED vars
  <2>1. UNCHANGED <<suspVars, poolVars, queueVars, have, pc, timed, lost>>
    BY <1>6 DEF vars, userVars
  <2>2. /\ SuspTyped /\ Data /\ Sleepers /\ Timers /\ ResetOrder /\ DataTyped /\ OnOneList(susp)
    BY DEF IInv, Shape, Data, Sleepers
  <2>3. /\ Data' /\ Contents' = Contents /\ Watched' = Watched /\ resetting' = resetting
        /\ \A k \in Lists : Left(k)' = Left(k)
    <3>1. pc \in [Threads -> Lists \cup {"idle", "dead"}] /\ timed \subseteq Threads
      BY <2>2 DEF DataTyped
    <3> QED  BY <2>1, <2>2, <3>1, KeptData
  <2>4. /\ SuspTyped' /\ Timers' /\ OnOneList(susp') /\ (~lost' => ~lost)
        /\ susp' = susp /\ error' = error
        /\ \A u : Suspended(u)' <=> Suspended(u)
    BY <2>1, <2>2, KeptSusp
  <2>5. ResetOrder'  BY <2>2, <2>3, <2>4 DEF ResetOrder
  <2>6. \A k \in Lists : Woken(k)' = Woken(k)  BY <2>1, <2>4 DEF Woken
  <2>7. \A k \in Lists : Left(k) \in Int  BY <2>2, LeftFacts DEF Data
  <2>8. IInv'  BY <2>1, <2>3, <2>4, <2>5, <2>6, <2>7, QuietStep
  <2> QED  BY <2>3, <2>8 DEF QueueStep
<1>7. CASE \E a \in Actors : Refused(a)  BY <1>6, <1>7 DEF Refused
<1> QED  BY <1>1, <1>2, <1>3, <1>4, <1>5, <1>6, <1>7 DEF Next

\* Who is not forgotten by the inductive invariant is not by the property.
LEMMA AttendedFacts == IInv => NobodyForgotten
<1> SUFFICES ASSUME IInv, ~lost PROVE
       /\ NoSleeperBesideBlock
       /\ resetting \in {"no", "closing"} => NoSleeperBesideItem /\ NoSleeperBelowMark
  BY DEF NobodyForgotten
<1>1. Attended /\ DataTyped /\ RingSound  BY DEF IInv, Shape, Data
<1>2. /\ Left("alloc") = Len(free) /\ Left("pop") = QueueLen /\ Left("push") = Mark - QueueLen
      /\ QueueLen \in 0..Size
  BY <1>1, LeftSteps
<1>3. "alloc" \in Watched /\ (resetting \in {"no", "closing"} => {"pop", "push"} \subseteq Watched)
  BY DEF Watched
<1>4. NoSleeperBesideBlock  BY <1>1, <1>2, <1>3 DEF Attended, NoSleeperBesideBlock
<1>5. ASSUME resetting \in {"no", "closing"} PROVE NoSleeperBesideItem
  BY <1>1, <1>2, <1>3, <1>5 DEF Attended, NoSleeperBesideItem
<1>6. ASSUME resetting \in {"no", "closing"} PROVE NoSleeperBelowMark
  <2> DEFINE c == Cardinality(Woken("push"))
  <2>1. c \in Nat  BY WokenFacts
  <2>2. susp["push"] # <<>> => Mark - QueueLen <= c  BY <1>1, <1>2, <1>3, <1>6 DEF Attended
  <2> HIDE DEF c
  <2>3. susp["push"] # <<>> => QueueLen + c > Lwm \/ QueueLen + c >= Size
    BY <1>2, <2>1, <2>2 DEF Mark
  <2> QED  BY <2>3 DEF NoSleeperBelowMark, c
<1> QED  BY <1>4, <1>5, <1>6

-----------------------------------------------------------------------------
\* What a pool, a queue and the threads that use them keep has its type.
THEOREM BlocksTypeCorrect == Spec => []TypeOK
<1>1. IInv /\ [Next]_vars => IInv'  BY InvStep
<1>2. IInv => TypeOK  BY TypeHalves DEF IInv, Shape, Data
<1> QED  BY InvInit, <1>1, <1>2, PTL DEF Spec

\* A block is never in two hands, nor in the ring or on the chain twice.
THEOREM BlocksExclusiveAlways == Spec => []BlocksExclusive
<1>1. IInv /\ [Next]_vars => IInv'  BY InvStep
<1>2. IInv => BlocksExclusive  BY ExclusiveFacts DEF IInv, Shape, Data
<1> QED  BY InvInit, <1>1, <1>2, PTL DEF Spec

\* No wakeup is lost between rt_mp_free and rt_mp_alloc, nor between
\* rt_data_queue_push and rt_data_queue_pop, for any low water mark.
THEOREM NobodyForgottenAlways == Spec => []NobodyForgotten
<1>1. IInv /\ [Next]_vars => IInv'  BY InvStep
<1> QED  BY InvInit, <1>1, AttendedFacts, PTL DEF Spec

\* The ring of rt_data_queue_push, _pop and _reset with its two indices and two
\* flags implements a bounded FIFO queue.
THEOREM BlocksRefineQueue == Spec => RefinesQueue
<1>1. Init => Ring!QueueInit
  <2>1. Init => Contents = <<>>  BY DEF Init, RingInit, Contents, QueueLen
  <2> QED  BY <2>1 DEF Ring!QueueInit
<1>2. IInv /\ [Next]_vars => IInv'  BY InvStep
<1>3. IInv /\ [Next]_vars => [Ring!Get \/ Ring!Clear \/ \E v \in Blocks : Ring!Put(v)]_Contents
  BY InvStep DEF QueueStep
<1> QED  BY InvInit, <1>1, <1>2, <1>3, PTL DEF Spec, RefinesQueue, Ring!FifoSpec
=============================================================================
