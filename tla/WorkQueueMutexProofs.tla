------------------------ MODULE WorkQueueMutexProofs ------------------------
(***************************************************************************)
(* Safety of a work queue and its worker, for any works, cancellers and    *)
(* delays and any range of the tick: no submission is lost, executed twice *)
(* or early, and the worker does not sleep beside work; and of the         *)
(* mutexes, for any threads, any mutexes, any priorities and ceilings, any *)
(* limit of the hold count and any length of a chain of owners.            *)
(*                                                                         *)
(* What the history says of the delays is not inductive without the words  *)
(* it is kept in: each entry of the delayed list stands for what is left   *)
(* of its work's delay, and they are in that order (InOrder, part of       *)
(* Dated).  That the worker is awake rests on the word of the completion:  *)
(* as long as it says that the worker waits, nothing was submitted since   *)
(* it looked (Waiting).                                                    *)
(*                                                                         *)
(* The operations of a mutex are compositions of steps on a record of its  *)
(* fields.  Most of the steps pass priorities on or sort lists anew, which *)
(* takes nobody's mutex away (Slackens): the invariant, Sane, is about the *)
(* records, so that each operation has to be followed only where it        *)
(* changes an owner, a count or a list of taken mutexes.                   *)
(*                                                                         *)
(* That priorities are inherited needs to be known of every list and every *)
(* owner at once (Orderly).  While a priority is passed on all of that     *)
(* holds but for one thread (OrderlyBut), and each round leaves fewer      *)
(* pairs of a thread and a priority ahead (Ahead), so that the loop ends   *)
(* with nobody excepted.                                                   *)
(***************************************************************************)
EXTENDS WorkQueue, Mutex, WaitListProofs, FiniteSetTheorems

Entries == [work : Works, timeout : 0..(Ticks - 1)]

HasWork(s, w) == \E i \in DOMAIN s : s[i].work = w

\* List s at tick tk, with the times lf left in truth.
InOrder(s, tk, lf) ==
    /\ s \in Seq(Entries)
    /\ \A i, j \in DOMAIN s : s[i].work = s[j].work => i = j
    /\ \A i \in DOMAIN s : /\ lf[s[i].work] \in (-MaxLate)..(Half - 1)
                           /\ s[i].timeout = Moment(tk, lf[s[i].work], Ticks)
    /\ \A i, j \in DOMAIN s : i < j => lf[s[i].work] <= lf[s[j].work]

USE WorkQueueAssumption

-----------------------------------------------------------------------------
LEMMA HalfFacts ==
    /\ Half \in Nat /\ Ticks \in Nat \ {0} /\ 2 * Half < Ticks /\ Half > 1
    /\ MaxLate \in 0..(Half - 1)
    /\ \A d \in Delays : d \in 1..(Half - 1) /\ MaxLate + d <= Half
<1>1. Half \in Int /\ 2 * Half <= Ticks - 1  BY DEF Half
<1>2. Half \in Nat /\ Ticks \in Nat \ {0} /\ 2 * Half < Ticks /\ Half > 1  BY <1>1
<1> HIDE DEF Half
<1> QED  BY <1>2

\* What InsertDelayed and DueCount see of the times in truth.
LEMMA SeenNotBefore ==
    ASSUME NEW tk \in 0..(Ticks - 1), NEW x \in (-MaxLate)..(Half - 1), NEW d \in Delays
    PROVE  Minus(Moment(tk, x, Ticks), Moment(tk, d, Ticks)) < Half <=> d <= x
<1>0. /\ Half \in Nat /\ Ticks \in Nat \ {0} /\ 2 * Half < Ticks /\ Half > 1
      /\ MaxLate \in 0..(Half - 1) /\ d \in 1..(Half - 1) /\ MaxLate + d <= Half
  BY HalfFacts
<1>1. Near(x, Ticks) /\ Near(d, Ticks)  BY <1>0 DEF Near
<1> DEFINE mi == Minus(Moment(tk, x, Ticks), Moment(tk, d, Ticks))
<1>2. mi = Apart(Moment(tk, x, Ticks), Moment(tk, d, Ticks), Ticks)
  BY DEF Minus, Apart, Wrap
<1> HIDE DEF mi
<1>3. mi = IF x < d THEN x - d + Ticks ELSE x - d  BY <1>0, <1>1, <1>2, ApartFacts
<1>4. mi < Half <=> d <= x  BY <1>0, <1>3
<1> QED  BY <1>4 DEF mi

LEMMA SeenNotDue ==
    ASSUME NEW tk \in 0..(Ticks - 1), NEW x \in (-MaxLate)..(Half - 1)
    PROVE  Minus(tk, Moment(tk, x, Ticks)) >= Half <=> 0 < x
<1>0. /\ Half \in Nat /\ Ticks \in Nat \ {0} /\ 2 * Half < Ticks /\ Half > 1
      /\ MaxLate \in 0..(Half - 1)
  BY HalfFacts
<1>1. Near(x, Ticks) /\ Near(0, Ticks)  BY <1>0 DEF Near
<1>2. Moment(tk, 0, Ticks) = tk  BY <1>0, <1>1, MomentFacts
<1> DEFINE mi == Minus(tk, Moment(tk, x, Ticks))
<1>3. mi = Apart(Moment(tk, 0, Ticks), Moment(tk, x, Ticks), Ticks)
  BY <1>2 DEF Minus, Apart, Wrap
<1> HIDE DEF mi
<1>4. mi = IF 0 < x THEN 0 - x + Ticks ELSE 0 - x  BY <1>0, <1>1, <1>3, ApartFacts
<1>5. mi >= Half <=> 0 < x  BY <1>0, <1>4
<1> QED  BY <1>5 DEF mi

-----------------------------------------------------------------------------
\* What is left of a list is in order as it was, if nobody's time on it changes.
LEMMA ShrunkInOrder ==
    ASSUME NEW s, NEW r \in Seq(Entries), Kept(r, s), NEW tk, NEW lf, NEW lf2,
           InOrder(s, tk, lf), \A i \in DOMAIN r : lf2[r[i].work] = lf[r[i].work]
    PROVE  InOrder(r, tk, lf2)
<1>1. ASSUME NEW i \in DOMAIN r, NEW j \in DOMAIN r
      PROVE  /\ r[i].work = r[j].work => i = j
             /\ lf2[r[i].work] \in (-MaxLate)..(Half - 1)
             /\ r[i].timeout = Moment(tk, lf2[r[i].work], Ticks)
             /\ i < j => lf2[r[i].work] <= lf2[r[j].work]
  <2>1. PICK m \in DOMAIN s, n \in DOMAIN s :
           r[i] = s[m] /\ r[j] = s[n] /\ (i < j <=> m < n) /\ (i = j <=> m = n)
    BY DEF Kept
  <2>2. lf2[r[i].work] = lf[s[m].work] /\ lf2[r[j].work] = lf[s[n].work]  BY <2>1
  <2>3. /\ s[m].work = s[n].work => m = n
        /\ lf[s[m].work] \in (-MaxLate)..(Half - 1)
        /\ s[m].timeout = Moment(tk, lf[s[m].work], Ticks)
        /\ m < n => lf[s[m].work] <= lf[s[n].work]
    BY DEF InOrder
  <2> QED  BY <2>1, <2>2, <2>3
<1> QED  BY <1>1 DEF InOrder

\* Place p of a list is behind all that are due earlier than in d ticks.
Fits(s, p, lf, d) ==
    \A m \in DOMAIN s : IF p <= m THEN d <= lf[s[m].work] ELSE m < p /\ lf[s[m].work] < d

LEMMA GrownInOrder ==
    ASSUME NEW s, NEW q \in Seq(Entries), NEW p, NEW e \in Entries, Placed(q, s, p, e),
           NEW tk, NEW lf, InOrder(s, tk, lf), ~HasWork(s, e.work),
           NEW d \in (-MaxLate)..(Half - 1), lf[e.work] = d,
           e.timeout = Moment(tk, d, Ticks), Fits(s, p, lf, d)
    PROVE  InOrder(q, tk, lf)
<1>1. p \in DOMAIN q /\ q[p] = e /\ q[p].work = e.work  BY DEF Placed
<1>2. ASSUME NEW i \in DOMAIN q, i # p
      PROVE  /\ q[i].work # e.work
             /\ lf[q[i].work] \in (-MaxLate)..(Half - 1)
             /\ q[i].timeout = Moment(tk, lf[q[i].work], Ticks)
             /\ i < p => lf[q[i].work] <= d
             /\ p < i => d <= lf[q[i].work]
  <2>1. PICK m \in DOMAIN s : q[i] = s[m] /\ (i < p <=> m < p) /\ (p < i <=> p <= m)
    BY <1>2 DEF Placed
  <2>2. /\ s[m].work # e.work
        /\ lf[s[m].work] \in (-MaxLate)..(Half - 1)
        /\ s[m].timeout = Moment(tk, lf[s[m].work], Ticks)
    BY DEF InOrder, HasWork
  <2>3. /\ p <= m => d <= lf[s[m].work]
        /\ ~(p <= m) => m < p /\ lf[s[m].work] < d
    BY DEF Fits
  <2>4. p \in Int /\ m \in Int /\ i \in Int  BY <1>1, LenProperties DEF InOrder
  <2> DEFINE x == lf[s[m].work]
  <2>5. (m < p => x <= d) /\ (p <= m => d <= x)
    <3>1. x \in Int /\ d \in Int  BY <2>2
    <3>2. (p <= m => d <= x) /\ (~(p <= m) => m < p /\ x < d)  BY <2>3
    <3> HIDE DEF x
    <3> QED  BY <2>4, <3>1, <3>2
  <2> QED  BY <2>1, <2>2, <2>5
<1>3. p \in Int /\ \A i \in DOMAIN q : i \in Int  BY <1>1, LenProperties
<1>4. ASSUME NEW i \in DOMAIN q, NEW j \in DOMAIN q
      PROVE  /\ q[i].work = q[j].work => i = j
             /\ i < j => lf[q[i].work] <= lf[q[j].work]
  <2>1. CASE i # p /\ j # p
    <3>1. PICK m \in DOMAIN s, n \in DOMAIN s :
             q[i] = s[m] /\ q[j] = s[n] /\ (i < j <=> m < n) /\ (i = j <=> m = n)
      BY <2>1 DEF Placed
    <3>2. /\ s[m].work = s[n].work => m = n
          /\ m < n => lf[s[m].work] <= lf[s[n].work]
      BY DEF InOrder
    <3> QED  BY <3>1, <3>2
  <2>2. CASE i = p /\ j = p  BY <1>3, <2>2
  <2>3. CASE i = p /\ j # p
    <3>1. q[i].work = e.work /\ lf[q[i].work] = d  BY <1>1, <2>3
    <3> QED  BY <1>2, <2>3, <3>1
  <2>4. CASE i # p /\ j = p
    <3>1. q[j].work = e.work /\ lf[q[j].work] = d  BY <1>1, <2>4
    <3> QED  BY <1>2, <2>4, <3>1
  <2> QED  BY <2>1, <2>2, <2>3, <2>4
<1>5. ASSUME NEW i \in DOMAIN q
      PROVE  /\ lf[q[i].work] \in (-MaxLate)..(Half - 1)
             /\ q[i].timeout = Moment(tk, lf[q[i].work], Ticks)
  BY <1>1, <1>2
<1> QED  BY <1>4, <1>5 DEF InOrder

LEMMA ElapsedInOrder ==
    ASSUME NEW s, NEW tk \in 0..(Ticks - 1), NEW lf, NEW lf2, InOrder(s, tk, lf),
           \A i \in DOMAIN s : /\ lf2[s[i].work] = lf[s[i].work] - 1
                               /\ -MaxLate <= lf2[s[i].work]
    PROVE  InOrder(s, Wrap(tk + 1, Ticks), lf2)
<1> DEFINE o == Wrap(tk + 1, Ticks)
<1>1. ASSUME NEW i \in DOMAIN s
      PROVE  /\ lf[s[i].work] \in Int
             /\ lf2[s[i].work] \in (-MaxLate)..(Half - 1)
             /\ s[i].timeout = Moment(o, lf2[s[i].work], Ticks)
  <2> DEFINE x == lf[s[i].work]
  <2>1. /\ x \in (-MaxLate)..(Half - 1) /\ lf2[s[i].work] = x - 1 /\ -MaxLate <= x - 1
        /\ s[i].timeout = Moment(tk, x, Ticks)
    BY DEF InOrder
  <2>2. Half \in Nat /\ Ticks \in Nat \ {0} /\ 2 * Half < Ticks /\ MaxLate \in 0..(Half - 1)
    BY HalfFacts
  <2> HIDE DEF x
  <2>3. Near(x, Ticks) /\ Near(x - 1, Ticks)  BY <2>1, <2>2 DEF Near
  <2>4. Moment(o, x - 1, Ticks) = Moment(tk, x, Ticks)  BY <2>2, <2>3, MomentPasses
  <2>5. x \in Int /\ x - 1 \in (-MaxLate)..(Half - 1)  BY <2>1, <2>2
  <2> QED  BY <2>1, <2>4, <2>5 DEF x
<1>2. ASSUME NEW i \in DOMAIN s, NEW j \in DOMAIN s, i < j
      PROVE  lf2[s[i].work] <= lf2[s[j].work]
  <2> DEFINE x == lf[s[i].work]
             y == lf[s[j].work]
  <2>1. x \in Int /\ y \in Int /\ x <= y  BY <1>1, <1>2 DEF InOrder
  <2>2. lf2[s[i].work] = x - 1 /\ lf2[s[j].work] = y - 1  OBVIOUS
  <2> HIDE DEF x, y
  <2>3. x - 1 <= y - 1  BY <2>1
  <2> QED  BY <2>2, <2>3
<1> HIDE DEF o
<1>3. InOrder(s, o, lf2)  BY <1>1, <1>2 DEF InOrder
<1> QED  BY <1>3 DEF o

\* InsertDelayed finds a place behind all that are due earlier.
LEMMA InsertFacts ==
    ASSUME NEW s, NEW e \in Entries, NEW tk \in 0..(Ticks - 1), NEW lf, InOrder(s, tk, lf),
           NEW d \in Delays, e.timeout = Moment(tk, d, Ticks)
    PROVE  \E p : /\ InsertDelayed(s, e) \in Seq(Entries)
                  /\ Placed(InsertDelayed(s, e), s, p, e)
                  /\ Fits(s, p, lf, d)
<1> DEFINE notBefore == {i \in DOMAIN s : Minus(s[i].timeout, e.timeout) < Half}
<1>0. s \in Seq(Entries) /\ Len(s) \in Nat /\ DOMAIN s = 1..Len(s)
  BY LenProperties DEF InOrder
<1>1. d \in Int  BY HalfFacts
<1>2. ASSUME NEW m \in DOMAIN s
      PROVE  lf[s[m].work] \in Int /\ (m \in notBefore <=> d <= lf[s[m].work])
  <2> DEFINE x == lf[s[m].work]
  <2>1. x \in (-MaxLate)..(Half - 1) /\ s[m].timeout = Moment(tk, x, Ticks)  BY DEF InOrder
  <2>2. m \in notBefore <=> Minus(Moment(tk, x, Ticks), Moment(tk, d, Ticks)) < Half
    BY <2>1
  <2> HIDE DEF x
  <2>3. m \in notBefore <=> d <= x  BY <2>1, <2>2, SeenNotBefore
  <2> QED  BY <2>1, <2>3 DEF x
<1>3. InsertDelayed(s, e) = IF notBefore = {} THEN Append(s, e)
                            ELSE InsertAt(s, Min(notBefore), e)
  BY DEF InsertDelayed
<1>4. CASE notBefore = {}
  <2>1. ASSUME NEW m \in DOMAIN s
        PROVE  m < Len(s) + 1 /\ ~(Len(s) + 1 <= m) /\ lf[s[m].work] < d
    <3> DEFINE x == lf[s[m].work]
    <3>1. ~(d <= x) /\ x \in Int  BY <1>2, <1>4
    <3> HIDE DEF x
    <3>2. x < d  BY <1>1, <3>1
    <3>3. m < Len(s) + 1 /\ ~(Len(s) + 1 <= m)  BY <1>0
    <3> QED  BY <3>2, <3>3 DEF x
  <2>2. Append(s, e) \in Seq(Entries) /\ Placed(Append(s, e), s, Len(s) + 1, e)
    BY <1>0, AppendPlaced
  <2>3. Fits(s, Len(s) + 1, lf, d)  BY <2>1 DEF Fits
  <2> QED  BY <1>3, <1>4, <2>2, <2>3
<1>5. CASE notBefore # {}
  <2> DEFINE p == Min(notBefore)
  <2>0. notBefore \subseteq DOMAIN s  OBVIOUS
  <2> HIDE DEF notBefore
  <2>1. notBefore \in SUBSET Nat  BY <1>0, <2>0
  <2>2. p \in notBefore /\ \A i \in notBefore : p <= i  BY <1>5, <2>1, LeastNat DEF Min
  <2> HIDE DEF p
  <2>3. p \in DOMAIN s /\ p \in 1..(Len(s) + 1) /\ d <= lf[s[p].work]
    BY <1>0, <1>2, <2>0, <2>2
  <2>4. InsertAt(s, p, e) \in Seq(Entries) /\ Placed(InsertAt(s, p, e), s, p, e)
    BY <1>0, <2>3, InsertAtPlaced
  <2>5. ASSUME NEW m \in DOMAIN s, p <= m PROVE d <= lf[s[m].work]
    <3>1. CASE m = p  BY <2>3, <3>1
    <3>2. CASE p < m
      <4>1. lf[s[p].work] <= lf[s[m].work]  BY <2>3, <3>2 DEF InOrder
      <4> DEFINE x == lf[s[m].work]
                 y == lf[s[p].work]
      <4>2. x \in Int /\ y \in Int /\ d <= y /\ y <= x  BY <1>2, <2>3, <4>1
      <4> HIDE DEF x, y
      <4>3. d <= x  BY <1>1, <4>2
      <4> QED  BY <4>3 DEF x
    <3> QED  BY <1>0, <2>3, <2>5, <3>1, <3>2
  <2>6. ASSUME NEW m \in DOMAIN s, ~(p <= m) PROVE m < p /\ lf[s[m].work] < d
    <3>1. m < p  BY <1>0, <2>3, <2>6
    <3>2. m \notin notBefore  BY <2>2, <2>6
    <3> DEFINE x == lf[s[m].work]
    <3>3. x \in Int /\ ~(d <= x)  BY <1>2, <3>2
    <3> HIDE DEF x
    <3>4. x < d  BY <1>1, <3>3
    <3> QED  BY <3>1, <3>4 DEF x
  <2>7. Fits(s, p, lf, d)  BY <2>5, <2>6 DEF Fits
  <2> QED  BY <1>3, <1>5, <2>4, <2>7 DEF p
<1> QED  BY <1>4, <1>5

-----------------------------------------------------------------------------
\* Work that was asked for is on one of the lists, once: pending work has no
\* delay left, and delayed work is in order.
Dated ==
    /\ tick \in 0..(Ticks - 1)
    /\ workList \in Seq(Works) /\ Distinct(workList)
    /\ left \in [Works -> (-MaxLate)..(Half - 1) \cup {None}]
    /\ asked \subseteq Works /\ cutOff \subseteq asked
    /\ InOrder(delayed, tick, left)
    /\ \A w \in Works : Holds(workList, w) => left[w] = 0 /\ ~HasWork(delayed, w)
    /\ \A w \in Works : w \in asked \ cutOff <=> Holds(workList, w) \/ HasWork(delayed, w)

LEMMA EntryFacts ==
    ASSUME Dated, NEW i \in DOMAIN delayed
    PROVE  /\ delayed[i] \in Entries /\ delayed[i].work \in Works
           /\ HasWork(delayed, delayed[i].work)
           /\ left[delayed[i].work] \in (-MaxLate)..(Half - 1)
           /\ delayed[i].timeout = Moment(tick, left[delayed[i].work], Ticks)
<1>1. delayed \in Seq(Entries) /\ InOrder(delayed, tick, left)  BY DEF Dated, InOrder
<1>2. delayed[i] \in Entries  BY <1>1, ElementOfSeq, LenProperties
<1>3. delayed[i].work \in Works  BY <1>2 DEF Entries
<1> QED  BY <1>1, <1>2, <1>3 DEF InOrder, HasWork

\* What rt_list_remove of a work leaves, on whichever list it was.
LEMMA OffFacts ==
    ASSUME Dated, NEW w \in Works
    PROVE  /\ OffWorkList(w) \in Seq(Works) /\ Distinct(OffWorkList(w))
           /\ \A u : Holds(OffWorkList(w), u) <=> Holds(workList, u) /\ u # w
           /\ OffDelayed(w) \in Seq(Entries) /\ Kept(OffDelayed(w), delayed)
           /\ ~HasWork(OffDelayed(w), w)
           /\ \A u : u # w => (HasWork(OffDelayed(w), u) <=> HasWork(delayed, u))
           /\ workList = <<>> => OffWorkList(w) = <<>>
           /\ delayed = <<>> => OffDelayed(w) = <<>>
<1>1. /\ OffWorkList(w) \in Seq(Works) /\ Distinct(OffWorkList(w))
      /\ \A u : Holds(OffWorkList(w), u) <=> Holds(workList, u) /\ u # w
  BY UnlinkFacts DEF Dated, OffWorkList
<1>2. workList = <<>> => OffWorkList(w) = <<>>
  BY DEF OffWorkList, Unlink, Holds
<1> DEFINE s == delayed
           at == {i \in DOMAIN s : s[i].work = w}
<1>3. s \in Seq(Entries) /\ \A i, j \in DOMAIN s : s[i].work = s[j].work => i = j
  BY DEF Dated, InOrder
<1>4. CASE at = {}
  <2>1. OffDelayed(w) = s  BY <1>4 DEF OffDelayed
  <2>2. Kept(s, s)  BY DEF Kept
  <2>3. ~HasWork(s, w)  BY <1>4 DEF HasWork
  <2> QED  BY <1>1, <1>2, <1>3, <2>1, <2>2, <2>3
<1>5. CASE at # {}
  <2> DEFINE p == CHOOSE i \in at : TRUE
             r == RemoveAt(s, p)
  <2>1. p \in at  BY <1>5
  <2>2. OffDelayed(w) = r  BY <1>5 DEF OffDelayed
  <2>3. p \in DOMAIN s /\ s[p].work = w  BY <2>1
  <2>4. s # <<>>
    <3>1. DOMAIN <<>> = {}  BY EmptySeq, LenProperties
    <3> QED  BY <2>3, <3>1
  <2> HIDE DEF p
  <2>5. /\ r \in Seq(Entries) /\ Kept(r, s)
        /\ \A i \in DOMAIN r : \E m \in DOMAIN s : m # p /\ r[i] = s[m]
        /\ \A m \in DOMAIN s : m # p => \E i \in DOMAIN r : r[i] = s[m]
    BY <1>3, <2>3, RemoveAtKept
  <2> HIDE DEF r
  <2>6. ~HasWork(r, w)  BY <1>3, <2>3, <2>5 DEF HasWork
  <2>7. ASSUME NEW u, u # w PROVE HasWork(r, u) <=> HasWork(s, u)
    BY <2>3, <2>5, <2>7 DEF HasWork
  <2> QED  BY <1>1, <1>2, <2>2, <2>4, <2>5, <2>6, <2>7
<1> QED  BY <1>4, <1>5

\* What a change of left at w leaves of the delayed works.
LEMMA OffInOrder ==
    ASSUME Dated, NEW w \in Works, NEW x, left' = [left EXCEPT ![w] = x]
    PROVE  /\ InOrder(OffDelayed(w), tick, left') /\ left'[w] = x
           /\ \A u \in Works : u # w => left'[u] = left[u]
<1>1. left'[w] = x /\ \A u \in Works : u # w => left'[u] = left[u]  BY DEF Dated
<1> DEFINE r == OffDelayed(w)
           lf == left'
<1>2. /\ r \in Seq(Entries) /\ Kept(r, delayed) /\ ~HasWork(r, w)  BY OffFacts
<1>3. InOrder(delayed, tick, left)  BY DEF Dated
<1> HIDE DEF r, lf
<1>4. ASSUME NEW i \in DOMAIN r PROVE lf[r[i].work] = left[r[i].work]
  <2>1. r[i] \in Entries  BY <1>2, ElementOfSeq, LenProperties
  <2>2. r[i].work \in Works  BY <2>1 DEF Entries
  <2>3. r[i].work # w  BY <1>2 DEF HasWork
  <2> DEFINE u == r[i].work
  <2>4. u \in Works /\ u # w  BY <2>2, <2>3
  <2> HIDE DEF u
  <2>5. left'[u] = left[u]  BY <1>1, <2>4
  <2> QED  BY <2>5 DEF u, lf
<1>5. InOrder(r, tick, lf)  BY <1>2, <1>3, <1>4, ShrunkInOrder
<1> QED  BY <1>1, <1>5 DEF r, lf

\* Work is made pending, at the end of the list or first.
LEMMA JoinDates ==
    ASSUME Dated, NEW w \in Works, NEW q \in Seq(Works), Distinct(q),
           \A u \in Works : Holds(q, u) <=> Holds(OffWorkList(w), u) \/ u = w,
           workList' = q, delayed' = OffDelayed(w), left' = [left EXCEPT ![w] = 0],
           asked' = asked \cup {w}, cutOff' = cutOff \ {w}, tick' = tick
    PROVE  Dated'
<1>1. /\ InOrder(delayed', tick', left') /\ left'[w] = 0
      /\ \A u \in Works : u # w => left'[u] = left[u]
  BY OffInOrder
<1>2. 0 \in (-MaxLate)..(Half - 1)  BY HalfFacts
<1>3. left' \in [Works -> (-MaxLate)..(Half - 1) \cup {None}]
  <2> DEFINE R == (-MaxLate)..(Half - 1) \cup {None}
  <2>1. left \in [Works -> R] /\ 0 \in R  BY <1>2 DEF Dated
  <2> HIDE DEF R
  <2>2. left' \in [Works -> R]  BY <2>1
  <2> QED  BY <2>2 DEF R
<1>4. ASSUME NEW u \in Works
      PROVE  /\ Holds(workList', u) => left'[u] = 0 /\ ~HasWork(delayed', u)
             /\ u \in asked' \ cutOff' <=> Holds(workList', u) \/ HasWork(delayed', u)
  <2>1. /\ Holds(workList', u) <=> Holds(workList, u) \/ u = w
        /\ HasWork(delayed', u) <=> HasWork(delayed, u) /\ u # w
    BY OffFacts
  <2>2. /\ Holds(workList, u) => left[u] = 0 /\ ~HasWork(delayed, u)
        /\ u \in asked \ cutOff <=> Holds(workList, u) \/ HasWork(delayed, u)
    BY DEF Dated
  <2> QED  BY <1>1, <2>1, <2>2
<1>5. /\ tick' \in 0..(Ticks - 1) /\ workList' \in Seq(Works) /\ Distinct(workList')
      /\ asked' \subseteq Works /\ cutOff' \subseteq asked'
  BY DEF Dated
<1> QED  BY <1>1, <1>3, <1>4, <1>5 DEF Dated

LEMMA SubmitNowDates ==
    ASSUME Dated, NEW w \in Works, SubmitNow(w), asked' = asked \cup {w},
           cutOff' = cutOff \ {w}, tick' = tick
    PROVE  Dated'
<1> DEFINE q == Append(OffWorkList(w), w)
<1>1. /\ OffWorkList(w) \in Seq(Works) /\ Distinct(OffWorkList(w)) /\ ~Holds(OffWorkList(w), w)
  BY OffFacts
<1>2. /\ q \in Seq(Works) /\ Distinct(q)
      /\ \A u : Holds(q, u) <=> Holds(OffWorkList(w), u) \/ u = w
  BY <1>1, AppendFacts
<1>3. workList' = q /\ delayed' = OffDelayed(w) /\ left' = [left EXCEPT ![w] = 0]
  BY DEF SubmitNow
<1> HIDE DEF q
<1> QED  BY <1>2, <1>3, JoinDates

LEMMA UrgentDates ==
    ASSUME Dated, NEW w \in Works, Urgent(w)
    PROVE  Dated'
<1> DEFINE q == <<w>> \o OffWorkList(w)
<1>1. /\ OffWorkList(w) \in Seq(Works) /\ Distinct(OffWorkList(w)) /\ ~Holds(OffWorkList(w), w)
  BY OffFacts
<1>2. /\ q \in Seq(Works) /\ Distinct(q)
      /\ \A u : Holds(q, u) <=> Holds(OffWorkList(w), u) \/ u = w
  BY <1>1, PrependFacts
<1>3. /\ workList' = q /\ delayed' = OffDelayed(w) /\ left' = [left EXCEPT ![w] = 0]
      /\ asked' = asked \cup {w} /\ cutOff' = cutOff \ {w} /\ tick' = tick
  BY DEF Urgent
<1> HIDE DEF q
<1> QED  BY <1>2, <1>3, JoinDates

LEMMA SubmitLaterDates ==
    ASSUME Dated, NEW w \in Works, NEW d \in Delays, SubmitLater(w, d),
           asked' = asked \cup {w}, cutOff' = cutOff \ {w}, tick' = tick
    PROVE  Dated'
<1> DEFINE e == [work |-> w, timeout |-> (tick + d) % Ticks]
           z == OffDelayed(w)
           lf == left'
<1>1. workList' = OffWorkList(w) /\ delayed' = InsertDelayed(z, e) /\ left' = [left EXCEPT ![w] = d]
  BY DEF SubmitLater
<1>2. InOrder(z, tick, lf) /\ lf[w] = d /\ \A u \in Works : u # w => left'[u] = left[u]
  BY <1>1, OffInOrder
<1>3. /\ Half \in Nat /\ Ticks \in Nat \ {0} /\ 2 * Half < Ticks /\ MaxLate \in 0..(Half - 1)
      /\ d \in 1..(Half - 1)
  BY HalfFacts
<1>4. d \in (-MaxLate)..(Half - 1) /\ Near(d, Ticks)  BY <1>3 DEF Near
<1>5. tick \in 0..(Ticks - 1)  BY DEF Dated
<1>6. e \in Entries /\ e.work = w /\ e.timeout = Moment(tick, d, Ticks)
  <2>1. Moment(tick, d, Ticks) \in 0..(Ticks - 1)  BY <1>3, <1>4, <1>5, MomentFacts
  <2>2. Moment(tick, d, Ticks) = (tick + d) % Ticks  BY DEF Moment, Wrap
  <2> QED  BY <2>1, <2>2 DEF Entries
<1>7. left' \in [Works -> (-MaxLate)..(Half - 1) \cup {None}]
  <2> DEFINE R == (-MaxLate)..(Half - 1) \cup {None}
  <2>1. left \in [Works -> R] /\ d \in R  BY <1>4 DEF Dated
  <2> HIDE DEF R
  <2>2. left' \in [Works -> R]  BY <1>1, <2>1
  <2> QED  BY <2>2 DEF R
<1>8. ~HasWork(z, w)  BY OffFacts
<1> DEFINE q == InsertDelayed(z, e)
<1>9. InOrder(q, tick, lf) /\ \A u : HasWork(q, u) <=> HasWork(z, u) \/ u = w
  <2> HIDE DEF e, z, lf
  <2>1. PICK p : q \in Seq(Entries) /\ Placed(q, z, p, e) /\ Fits(z, p, lf, d)
    BY <1>2, <1>5, <1>6, InsertFacts
  <2> HIDE DEF q
  <2>2. InOrder(q, tick, lf)  BY <1>2, <1>4, <1>6, <1>8, <2>1, GrownInOrder
  <2>3. HasWork(q, w)  BY <1>6, <2>1 DEF Placed, HasWork
  <2>4. ASSUME NEW u, HasWork(q, u) PROVE HasWork(z, u) \/ u = w
    BY <1>6, <2>1, <2>4 DEF Placed, HasWork
  <2>5. ASSUME NEW u, HasWork(z, u) PROVE HasWork(q, u)
    <3>1. PICK m \in DOMAIN z : z[m].work = u  BY <2>5 DEF HasWork
    <3>2. PICK i \in DOMAIN q : q[i] = z[m]  BY <2>1 DEF Placed
    <3>3. q[i].work = u  BY <3>1, <3>2
    <3> QED  BY <3>3 DEF HasWork
  <2> QED  BY <2>2, <2>3, <2>4, <2>5
<1>10. ASSUME NEW u \in Works
       PROVE  /\ Holds(workList', u) => left'[u] = 0 /\ ~HasWork(delayed', u)
              /\ u \in asked' \ cutOff' <=> Holds(workList', u) \/ HasWork(delayed', u)
  <2>1. Holds(workList', u) <=> Holds(workList, u) /\ u # w  BY <1>1, OffFacts
  <2>2. HasWork(delayed', u) <=> HasWork(delayed, u) \/ u = w
    <3>1. HasWork(delayed', u) <=> HasWork(z, u) \/ u = w  BY <1>1, <1>9
    <3>2. u # w => (HasWork(z, u) <=> HasWork(delayed, u))  BY OffFacts
    <3> QED  BY <3>1, <3>2
  <2>3. /\ Holds(workList, u) => left[u] = 0 /\ ~HasWork(delayed, u)
        /\ u \in asked \ cutOff <=> Holds(workList, u) \/ HasWork(delayed, u)
    BY DEF Dated
  <2> QED  BY <1>2, <2>1, <2>2, <2>3
<1>11. /\ tick' \in 0..(Ticks - 1) /\ workList' \in Seq(Works) /\ Distinct(workList')
       /\ asked' \subseteq Works /\ cutOff' \subseteq asked'
  BY <1>1, OffFacts DEF Dated
<1>12. InOrder(delayed', tick', left')  BY <1>1, <1>9
<1> QED  BY <1>7, <1>10, <1>11, <1>12 DEF Dated

LEMMA WithdrawDates ==
    ASSUME Dated, NEW w \in Works, Withdraw(w), tick' = tick
    PROVE  Dated'
<1>1. /\ workList' = OffWorkList(w) /\ delayed' = OffDelayed(w)
      /\ left' = [left EXCEPT ![w] = None] /\ asked' = asked \ {w} /\ cutOff' = cutOff \ {w}
  BY DEF Withdraw
<1>2. /\ InOrder(delayed', tick', left') /\ \A u \in Works : u # w => left'[u] = left[u]
  BY <1>1, OffInOrder
<1>3. left' \in [Works -> (-MaxLate)..(Half - 1) \cup {None}]
  <2> DEFINE R == (-MaxLate)..(Half - 1) \cup {None}
  <2>1. left \in [Works -> R] /\ None \in R  BY DEF Dated
  <2> HIDE DEF R
  <2>2. left' \in [Works -> R]  BY <1>1, <2>1
  <2> QED  BY <2>2 DEF R
<1>4. ASSUME NEW u \in Works
      PROVE  /\ Holds(workList', u) => left'[u] = 0 /\ ~HasWork(delayed', u)
             /\ u \in asked' \ cutOff' <=> Holds(workList', u) \/ HasWork(delayed', u)
  <2>1. /\ Holds(workList', u) <=> Holds(workList, u) /\ u # w
        /\ HasWork(delayed', u) <=> HasWork(delayed, u) /\ u # w
    BY <1>1, OffFacts
  <2>2. /\ Holds(workList, u) => left[u] = 0 /\ ~HasWork(delayed, u)
        /\ u \in asked \ cutOff <=> Holds(workList, u) \/ HasWork(delayed, u)
    BY DEF Dated
  <2> QED  BY <1>1, <1>2, <2>1, <2>2
<1>5. /\ tick' \in 0..(Ticks - 1) /\ workList' \in Seq(Works) /\ Distinct(workList')
      /\ asked' \subseteq Works /\ cutOff' \subseteq asked'
  BY <1>1, OffFacts DEF Dated
<1> QED  BY <1>2, <1>3, <1>4, <1>5 DEF Dated

-----------------------------------------------------------------------------
\* What is due stands before the rest, and its time is over.
LEMMA DueFacts ==
    ASSUME Dated
    PROVE  /\ DueCount \in 0..Len(delayed) /\ Len(delayed) \in Nat
           /\ DOMAIN delayed = 1..Len(delayed)
           /\ \A i \in 1..DueCount : left[delayed[i].work] \in Int /\ left[delayed[i].work] <= 0
<1> DEFINE notDue == {i \in DOMAIN delayed : Minus(tick, delayed[i].timeout) >= Half}
<1>0. /\ delayed \in Seq(Entries) /\ Len(delayed) \in Nat /\ DOMAIN delayed = 1..Len(delayed)
      /\ tick \in 0..(Ticks - 1)
  BY LenProperties DEF Dated, InOrder
<1>1. ASSUME NEW i \in DOMAIN delayed, i \notin notDue
      PROVE  left[delayed[i].work] \in Int /\ left[delayed[i].work] <= 0
  <2> DEFINE x == left[delayed[i].work]
  <2>1. x \in (-MaxLate)..(Half - 1) /\ delayed[i].timeout = Moment(tick, x, Ticks)
    BY EntryFacts
  <2>2. ~(Minus(tick, Moment(tick, x, Ticks)) >= Half)  BY <1>1, <2>1
  <2> HIDE DEF x
  <2>3. ~(0 < x)  BY <1>0, <2>1, <2>2, SeenNotDue
  <2>4. x \in Int /\ x <= 0  BY <2>1, <2>3
  <2> QED  BY <2>4 DEF x
<1>2. DueCount = IF notDue = {} THEN Len(delayed) ELSE Min(notDue) - 1
  BY DEF DueCount
<1>3. notDue \subseteq DOMAIN delayed  OBVIOUS
<1> HIDE DEF notDue
<1>4. CASE notDue = {}  BY <1>0, <1>1, <1>2, <1>4
<1>5. CASE notDue # {}
  <2> DEFINE p == Min(notDue)
  <2>1. notDue \in SUBSET Nat  BY <1>0, <1>3
  <2>2. p \in notDue /\ \A i \in notDue : p <= i  BY <1>5, <2>1, LeastNat DEF Min
  <2> HIDE DEF p
  <2>3. p \in 1..Len(delayed) /\ DueCount = p - 1  BY <1>0, <1>2, <1>3, <1>5, <2>2 DEF p
  <2>4. ASSUME NEW i \in 1..DueCount PROVE i \in DOMAIN delayed /\ i \notin notDue
    BY <1>0, <2>2, <2>3
  <2> QED  BY <1>0, <1>1, <2>3, <2>4
<1> QED  BY <1>4, <1>5

Ready == workList \o Due
Later == SubSeq(delayed, DueCount + 1, Len(delayed))

\* What the worker finds: the pending works and behind them those that are due,
\* and what stays delayed.
LEMMA ReadyFacts ==
    ASSUME Dated
    PROVE  /\ Ready \in Seq(Works) /\ Distinct(Ready)
           /\ \A u \in Works : Holds(Ready, u) <=> Holds(workList, u) \/ Moved(u)
           /\ \A u \in Works : Moved(u) => HasWork(delayed, u) /\ left[u] \in Int /\ left[u] <= 0
           /\ Later \in Seq(Entries) /\ Kept(Later, delayed)
           /\ \A u \in Works : HasWork(Later, u) <=> HasWork(delayed, u) /\ ~Moved(u)
<1> DEFINE n == DueCount
           m == Len(workList)
           l == Len(delayed)
           D == Due
           R == Ready
           s == delayed
           z == Later
<1>0. /\ workList \in Seq(Works) /\ Distinct(workList) /\ m \in Nat /\ DOMAIN workList = 1..m
      /\ s \in Seq(Entries)
  BY LenProperties DEF Dated, InOrder
<1>1. /\ n \in 0..l /\ l \in Nat /\ DOMAIN s = 1..l
      /\ \A i \in 1..n : left[s[i].work] \in Int /\ left[s[i].work] <= 0
  BY DueFacts
<1>2. \A i \in DOMAIN s : s[i].work \in Works  BY EntryFacts
<1>3. \A i, j \in DOMAIN s : s[i].work = s[j].work => i = j  BY DEF Dated, InOrder
<1>4. \A u \in Works : Holds(workList, u) => ~HasWork(s, u)  BY DEF Dated
<1>5. D = [i \in 1..n |-> s[i].work]  BY DEF Due
<1> HIDE DEF n, l, D, s
<1>6. /\ D \in Seq(Works) /\ Len(D) = n /\ DOMAIN D = 1..n
      /\ \A i \in 1..n : D[i] = s[i].work
  <2>1. n \in Nat /\ \A i \in 1..n : s[i].work \in Works  BY <1>1, <1>2
  <2>2. D \in Seq(Works)  BY <1>5, <2>1, IsASeq
  <2>3. DOMAIN D = 1..n /\ \A i \in 1..n : D[i] = s[i].work  BY <1>5
  <2>4. Len(D) = n  BY <2>1, <2>2, <2>3, LenProperties
  <2> QED  BY <2>2, <2>3, <2>4
<1> HIDE DEF m
<1>7. /\ R \in Seq(Works) /\ Len(R) = m + n
      /\ \A i \in 1..(m + n) : R[i] = IF i <= m THEN workList[i] ELSE D[i - m]
  <2>1. R = workList \o D /\ m = Len(workList)  BY DEF Ready, D, m
  <2> HIDE DEF R
  <2> QED  BY <1>0, <1>6, <2>1, ConcatProperties
<1> HIDE DEF R
<1>8. DOMAIN R = 1..(m + n)  BY <1>7, LenProperties
<1>9. \A u : Moved(u) <=> \E i \in 1..n : s[i].work = u
  BY <1>6 DEF Moved, D
<1>10. ASSUME NEW u \in Works, Moved(u)
       PROVE  HasWork(s, u) /\ left[u] \in Int /\ left[u] <= 0
  <2>1. PICK i \in 1..n : s[i].work = u  BY <1>9, <1>10
  <2>2. i \in DOMAIN s  BY <1>1
  <2> QED  BY <1>1, <2>1, <2>2 DEF HasWork
\* Position i of R is one of workList, or of D.
<1>11. \A i \in DOMAIN R :
          \/ i \in 1..m /\ R[i] = workList[i]
          \/ i \in (m + 1)..(m + n) /\ i - m \in 1..n /\ R[i] = s[i - m].work
  <2> TAKE i \in DOMAIN R
  <2>1. CASE i <= m  BY <1>0, <1>1, <1>7, <1>8, <2>1
  <2>2. CASE ~(i <= m)
    <3>1. i \in (m + 1)..(m + n) /\ i - m \in 1..n  BY <1>0, <1>1, <1>8, <2>2
    <3>2. R[i] = D[i - m]  BY <1>7, <1>8, <2>2
    <3> QED  BY <1>6, <3>1, <3>2
  <2> QED  BY <2>1, <2>2
<1>12. \A i \in 1..m : i \in DOMAIN R /\ R[i] = workList[i]
  BY <1>0, <1>1, <1>7, <1>8
<1>13. ASSUME NEW i \in 1..n PROVE m + i \in DOMAIN R /\ R[m + i] = s[i].work
  <2> DEFINE j == m + i
  <2>1. j \in 1..(m + n) /\ ~(j <= m) /\ j - m = i  BY <1>0, <1>1
  <2> HIDE DEF j
  <2>2. R[j] = D[j - m]  BY <1>7, <2>1
  <2>3. R[j] = s[i].work  BY <1>6, <2>1, <2>2
  <2>4. j \in DOMAIN R  BY <1>8, <2>1
  <2> QED  BY <2>3, <2>4 DEF j
<1>14. ASSUME NEW u \in Works PROVE Holds(R, u) <=> Holds(workList, u) \/ Moved(u)
  <2>1. ASSUME Holds(R, u) PROVE Holds(workList, u) \/ Moved(u)
    <3>1. PICK i \in DOMAIN R : R[i] = u  BY <2>1 DEF Holds
    <3> QED  BY <1>0, <1>9, <1>11, <3>1 DEF Holds
  <2>2. ASSUME Holds(workList, u) PROVE Holds(R, u)  BY <1>0, <1>12, <2>2 DEF Holds
  <2>3. ASSUME Moved(u) PROVE Holds(R, u)
    <3>1. PICK i \in 1..n : s[i].work = u  BY <1>9, <2>3
    <3>2. m + i \in DOMAIN R /\ R[m + i] = u  BY <1>13, <3>1
    <3> QED  BY <3>2 DEF Holds
  <2> QED  BY <2>1, <2>2, <2>3
<1>15. Distinct(R)
  <2> SUFFICES ASSUME NEW i \in DOMAIN R, NEW j \in DOMAIN R, R[i] = R[j] PROVE i = j
    BY DEF Distinct
  <2>1. ASSUME NEW a \in DOMAIN R, NEW b \in DOMAIN R, R[a] = R[b],
               a \in 1..m, R[a] = workList[a], b - m \in 1..n, R[b] = s[b - m].work
        PROVE  FALSE
    <3>1. Holds(workList, R[a])  BY <1>0, <2>1 DEF Holds
    <3>2. b - m \in DOMAIN s  BY <1>1, <2>1
    <3>3. HasWork(s, R[a]) /\ R[a] \in Works  BY <1>2, <2>1, <3>2 DEF HasWork
    <3> QED  BY <1>4, <3>1, <3>3
  <2>2. CASE i \in 1..m /\ j \in 1..m
    BY <1>0, <1>12, <2>2 DEF Distinct
  <2>3. CASE i \notin 1..m /\ j \notin 1..m
    <3>1. /\ i \in Int /\ j \in Int /\ i - m \in 1..n /\ j - m \in 1..n
          /\ s[i - m].work = s[j - m].work
      BY <1>0, <1>1, <1>11, <2>3
    <3>2. i - m \in DOMAIN s /\ j - m \in DOMAIN s  BY <1>1, <3>1
    <3>3. i - m = j - m  BY <1>3, <3>1, <3>2
    <3> QED  BY <1>0, <3>1, <3>3
  <2>4. CASE i \in 1..m /\ j \notin 1..m
    <3>1. R[i] = workList[i] /\ j - m \in 1..n /\ R[j] = s[j - m].work  BY <1>11, <1>12, <2>4
    <3> QED  BY <2>1, <2>4, <3>1
  <2>5. CASE i \notin 1..m /\ j \in 1..m
    <3>1. R[j] = workList[j] /\ i - m \in 1..n /\ R[i] = s[i - m].work  BY <1>11, <1>12, <2>5
    <3> QED  BY <2>1, <2>5, <3>1
  <2> QED  BY <2>2, <2>3, <2>4, <2>5
<1>16. /\ z \in Seq(Entries) /\ Len(z) = l - n /\ DOMAIN z = 1..(l - n)
       /\ \A i \in 1..(l - n) : z[i] = s[n + i]
  <2>1. z = SubSeq(s, n + 1, l) /\ l = Len(s)  BY DEF Later, n, l, s
  <2> HIDE DEF z
  <2>2. \A i \in (n + 1)..l : s[i] \in Entries  BY <1>0, <1>1, <2>1, ElementOfSeq
  <2>3. /\ n + 1 \in Int /\ l - (n + 1) + 1 = l - n
        /\ (IF n + 1 <= l THEN l - (n + 1) + 1 ELSE 0) = l - n
    BY <1>1
  <2>4. /\ z \in Seq(Entries) /\ Len(z) = l - n
        /\ \A i \in 1..(l - n) : z[i] = s[(n + 1) + i - 1]
    <3> DEFINE f == n + 1
    <3>1. f \in Int /\ l \in Int /\ (IF f <= l THEN l - f + 1 ELSE 0) = l - n /\ l - f + 1 = l - n
      BY <1>1, <2>3
    <3>2. z = SubSeq(s, f, l) /\ \A i \in f..l : s[i] \in Entries  BY <2>1, <2>2
    <3> HIDE DEF f
    <3>3. /\ SubSeq(s, f, l) \in Seq(Entries)
          /\ Len(SubSeq(s, f, l)) = IF f <= l THEN l - f + 1 ELSE 0
          /\ \A i \in 1..(l - f + 1) : SubSeq(s, f, l)[i] = s[f + i - 1]
      BY <3>1, <3>2, SubSeqProperties
    <3>4. \A i \in 1..(l - n) : z[i] = s[f + i - 1]  BY <3>1, <3>2, <3>3
    <3> QED  BY <3>1, <3>2, <3>3, <3>4 DEF f
  <2>5. \A i \in 1..(l - n) : (n + 1) + i - 1 = n + i  BY <1>1
  <2>6. DOMAIN z = 1..(l - n)  BY <2>4, LenProperties
  <2> QED  BY <2>4, <2>5, <2>6
<1> HIDE DEF z
<1>17. ASSUME NEW i \in DOMAIN z
       PROVE  n + i \in DOMAIN s /\ z[i] = s[n + i] /\ n + i \in Int /\ i \in Int /\ n + i \notin 1..n
  <2>1. i \in 1..(l - n)  BY <1>16
  <2>2. z[i] = s[n + i]  BY <1>16, <2>1
  <2>3. n + i \in 1..l /\ n + i \in Int /\ i \in Int /\ n + i \notin 1..n  BY <1>1, <2>1
  <2> QED  BY <1>1, <2>2, <2>3
<1>18. Kept(z, s)
  <2> SUFFICES ASSUME NEW i \in DOMAIN z, NEW j \in DOMAIN z
               PROVE  \E a, b \in DOMAIN s :
                         z[i] = s[a] /\ z[j] = s[b] /\ (i < j <=> a < b) /\ (i = j <=> a = b)
    BY DEF Kept
  <2>1. (i < j <=> n + i < n + j) /\ (i = j <=> n + i = n + j)  BY <1>1, <1>17
  <2> QED  BY <1>17, <2>1
<1>19. ASSUME NEW u \in Works PROVE HasWork(z, u) <=> HasWork(s, u) /\ ~Moved(u)
  <2>1. ASSUME HasWork(z, u) PROVE HasWork(s, u) /\ ~Moved(u)
    <3>1. PICK i \in DOMAIN z : z[i].work = u  BY <2>1 DEF HasWork
    <3>2. n + i \in DOMAIN s /\ s[n + i].work = u /\ n + i \notin 1..n  BY <1>17, <3>1
    <3>3. \A j \in 1..n : j \in DOMAIN s  BY <1>1
    <3>4. ~Moved(u)  BY <1>3, <1>9, <3>2, <3>3
    <3> QED  BY <3>2, <3>4 DEF HasWork
  <2>2. ASSUME HasWork(s, u), ~Moved(u) PROVE HasWork(z, u)
    <3>1. PICK i \in DOMAIN s : s[i].work = u  BY <2>2 DEF HasWork
    <3>2. i \notin 1..n  BY <1>9, <2>2, <3>1
    <3>3. i - n \in 1..(l - n) /\ n + (i - n) = i  BY <1>1, <3>1, <3>2
    <3>4. z[i - n].work = u /\ i - n \in DOMAIN z  BY <1>16, <3>1, <3>3
    <3> QED  BY <3>4 DEF HasWork
  <2> QED  BY <2>1, <2>2
<1> QED  BY <1>7, <1>10, <1>14, <1>15, <1>16, <1>18, <1>19 DEF R, s, z

\* The worker takes the first; what is due is pending from now on.
LEMMA TakeDates ==
    ASSUME Dated, TakeWork
    PROVE  Dated' /\ current' \in Works
<1> DEFINE R == Ready
           z == Later
           h == Head(R)
           lf == left'
<1>1. /\ R # <<>> /\ workList' = Tail(R) /\ delayed' = z /\ tick' = tick
      /\ left' = [Waited EXCEPT ![h] = None] /\ asked' = asked \ {h} /\ cutOff' = cutOff
      /\ current' = h
  BY DEF TakeWork, Ready, Later
<1>2. /\ R \in Seq(Works) /\ Distinct(R)
      /\ \A u \in Works : Holds(R, u) <=> Holds(workList, u) \/ Moved(u)
      /\ \A u \in Works : Moved(u) => HasWork(delayed, u) /\ left[u] \in Int /\ left[u] <= 0
      /\ z \in Seq(Entries) /\ Kept(z, delayed)
      /\ \A u \in Works : HasWork(z, u) <=> HasWork(delayed, u) /\ ~Moved(u)
  BY ReadyFacts
<1> HIDE DEF R, z
<1>3. /\ h \in Works /\ Holds(R, h) /\ Tail(R) \in Seq(Works) /\ Distinct(Tail(R))
      /\ \A u : Holds(Tail(R), u) <=> Holds(R, u) /\ u # h
  BY <1>1, <1>2, TailFacts
<1> HIDE DEF h
<1>4. \A u \in Works : left'[u] = IF u = h THEN None
                                  ELSE IF Moved(u) /\ left[u] < 0 THEN 0 ELSE left[u]
  BY <1>1, <1>3 DEF Waited
<1>5. left' \in [Works -> (-MaxLate)..(Half - 1) \cup {None}]
  <2> DEFINE S == (-MaxLate)..(Half - 1) \cup {None}
  <2>1. 0 \in S /\ None \in S  BY HalfFacts
  <2>2. left \in [Works -> S]  BY DEF Dated
  <2> HIDE DEF S
  <2>3. Waited \in [Works -> S]  BY <2>1, <2>2 DEF Waited
  <2>4. left' \in [Works -> S]  BY <1>1, <2>1, <2>3
  <2> QED  BY <2>4 DEF S
<1>6. ASSUME NEW u \in Works
      PROVE  /\ Holds(workList, u) => left[u] = 0 /\ ~HasWork(delayed, u)
             /\ u \in asked \ cutOff <=> Holds(workList, u) \/ HasWork(delayed, u)
  BY DEF Dated
<1>7. ASSUME NEW u \in Works
      PROVE  /\ Holds(workList', u) => left'[u] = 0 /\ ~HasWork(delayed', u)
             /\ u \in asked' \ cutOff' <=> Holds(workList', u) \/ HasWork(delayed', u)
  <2>1. Holds(workList', u) <=> (Holds(workList, u) \/ Moved(u)) /\ u # h
    BY <1>1, <1>2, <1>3
  <2>2. HasWork(delayed', u) <=> HasWork(delayed, u) /\ ~Moved(u)  BY <1>1, <1>2
  <2>3. HasWork(delayed', u) => u # h
    <3>1. Holds(workList, h) \/ Moved(h)  BY <1>2, <1>3
    <3> QED  BY <1>6, <2>2, <3>1
  <2>4. ASSUME Holds(workList', u) PROVE left'[u] = 0
    <3>1. CASE Moved(u)
      <4> DEFINE x == left[u]
      <4>1. x \in Int /\ x <= 0  BY <1>2, <3>1
      <4>2. left'[u] = IF x < 0 THEN 0 ELSE x  BY <1>4, <2>1, <2>4, <3>1
      <4> HIDE DEF x
      <4> QED  BY <4>1, <4>2
    <3>2. CASE ~Moved(u)
      <4>1. left[u] = 0 /\ u # h  BY <1>6, <2>1, <2>4, <3>2
      <4> QED  BY <1>4, <3>2, <4>1
    <3> QED  BY <3>1, <3>2
  <2>5. u \in asked' \ cutOff' <=> u \in asked \ cutOff /\ u # h  BY <1>1
  <2>6. Moved(u) => HasWork(delayed, u)  BY <1>2
  <2> QED  BY <1>6, <2>1, <2>2, <2>3, <2>4, <2>5, <2>6
<1>8. InOrder(z, tick, lf)
  <2>1. ASSUME NEW i \in DOMAIN z PROVE lf[z[i].work] = left[z[i].work]
    <3> DEFINE u == z[i].work
    <3>1. z[i] \in Entries  BY <1>2, ElementOfSeq, LenProperties
    <3>2. u \in Works /\ HasWork(z, u)  BY <3>1 DEF Entries, HasWork
    <3> HIDE DEF u
    <3>3. HasWork(delayed, u) /\ ~Moved(u)  BY <1>2, <3>2
    <3>4. u # h
      <4>1. Holds(workList, h) \/ Moved(h)  BY <1>2, <1>3
      <4> QED  BY <1>6, <3>2, <3>3, <4>1
    <3>5. lf[u] = left[u]  BY <1>4, <3>2, <3>3, <3>4
    <3> QED  BY <3>5 DEF u
  <2>2. InOrder(delayed, tick, left)  BY DEF Dated
  <2> HIDE DEF lf
  <2> QED  BY <1>2, <2>1, <2>2, ShrunkInOrder
<1>9. /\ tick' \in 0..(Ticks - 1) /\ workList' \in Seq(Works) /\ Distinct(workList')
      /\ asked' \subseteq Works /\ InOrder(delayed', tick', left') /\ cutOff' \subseteq asked'
  <2>1. ~(h \in cutOff)  BY <1>2, <1>3, <1>6
  <2> QED  BY <1>1, <1>3, <1>8, <2>1 DEF Dated
<1>10. Dated'  BY <1>5, <1>7, <1>9 DEF Dated
<1> QED  BY <1>1, <1>3, <1>10

LEMMA TickDates ==
    ASSUME Dated, Tick
    PROVE  Dated'
<1> DEFINE lf == left'
<1>1. /\ ~LateBy(MaxLate) /\ tick' = (tick + 1) % Ticks
      /\ left' = [w \in Works |-> IF HasWork(delayed, w) THEN left[w] - 1 ELSE left[w]]
      /\ UNCHANGED <<workList, delayed, asked, cutOff>>
  BY DEF Tick, HasWork
<1>2. tick \in 0..(Ticks - 1) /\ tick' = Wrap(tick + 1, Ticks) /\ tick' \in 0..(Ticks - 1)
  <2>1. tick + 1 \in Int /\ Ticks \in Nat \ {0} /\ tick \in 0..(Ticks - 1)
    BY HalfFacts DEF Dated
  <2>2. \A x \in Int : x % Ticks \in 0..(Ticks - 1)  BY <2>1
  <2> QED  BY <1>1, <2>1, <2>2 DEF Wrap
<1>3. \A w \in Works : left'[w] = IF HasWork(delayed, w) THEN left[w] - 1 ELSE left[w]
  BY <1>1
<1>4. ASSUME NEW i \in DOMAIN delayed
      PROVE  /\ left'[delayed[i].work] = left[delayed[i].work] - 1
             /\ -MaxLate <= left'[delayed[i].work]
             /\ left'[delayed[i].work] \in (-MaxLate)..(Half - 1)
  <2> DEFINE x == left[delayed[i].work]
  <2>1. /\ delayed[i].work \in Works /\ HasWork(delayed, delayed[i].work)
        /\ x \in (-MaxLate)..(Half - 1)
    BY EntryFacts
  <2>2. left'[delayed[i].work] = x - 1  BY <1>3, <2>1
  <2>3. ~(x <= -MaxLate)  BY <1>1 DEF LateBy
  <2> HIDE DEF x
  <2>4. x - 1 \in (-MaxLate)..(Half - 1) /\ -MaxLate <= x - 1  BY <2>1, <2>3, HalfFacts
  <2> QED  BY <2>2, <2>4 DEF x
<1>5. InOrder(delayed', tick', left')
  <2>1. InOrder(delayed, tick, left)  BY DEF Dated
  <2> HIDE DEF lf
  <2>2. InOrder(delayed, Wrap(tick + 1, Ticks), lf)
    <3>1. \A i \in DOMAIN delayed : /\ lf[delayed[i].work] = left[delayed[i].work] - 1
                                    /\ -MaxLate <= lf[delayed[i].work]
      BY <1>4 DEF lf
    <3> QED  BY <1>2, <2>1, <3>1, ElapsedInOrder
  <2> QED  BY <1>1, <1>2, <2>2 DEF lf
<1>6. left' \in [Works -> (-MaxLate)..(Half - 1) \cup {None}]
  <2> DEFINE S == (-MaxLate)..(Half - 1) \cup {None}
  <2>1. ASSUME NEW w \in Works PROVE left'[w] \in S
    <3>1. CASE HasWork(delayed, w)
      <4>1. PICK i \in DOMAIN delayed : delayed[i].work = w  BY <3>1 DEF HasWork
      <4> QED  BY <1>4, <4>1
    <3>2. CASE ~HasWork(delayed, w)
      <4>1. left[w] \in S  BY DEF Dated
      <4> HIDE DEF S
      <4> QED  BY <1>3, <3>2, <4>1
    <3> QED  BY <3>1, <3>2
  <2>2. left' = [w \in Works |-> left'[w]]  BY <1>1
  <2> HIDE DEF S
  <2>3. left' \in [Works -> S]  BY <2>1, <2>2
  <2> QED  BY <2>3 DEF S
<1>7. ASSUME NEW u \in Works
      PROVE  /\ Holds(workList', u) => left'[u] = 0 /\ ~HasWork(delayed', u)
             /\ u \in asked' \ cutOff' <=> Holds(workList', u) \/ HasWork(delayed', u)
  BY <1>1, <1>3 DEF Dated
<1>8. /\ workList' \in Seq(Works) /\ Distinct(workList')
      /\ asked' \subseteq Works /\ cutOff' \subseteq asked'
  BY <1>1 DEF Dated
<1> QED  BY <1>2, <1>5, <1>6, <1>7, <1>8 DEF Dated

-----------------------------------------------------------------------------
Rest ==
    /\ CompletionTypeOK
    /\ current \in Works \cup {None}
    /\ phase \in {"scan", "wait", "nap", "run", "ack", "release", "dead"}
    /\ timed \in BOOLEAN
    /\ sem \in 0..1 /\ (phase = "release" => sem = 0)
    /\ sleepers \in Seq(Cancellers)
    /\ pc \in [Cancellers -> {"idle", "wait", "asleep"} \cup Works]
    /\ clearing \in {"no", "pending", "delayed"} /\ closing \in BOOLEAN
    /\ step \in {"test", "read", "cancel"} /\ victim \in Works \cup {None}

\* As long as the completion says that the worker waits, or it is about to, all
\* is as it found it; only its timer's interrupt has it with the word unchanged.
Waiting ==
    /\ armed => asleep /\ ~expiring
    /\ expiring => asleep
    /\ asleep => phase = "nap"
    /\ asleep /\ ~expiring => comp = "thread"
    /\ asleep /\ comp = "thread" => workList = <<>> /\ (delayed # <<>> => armed \/ expiring)
    /\ phase = "wait" /\ comp # "done" => workList = <<>> /\ (delayed # <<>> => timed)

IInv == Dated /\ Rest /\ Waiting

LEMMA TypeFacts == IInv => TypeOK
  BY DEF IInv, Dated, Rest, TypeOK, InOrder, Entries

LEMMA InvInit == Init => IInv
<1> SUFFICES ASSUME Init PROVE IInv  OBVIOUS
<1>1. <<>> \in Seq(Entries) /\ <<>> \in Seq(Works) /\ <<>> \in Seq(Cancellers) /\ DOMAIN <<>> = {}
  BY EmptySeq, LenProperties
<1>2. left = [w \in Works |-> None] /\ workList = <<>> /\ delayed = <<>> /\ tick = 0
      /\ asked = {} /\ cutOff = {}
  BY DEF Init
<1>3. InOrder(delayed, tick, left) /\ Distinct(workList)
      /\ \A w \in Works : ~Holds(workList, w) /\ ~HasWork(delayed, w)
  BY <1>1, <1>2 DEF InOrder, Distinct, Holds, HasWork
<1>4. tick \in 0..(Ticks - 1)  BY <1>2, HalfFacts
<1>5. left \in [Works -> (-MaxLate)..(Half - 1) \cup {None}]  BY <1>2
<1>6. Dated  BY <1>1, <1>2, <1>3, <1>4, <1>5 DEF Dated
<1>7. Rest
  <2>1. CompletionTypeOK  BY DEF Init, CompletionInit, CompletionTypeOK
  <2>2. pc \in [Cancellers -> {"idle", "wait", "asleep"} \cup Works]  BY DEF Init
  <2>3. sleepers \in Seq(Cancellers)  BY <1>1 DEF Init
  <2>4. sem \in 0..1 /\ (phase = "release" => sem = 0)  BY DEF Init
  <2>5. timed \in BOOLEAN /\ closing \in BOOLEAN  BY DEF Init
  <2>6. current \in Works \cup {None} /\ clearing \in {"no", "pending", "delayed"}
        /\ phase \in {"scan", "wait", "nap", "run", "ack", "release", "dead"}
    BY DEF Init
  <2>7. step \in {"test", "read", "cancel"} /\ victim \in Works \cup {None}  BY DEF Init
  <2> QED  BY <2>1, <2>2, <2>3, <2>4, <2>5, <2>6, <2>7, Zenon DEF Rest
<1>8. Waiting  BY DEF Init, Waiting, CompletionInit
<1> QED  BY <1>6, <1>7, <1>8 DEF IInv

\* The lists and the clock stay as they are.
LEMMA StillDated ==
    ASSUME Dated, UNCHANGED <<lists, tick>>
    PROVE  Dated'
  BY DEF Dated, lists

\* The completion stays as it is, and no list gets a first element.
LEMMA StillWaiting ==
    ASSUME Waiting, UNCHANGED <<compVars, phase, timed>>,
           workList = <<>> => workList' = <<>>, delayed = <<>> => delayed' = <<>>
    PROVE  Waiting'
  BY DEF Waiting, compVars

\* A done wakes the worker, or the next wait does not sleep.
LEMMA DoneWaiting ==
    ASSUME Waiting, CompletionDone, UNCHANGED <<phase, timed>>
    PROVE  Waiting'
<1>1. comp' = "done" /\ expiring' = expiring  BY DEF CompletionDone
<1>2. CASE comp = "thread" /\ ~expiring
  <2>1. ~asleep' /\ ~armed'  BY <1>2 DEF CompletionDone
  <2> QED  BY <1>1, <1>2, <2>1 DEF Waiting
<1>3. CASE ~(comp = "thread" /\ ~expiring)
  <2>1. asleep' = asleep /\ armed' = armed  BY <1>3 DEF CompletionDone
  <2> QED  BY <1>1, <1>3, <2>1 DEF Waiting
<1> QED  BY <1>2, <1>3

LEMMA DoneTyped ==
    ASSUME CompletionTypeOK, CompletionDone
    PROVE  CompletionTypeOK'
<1>1. CASE comp = "thread" /\ ~expiring
  BY <1>1 DEF CompletionDone, CompletionTypeOK
<1>2. CASE ~(comp = "thread" /\ ~expiring)
  BY <1>2 DEF CompletionDone, CompletionTypeOK
<1> QED  BY <1>1, <1>2

LEMMA RestStays ==
    ASSUME Rest, CompletionTypeOK', UNCHANGED <<worker, sync, stages>>
    PROVE  Rest'
  BY DEF Rest, worker, sync, stages

LEMMA SubmitStep ==
    ASSUME IInv, NEW w \in Works,
           Urgent(w) \/ \E d \in Delays \cup {0} : Submit(w, d)
    PROVE  IInv'
<1>1. Dated /\ Rest /\ Waiting  BY DEF IInv
<1>2. CompletionDone /\ UNCHANGED <<worker, sync, stages>>  BY DEF Urgent, Submit
<1>3. Rest'  BY <1>1, <1>2, DoneTyped, RestStays DEF Rest
<1>4. Waiting'  BY <1>1, <1>2, DoneWaiting DEF worker
<1>5. ASSUME NEW d \in Delays \cup {0}, Submit(w, d) PROVE Dated'
  <2>1. asked' = asked \cup {w} /\ cutOff' = cutOff \ {w} /\ tick' = tick  BY <1>5 DEF Submit
  <2>2. CASE d = 0
    <3>1. SubmitNow(w)  BY <1>5, <2>2 DEF Submit
    <3> QED  BY <1>1, <2>1, <3>1, SubmitNowDates
  <2>3. CASE d # 0
    <3>1. SubmitLater(w, d) /\ d \in Delays  BY <1>5, <2>3 DEF Submit
    <3> QED  BY <1>1, <2>1, <3>1, SubmitLaterDates
  <2> QED  BY <2>2, <2>3
<1>6. Dated'  BY <1>1, <1>5, UrgentDates
<1> QED  BY <1>3, <1>4, <1>6 DEF IInv

\* Whoever withdraws work changes neither the completion nor where the worker is.
LEMMA WithdrawStep ==
    ASSUME IInv, NEW w \in Works, Withdraw(w), UNCHANGED <<compVars, worker, tick>>, Rest'
    PROVE  IInv'
<1>1. Dated /\ Waiting  BY DEF IInv
<1>2. Dated'  BY <1>1, WithdrawDates
<1>3. workList' = OffWorkList(w) /\ delayed' = OffDelayed(w)  BY DEF Withdraw
<1>4. (workList = <<>> => workList' = <<>>) /\ (delayed = <<>> => delayed' = <<>>)
  BY <1>1, <1>3, OffFacts
<1>5. Waiting'  BY <1>1, <1>4, StillWaiting DEF worker
<1> QED  BY <1>2, <1>5 DEF IInv

\* The lists, the completion and the worker stay as they are.
LEMMA QuietStep ==
    ASSUME IInv, UNCHANGED <<compVars, lists, phase, timed, tick>>, Rest'
    PROVE  IInv'
<1>1. Dated'  BY StillDated DEF IInv
<1>2. Waiting'  BY StillWaiting DEF IInv, lists
<1> QED  BY <1>1, <1>2 DEF IInv

\* The worker goes from one step to the next, awake and not to wait.
LEMMA AwakeStep ==
    ASSUME IInv, UNCHANGED <<compVars, lists, timed, tick>>, Rest',
           phase # "nap", phase' # "wait"
    PROVE  IInv'
<1>1. Dated'  BY StillDated DEF IInv
<1>2. Waiting'  BY DEF IInv, Waiting, lists, compVars
<1> QED  BY <1>1, <1>2 DEF IInv

LEMMA CancelStep ==
    ASSUME IInv,
           \/ \E w \in Works : Cancel(w)
           \/ \E c \in Cancellers : SyncCancels(c)
           \/ CancelFirst
    PROVE  IInv'
<1>1. Dated /\ Rest  BY DEF IInv
<1>2. ASSUME NEW w \in Works, Cancel(w) PROVE IInv'
  <2>1. Withdraw(w) /\ UNCHANGED <<compVars, worker, sync, stages, tick>>  BY <1>2 DEF Cancel
  <2>2. Rest'  BY <1>1, <2>1, RestStays DEF Rest, compVars, CompletionTypeOK
  <2> QED  BY <2>1, <2>2, WithdrawStep
<1>3. ASSUME NEW c \in Cancellers, SyncCancels(c) PROVE IInv'
  <2> DEFINE w == pc[c]
  <2>1. /\ w \in Works /\ Withdraw(w) /\ pc' = [pc EXCEPT ![c] = "idle"]
        /\ UNCHANGED <<compVars, worker, sem, sleepers, stages, tick>>
    BY <1>3 DEF SyncCancels
  <2>2. Rest'  BY <1>1, <2>1 DEF Rest, compVars, CompletionTypeOK, worker, stages
  <2> HIDE DEF w
  <2> QED  BY <2>1, <2>2, WithdrawStep
<1>4. ASSUME CancelFirst PROVE IInv'
  <2>1. /\ victim \in Works /\ Withdraw(victim) /\ step' = "test" /\ victim' = None
        /\ UNCHANGED <<compVars, worker, sync, clearing, closing, tick>>
    BY <1>1, <1>4 DEF CancelFirst, Rest
  <2>2. Rest'  BY <1>1, <2>1 DEF Rest, compVars, CompletionTypeOK, worker, sync
  <2> DEFINE w == victim
  <2>3. w \in Works /\ Withdraw(w)  BY <2>1
  <2> HIDE DEF w
  <2> QED  BY <2>1, <2>2, <2>3, WithdrawStep
<1> QED  BY <1>2, <1>3, <1>4

\* The list's head is cut out: what was behind it is lost, and nothing else.
LEMMA CancelHeadStep ==
    ASSUME IInv, CancelHead
    PROVE  IInv'
<1>1. Dated /\ Rest /\ Waiting  BY DEF IInv
<1>2. UNCHANGED <<compVars, left, asked, phase, timed, sync, clearing, victim, closing, tick>>
  BY DEF CancelHead
<1>3. step' = "test" /\ (current' = current \/ current' = None)  BY DEF CancelHead
<1>4. Rest'  BY <1>1, <1>2, <1>3 DEF Rest, compVars, CompletionTypeOK, sync
<1>5. <<>> \in Seq(Works) /\ <<>> \in Seq(Entries) /\ DOMAIN <<>> = {}
  BY EmptySeq, LenProperties
<1>6. ASSUME clearing = "pending" PROVE Dated' /\ Waiting'
  <2>1. /\ workList' = <<>> /\ delayed' = delayed
        /\ cutOff' = cutOff \cup {workList[i] : i \in DOMAIN workList}
    BY <1>6 DEF CancelHead, Cleared
  <2>2. \A w \in Works : ~Holds(workList', w)  BY <1>5, <2>1 DEF Holds
  <2>3. \A w : w \in cutOff' <=> w \in cutOff \/ Holds(workList, w)  BY <2>1 DEF Holds
  <2>4. \A w : Holds(workList, w) => w \in Works  BY <1>1, HeldIsElement DEF Dated
  <2>5. Distinct(workList')  BY <1>5, <2>1 DEF Distinct
  <2>6. cutOff' \subseteq asked'  BY <1>1, <1>2, <2>3, <2>4 DEF Dated
  <2>7. \A w \in Works : w \in asked' \ cutOff' <=> Holds(workList', w) \/ HasWork(delayed', w)
    BY <1>1, <1>2, <2>1, <2>2, <2>3 DEF Dated
  <2>8. Dated'  BY <1>1, <1>2, <1>5, <2>1, <2>2, <2>5, <2>6, <2>7 DEF Dated
  <2>9. Waiting'  BY <1>1, <1>2, <2>1, StillWaiting
  <2> QED  BY <2>8, <2>9
<1>7. ASSUME clearing # "pending" PROVE Dated' /\ Waiting'
  <2>1. /\ delayed' = <<>> /\ workList' = workList
        /\ \A w : w \in cutOff' <=> w \in cutOff \/ HasWork(delayed, w)
    BY <1>7 DEF CancelHead, Cleared, HasWork
  <2>2. \A w \in Works : ~HasWork(delayed', w)  BY <1>5, <2>1 DEF HasWork
  <2>3. \A w : HasWork(delayed, w) => w \in Works  BY <1>1, EntryFacts DEF HasWork
  <2>4. InOrder(delayed', tick', left')  BY <1>5, <2>1 DEF InOrder
  <2>5. cutOff' \subseteq asked'  BY <1>1, <1>2, <2>1, <2>3 DEF Dated
  <2>6. \A w \in Works : w \in asked' \ cutOff' <=> Holds(workList', w) \/ HasWork(delayed', w)
    BY <1>1, <1>2, <2>1, <2>2 DEF Dated
  <2>7. Dated'  BY <1>1, <1>2, <2>1, <2>2, <2>4, <2>5, <2>6 DEF Dated
  <2>8. Waiting'  BY <1>1, <1>2, <2>1, StillWaiting
  <2> QED  BY <2>7, <2>8
<1> QED  BY <1>4, <1>6, <1>7 DEF IInv

LEMMA FindNothingStep ==
    ASSUME IInv, FindNothing
    PROVE  IInv'
<1>1. Dated /\ Rest /\ Waiting  BY DEF IInv
<1>2. /\ phase = "scan" /\ Ready = <<>> /\ phase' = "wait" /\ timed' = (delayed # <<>>)
      /\ UNCHANGED <<compVars, lists, current, sync, stages, tick>>
  BY DEF FindNothing, Ready
<1>3. Dated'  BY <1>1, <1>2, StillDated
<1>4. timed' \in BOOLEAN  BY <1>2
<1>5. Rest'  BY <1>1, <1>2, <1>4 DEF Rest, compVars, CompletionTypeOK, sync, stages
<1>6. workList = <<>>
  <2>1. Ready \in Seq(Works) /\ \A u \in Works : Holds(Ready, u) <=> Holds(workList, u) \/ Moved(u)
    BY <1>1, ReadyFacts
  <2>2. \A u \in Works : ~Holds(Ready, u)  BY <1>2, <2>1, EmptyHoldsNobody
  <2>3. \A u \in Works : ~Holds(workList, u)  BY <2>1, <2>2
  <2> QED  BY <1>1, <2>3, EmptyHoldsNobody DEF Dated
<1>7. delayed' # <<>> => timed'  BY <1>2 DEF lists
<1>8. Waiting'  BY <1>1, <1>2, <1>6, <1>7 DEF Waiting, compVars, lists
<1> QED  BY <1>3, <1>5, <1>8 DEF IInv

LEMMA TakeWorkStep ==
    ASSUME IInv, TakeWork
    PROVE  IInv'
<1>1. Dated /\ Rest /\ Waiting  BY DEF IInv
<1>2. phase = "scan" /\ phase' = "run" /\ UNCHANGED <<compVars, timed, sync, stages, tick>>
  BY DEF TakeWork
<1>3. Dated' /\ current' \in Works  BY <1>1, TakeDates
<1>4. Rest'  BY <1>1, <1>2, <1>3 DEF Rest, compVars, CompletionTypeOK, sync, stages
<1>5. Waiting'  BY <1>1, <1>2 DEF Waiting, compVars
<1> QED  BY <1>3, <1>4, <1>5 DEF IInv

LEMMA NapStep ==
    ASSUME IInv, Nap \/ NapEnds
    PROVE  IInv'
<1>1. Dated /\ Rest /\ Waiting  BY DEF IInv
<1>2. UNCHANGED <<lists, current, timed, sync, stages, tick>>  BY DEF Nap, NapEnds
<1>3. Dated'  BY <1>1, <1>2, StillDated
<1>4. ASSUME phase = "wait", WaitFindsDone, phase' = "scan" PROVE Rest' /\ Waiting'
  <2>1. Rest'  BY <1>1, <1>2, <1>4 DEF Rest, WaitFindsDone, CompletionTypeOK, sync, stages
  <2>2. Waiting'  BY <1>1, <1>4 DEF Waiting, WaitFindsDone
  <2> QED  BY <2>1, <2>2
<1>5. ASSUME phase = "wait", ~expiring, WaitSleeps(timed), phase' = "nap" PROVE Rest' /\ Waiting'
  <2>1. /\ comp # "done" /\ comp' = "thread" /\ asleep' = TRUE /\ armed' = timed
        /\ expiring' = expiring
    BY <1>5 DEF WaitSleeps
  <2>2. CompletionTypeOK'  BY <1>1, <2>1 DEF Rest, CompletionTypeOK
  <2>3. Rest'  BY <1>1, <1>2, <1>5, <2>2 DEF Rest, sync, stages
  <2>4. Waiting'  BY <1>1, <1>2, <1>5, <2>1 DEF Waiting, lists
  <2> QED  BY <2>3, <2>4
<1>6. ASSUME phase = "nap", ~expiring, WaitEnds, phase' = "scan" PROVE Rest' /\ Waiting'
  <2>1. ~asleep /\ comp' = "none" /\ UNCHANGED <<asleep, armed, expiring>>
    BY <1>6 DEF WaitEnds
  <2>2. Rest'  BY <1>1, <1>2, <1>6, <2>1 DEF Rest, CompletionTypeOK, sync, stages
  <2>3. Waiting'  BY <1>1, <1>6, <2>1 DEF Waiting
  <2> QED  BY <2>2, <2>3
<1>7. Rest' /\ Waiting'
  BY <1>4, <1>5, <1>6 DEF Nap, NapEnds, ThreadsRun, ThreadContext
<1> QED  BY <1>3, <1>7 DEF IInv

\* Acknowledging executed work: never more than one unit.
LEMMA AckStep ==
    ASSUME IInv, WorkReturns \/ AckTakes \/ AckFails \/ AckReleases
    PROVE  IInv'
<1>1. Rest  BY DEF IInv
<1>2. ASSUME WorkReturns PROVE IInv'
  <2>1. Rest'  BY <1>1, <1>2 DEF WorkReturns, Rest, compVars, CompletionTypeOK, sync, stages
  <2> QED  BY <1>2, <2>1, AwakeStep DEF WorkReturns
<1>3. ASSUME AckTakes PROVE IInv'
  <2>1. Rest'  BY <1>1, <1>3 DEF AckTakes, Rest, compVars, CompletionTypeOK, stages
  <2> QED  BY <1>3, <2>1, AwakeStep DEF AckTakes
<1>4. ASSUME AckFails PROVE IInv'
  <2>1. Rest'  BY <1>1, <1>4 DEF AckFails, Rest, compVars, CompletionTypeOK, sync, stages
  <2> QED  BY <1>4, <2>1, AwakeStep DEF AckFails
<1>5. ASSUME AckReleases PROVE IInv'
  <2>0. /\ phase = "release" /\ sem = 0 /\ phase' = "ack"
        /\ UNCHANGED <<compVars, lists, current, timed, stages, tick>>
    BY <1>1, <1>5 DEF AckReleases, Rest
  <2>1. sem' \in 0..1 /\ sleepers' \in Seq(Cancellers)
        /\ pc' \in [Cancellers -> {"idle", "wait", "asleep"} \cup Works]
    <3>1. CASE sleepers = <<>>  BY <1>1, <1>5, <2>0, <3>1 DEF AckReleases, Rest
    <3>2. CASE sleepers # <<>>
      <4>1. sem' = sem /\ sleepers' = Tail(sleepers) /\ pc' = [pc EXCEPT ![Head(sleepers)] = "idle"]
        BY <1>5, <3>2 DEF AckReleases
      <4>2. Tail(sleepers) \in Seq(Cancellers)  BY <1>1, <3>2, TailKept DEF Rest
      <4> QED  BY <1>1, <4>1, <4>2 DEF Rest
    <3> QED  BY <3>1, <3>2
  <2>2. Rest'  BY <1>1, <2>0, <2>1 DEF Rest, compVars, CompletionTypeOK, stages
  <2> QED  BY <2>0, <2>2, AwakeStep
<1> QED  BY <1>2, <1>3, <1>4, <1>5

LEMMA SyncStep ==
    ASSUME IInv, NEW c \in Cancellers, SyncTakes(c) \/ \E w \in Works : SyncReads(c, w)
    PROVE  IInv'
<1>1. Rest  BY DEF IInv
<1>2. UNCHANGED <<compVars, lists, worker, stages, tick>>  BY DEF SyncTakes, SyncReads
<1>3. ASSUME NEW w \in Works, SyncReads(c, w) PROVE Rest'
  <2>1. pc' \in [Cancellers -> {"idle", "wait", "asleep"} \cup Works]
    BY <1>1, <1>3 DEF SyncReads, Rest
  <2> QED
    BY <1>1, <1>2, <1>3, <2>1 DEF SyncReads, Rest, compVars, CompletionTypeOK, worker, stages
<1>4. ASSUME SyncTakes(c) PROVE Rest'
  <2>1. CASE sem > 0
    <3>1. sem' = sem - 1 /\ pc' = [pc EXCEPT ![c] = "idle"] /\ sleepers' = sleepers
      BY <1>4, <2>1 DEF SyncTakes
    <3>2. sem' = 0 /\ pc' \in [Cancellers -> {"idle", "wait", "asleep"} \cup Works]
      BY <1>1, <2>1, <3>1 DEF Rest
    <3> QED  BY <1>1, <1>2, <3>1, <3>2 DEF Rest, compVars, CompletionTypeOK, worker, stages
  <2>2. CASE ~(sem > 0)
    <3>1. sem' = sem /\ pc' = [pc EXCEPT ![c] = "asleep"] /\ sleepers' = Append(sleepers, c)
      BY <1>4, <2>2 DEF SyncTakes
    <3>2. sleepers' \in Seq(Cancellers) /\ pc' \in [Cancellers -> {"idle", "wait", "asleep"} \cup Works]
      BY <1>1, <3>1 DEF Rest
    <3> QED  BY <1>1, <1>2, <3>1, <3>2 DEF Rest, compVars, CompletionTypeOK, worker, stages
  <2> QED  BY <2>1, <2>2
<1> QED  BY <1>2, <1>3, <1>4, QuietStep DEF worker

LEMMA StageStep ==
    ASSUME IInv,
           \/ \E destroy \in BOOLEAN : CancelAll(destroy)
           \/ FindsWork \/ ReadsFirst \/ ListCleared
    PROVE  IInv'
<1>1. Dated /\ Rest  BY DEF IInv
<1>2. UNCHANGED <<compVars, lists, worker, sync, tick>>
  BY DEF CancelAll, FindsWork, ReadsFirst, ListCleared
<1>3. ASSUME ReadsFirst PROVE victim' \in Works \cup {None}
  <2>1. CASE clearing = "pending"
    <3>1. Cleared = workList  BY <2>1 DEF Cleared
    <3>2. workList # <<>> => Head(workList) \in Works  BY <1>1, TailKept DEF Dated
    <3> QED  BY <1>3, <3>1, <3>2 DEF ReadsFirst
  <2>2. CASE clearing # "pending"
    <3> DEFINE c == Cleared
    <3>1. c = [i \in DOMAIN delayed |-> delayed[i].work]  BY <2>2 DEF Cleared
    <3>2. delayed \in Seq(Entries)  BY <1>1 DEF Dated, InOrder
    <3>3. Len(delayed) \in Nat /\ DOMAIN delayed = 1..Len(delayed)  BY <3>2, LenProperties
    <3>4. \A i \in 1..Len(delayed) : delayed[i].work \in Works  BY <1>1, <3>3, EntryFacts
    <3>5. c \in Seq(Works)  BY <3>1, <3>3, <3>4, IsASeq
    <3>6. victim' = IF c = <<>> THEN None ELSE Head(c)  BY <1>3 DEF ReadsFirst
    <3> HIDE DEF c
    <3>7. c # <<>> => Head(c) \in Works  BY <3>5, TailKept
    <3> QED  BY <3>6, <3>7
  <2> QED  BY <2>1, <2>2
<1>4. victim' \in Works \cup {None}
  BY <1>1, <1>3 DEF CancelAll, FindsWork, ListCleared, Rest
<1>5. /\ clearing' \in {"no", "pending", "delayed"} /\ closing' \in BOOLEAN
      /\ step' \in {"test", "read", "cancel"}
  BY <1>1 DEF CancelAll, FindsWork, ReadsFirst, ListCleared, Rest
<1>6. Rest'  BY <1>1, <1>2, <1>4, <1>5 DEF Rest, compVars, CompletionTypeOK, worker, sync
<1> QED  BY <1>2, <1>6, QuietStep DEF worker

LEMMA DestroyStep ==
    ASSUME IInv, Destroy
    PROVE  IInv'
<1>1. Dated /\ Rest /\ Waiting  BY DEF IInv
<1>2. /\ ~expiring /\ phase' = "dead" /\ closing' = FALSE
      /\ asleep' = FALSE /\ armed' = FALSE /\ sleepers' = <<>>
      /\ pc' = [c \in Cancellers |-> IF pc[c] = "asleep" THEN "idle" ELSE pc[c]]
      /\ UNCHANGED <<comp, expiring, lists, current, timed, sem, clearing, step, victim, tick>>
  BY DEF Destroy, ThreadsRun, ThreadContext
<1>3. Dated'  BY <1>1, <1>2, StillDated
<1>4. pc' \in [Cancellers -> {"idle", "wait", "asleep"} \cup Works] /\ <<>> \in Seq(Cancellers)
  BY <1>1, <1>2 DEF Rest
<1>5. CompletionTypeOK'  BY <1>1, <1>2 DEF Rest, CompletionTypeOK
<1>6. Rest'  BY <1>1, <1>2, <1>4, <1>5 DEF Rest
<1>7. Waiting'  BY <1>2 DEF Waiting
<1> QED  BY <1>3, <1>6, <1>7 DEF IInv

LEMMA ClockStep ==
    ASSUME IInv, Tick
    PROVE  IInv'
<1>1. Dated /\ Rest /\ Waiting  BY DEF IInv
<1>2. UNCHANGED <<compVars, workList, delayed, worker, sync, stages>>  BY DEF Tick
<1>3. Dated'  BY <1>1, TickDates
<1>4. Rest'  BY <1>1, <1>2, RestStays DEF Rest, compVars, CompletionTypeOK
<1>5. Waiting'  BY <1>1, <1>2, StillWaiting DEF worker
<1> QED  BY <1>3, <1>4, <1>5 DEF IInv

\* The thread timer goes off in two steps, or somebody else wakes the worker.
LEMMA WakeStep ==
    ASSUME IInv, TimerEvent \/ ResumeWorker
    PROVE  IInv'
<1>1. Dated /\ Rest /\ Waiting  BY DEF IInv
<1>2. UNCHANGED <<lists, worker, sync, stages, tick>>  BY DEF TimerEvent, ResumeWorker
<1>3. Dated'  BY <1>1, <1>2, StillDated
<1>4. ASSUME PopTimer PROVE CompletionTypeOK' /\ Waiting'
  <2>1. armed /\ ~expiring /\ armed' = FALSE /\ expiring' = TRUE /\ UNCHANGED <<comp, asleep>>
    BY <1>4 DEF PopTimer, ThreadContext
  <2>2. CompletionTypeOK'  BY <1>1, <2>1 DEF Rest, CompletionTypeOK
  <2>3. Waiting'  BY <1>1, <1>2, <2>1 DEF Waiting, lists, worker
  <2> QED  BY <2>2, <2>3
<1>5. ASSUME TimeOut PROVE CompletionTypeOK' /\ Waiting'
  <2>1. expiring /\ expiring' = FALSE /\ asleep' = FALSE /\ UNCHANGED <<comp, armed>>
    BY <1>5 DEF TimeOut
  <2>2. CompletionTypeOK'  BY <1>1, <2>1 DEF Rest, CompletionTypeOK
  <2>3. Waiting'  BY <1>1, <1>2, <2>1 DEF Waiting, lists, worker
  <2> QED  BY <2>2, <2>3
<1>6. ASSUME ResumeWaiter PROVE CompletionTypeOK' /\ Waiting'
  <2>1. ~expiring /\ asleep /\ asleep' = FALSE /\ armed' = FALSE /\ UNCHANGED <<comp, expiring>>
    BY <1>6 DEF ResumeWaiter, ThreadContext
  <2>2. CompletionTypeOK'  BY <1>1, <2>1 DEF Rest, CompletionTypeOK
  <2>3. Waiting'  BY <1>1, <1>2, <2>1 DEF Waiting, lists, worker
  <2> QED  BY <2>2, <2>3
<1>7. CompletionTypeOK' /\ Waiting'  BY <1>4, <1>5, <1>6 DEF TimerEvent, ResumeWorker
<1>8. Rest'  BY <1>1, <1>2, <1>7, RestStays
<1> QED  BY <1>3, <1>7, <1>8 DEF IInv

LEMMA InvStep == IInv /\ [Next]_vars => IInv'
<1> SUFFICES ASSUME IInv, [Next]_vars PROVE IInv'  OBVIOUS
<1>1. CASE UNCHANGED vars
  <2>1. UNCHANGED <<compVars, lists, phase, timed, tick>> /\ UNCHANGED <<worker, sync, stages>>
    BY <1>1 DEF vars, compVars, lists, worker, sync, stages
  <2>2. Rest'  BY <2>1, RestStays DEF IInv, Rest, compVars, CompletionTypeOK
  <2> QED  BY <2>1, <2>2, QuietStep
<1>2. CASE WorkerStep
  BY <1>2, FindNothingStep, TakeWorkStep, NapStep, AckStep DEF WorkerStep
<1> QED
  BY <1>1, <1>2, SubmitStep, CancelStep, CancelHeadStep, SyncStep, StageStep, DestroyStep,
     ClockStep, WakeStep
  DEF Next

-----------------------------------------------------------------------------
LEMMA ForgottenFacts == IInv => NoWorkForgotten
<1> SUFFICES ASSUME IInv PROVE NoWorkForgotten  OBVIOUS
<1>1. Dated /\ Rest /\ Waiting  BY DEF IInv
<1>2. ASSUME NEW w \in Works
      PROVE  Cardinality(Queued(w)) + Cardinality(Delayed(w)) = IF w \in asked \ cutOff THEN 1 ELSE 0
  <2> DEFINE Q == Queued(w)
             D == Delayed(w)
  <2>1. /\ Holds(workList, w) => ~HasWork(delayed, w)
        /\ w \in asked \ cutOff <=> Holds(workList, w) \/ HasWork(delayed, w)
    BY <1>1 DEF Dated
  <2>2. ~Holds(workList, w) => Cardinality(Q) = 0
    <3>1. ~Holds(workList, w) => Q = {}  BY DEF Queued, Holds
    <3> HIDE DEF Q
    <3> QED  BY <3>1, FS_EmptySet
  <2>3. Holds(workList, w) => Cardinality(Q) = 1
    <3>1. ASSUME Holds(workList, w) PROVE Cardinality(Q) = 1
      <4>1. PICK i \in DOMAIN workList : workList[i] = w  BY <3>1 DEF Holds
      <4>2. Q = {i}  BY <1>1, <4>1 DEF Dated, Distinct, Queued
      <4>3. Cardinality({i}) = 1  BY FS_Singleton, Zenon
      <4> QED  BY <4>2, <4>3
    <3> QED  BY <3>1
  <2>4. ~HasWork(delayed, w) => Cardinality(D) = 0
    <3>1. ~HasWork(delayed, w) => D = {}  BY DEF Delayed, HasWork
    <3> HIDE DEF D
    <3> QED  BY <3>1, FS_EmptySet
  <2>5. HasWork(delayed, w) => Cardinality(D) = 1
    <3>1. ASSUME HasWork(delayed, w) PROVE Cardinality(D) = 1
      <4>1. PICK i \in DOMAIN delayed : delayed[i].work = w  BY <3>1 DEF HasWork
      <4>2. D = {i}  BY <1>1, <4>1 DEF Dated, InOrder, Delayed
      <4>3. Cardinality({i}) = 1  BY FS_Singleton, Zenon
      <4> QED  BY <4>2, <4>3
    <3> QED  BY <3>1
  <2> HIDE DEF Q, D
  <2>6. Cardinality(Q) + Cardinality(D) = IF w \in asked \ cutOff THEN 1 ELSE 0
    BY <2>1, <2>2, <2>3, <2>4, <2>5
  <2> QED  BY <2>6 DEF Q, D
<1>3. AskedIsQueued  BY <1>2 DEF AskedIsQueued
<1>4. WorkerIsAwake  BY <1>1 DEF Waiting, WorkerIsAwake
<1> QED  BY <1>3, <1>4 DEF NoWorkForgotten

LEMMA DelayFacts == IInv => DelaysKept
<1> SUFFICES ASSUME IInv PROVE DelaysKept  OBVIOUS
<1>1. Dated  BY DEF IInv
<1>2. ASSUME NEW i \in DOMAIN workList PROVE left[workList[i]] <= 0
  <2>1. workList[i] \in Works  BY <1>1, ElementOfSeq, LenProperties DEF Dated
  <2>2. left[workList[i]] = 0  BY <1>1, <2>1 DEF Dated, Holds
  <2> QED  BY <2>2
<1>3. \A i, j \in DOMAIN delayed : i < j => left[delayed[i].work] <= left[delayed[j].work]
  BY <1>1 DEF Dated, InOrder
<1> QED  BY <1>2, <1>3 DEF DelaysKept

-----------------------------------------------------------------------------
\* The types hold; the acknowledging semaphore never has more than one unit.
THEOREM WorkQueueTypeCorrect == Spec => []TypeOK
<1>1. Init => IInv  BY InvInit
<1>2. IInv /\ [Next]_vars => IInv'  BY InvStep
<1>3. IInv => TypeOK  BY TypeFacts
<1> QED  BY <1>1, <1>2, <1>3, PTL DEF Spec

\* However work is submitted, delayed, made urgent and cancelled: what was asked
\* for and neither executed nor cancelled is queued once, and the worker does not
\* sleep beside it.  Lost is only what stood behind a head that was cancelled.
THEOREM NoWorkForgottenAlways == Spec => []NoWorkForgotten
<1>1. Init => IInv  BY InvInit
<1>2. IInv /\ [Next]_vars => IInv'  BY InvStep
<1>3. IInv => NoWorkForgotten  BY ForgottenFacts
<1> QED  BY <1>1, <1>2, <1>3, PTL DEF Spec

\* No delay ends early, and the delayed list is in the order of the delays, for
\* any range of the tick that wraps.
THEOREM DelaysKeptAlways == Spec => []DelaysKept
<1>1. Init => IInv  BY InvInit
<1>2. IInv /\ [Next]_vars => IInv'  BY InvStep
<1>3. IInv => DelaysKept  BY DelayFacts
<1> QED  BY <1>1, <1>2, <1>3, PTL DEF Spec

-----------------------------------------------------------------------------
(***************************************************************************)
(* Mutex: loops.                                                           *)
(***************************************************************************)
\* Induction over the places of a loop of n rounds.
LEMMA RoundsInduction ==
    ASSUME NEW n \in Nat, NEW P, 0 \in P, \A k \in 1..n : k - 1 \in P => k \in P
    PROVE  \A k \in 0..n : k \in P
<1> DEFINE bad == {k \in 0..n : k \notin P}
<1>1. CASE bad = {}  BY <1>1
<1>2. CASE bad # {}
  <2>1. bad \in SUBSET Nat  OBVIOUS
  <2>2. PICK k \in bad : \A j \in bad : k <= j
    <3> HIDE DEF bad
    <3> QED  BY <1>2, <2>1, LeastNat
  <2>3. k \in 1..n  BY <2>2
  <2>4. k - 1 \in 0..n /\ ~(k <= k - 1)  BY <2>3
  <2>5. k - 1 \in P  BY <2>2, <2>4
  <2> QED  BY <2>2, <2>3, <2>5
<1> QED  BY <1>1, <1>2

\* A loop that goes from x through the sets S[0], S[1] to S[n] by the steps f.
Loops(e, n, S, f, x) ==
    /\ e = [k \in 0..n |-> e[k]]
    /\ e[0] = x
    /\ \A k \in 0..n : e[k] \in S[k]
    /\ \A k \in 1..n : e[k] = f[k][e[k - 1]]

LEMMA LoopExists ==
    ASSUME NEW n \in Nat, NEW S, NEW f, NEW x, x \in S[0],
           \A k \in 1..n : \A c \in S[k - 1] : f[k][c] \in S[k]
    PROVE  \E e : Loops(e, n, S, f, x)
<1> DEFINE P == {k \in 0..n : \E e : Loops(e, k, S, f, x)}
<1>1. 0 \in P
  <2> DEFINE e == [k \in 0..0 |-> x]
  <2>1. Loops(e, 0, S, f, x)  BY DEF Loops
  <2> HIDE DEF e
  <2> QED  BY <2>1
<1>2. ASSUME NEW k \in 1..n, k - 1 \in P PROVE k \in P
  <2>1. PICK e : Loops(e, k - 1, S, f, x)  BY <1>2
  <2> DEFINE g == [j \in 0..k |-> IF j = k THEN f[k][e[k - 1]] ELSE e[j]]
  <2>8. g = [j \in 0..k |-> g[j]]  OBVIOUS
  <2>2. /\ g[k] = f[k][e[k - 1]]
        /\ \A j \in 0..(k - 1) : g[j] = e[j]
    OBVIOUS
  <2> HIDE DEF g
  <2>3. /\ e[0] = x
        /\ \A j \in 0..(k - 1) : e[j] \in S[j]
        /\ \A j \in 1..(k - 1) : e[j] = f[j][e[j - 1]]
    BY <2>1 DEF Loops
  <2>4. g[0] = x  BY <2>2, <2>3
  <2>5. ASSUME NEW j \in 0..k PROVE g[j] \in S[j]
    <3>1. CASE j = k
      <4>1. k - 1 \in 0..(k - 1)  OBVIOUS
      <4>2. e[k - 1] \in S[k - 1]  BY <2>3, <4>1
      <4> QED  BY <2>2, <3>1, <4>2
    <3>2. CASE j # k  BY <2>2, <2>3, <3>2
    <3> QED  BY <3>1, <3>2
  <2>6. ASSUME NEW j \in 1..k PROVE g[j] = f[j][g[j - 1]]
    <3>1. j - 1 \in 0..(k - 1) /\ g[j - 1] = e[j - 1]  BY <2>2
    <3>2. CASE j = k  BY <2>2, <3>1, <3>2
    <3>3. CASE j # k  BY <2>2, <2>3, <3>1, <3>3
    <3> QED  BY <3>2, <3>3
  <2>7. Loops(g, k, S, f, x)  BY <2>4, <2>5, <2>6, <2>8 DEF Loops
  <2> QED  BY <2>7
<1>3. n \in 0..n  OBVIOUS
<1> HIDE DEF P
<1>4. n \in P  BY <1>1, <1>2, <1>3, RoundsInduction
<1> QED  BY <1>4 DEF P

-----------------------------------------------------------------------------
(***************************************************************************)
(* Mutex: the invariant.                                                   *)
(***************************************************************************)
\* Threads wait for the mutex they are inside the take of, once; a mutex somebody
\* waits for is owned and attached.
Listed(s, ins, g) ==
    \A m \in Mutexes :
        /\ Distinct(s.waiters[m])
        /\ \A t \in Threads :
              Holds(s.waiters[m], t) => ins[t] = m /\ s.pending[t] = m /\ t \notin g
        /\ s.waiters[m] # <<>> => s.owner[m] # NoThread /\ m \notin g

\* The lists of taken mutexes are those of the owner fields, and an owner has the
\* mutex at least once.
Taken(s, g) ==
    /\ \A m \in Mutexes, t \in Threads : m \in s.taken[t] <=> s.owner[m] = t /\ m \notin g
    /\ \A m \in Mutexes \ g : s.owner[m] \in Threads => s.hold[m] # 0

\* Only owners hold anything, nobody is inside a take of what he holds, the counts agree,
\* and an owner that is gone still has what he took.
Counted(s, h, ins, g) ==
    /\ \A t \in Threads, m \in Mutexes : h[t][m] # 0 => s.owner[m] = t
    /\ \A t \in Threads \ g, m \in Mutexes : ins[t] = m => h[t][m] = 0
    /\ \A m \in Mutexes \ g : s.owner[m] \in Threads \ g =>
          s.hold[m] = h[s.owner[m]][m] + (IF ins[s.owner[m]] = m THEN 1 ELSE 0)
    /\ \A m \in Mutexes \ g : s.owner[m] \in Threads \cap g =>
          h[s.owner[m]][m] # 0 \/ ins[s.owner[m]] = m

Histories == [Threads -> [Mutexes -> 0..HoldMax]]
Inside == [Threads -> Mutexes \cup {NoMutex}]

Sane(s, h, ins, g) ==
    /\ s \in MutexStates /\ h \in Histories /\ ins \in Inside
    /\ Listed(s, ins, g) /\ Taken(s, g) /\ Counted(s, h, ins, g)

\* r has at most the waiters of s, and the same owners, counts and lists.
Slackens(r, s) ==
    /\ r \in MutexStates
    /\ r.owner = s.owner /\ r.hold = s.hold /\ r.taken = s.taken /\ r.pending = s.pending
    /\ \A m \in Mutexes : /\ Distinct(r.waiters[m])
                          /\ \A t \in Threads : Holds(r.waiters[m], t) => Holds(s.waiters[m], t)

LEMMA SlackensSane ==
    ASSUME NEW s, NEW h, NEW ins, NEW g, Sane(s, h, ins, g), NEW r, Slackens(r, s)
    PROVE  Sane(r, h, ins, g)
<1>1. /\ s \in MutexStates /\ h \in Histories /\ ins \in Inside
      /\ Listed(s, ins, g) /\ Taken(s, g) /\ Counted(s, h, ins, g)
  BY DEF Sane
<1>2. /\ r \in MutexStates
      /\ r.owner = s.owner /\ r.hold = s.hold /\ r.taken = s.taken /\ r.pending = s.pending
      /\ \A m \in Mutexes : /\ Distinct(r.waiters[m])
                            /\ \A t \in Threads : Holds(r.waiters[m], t) => Holds(s.waiters[m], t)
  BY DEF Slackens
<1>3. Listed(r, ins, g)
  <2>1. ASSUME NEW m \in Mutexes, r.waiters[m] # <<>> PROVE s.waiters[m] # <<>>
    <3>1. r.waiters[m] \in Seq(Threads) /\ s.waiters[m] \in Seq(Threads)
      BY <1>1, <1>2 DEF MutexStates
    <3>2. PICK t \in Threads : Holds(r.waiters[m], t)  BY <2>1, <3>1, EmptyHoldsNobody
    <3>3. Holds(s.waiters[m], t)  BY <1>2, <3>2
    <3> QED  BY <3>1, <3>3, EmptyHoldsNobody
  <2> QED  BY <1>1, <1>2, <2>1 DEF Listed
<1>4. Taken(r, g)  BY <1>1, <1>2 DEF Taken
<1>5. Counted(r, h, ins, g)  BY <1>1, <1>2 DEF Counted
<1> QED  BY <1>1, <1>2, <1>3, <1>4, <1>5 DEF Sane

LEMMA SlackensTrans ==
    ASSUME NEW q, NEW r, NEW s, Slackens(q, r), Slackens(r, s)
    PROVE  Slackens(q, s)
BY DEF Slackens

\* Priorities and demands alone.
LEMMA SlackensPriority ==
    ASSUME NEW s, NEW h, NEW ins, NEW g, Sane(s, h, ins, g),
           NEW r \in MutexStates, r.owner = s.owner, r.hold = s.hold, r.taken = s.taken,
           r.pending = s.pending, r.waiters = s.waiters
    PROVE  Slackens(r, s)
BY DEF Slackens, Sane, Listed

LEMMA FirstPriorityType ==
    ASSUME NEW s \in MutexStates, NEW m \in Mutexes
    PROVE  FirstPriority(s, m) \in 0..NoPrio
<1>1. /\ s.waiters[m] \in Seq(Threads) /\ s.prio \in [Threads -> 0..(NoPrio - 1)]
      /\ NoPrio \in Nat
  BY MutexAssumption DEF MutexStates
<1>2. CASE s.waiters[m] = <<>>  BY <1>1, <1>2 DEF FirstPriority
<1>3. CASE s.waiters[m] # <<>>
  <2>1. Head(s.waiters[m]) \in Threads  BY <1>1, <1>3, HeadTailProperties
  <2>2. s.prio[Head(s.waiters[m])] \in 0..(NoPrio - 1)  BY <1>1, <2>1
  <2> QED  BY <1>1, <1>3, <2>2 DEF FirstPriority
<1> QED  BY <1>2, <1>3

LEMMA DuePriorityType ==
    ASSUME NEW s \in MutexStates, NEW t \in Threads
    PROVE  DuePriority(s, t) \in 0..(NoPrio - 1)
<1> DEFINE D == {InitPrio[t]} \cup {s.mpri[m] : m \in s.taken[t]} \cup {s.ceil[m] : m \in s.taken[t]}
<1>1. /\ NoPrio \in Nat /\ InitPrio[t] \in 0..(NoPrio - 1)
      /\ s.mpri \in [Mutexes -> 0..NoPrio] /\ s.ceil \in [Mutexes -> 0..NoPrio]
      /\ s.taken[t] \in SUBSET Mutexes
  BY MutexAssumption DEF MutexStates
<1>2. D \in SUBSET (0..NoPrio) /\ InitPrio[t] \in D  BY <1>1
<1>3. DuePriority(s, t) = Min(D)  BY DEF DuePriority
<1> HIDE DEF D
<1>4. D \in SUBSET Nat /\ D # {}  BY <1>1, <1>2
<1>5. \E x \in D : \A y \in D : x <= y  BY <1>4, LeastNat
<1>6. Min(D) \in D /\ \A y \in D : Min(D) <= y  BY <1>5, Zenon DEF Min
<1>7. Min(D) \in 0..NoPrio /\ Min(D) <= InitPrio[t]  BY <1>2, <1>6
<1> QED  BY <1>1, <1>3, <1>7

-----------------------------------------------------------------------------
(***************************************************************************)
(* Mutex: priorities change nothing else.                                  *)
(***************************************************************************)
LEMMA AskedSlackens ==
    ASSUME NEW s, NEW h, NEW ins, NEW g, Sane(s, h, ins, g), NEW m \in Mutexes
    PROVE  Slackens([s EXCEPT !.mpri[m] = FirstPriority(s, m)], s)
<1> DEFINE r == [s EXCEPT !.mpri[m] = FirstPriority(s, m)]
<1>1. s \in MutexStates /\ FirstPriority(s, m) \in 0..NoPrio  BY FirstPriorityType DEF Sane
<1>2. /\ r \in MutexStates /\ r.owner = s.owner /\ r.hold = s.hold /\ r.taken = s.taken
      /\ r.pending = s.pending /\ r.waiters = s.waiters
  <2>1. s.mpri \in [Mutexes -> 0..NoPrio]  BY <1>1 DEF MutexStates
  <2>2. [s.mpri EXCEPT ![m] = FirstPriority(s, m)] \in [Mutexes -> 0..NoPrio]  BY <1>1, <2>1
  <2>3. r = [s EXCEPT !.mpri = [s.mpri EXCEPT ![m] = FirstPriority(s, m)]]
    BY <1>1 DEF MutexStates
  <2> QED  BY <1>1, <2>2, <2>3 DEF MutexStates
<1> HIDE DEF r
<1>3. Slackens(r, s)  BY <1>2, SlackensPriority
<1> QED  BY <1>3 DEF r

LEMMA PrioSlackens ==
    ASSUME NEW s, NEW h, NEW ins, NEW g, Sane(s, h, ins, g), NEW t \in Threads,
           NEW p \in 0..(NoPrio - 1)
    PROVE  Slackens([s EXCEPT !.prio[t] = p], s)
<1> DEFINE r == [s EXCEPT !.prio[t] = p]
<1>1. s \in MutexStates  BY DEF Sane
<1>2. /\ r \in MutexStates /\ r.owner = s.owner /\ r.hold = s.hold /\ r.taken = s.taken
      /\ r.pending = s.pending /\ r.waiters = s.waiters
  <2>1. s.prio \in [Threads -> 0..(NoPrio - 1)]  BY <1>1 DEF MutexStates
  <2>2. [s.prio EXCEPT ![t] = p] \in [Threads -> 0..(NoPrio - 1)]  BY <2>1
  <2>3. r = [s EXCEPT !.prio = [s.prio EXCEPT ![t] = p]]  BY <1>1 DEF MutexStates
  <2> QED  BY <1>1, <2>2, <2>3 DEF MutexStates
<1> HIDE DEF r
<1>3. Slackens(r, s)  BY <1>2, SlackensPriority
<1> QED  BY <1>3 DEF r

\* A thread that is sorted into its list anew is on no other.
LEMMA SortedSlackens ==
    ASSUME NEW s, NEW h, NEW ins, NEW g, Sane(s, h, ins, g), NEW m \in Mutexes,
           NEW t \in Threads, Holds(s.waiters[m], t)
    PROVE  Slackens([s EXCEPT !.waiters[m] = Enqueue(Unlink(@, t), t, "PRIO", s.prio)], s)
<1> DEFINE w == s.waiters[m]
           u == Unlink(w, t)
           e == Enqueue(u, t, "PRIO", s.prio)
           r == [s EXCEPT !.waiters[m] = Enqueue(Unlink(@, t), t, "PRIO", s.prio)]
<1>1. s \in MutexStates /\ Listed(s, ins, g)  BY DEF Sane
<1>2. s.waiters \in [Mutexes -> Seq(Threads)]  BY <1>1 DEF MutexStates
<1>3. w \in Seq(Threads) /\ Distinct(w) /\ Holds(w, t)  BY <1>1, <1>2 DEF Listed
<1>4. r = [s EXCEPT !.waiters = [s.waiters EXCEPT ![m] = e]]  BY <1>1 DEF MutexStates
<1> HIDE DEF w
<1>5. u \in Seq(Threads) /\ Distinct(u) /\ \A v : Holds(u, v) <=> Holds(w, v) /\ v # t
  BY <1>3, UnlinkFacts
<1> HIDE DEF u
<1>6. e \in Seq(Threads) /\ Distinct(e) /\ \A v : Holds(e, v) <=> Holds(u, v) \/ v = t
  BY <1>5, EnqueueFacts
<1> HIDE DEF e
<1>7. [s.waiters EXCEPT ![m] = e] \in [Mutexes -> Seq(Threads)]  BY <1>2, <1>6
<1>8. /\ r \in MutexStates /\ r.owner = s.owner /\ r.hold = s.hold /\ r.taken = s.taken
      /\ r.pending = s.pending /\ r.waiters = [s.waiters EXCEPT ![m] = e]
  BY <1>1, <1>4, <1>7 DEF MutexStates
<1> HIDE DEF r
<1>9. \A n \in Mutexes : r.waiters[n] = IF n = m THEN e ELSE s.waiters[n]  BY <1>2, <1>8
<1>10. ASSUME NEW n \in Mutexes
       PROVE  /\ Distinct(r.waiters[n])
              /\ \A v \in Threads : Holds(r.waiters[n], v) => Holds(s.waiters[n], v)
  <2>1. CASE n = m
    <3>1. r.waiters[n] = e /\ s.waiters[n] = w  BY <1>9, <2>1 DEF w
    <3> QED  BY <1>3, <1>5, <1>6, <3>1
  <2>2. CASE n # m  BY <1>1, <1>9, <2>2 DEF Listed
  <2> QED  BY <2>1, <2>2
<1>11. Slackens(r, s)  BY <1>8, <1>10 DEF Slackens
<1> QED  BY <1>11 DEF r

\* The states of the loop that passes a priority on, after s.
LoopStates(s) == {c \in [thread : Threads \cup {NoThread}, state : MutexStates] : Slackens(c.state, s)}

LEMMA RoundFacts ==
    ASSUME NEW s, NEW h, NEW ins, NEW g, Sane(s, h, ins, g), NEW c \in LoopStates(s)
    PROVE  Round(c) \in LoopStates(s)
<1> DEFINE t == c.thread
           x == c.state
           m == x.pending[t]
           o == x.owner[m]
           sorted == [x EXCEPT !.waiters[m] = Enqueue(Unlink(@, t), t, "PRIO", x.prio)]
           asking == [sorted EXCEPT !.mpri[m] = FirstPriority(sorted, m)]
           due == DuePriority(asking, o)
           passed == [asking EXCEPT !.prio[o] = due]
<1>1. t \in Threads \cup {NoThread} /\ x \in MutexStates /\ Slackens(x, s)
  BY DEF LoopStates
<1>2. Sane(x, h, ins, g)  BY <1>1, SlackensSane
<1>3. CASE ~(Suspended(x, t) /\ m # NoMutex)
  <2>1. Round(c) = c  BY <1>3 DEF Round
  <2> QED  BY <2>1
<1>4. CASE Suspended(x, t) /\ m # NoMutex
  <2>1. PICK l \in Mutexes : Holds(x.waiters[l], t)  BY <1>4 DEF Suspended
  <2>2. x.waiters[l] \in Seq(Threads)  BY <1>1 DEF MutexStates
  <2>3. t \in Threads  BY <2>1, <2>2, HeldIsElement
  <2>4. m = l /\ x.waiters[l] # <<>> /\ x.owner[l] # NoThread
    <3>1. x.waiters[l] # <<>>  BY <2>1, <2>2, <2>3, EmptyHoldsNobody
    <3> QED  BY <1>2, <2>1, <2>3, <3>1 DEF Sane, Listed
  <2>5. m \in Mutexes /\ Holds(x.waiters[m], t) /\ o \in Threads
    <3>1. x.owner[l] \in Threads \cup {NoThread}  BY <1>1 DEF MutexStates
    <3> QED  BY <2>1, <2>4, <3>1
  <2>6. Round(c) = IF due = asking.prio[o] THEN [thread |-> NoThread, state |-> asking]
                   ELSE [thread |-> o, state |-> passed]
    BY <1>4 DEF Round
  <2> HIDE DEF passed, due
  <2>7. Slackens(sorted, x)
    <3> HIDE DEF m, x, t
    <3> QED  BY <1>2, <2>3, <2>5, SortedSlackens
  <2> HIDE DEF sorted
  <2>8. Sane(sorted, h, ins, g)  BY <1>2, <2>7, SlackensSane
  <2>9. Slackens(asking, sorted)
    <3> HIDE DEF m
    <3> QED  BY <2>5, <2>8, AskedSlackens
  <2> HIDE DEF asking
  <2>10. Sane(asking, h, ins, g)  BY <2>8, <2>9, SlackensSane
  <2>11. Slackens(asking, s)  BY <1>1, <2>7, <2>9, SlackensTrans
  <2>12. asking \in MutexStates  BY <2>10 DEF Sane
  <2>13. due \in 0..(NoPrio - 1)
    <3> HIDE DEF o
    <3> QED  BY <2>5, <2>12, DuePriorityType DEF due
  <2>14. Slackens(passed, asking)
    <3> HIDE DEF o
    <3> QED  BY <2>5, <2>10, <2>13, PrioSlackens DEF passed
  <2>15. Slackens(passed, s)  BY <2>11, <2>14, SlackensTrans
  <2>16. passed \in MutexStates  BY <2>15 DEF Slackens
  <2> HIDE DEF o, m, x, t
  <2>17. CASE due = asking.prio[o]
    <3>1. Round(c) = [thread |-> NoThread, state |-> asking]  BY <2>6, <2>17
    <3> QED  BY <2>11, <2>12, <3>1 DEF LoopStates
  <2>18. CASE due # asking.prio[o]
    <3>1. Round(c) = [thread |-> o, state |-> passed]  BY <2>6, <2>18
    <3> QED  BY <2>5, <2>15, <2>16, <3>1 DEF LoopStates
  <2> QED  BY <2>17, <2>18
<1> QED  BY <1>3, <1>4

\* e is the loop of _thread_update_priority that starts at x.
Passes(e, x) == e = [k \in 0..Rounds |-> IF k = 0 THEN x ELSE Round(e[k - 1])]

LEMMA PassesExists ==
    ASSUME NEW s, NEW h, NEW ins, NEW g, Sane(s, h, ins, g), NEW x \in LoopStates(s)
    PROVE  \E e : Passes(e, x)
<1> DEFINE L == LoopStates(s)
           S == [k \in 0..Rounds |-> L]
           f == [k \in 1..Rounds |-> [c \in L |-> Round(c)]]
<1>1. Rounds \in Nat  BY MutexAssumption
<1>2. \A c \in L : Round(c) \in L  BY RoundFacts
<1> HIDE DEF L
<1>3. x \in S[0] /\ \A k \in 1..Rounds : \A c \in S[k - 1] : f[k][c] \in S[k]
  <2>1. 0 \in 0..Rounds /\ x \in L  BY <1>1 DEF L
  <2>2. \A k \in 1..Rounds : k - 1 \in 0..Rounds /\ k \in 0..Rounds  BY <1>1
  <2> QED  BY <1>2, <2>1, <2>2
<1>4. \A k \in 1..Rounds : \A c \in L : f[k][c] = Round(c)  OBVIOUS
<1>5. \A k \in 0..Rounds : S[k] = L  OBVIOUS
<1> HIDE DEF S, f
<1>6. PICK e : Loops(e, Rounds, S, f, x)  BY <1>1, <1>3, LoopExists
<1>7. /\ e = [k \in 0..Rounds |-> e[k]] /\ e[0] = x
      /\ \A k \in 0..Rounds : e[k] \in L
      /\ \A k \in 1..Rounds : e[k] = f[k][e[k - 1]]
  BY <1>5, <1>6 DEF Loops
<1> DEFINE g2 == [k \in 0..Rounds |-> IF k = 0 THEN x ELSE Round(e[k - 1])]
<1>8. ASSUME NEW k \in 0..Rounds PROVE g2[k] = IF k = 0 THEN x ELSE f[k][e[k - 1]]
  <2>1. CASE k = 0  BY <2>1
  <2>2. CASE k # 0
    <3>1. k \in 1..Rounds /\ k - 1 \in 0..Rounds  BY <1>1, <2>2
    <3>2. f[k][e[k - 1]] = Round(e[k - 1])  BY <1>4, <1>7, <3>1
    <3> QED  BY <2>2, <3>2
  <2> QED  BY <2>1, <2>2
<1>9. \A k \in 0..Rounds : k # 0 => k \in 1..Rounds  BY <1>1
<1>10. g2 = [k \in 0..Rounds |-> g2[k]]  OBVIOUS
<1>12. \A k \in 0..Rounds : g2[k] = e[k]  BY <1>7, <1>8, <1>9
<1>13. Passes(e, x)
  <2>1. e = g2
    <3> HIDE DEF g2
    <3> QED  BY <1>7, <1>10, <1>12
  <2> QED  BY <2>1 DEF Passes
<1> QED  BY <1>13

LEMMA UpdateIs ==
    ASSUME NEW s, NEW t, NEW p,
           NEW x, x = [thread |-> t, state |-> [s EXCEPT !.prio[t] = p]],
           \E e : Passes(e, x)
    PROVE  \E e : Passes(e, x) /\ UpdatePriority(s, t, p) = e[Rounds].state
<1> DEFINE e == CHOOSE e : Passes(e, x)
<1>1. Passes(e, x)  OBVIOUS
<1>2. UpdatePriority(s, t, p) = e[Rounds].state  BY ZenonT(60) DEF UpdatePriority, Passes
<1> QED  BY <1>1, <1>2

\* The rounds of _thread_update_priority.
LEMMA UpdateRuns ==
    ASSUME NEW s, NEW h, NEW ins, NEW g, Sane(s, h, ins, g), NEW t \in Threads,
           NEW p \in 0..(NoPrio - 1)
    PROVE  \E e : /\ e[0] = [thread |-> t, state |-> [s EXCEPT !.prio[t] = p]]
                  /\ \A k \in 0..Rounds : e[k] \in LoopStates(s)
                  /\ \A k \in 1..Rounds : e[k] = Round(e[k - 1])
                  /\ UpdatePriority(s, t, p) = e[Rounds].state
<1> DEFINE y == [s EXCEPT !.prio[t] = p]
           x == [thread |-> t, state |-> y]
<1>0. Rounds \in Nat  BY MutexAssumption
<1>1. Slackens(y, s)  BY PrioSlackens
<1>2. y \in MutexStates  BY <1>1 DEF Slackens
<1>3. x \in LoopStates(s)
  <2> HIDE DEF y
  <2> QED  BY <1>1, <1>2 DEF LoopStates
<1>4. PICK e : Passes(e, x) /\ UpdatePriority(s, t, p) = e[Rounds].state
  <2>1. \E e : Passes(e, x)
    <3> HIDE DEF x
    <3> QED  BY <1>3, PassesExists
  <2> QED  BY <2>1, UpdateIs
<1> HIDE DEF x
<1>5. e = [k \in 0..Rounds |-> IF k = 0 THEN x ELSE Round(e[k - 1])]  BY <1>4 DEF Passes
<1>6. e[0] = x
  <2>1. 0 \in 0..Rounds  BY <1>0
  <2> QED  BY <1>5, <2>1
<1>7. \A k \in 1..Rounds : e[k] = Round(e[k - 1])
  <2>1. \A k \in 1..Rounds : k \in 0..Rounds /\ k # 0  BY <1>0
  <2> QED  BY <1>5, <2>1
<1> DEFINE P == {k \in 0..Rounds : e[k] \in LoopStates(s)}
<1>8. 0 \in P  BY <1>0, <1>3, <1>6
<1>9. ASSUME NEW k \in 1..Rounds, k - 1 \in P PROVE k \in P
  <2>1. e[k - 1] \in LoopStates(s) /\ k \in 0..Rounds /\ e[k] = Round(e[k - 1])
    BY <1>0, <1>7, <1>9
  <2> QED  BY <2>1, RoundFacts
<1> HIDE DEF P
<1>10. \A k \in 0..Rounds : k \in P  BY <1>0, <1>8, <1>9, RoundsInduction
<1>11. \A k \in 0..Rounds : e[k] \in LoopStates(s)  BY <1>10 DEF P
<1>12. e[0] = [thread |-> t, state |-> [s EXCEPT !.prio[t] = p]]  BY <1>6 DEF x
<1> HIDE DEF y
<1> QED  BY <1>4, <1>7, <1>11, <1>12

LEMMA UpdateSlackens ==
    ASSUME NEW s, NEW h, NEW ins, NEW g, Sane(s, h, ins, g), NEW t \in Threads,
           NEW p \in 0..(NoPrio - 1)
    PROVE  Slackens(UpdatePriority(s, t, p), s)
<1>1. Rounds \in 0..Rounds  BY MutexAssumption
<1>2. PICK e : /\ e[0] = [thread |-> t, state |-> [s EXCEPT !.prio[t] = p]]
               /\ \A k \in 0..Rounds : e[k] \in LoopStates(s)
               /\ \A k \in 1..Rounds : e[k] = Round(e[k - 1])
               /\ UpdatePriority(s, t, p) = e[Rounds].state
  BY UpdateRuns
<1>3. e[Rounds] \in LoopStates(s)  BY <1>1, <1>2
<1> QED  BY <1>2, <1>3 DEF LoopStates

LEMMA RefreshSlackens ==
    ASSUME NEW s, NEW h, NEW ins, NEW g, Sane(s, h, ins, g), NEW o \in Threads
    PROVE  Slackens(Refresh(s, o), s)
<1>1. s \in MutexStates  BY DEF Sane
<1>2. DuePriority(s, o) \in 0..(NoPrio - 1)  BY <1>1, DuePriorityType
<1>3. Slackens(UpdatePriority(s, o, DuePriority(s, o)), s)  BY <1>2, UpdateSlackens
<1>4. Slackens(s, s)  BY DEF Slackens, Sane, Listed
<1> QED  BY <1>3, <1>4 DEF Refresh

LEMMA CheckSlackens ==
    ASSUME NEW s, NEW h, NEW ins, NEW g, Sane(s, h, ins, g), NEW t \in Threads, NEW m
    PROVE  Slackens(CheckAndUpdate(s, t, m), s)
<1>1. s \in MutexStates  BY DEF Sane
<1>2. DuePriority(s, t) \in 0..(NoPrio - 1)  BY <1>1, DuePriorityType
<1>3. Slackens([s EXCEPT !.prio[t] = DuePriority(s, t)], s)  BY <1>2, PrioSlackens
<1>4. Slackens(s, s)  BY DEF Slackens, Sane, Listed
<1> QED  BY <1>3, <1>4 DEF CheckAndUpdate

LEMMA LeaveSlackens ==
    ASSUME NEW s, NEW h, NEW ins, NEW g, Sane(s, h, ins, g), NEW t \in Threads,
           NEW m \in Mutexes
    PROVE  Slackens(LeaveWait(s, t, m), s)
<1> DEFINE o == s.owner[m]
           asking == [s EXCEPT !.mpri[m] = FirstPriority(s, m)]
<1>1. Slackens(asking, s)  BY AskedSlackens
<1>2. LeaveWait(s, t, m) = IF o # NoThread /\ s.prio[o] = s.prio[t] THEN Refresh(asking, o) ELSE asking
  BY DEF LeaveWait
<1> HIDE DEF asking
<1>3. Sane(asking, h, ins, g)  BY <1>1, SlackensSane
<1>4. CASE o # NoThread
  <2>1. o \in Threads  BY <1>4 DEF Sane, MutexStates
  <2> HIDE DEF o
  <2>2. Slackens(Refresh(asking, o), asking)  BY <1>3, <2>1, RefreshSlackens
  <2> QED  BY <1>1, <1>2, <2>2, SlackensTrans
<1>5. CASE o = NoThread  BY <1>1, <1>2, <1>5
<1> QED  BY <1>4, <1>5

-----------------------------------------------------------------------------
(***************************************************************************)
(* Mutex: hand-over.                                                       *)
(***************************************************************************)
\* The history in which t has v takes of m to release.
Holding(h, t, m, v) == [h EXCEPT ![t][m] = v]

LEMMA HoldingFacts ==
    ASSUME NEW h \in Histories, NEW t \in Threads, NEW m \in Mutexes, NEW v \in 0..HoldMax
    PROVE  /\ Holding(h, t, m, v) \in Histories
           /\ \A u \in Threads, n \in Mutexes :
                 Holding(h, t, m, v)[u][n] = IF u = t /\ n = m THEN v ELSE h[u][n]
<1>1. h[t] \in [Mutexes -> 0..HoldMax]  BY DEF Histories
<1> DEFINE row == [h[t] EXCEPT ![m] = v]
<1>2. row \in [Mutexes -> 0..HoldMax] /\ \A n \in Mutexes : row[n] = IF n = m THEN v ELSE h[t][n]
  BY <1>1
<1>3. Holding(h, t, m, v) = [h EXCEPT ![t] = row]  BY DEF Holding
<1> HIDE DEF row
<1> QED  BY <1>2, <1>3 DEF Histories

\* t releases m for good: it is nobody's, or the first waiter's.
LEMMA HandOverSane ==
    ASSUME NEW s, NEW h, NEW ins, NEW g, Sane(s, h, ins, g),
           NEW t \in Threads, t \notin g, ins[t] = NoMutex,
           NEW m \in Mutexes, m \notin g, s.owner[m] = t
    PROVE  /\ Sane(HandOver(s, t, m), Holding(h, t, m, 0), ins, g)
           /\ \A n \in Mutexes \ {m} : HandOver(s, t, m).owner[n] = s.owner[n]
<1> DEFINE spent == [s EXCEPT !.hold[m] = 0, !.taken[t] = @ \ {m}]
           calm == CheckAndUpdate(spent, t, m)
           next == Head(calm.waiters[m])
           served == [calm EXCEPT !.waiters[m] = Tail(@),
                                  !.owner[m] = next,
                                  !.hold[m] = 1,
                                  !.taken[next] = @ \cup {m},
                                  !.pending[next] = NoMutex]
           h2 == Holding(h, t, m, 0)
           r == HandOver(s, t, m)
<1>1. /\ s \in MutexStates /\ h \in Histories /\ ins \in Inside
      /\ Listed(s, ins, g) /\ Taken(s, g) /\ Counted(s, h, ins, g)
  BY DEF Sane
<1>2. /\ s.owner \in [Mutexes -> Threads \cup {NoThread}]
      /\ s.hold \in [Mutexes -> 0..HoldMax] /\ s.taken \in [Threads -> SUBSET Mutexes]
      /\ s.waiters \in [Mutexes -> Seq(Threads)]
      /\ s.pending \in [Threads -> Mutexes \cup {NoMutex}]
      /\ s.prio \in [Threads -> 0..(NoPrio - 1)]
      /\ 0 \in 0..HoldMax /\ 1 \in 0..HoldMax /\ NoThread \notin Threads /\ NoMutex \notin Mutexes
  BY <1>1, MutexAssumption DEF MutexStates
<1>3. /\ h2 \in Histories
      /\ \A u \in Threads, n \in Mutexes : h2[u][n] = IF u = t /\ n = m THEN 0 ELSE h[u][n]
  BY <1>1, <1>2, HoldingFacts
<1>4. r = IF calm.waiters[m] = <<>>
          THEN [calm EXCEPT !.owner[m] = NoThread, !.mpri[m] = NoPrio]
          ELSE [served EXCEPT !.mpri[m] = FirstPriority(served, m)]
  BY DEF HandOver
\* What is left when t has given it up, before anybody is served.
<1>5. /\ calm \in MutexStates
      /\ calm.owner = s.owner /\ calm.waiters = s.waiters /\ calm.pending = s.pending
      /\ calm.hold = [s.hold EXCEPT ![m] = 0]
      /\ calm.taken = [s.taken EXCEPT ![t] = @ \ {m}]
  <2>1. spent = [s EXCEPT !.hold = [s.hold EXCEPT ![m] = 0],
                         !.taken = [s.taken EXCEPT ![t] = @ \ {m}]]
    BY <1>1 DEF MutexStates
  <2>2. /\ [s.hold EXCEPT ![m] = 0] \in [Mutexes -> 0..HoldMax]
        /\ [s.taken EXCEPT ![t] = @ \ {m}] \in [Threads -> SUBSET Mutexes]
    BY <1>2
  <2>3. /\ spent \in MutexStates
        /\ spent.owner = s.owner /\ spent.waiters = s.waiters /\ spent.pending = s.pending
        /\ spent.hold = [s.hold EXCEPT ![m] = 0]
        /\ spent.taken = [s.taken EXCEPT ![t] = @ \ {m}]
        /\ spent.prio = s.prio
    BY <1>1, <2>1, <2>2 DEF MutexStates
  <2>4. calm = spent \/ calm = [spent EXCEPT !.prio[t] = DuePriority(spent, t)]
    BY DEF CheckAndUpdate
  <2> HIDE DEF spent, calm
  <2>5. DuePriority(spent, t) \in 0..(NoPrio - 1)  BY <2>3, DuePriorityType
  <2>6. CASE calm = spent  BY <2>3, <2>6
  <2>7. CASE calm = [spent EXCEPT !.prio[t] = DuePriority(spent, t)]
    <3>1. [spent.prio EXCEPT ![t] = DuePriority(spent, t)] \in [Threads -> 0..(NoPrio - 1)]
      BY <1>2, <2>3, <2>5
    <3>2. calm = [spent EXCEPT !.prio = [spent.prio EXCEPT ![t] = DuePriority(spent, t)]]
      BY <2>3, <2>7 DEF MutexStates
    <3> QED  BY <2>3, <3>1, <3>2 DEF MutexStates
  <2> QED  BY <2>4, <2>6, <2>7
<1> HIDE DEF spent, calm, h2, r
<1>6. /\ \A n \in Mutexes : calm.hold[n] = IF n = m THEN 0 ELSE s.hold[n]
      /\ \A u \in Threads : calm.taken[u] = IF u = t THEN s.taken[t] \ {m} ELSE s.taken[u]
  BY <1>2, <1>5
<1>7. CASE s.waiters[m] = <<>>
  <2>1. r = [calm EXCEPT !.owner = [s.owner EXCEPT ![m] = NoThread],
                         !.mpri = [calm.mpri EXCEPT ![m] = NoPrio]]
    BY <1>4, <1>5, <1>7 DEF MutexStates
  <2>2. /\ [s.owner EXCEPT ![m] = NoThread] \in [Mutexes -> Threads \cup {NoThread}]
        /\ [calm.mpri EXCEPT ![m] = NoPrio] \in [Mutexes -> 0..NoPrio]
    <3>1. NoPrio \in 0..NoPrio  BY MutexAssumption
    <3>2. calm.mpri \in [Mutexes -> 0..NoPrio]  BY <1>5 DEF MutexStates
    <3> QED  BY <1>2, <3>1, <3>2
  <2>3. /\ r \in MutexStates /\ r.owner = [s.owner EXCEPT ![m] = NoThread]
        /\ r.hold = calm.hold /\ r.taken = calm.taken /\ r.waiters = s.waiters
        /\ r.pending = s.pending
    BY <1>5, <2>1, <2>2 DEF MutexStates
  <2>4. \A n \in Mutexes : r.owner[n] = IF n = m THEN NoThread ELSE s.owner[n]  BY <1>2, <2>3
  <2>5. Listed(r, ins, g)  BY <1>1, <1>7, <2>3, <2>4 DEF Listed
  <2>6. Taken(r, g)
    <3>1. ASSUME NEW n \in Mutexes, NEW u \in Threads
          PROVE  n \in r.taken[u] <=> r.owner[n] = u /\ n \notin g
      <4>1. n \in s.taken[u] <=> s.owner[n] = u /\ n \notin g  BY <1>1 DEF Taken
      <4>2. r.taken[u] = (IF u = t THEN s.taken[t] \ {m} ELSE s.taken[u])  BY <1>6, <2>3
      <4>3. CASE n = m
        <5>1. r.owner[n] = NoThread /\ (u # t => n \notin s.taken[u])  BY <2>4, <4>1, <4>3
        <5> QED  BY <1>2, <4>2, <4>3, <5>1
      <4>4. CASE n # m
        <5>1. r.owner[n] = s.owner[n] /\ (n \in r.taken[u] <=> n \in s.taken[u])
          BY <2>4, <4>2, <4>4
        <5> QED  BY <4>1, <5>1
      <4> QED  BY <4>3, <4>4
    <3>2. \A n \in Mutexes \ g : r.owner[n] \in Threads => r.hold[n] # 0
      BY <1>1, <1>2, <1>6, <2>3, <2>4 DEF Taken
    <3> QED  BY <3>1, <3>2 DEF Taken
  <2>7. Counted(r, h2, ins, g)
    <3>1. \A u \in Threads, n \in Mutexes : h2[u][n] # 0 => r.owner[n] = u
      BY <1>1, <1>3, <2>4 DEF Counted
    <3>2. \A u \in Threads \ g, n \in Mutexes : ins[u] = n => h2[u][n] = 0
      BY <1>1, <1>3 DEF Counted
    <3>3. ASSUME NEW n \in Mutexes \ g, r.owner[n] \in Threads \ g
          PROVE  r.hold[n] = h2[r.owner[n]][n] + (IF ins[r.owner[n]] = n THEN 1 ELSE 0)
      <4>1. n # m /\ r.owner[n] = s.owner[n] /\ r.hold[n] = s.hold[n]
        BY <1>2, <1>6, <2>3, <2>4, <3>3
      <4>2. h2[s.owner[n]][n] = h[s.owner[n]][n]  BY <1>3, <3>3, <4>1
      <4>3. s.hold[n] = h[s.owner[n]][n] + (IF ins[s.owner[n]] = n THEN 1 ELSE 0)
        BY <1>1, <3>3, <4>1 DEF Counted
      <4> QED  BY <4>1, <4>2, <4>3
    <3>4. ASSUME NEW n \in Mutexes \ g, r.owner[n] \in Threads \cap g
          PROVE  h2[r.owner[n]][n] # 0 \/ ins[r.owner[n]] = n
      <4>1. n # m /\ r.owner[n] = s.owner[n]  BY <1>2, <2>4, <3>4
      <4>2. h[s.owner[n]][n] # 0 \/ ins[s.owner[n]] = n  BY <1>1, <3>4, <4>1 DEF Counted
      <4>3. h2[s.owner[n]][n] = h[s.owner[n]][n]  BY <1>3, <3>4, <4>1
      <4> QED  BY <4>1, <4>2, <4>3
    <3> QED  BY <3>1, <3>2, <3>3, <3>4 DEF Counted
  <2> QED  BY <1>1, <1>3, <2>3, <2>4, <2>5, <2>6, <2>7 DEF Sane, r, h2
<1>8. CASE s.waiters[m] # <<>>
  <2> DEFINE w == s.waiters[m]
  <2>1. /\ w \in Seq(Threads) /\ w # <<>> /\ Distinct(w)
    BY <1>1, <1>2, <1>8 DEF Listed
  <2>2. next = Head(w)  BY <1>5
  <2> HIDE DEF w
  <2>3. /\ Head(w) \in Threads /\ Holds(w, Head(w))
        /\ Tail(w) \in Seq(Threads) /\ Distinct(Tail(w))
        /\ \A u : Holds(Tail(w), u) <=> Holds(w, u) /\ u # Head(w)
    BY <2>1, TailFacts
  <2>4. /\ next \in Threads /\ Holds(s.waiters[m], next)
        /\ ins[next] = m /\ next \notin g /\ next # t /\ h[next][m] = 0
    <3>1. next \in Threads /\ Holds(s.waiters[m], next)  BY <2>2, <2>3 DEF w
    <3>2. ins[next] = m /\ next \notin g  BY <1>1, <3>1 DEF Listed
    <3>3. next # t  BY <1>2, <3>2
    <3>4. h[next][m] = 0  BY <1>1, <3>1, <3>2 DEF Counted
    <3> QED  BY <3>1, <3>2, <3>3, <3>4
  <2> HIDE DEF next
  <2> DEFINE ws == [s.waiters EXCEPT ![m] = Tail(w)]
             os == [s.owner EXCEPT ![m] = next]
             hs == [calm.hold EXCEPT ![m] = 1]
             ts == [calm.taken EXCEPT ![next] = @ \cup {m}]
             ps == [s.pending EXCEPT ![next] = NoMutex]
  <2>5. served = [calm EXCEPT !.waiters = ws, !.owner = os, !.hold = hs, !.taken = ts, !.pending = ps]
    BY <1>5 DEF MutexStates, w
  <2>6. /\ ws \in [Mutexes -> Seq(Threads)]
        /\ os \in [Mutexes -> Threads \cup {NoThread}]
        /\ hs \in [Mutexes -> 0..HoldMax]
        /\ ts \in [Threads -> SUBSET Mutexes]
        /\ ps \in [Threads -> Mutexes \cup {NoMutex}]
    <3>1. calm.hold \in [Mutexes -> 0..HoldMax] /\ calm.taken \in [Threads -> SUBSET Mutexes]
      BY <1>5 DEF MutexStates
    <3> QED  BY <1>2, <2>3, <2>4, <3>1
  <2>7. /\ \A n \in Mutexes : ws[n] = IF n = m THEN Tail(w) ELSE s.waiters[n]
        /\ \A n \in Mutexes : os[n] = IF n = m THEN next ELSE s.owner[n]
        /\ \A n \in Mutexes : hs[n] = IF n = m THEN 1 ELSE s.hold[n]
        /\ \A u \in Threads : ts[u] = IF u = next THEN s.taken[u] \cup {m}
                                      ELSE IF u = t THEN s.taken[u] \ {m} ELSE s.taken[u]
        /\ \A u \in Threads : ps[u] = IF u = next THEN NoMutex ELSE s.pending[u]
    <3>1. calm.hold \in [Mutexes -> 0..HoldMax] /\ calm.taken \in [Threads -> SUBSET Mutexes]
      BY <1>5 DEF MutexStates
    <3>2. \A n \in Mutexes : ws[n] = IF n = m THEN Tail(w) ELSE s.waiters[n]  BY <1>2
    <3>3. \A n \in Mutexes : os[n] = IF n = m THEN next ELSE s.owner[n]  BY <1>2
    <3>4. \A n \in Mutexes : hs[n] = IF n = m THEN 1 ELSE s.hold[n]  BY <1>6, <3>1
    <3>5. \A u \in Threads : ps[u] = IF u = next THEN NoMutex ELSE s.pending[u]  BY <1>2
    <3>6. ASSUME NEW u \in Threads
          PROVE  ts[u] = IF u = next THEN s.taken[u] \cup {m}
                         ELSE IF u = t THEN s.taken[u] \ {m} ELSE s.taken[u]
      <4>1. CASE u = next
        <5>1. ts[u] = calm.taken[u] \cup {m}  BY <3>1, <4>1
        <5>2. calm.taken[u] = s.taken[u]  BY <1>6, <2>4, <4>1
        <5> QED  BY <4>1, <5>1, <5>2
      <4>2. CASE u # next
        <5>1. ts[u] = calm.taken[u]  BY <3>1, <4>2
        <5> QED  BY <1>6, <4>2, <5>1
      <4> QED  BY <4>1, <4>2
    <3> QED  BY <3>2, <3>3, <3>4, <3>5, <3>6
  <2> HIDE DEF ws, os, hs, ts, ps, served
  <2>8. served \in MutexStates  BY <1>5, <2>5, <2>6 DEF MutexStates
  <2>9. r = [served EXCEPT !.mpri[m] = FirstPriority(served, m)]
    BY <1>4, <1>5, <1>8 DEF served
  <2>10. /\ served.owner = os /\ served.hold = hs /\ served.taken = ts
         /\ served.waiters = ws /\ served.pending = ps
    BY <1>5, <2>5 DEF MutexStates
  <2>11. Listed(served, ins, g)
    <3>1. ASSUME NEW n \in Mutexes
          PROVE  /\ Distinct(ws[n])
                 /\ \A u \in Threads : Holds(ws[n], u) => ins[u] = n /\ ps[u] = n /\ u \notin g
                 /\ ws[n] # <<>> => os[n] # NoThread /\ n \notin g
      <4>1. /\ Distinct(s.waiters[n])
            /\ \A u \in Threads :
                  Holds(s.waiters[n], u) => ins[u] = n /\ s.pending[u] = n /\ u \notin g
            /\ s.waiters[n] # <<>> => s.owner[n] # NoThread /\ n \notin g
        BY <1>1 DEF Listed
      <4>2. CASE n = m
        <5>1. ws[n] = Tail(w) /\ os[n] = next /\ w = s.waiters[n]  BY <2>7, <4>2 DEF w
        <5>2. \A u \in Threads : Holds(Tail(w), u) => u # next /\ Holds(w, u)  BY <2>2, <2>3
        <5>3. \A u \in Threads : u # next => ps[u] = s.pending[u]  BY <2>7
        <5> QED  BY <1>2, <2>3, <2>4, <4>1, <4>2, <5>1, <5>2, <5>3
      <4>3. CASE n # m
        <5>1. ws[n] = s.waiters[n] /\ os[n] = s.owner[n]  BY <2>7, <4>3
        <5>2. \A u \in Threads : Holds(ws[n], u) => u # next  BY <2>4, <4>1, <4>3, <5>1
        <5> QED  BY <2>7, <4>1, <5>1, <5>2
      <4> QED  BY <4>2, <4>3
    <3> QED  BY <2>10, <3>1 DEF Listed
  <2>12. Taken(served, g)
    <3>1. ASSUME NEW n \in Mutexes, NEW u \in Threads
          PROVE  n \in ts[u] <=> os[n] = u /\ n \notin g
      <4>1. n \in s.taken[u] <=> s.owner[n] = u /\ n \notin g  BY <1>1 DEF Taken
      <4>2. ts[u] = IF u = next THEN s.taken[u] \cup {m}
                    ELSE IF u = t THEN s.taken[u] \ {m} ELSE s.taken[u]
        BY <2>7
      <4>3. CASE n = m
        <5>1. os[n] = next /\ (u # t => n \notin s.taken[u]) /\ n \notin g
          BY <2>7, <4>1, <4>3
        <5>2. n \in ts[u] <=> u = next  BY <4>2, <4>3, <5>1
        <5> QED  BY <5>1, <5>2
      <4>4. CASE n # m
        <5>1. os[n] = s.owner[n] /\ (n \in ts[u] <=> n \in s.taken[u])  BY <2>7, <4>2, <4>4
        <5> QED  BY <4>1, <5>1
      <4> QED  BY <4>3, <4>4
    <3>2. \A n \in Mutexes \ g : os[n] \in Threads => hs[n] # 0  BY <1>1, <2>7 DEF Taken
    <3> QED  BY <2>10, <3>1, <3>2 DEF Taken
  <2>13. Counted(served, h2, ins, g)
    <3>1. \A u \in Threads, n \in Mutexes : h2[u][n] # 0 => os[n] = u
      BY <1>1, <1>3, <2>7 DEF Counted
    <3>2. \A u \in Threads \ g, n \in Mutexes : ins[u] = n => h2[u][n] = 0
      BY <1>1, <1>3 DEF Counted
    <3>3. ASSUME NEW n \in Mutexes \ g, os[n] \in Threads \ g
          PROVE  hs[n] = h2[os[n]][n] + (IF ins[os[n]] = n THEN 1 ELSE 0)
      <4>1. CASE n = m
        <5>1. os[n] = next /\ hs[n] = 1 /\ h2[next][n] = 0  BY <1>3, <2>4, <2>7, <4>1
        <5> QED  BY <2>4, <4>1, <5>1
      <4>2. CASE n # m
        <5>1. os[n] = s.owner[n] /\ hs[n] = s.hold[n]  BY <2>7, <4>2
        <5>2. h2[s.owner[n]][n] = h[s.owner[n]][n]  BY <1>3, <3>3, <4>2, <5>1
        <5>3. s.hold[n] = h[s.owner[n]][n] + (IF ins[s.owner[n]] = n THEN 1 ELSE 0)
          BY <1>1, <3>3, <5>1 DEF Counted
        <5> QED  BY <5>1, <5>2, <5>3
      <4> QED  BY <4>1, <4>2
    <3>4. \A n \in Mutexes \ g : os[n] \in Threads \cap g =>
             h2[os[n]][n] # 0 \/ ins[os[n]] = n
      BY <1>1, <1>3, <2>4, <2>7 DEF Counted
    <3> QED  BY <2>10, <3>1, <3>2, <3>3, <3>4 DEF Counted
  <2>14. Sane(served, h2, ins, g)  BY <1>1, <1>3, <2>8, <2>11, <2>12, <2>13 DEF Sane
  <2>15. Slackens(r, served)  BY <2>9, <2>14, AskedSlackens
  <2>16. Sane(r, h2, ins, g)  BY <2>14, <2>15, SlackensSane
  <2>17. \A n \in Mutexes \ {m} : r.owner[n] = s.owner[n]  BY <2>7, <2>10, <2>15 DEF Slackens
  <2> QED  BY <2>16, <2>17 DEF r, h2
<1> QED  BY <1>7, <1>8

-----------------------------------------------------------------------------
(***************************************************************************)
(* Mutex: a thread that ends hands over everything it has.                 *)
(***************************************************************************)
\* What t holds when it has handed over the first k mutexes of q.
Given(h, t, q, k) ==
    [h EXCEPT ![t] = [m \in Mutexes |-> IF \E i \in 1..k : q[i] = m THEN 0 ELSE h[t][m]]]

LEMMA GivenFacts ==
    ASSUME NEW h \in Histories, NEW t \in Threads, NEW q, NEW k
    PROVE  /\ Given(h, t, q, k) \in Histories
           /\ \A u \in Threads, n \in Mutexes :
                 Given(h, t, q, k)[u][n] =
                    IF u = t /\ (\E i \in 1..k : q[i] = n) THEN 0 ELSE h[u][n]
<1> DEFINE row == [m \in Mutexes |-> IF \E i \in 1..k : q[i] = m THEN 0 ELSE h[t][m]]
<1>1. h[t] \in [Mutexes -> 0..HoldMax] /\ 0 \in 0..HoldMax
  BY MutexAssumption DEF Histories
<1>2. row \in [Mutexes -> 0..HoldMax]  BY <1>1
<1>3. \A n \in Mutexes : row[n] = IF \E i \in 1..k : q[i] = n THEN 0 ELSE h[t][n]  OBVIOUS
<1>4. Given(h, t, q, k) = [h EXCEPT ![t] = row]  BY DEF Given
<1> HIDE DEF row
<1>5. Given(h, t, q, k) \in Histories  BY <1>2, <1>4 DEF Histories
<1>6. \A u \in Threads : Given(h, t, q, k)[u] = IF u = t THEN row ELSE h[u]
  BY <1>4 DEF Histories
<1> QED  BY <1>3, <1>5, <1>6

LEMMA SameHistory ==
    ASSUME NEW a \in Histories, NEW b \in Histories,
           \A u \in Threads, n \in Mutexes : a[u][n] = b[u][n]
    PROVE  a = b
<1>1. ASSUME NEW u \in Threads PROVE a[u] = b[u]
  <2>1. a[u] \in [Mutexes -> 0..HoldMax] /\ b[u] \in [Mutexes -> 0..HoldMax]  BY DEF Histories
  <2> QED  BY <2>1
<1> QED  BY <1>1 DEF Histories

LEMMA OrderFacts ==
    ASSUME NEW S \in SUBSET Mutexes, NEW q \in Orders(S)
    PROVE  /\ Len(q) \in Nat /\ Distinct(q) /\ DOMAIN q = 1..Len(q)
           /\ \A i \in 1..Len(q) : q[i] \in S
           /\ \A m \in S : \E i \in 1..Len(q) : q[i] = m
<1>1. IsFiniteSet(S)  BY MutexAssumption, FS_Subset
<1> DEFINE n == Cardinality(S)
<1>2. n \in Nat  BY <1>1, FS_CardinalityType
<1>3. q \in [1..n -> S] /\ Distinct(q)  BY DEF Orders
<1> HIDE DEF n
<1>4. q \in Seq(S) /\ Len(q) = n  BY <1>2, <1>3
\* As many places as mutexes, and no mutex twice: every mutex has its place.
<1>5. \A m \in S : \E i \in 1..n : q[i] = m
  <2>1. q \in Injection(1..n, S)  BY <1>3 DEF Injection, IsInjective, Distinct
  <2>2. Cardinality(1..n) = n  BY <1>2, FS_Interval
  <2>3. q \in Surjection(1..n, S)  BY <1>1, <2>1, <2>2, FS_Injection DEF n
  <2> QED  BY <2>3 DEF Surjection
<1> QED  BY <1>2, <1>3, <1>4, <1>5

\* The states after t has handed over the first k mutexes of q.
GivenStates(h, ins, g, t, q, k) ==
    {x \in MutexStates : /\ Sane(x, Given(h, t, q, k), ins, g)
                         /\ \A i \in (k + 1)..Len(q) : x.owner[q[i]] = t}

LEMMA GivenStep ==
    ASSUME NEW S \in SUBSET Mutexes, NEW q \in Orders(S), NEW g, S \cap g = {},
           NEW h \in Histories, NEW ins, NEW t \in Threads, t \notin g, ins[t] = NoMutex,
           NEW k \in 1..Len(q), NEW x \in GivenStates(h, ins, g, t, q, k - 1)
    PROVE  HandOver(x, t, q[k]) \in GivenStates(h, ins, g, t, q, k)
<1> DEFINE hb == Given(h, t, q, k - 1)
           ha == Given(h, t, q, k)
           m == q[k]
           r == HandOver(x, t, m)
<1>1. /\ Len(q) \in Nat /\ Distinct(q) /\ DOMAIN q = 1..Len(q)
      /\ \A i \in 1..Len(q) : q[i] \in S
  BY OrderFacts
<1>2. /\ x \in MutexStates /\ Sane(x, hb, ins, g)
      /\ \A i \in ((k - 1) + 1)..Len(q) : x.owner[q[i]] = t
  BY DEF GivenStates
<1>3. k \in ((k - 1) + 1)..Len(q)  BY <1>1
<1>4. m \in Mutexes /\ m \notin g /\ x.owner[m] = t  BY <1>1, <1>2, <1>3
<1>5. /\ ha \in Histories /\ hb \in Histories
      /\ \A u \in Threads, n \in Mutexes :
            ha[u][n] = IF u = t /\ (\E i \in 1..k : q[i] = n) THEN 0 ELSE h[u][n]
      /\ \A u \in Threads, n \in Mutexes :
            hb[u][n] = IF u = t /\ (\E i \in 1..(k - 1) : q[i] = n) THEN 0 ELSE h[u][n]
  BY GivenFacts
<1> HIDE DEF ha, hb, r
<1>6. Holding(hb, t, m, 0) = ha
  <2> DEFINE hc == Holding(hb, t, m, 0)
  <2>1. 0 \in 0..HoldMax  BY MutexAssumption
  <2>2. /\ hc \in Histories
        /\ \A u \in Threads, n \in Mutexes : hc[u][n] = IF u = t /\ n = m THEN 0 ELSE hb[u][n]
    <3> HIDE DEF m
    <3> QED  BY <1>4, <1>5, <2>1, HoldingFacts
  <2> HIDE DEF hc
  <2>3. \A n : (\E i \in 1..k : q[i] = n) <=> n = m \/ (\E i \in 1..(k - 1) : q[i] = n)
    <3>1. \A i \in 1..k : i = k \/ i \in 1..(k - 1)  BY <1>1
    <3>2. \A i \in 1..(k - 1) : i \in 1..k  BY <1>1
    <3>3. k \in 1..k  BY <1>1
    <3> QED  BY <3>1, <3>2, <3>3
  <2>4. \A u \in Threads, n \in Mutexes : hc[u][n] = ha[u][n]  BY <1>5, <2>2, <2>3
  <2>5. hc = ha  BY <1>5, <2>2, <2>4, SameHistory
  <2> QED  BY <2>5 DEF hc
<1>7. /\ Sane(r, ha, ins, g)
      /\ \A n \in Mutexes \ {m} : r.owner[n] = x.owner[n]
  <2> HIDE DEF m
  <2> QED  BY <1>2, <1>4, <1>6, HandOverSane DEF r
<1>8. ASSUME NEW i \in (k + 1)..Len(q) PROVE r.owner[q[i]] = t
  <2>1. i \in 1..Len(q) /\ i # k /\ i \in ((k - 1) + 1)..Len(q)  BY <1>1
  <2>2. q[i] # q[k]  BY <1>1, <2>1 DEF Distinct
  <2>3. q[i] \in Mutexes \ {m} /\ x.owner[q[i]] = t  BY <1>1, <1>2, <2>1, <2>2
  <2> QED  BY <1>7, <2>3
<1>9. r \in MutexStates  BY <1>7 DEF Sane
<1> QED  BY <1>7, <1>8, <1>9 DEF GivenStates, r, ha

\* e is the loop of _thread_detach_from_mutex over the mutexes q of t.
Hands(e, s, t, q) ==
    e = [k \in 0..Len(q) |-> IF k = 0 THEN s ELSE HandOver(e[k - 1], t, q[k])]

LEMMA HandsExists ==
    ASSUME NEW S \in SUBSET Mutexes, NEW q \in Orders(S), NEW g, S \cap g = {},
           NEW h \in Histories, NEW ins, NEW t \in Threads, t \notin g, ins[t] = NoMutex,
           NEW s \in GivenStates(h, ins, g, t, q, 0)
    PROVE  \E e : Hands(e, s, t, q)
<1> DEFINE n == Len(q)
           A == [k \in 0..n |-> GivenStates(h, ins, g, t, q, k)]
           f == [k \in 1..n |-> [x \in MutexStates |-> HandOver(x, t, q[k])]]
<1>1. n \in Nat  BY OrderFacts
<1>2. \A k \in 1..n : \A x \in GivenStates(h, ins, g, t, q, k - 1) :
         HandOver(x, t, q[k]) \in GivenStates(h, ins, g, t, q, k)
  BY GivenStep
<1>3. \A k : GivenStates(h, ins, g, t, q, k) \subseteq MutexStates  BY DEF GivenStates
<1> HIDE DEF n
<1>4. \A k \in 0..n : A[k] = GivenStates(h, ins, g, t, q, k)  OBVIOUS
<1>5. \A k \in 1..n : \A x \in MutexStates : f[k][x] = HandOver(x, t, q[k])  OBVIOUS
<1>6. \A k \in 1..n : k - 1 \in 0..n /\ k \in 0..n  BY <1>1
<1> HIDE DEF A, f
<1>7. s \in A[0] /\ \A k \in 1..n : \A x \in A[k - 1] : f[k][x] \in A[k]
  <2>1. s \in A[0]
    <3>1. 0 \in 0..n  BY <1>1
    <3> QED  BY <1>4, <3>1
  <2>2. ASSUME NEW k \in 1..n, NEW x \in A[k - 1] PROVE f[k][x] \in A[k]
    <3>1. x \in GivenStates(h, ins, g, t, q, k - 1)  BY <1>4, <1>6
    <3>2. f[k][x] = HandOver(x, t, q[k])  BY <1>3, <1>5, <3>1
    <3>3. HandOver(x, t, q[k]) \in GivenStates(h, ins, g, t, q, k)  BY <1>2, <3>1
    <3> QED  BY <1>4, <1>6, <3>2, <3>3
  <2> QED  BY <2>1, <2>2
<1>8. PICK e : Loops(e, n, A, f, s)  BY <1>1, <1>7, LoopExists
<1>9. /\ e = [k \in 0..n |-> e[k]] /\ e[0] = s
      /\ \A k \in 0..n : e[k] \in A[k]
      /\ \A k \in 1..n : e[k] = f[k][e[k - 1]]
  BY <1>8 DEF Loops
<1> DEFINE d == [k \in 0..n |-> IF k = 0 THEN s ELSE HandOver(e[k - 1], t, q[k])]
<1>10. ASSUME NEW k \in 0..n PROVE d[k] = e[k]
  <2>1. CASE k = 0  BY <1>9, <2>1
  <2>2. CASE k # 0
    <3>1. k \in 1..n /\ k - 1 \in 0..n  BY <1>1, <2>2
    <3>2. e[k - 1] \in MutexStates  BY <1>3, <1>4, <1>9, <3>1
    <3>3. e[k] = HandOver(e[k - 1], t, q[k])  BY <1>5, <1>9, <3>1, <3>2
    <3> QED  BY <2>2, <3>3
  <2> QED  BY <2>1, <2>2
<1>11. d = [k \in 0..n |-> d[k]]  OBVIOUS
<1>12. e = d
  <2> HIDE DEF d
  <2> QED  BY <1>9, <1>10, <1>11
<1>13. Hands(e, s, t, q)  BY <1>12 DEF Hands, n
<1> QED  BY <1>13

LEMMA HandAllIs ==
    ASSUME NEW s, NEW t, NEW q, \E e : Hands(e, s, t, q)
    PROVE  \E e : Hands(e, s, t, q) /\ HandAll(s, t, q) = e[Len(q)]
<1> DEFINE d == CHOOSE e : Hands(e, s, t, q)
<1>1. Hands(d, s, t, q)  OBVIOUS
<1>2. HandAll(s, t, q) = d[Len(q)]  BY Zenon DEF HandAll, Hands
<1> QED  BY <1>1, <1>2

\* The hand-overs of a thread that ends.
LEMMA HandAllRuns ==
    ASSUME NEW s, NEW h, NEW ins, NEW g, Sane(s, h, ins, g),
           NEW t \in Threads, t \notin g, ins[t] = NoMutex, NEW q \in Orders(s.taken[t])
    PROVE  /\ Len(q) \in Nat /\ \A i \in 1..Len(q) : q[i] \in Mutexes
           /\ \E e : /\ e[0] = s
                     /\ \A k \in 0..Len(q) : e[k] \in GivenStates(h, ins, g, t, q, k)
                     /\ \A k \in 1..Len(q) : e[k] = HandOver(e[k - 1], t, q[k])
                     /\ HandAll(s, t, q) = e[Len(q)]
<1> DEFINE S == s.taken[t]
           n == Len(q)
<1>1. /\ s \in MutexStates /\ h \in Histories /\ Taken(s, g)
  BY DEF Sane
<1>2. S \in SUBSET Mutexes /\ S \cap g = {} /\ \A m \in S : s.owner[m] = t
  BY <1>1 DEF MutexStates, Taken
<1>3. n \in Nat /\ \A i \in 1..n : q[i] \in S  BY <1>2, OrderFacts
<1> HIDE DEF S
<1>4. s \in GivenStates(h, ins, g, t, q, 0)
  <2> DEFINE b == Given(h, t, q, 0)
  <2>1. /\ b \in Histories
        /\ \A u \in Threads, k \in Mutexes :
              b[u][k] = IF u = t /\ (\E i \in 1..0 : q[i] = k) THEN 0 ELSE h[u][k]
    BY <1>1, GivenFacts
  <2> HIDE DEF b
  <2>2. \A u \in Threads, k \in Mutexes : b[u][k] = h[u][k]  BY <2>1
  <2>3. b = h  BY <1>1, <2>1, <2>2, SameHistory
  <2>4. \A i \in (0 + 1)..n : s.owner[q[i]] = t  BY <1>2, <1>3
  <2> QED  BY <1>1, <2>3, <2>4 DEF GivenStates, b
<1>5. PICK e : Hands(e, s, t, q) /\ HandAll(s, t, q) = e[n]
  <2>1. q \in Orders(S)  BY DEF S
  <2>2. \E e : Hands(e, s, t, q)  BY <1>1, <1>2, <1>4, <2>1, HandsExists
  <2> QED  BY <2>2, HandAllIs
<1>6. e = [k \in 0..n |-> IF k = 0 THEN s ELSE HandOver(e[k - 1], t, q[k])]  BY <1>5 DEF Hands
<1> HIDE DEF n
<1>7. e[0] = s /\ \A k \in 1..n : e[k] = HandOver(e[k - 1], t, q[k])
  <2>1. 0 \in 0..n /\ \A k \in 1..n : k \in 0..n /\ k # 0  BY <1>3
  <2> QED  BY <1>6, <2>1
<1> DEFINE P == {k \in 0..n : e[k] \in GivenStates(h, ins, g, t, q, k)}
<1>8. 0 \in P  BY <1>3, <1>4, <1>7
<1>9. ASSUME NEW k \in 1..n, k - 1 \in P PROVE k \in P
  <2>1. e[k - 1] \in GivenStates(h, ins, g, t, q, k - 1)  BY <1>9
  <2>2. k \in 1..Len(q) /\ q \in Orders(S) /\ k \in 0..n  BY <1>3 DEF n, S
  <2>3. HandOver(e[k - 1], t, q[k]) \in GivenStates(h, ins, g, t, q, k)
    BY <1>1, <1>2, <2>1, <2>2, GivenStep
  <2> QED  BY <1>7, <2>2, <2>3
<1> HIDE DEF P
<1>10. \A k \in 0..n : k \in P  BY <1>3, <1>8, <1>9, RoundsInduction
<1>11. \A k \in 0..n : e[k] \in GivenStates(h, ins, g, t, q, k)  BY <1>10 DEF P
<1>12. \A i \in 1..n : q[i] \in Mutexes  BY <1>2, <1>3
<1> QED  BY <1>3, <1>5, <1>7, <1>11, <1>12 DEF n

LEMMA HandAllSane ==
    ASSUME NEW s, NEW h, NEW ins, NEW g, Sane(s, h, ins, g),
           NEW t \in Threads, t \notin g, ins[t] = NoMutex, NEW q \in Orders(s.taken[t])
    PROVE  \E b \in Histories : /\ Sane(HandAll(s, t, q), b, ins, g)
                                /\ \A u \in Threads \ {t} : b[u] = h[u]
                                /\ \A m \in Mutexes \ g : b[t][m] = 0
<1> DEFINE n == Len(q)
           b == Given(h, t, q, n)
<1>1. n \in Nat /\ h \in Histories  BY HandAllRuns DEF Sane
<1>2. PICK e : /\ \A k \in 0..n : e[k] \in GivenStates(h, ins, g, t, q, k)
               /\ HandAll(s, t, q) = e[n]
  BY HandAllRuns
<1>3. n \in 0..n  BY <1>1
<1>4. e[n] \in GivenStates(h, ins, g, t, q, n)  BY <1>2, <1>3
<1>5. Sane(HandAll(s, t, q), b, ins, g)  BY <1>2, <1>4 DEF GivenStates
<1>6. b \in Histories  BY <1>1, GivenFacts
<1>7. \A u \in Threads \ {t} : b[u] = h[u]  BY <1>1 DEF Given, Histories
<1>8. ASSUME NEW m \in Mutexes \ g PROVE b[t][m] = 0
  <2>1. b[t][m] = IF \E i \in 1..n : q[i] = m THEN 0 ELSE h[t][m]  BY <1>1, GivenFacts
  <2>2. h[t][m] # 0 => m \in s.taken[t]  BY DEF Sane, Taken, Counted
  <2>3. s.taken[t] \in SUBSET Mutexes  BY DEF Sane, MutexStates
  <2>4. m \in s.taken[t] => \E i \in 1..n : q[i] = m  BY <2>3, OrderFacts
  <2> QED  BY <2>1, <2>2, <2>4
<1> QED  BY <1>5, <1>6, <1>7, <1>8

-----------------------------------------------------------------------------
(***************************************************************************)
(* Mutex: what each operation makes of a sane state.                       *)
(***************************************************************************)
LEMMA SaneTypes ==
    ASSUME NEW s, NEW h, NEW ins, NEW g, Sane(s, h, ins, g)
    PROVE  /\ s \in MutexStates /\ h \in Histories /\ ins \in Inside
           /\ s.owner \in [Mutexes -> Threads \cup {NoThread}]
           /\ s.hold \in [Mutexes -> 0..HoldMax]
           /\ s.mpri \in [Mutexes -> 0..NoPrio] /\ s.ceil \in [Mutexes -> 0..NoPrio]
           /\ s.waiters \in [Mutexes -> Seq(Threads)]
           /\ s.prio \in [Threads -> 0..(NoPrio - 1)]
           /\ s.pending \in [Threads -> Mutexes \cup {NoMutex}]
           /\ s.taken \in [Threads -> SUBSET Mutexes]
           /\ \A t \in Threads, m \in Mutexes : h[t][m] \in 0..HoldMax
           /\ \A t \in Threads : ins[t] \in Mutexes \cup {NoMutex}
           /\ NoThread \notin Threads /\ NoMutex \notin Mutexes
           /\ HoldMax \in Nat \ {0} /\ NoPrio \in Nat
BY MutexAssumption DEF Sane, MutexStates, Histories, Inside

\* r is s after t took m.
Grants(r, s, t, m) ==
    /\ r \in MutexStates /\ r.waiters = s.waiters /\ r.pending = s.pending
    /\ r.owner = [s.owner EXCEPT ![m] = t] /\ r.hold = [s.hold EXCEPT ![m] = 1]
    /\ r.taken = [s.taken EXCEPT ![t] = @ \cup {m}]

\* A thread takes a mutex nobody has.
LEMMA FreeSane ==
    ASSUME NEW s, NEW h, NEW ins, NEW g, Sane(s, h, ins, g),
           NEW t \in Threads, t \notin g, ins[t] = NoMutex,
           NEW m \in Mutexes, m \notin g, s.owner[m] = NoThread,
           NEW r, Grants(r, s, t, m)
    PROVE  /\ Sane(r, Holding(h, t, m, 1), ins, g)
           /\ \A u \in Threads : h[u][m] = 0
<1> DEFINE h2 == Holding(h, t, m, 1)
           os == r.owner
           hs == r.hold
           ts == r.taken
<1>1. /\ s \in MutexStates /\ h \in Histories /\ ins \in Inside
      /\ Listed(s, ins, g) /\ Taken(s, g) /\ Counted(s, h, ins, g)
  BY DEF Sane
<1>2. /\ s.owner \in [Mutexes -> Threads \cup {NoThread}]
      /\ s.hold \in [Mutexes -> 0..HoldMax] /\ s.taken \in [Threads -> SUBSET Mutexes]
      /\ NoThread \notin Threads /\ NoMutex \notin Mutexes /\ HoldMax \in Nat \ {0}
  BY SaneTypes
<1>3. 1 \in 0..HoldMax  BY <1>2
<1>4. /\ h2 \in Histories
      /\ \A u \in Threads, n \in Mutexes : h2[u][n] = IF u = t /\ n = m THEN 1 ELSE h[u][n]
  BY <1>1, <1>3, HoldingFacts
<1>6. /\ \A n \in Mutexes : os[n] = IF n = m THEN t ELSE s.owner[n]
      /\ \A n \in Mutexes : hs[n] = IF n = m THEN 1 ELSE s.hold[n]
      /\ \A u \in Threads : ts[u] = IF u = t THEN s.taken[t] \cup {m} ELSE s.taken[u]
  BY <1>2 DEF Grants
<1>8. /\ r \in MutexStates /\ r.owner = os /\ r.hold = hs /\ r.taken = ts
      /\ r.waiters = s.waiters /\ r.pending = s.pending
  BY DEF Grants
<1> HIDE DEF os, hs, ts, h2
<1>9. \A u \in Threads : h[u][m] = 0  BY <1>1, <1>2 DEF Counted
<1>10. Listed(r, ins, g)
  <2>1. \A n \in Mutexes : os[n] = NoThread => s.owner[n] = NoThread  BY <1>2, <1>6
  <2> QED  BY <1>1, <1>8, <2>1 DEF Listed
<1>11. Taken(r, g)
  <2>1. ASSUME NEW n \in Mutexes, NEW u \in Threads
        PROVE  n \in ts[u] <=> os[n] = u /\ n \notin g
    <3>1. n \in s.taken[u] <=> s.owner[n] = u /\ n \notin g  BY <1>1 DEF Taken
    <3>2. CASE n = m
      <4>1. os[n] = t /\ n \notin s.taken[u]  BY <1>2, <1>6, <3>1, <3>2
      <4> QED  BY <1>6, <3>2, <4>1
    <3>3. CASE n # m
      <4>1. os[n] = s.owner[n] /\ (n \in ts[u] <=> n \in s.taken[u])  BY <1>6, <3>3
      <4> QED  BY <3>1, <4>1
    <3> QED  BY <3>2, <3>3
  <2>2. \A n \in Mutexes \ g : os[n] \in Threads => hs[n] # 0  BY <1>1, <1>6 DEF Taken
  <2> QED  BY <1>8, <2>1, <2>2 DEF Taken
<1>12. Counted(r, h2, ins, g)
  <2>1. \A u \in Threads, n \in Mutexes : h2[u][n] # 0 => os[n] = u
    BY <1>1, <1>4, <1>6, <1>9 DEF Counted
  <2>2. \A u \in Threads \ g, n \in Mutexes : ins[u] = n => h2[u][n] = 0
    BY <1>1, <1>2, <1>4 DEF Counted
  <2>3. ASSUME NEW n \in Mutexes \ g, os[n] \in Threads \ g
        PROVE  hs[n] = h2[os[n]][n] + (IF ins[os[n]] = n THEN 1 ELSE 0)
    <3>1. CASE n = m
      <4>1. os[n] = t /\ hs[n] = 1 /\ h2[t][n] = 1 /\ ins[t] # n  BY <1>2, <1>4, <1>6, <3>1
      <4> QED  BY <4>1
    <3>2. CASE n # m
      <4>1. os[n] = s.owner[n] /\ hs[n] = s.hold[n]  BY <1>6, <3>2
      <4>2. h2[s.owner[n]][n] = h[s.owner[n]][n]  BY <1>4, <2>3, <3>2, <4>1
      <4>3. s.hold[n] = h[s.owner[n]][n] + (IF ins[s.owner[n]] = n THEN 1 ELSE 0)
        BY <1>1, <2>3, <4>1 DEF Counted
      <4> QED  BY <4>1, <4>2, <4>3
    <3> QED  BY <3>1, <3>2
  <2>4. \A n \in Mutexes \ g : os[n] \in Threads \cap g => h2[os[n]][n] # 0 \/ ins[os[n]] = n
    BY <1>1, <1>4, <1>6 DEF Counted
  <2> QED  BY <1>8, <2>1, <2>2, <2>3, <2>4 DEF Counted
<1>13. Sane(r, h2, ins, g)  BY <1>1, <1>4, <1>8, <1>10, <1>11, <1>12 DEF Sane
<1> QED  BY <1>9, <1>13 DEF h2

\* What the owner has to release is what he took, when he is not inside a take.
LEMMA OwnerCount ==
    ASSUME NEW s, NEW h, NEW ins, NEW g, Sane(s, h, ins, g),
           NEW t \in Threads, t \notin g, ins[t] = NoMutex,
           NEW m \in Mutexes, m \notin g, s.owner[m] = t
    PROVE  s.hold[m] = h[t][m] /\ s.hold[m] # 0 /\ s.hold[m] \in 0..HoldMax
<1>1. s.hold[m] = h[t][m] + (IF ins[t] = m THEN 1 ELSE 0)  BY DEF Sane, Counted
<1>2. s.hold[m] # 0  BY DEF Sane, Taken
<1>3. h[t][m] \in 0..HoldMax /\ s.hold[m] \in 0..HoldMax /\ NoMutex \notin Mutexes  BY SaneTypes
<1> QED  BY <1>1, <1>2, <1>3

\* The owner takes the mutex again, or releases it without giving it up.
LEMMA AgainSane ==
    ASSUME NEW s, NEW h, NEW ins, NEW g, Sane(s, h, ins, g),
           NEW t \in Threads, t \notin g, ins[t] = NoMutex,
           NEW m \in Mutexes, m \notin g, s.owner[m] = t, NEW v \in 1..HoldMax
    PROVE  Sane([s EXCEPT !.hold[m] = v], Holding(h, t, m, v), ins, g)
<1> DEFINE r == [s EXCEPT !.hold[m] = v]
           h2 == Holding(h, t, m, v)
           hs == [s.hold EXCEPT ![m] = v]
<1>1. /\ s \in MutexStates /\ h \in Histories /\ ins \in Inside
      /\ Listed(s, ins, g) /\ Taken(s, g) /\ Counted(s, h, ins, g)
  BY DEF Sane
<1>2. /\ s.hold \in [Mutexes -> 0..HoldMax] /\ NoMutex \notin Mutexes /\ HoldMax \in Nat \ {0}
  BY SaneTypes
<1>3. v \in 0..HoldMax /\ v # 0 /\ v \in Nat  BY <1>2
<1>4. /\ h2 \in Histories
      /\ \A u \in Threads, n \in Mutexes : h2[u][n] = IF u = t /\ n = m THEN v ELSE h[u][n]
  BY <1>1, <1>3, HoldingFacts
<1>5. hs \in [Mutexes -> 0..HoldMax] /\ \A n \in Mutexes : hs[n] = IF n = m THEN v ELSE s.hold[n]
  BY <1>2, <1>3
<1>6. r = [s EXCEPT !.hold = hs]  BY <1>1 DEF MutexStates
<1> HIDE DEF r, hs, h2
<1>7. /\ r \in MutexStates /\ r.owner = s.owner /\ r.hold = hs /\ r.taken = s.taken
      /\ r.waiters = s.waiters /\ r.pending = s.pending
  BY <1>1, <1>5, <1>6 DEF MutexStates
<1>8. Listed(r, ins, g)  BY <1>1, <1>7 DEF Listed
<1>9. Taken(r, g)  BY <1>1, <1>3, <1>5, <1>7 DEF Taken
<1>10. Counted(r, h2, ins, g)
  <2>1. \A u \in Threads, n \in Mutexes : h2[u][n] # 0 => s.owner[n] = u
    BY <1>1, <1>4 DEF Counted
  <2>2. \A u \in Threads \ g, n \in Mutexes : ins[u] = n => h2[u][n] = 0
    BY <1>1, <1>2, <1>4 DEF Counted
  <2>3. ASSUME NEW n \in Mutexes \ g, s.owner[n] \in Threads \ g
        PROVE  hs[n] = h2[s.owner[n]][n] + (IF ins[s.owner[n]] = n THEN 1 ELSE 0)
    <3>1. CASE n = m
      <4>1. s.owner[n] = t /\ hs[n] = v /\ h2[t][n] = v /\ ins[t] # n  BY <1>2, <1>4, <1>5, <3>1
      <4> QED  BY <1>3, <4>1
    <3>2. CASE n # m
      <4>1. hs[n] = s.hold[n] /\ h2[s.owner[n]][n] = h[s.owner[n]][n]
        BY <1>4, <1>5, <2>3, <3>2
      <4>2. s.hold[n] = h[s.owner[n]][n] + (IF ins[s.owner[n]] = n THEN 1 ELSE 0)
        BY <1>1, <2>3 DEF Counted
      <4> QED  BY <4>1, <4>2
    <3> QED  BY <3>1, <3>2
  <2>4. \A n \in Mutexes \ g : s.owner[n] \in Threads \cap g =>
           h2[s.owner[n]][n] # 0 \/ ins[s.owner[n]] = n
    BY <1>1, <1>4 DEF Counted
  <2> QED  BY <1>7, <2>1, <2>2, <2>3, <2>4 DEF Counted
<1>11. Sane(r, h2, ins, g)  BY <1>1, <1>4, <1>7, <1>8, <1>9, <1>10 DEF Sane
<1> QED  BY <1>11 DEF r, h2

\* A thread that is inside no take waits nowhere.
LEMMA IdleNowhere ==
    ASSUME NEW s, NEW h, NEW ins, NEW g, Sane(s, h, ins, g),
           NEW t \in Threads, ins[t] = NoMutex, NEW m \in Mutexes
    PROVE  ~Holds(s.waiters[m], t)
BY SaneTypes DEF Sane, Listed

\* A thread queues up for a mutex that somebody else has.
LEMMA BlocksSane ==
    ASSUME NEW s, NEW h, NEW ins, NEW g, Sane(s, h, ins, g),
           NEW t \in Threads, t \notin g, ins[t] = NoMutex,
           NEW m \in Mutexes, m \notin g, s.owner[m] \notin {t, NoThread},
           NEW r \in MutexStates,
           r.waiters = [s.waiters EXCEPT ![m] = Enqueue(@, t, "PRIO", s.prio)],
           r.pending = [s.pending EXCEPT ![t] = m],
           r.owner = s.owner, r.hold = s.hold, r.taken = s.taken
    PROVE  Sane(r, h, [ins EXCEPT ![t] = m], g)
<1> DEFINE e == Enqueue(s.waiters[m], t, "PRIO", s.prio)
           ws == r.waiters
           ps == r.pending
           i2 == [ins EXCEPT ![t] = m]
<1>1. /\ s \in MutexStates /\ h \in Histories /\ ins \in Inside
      /\ Listed(s, ins, g) /\ Taken(s, g) /\ Counted(s, h, ins, g)
  BY DEF Sane
<1>2. /\ s.waiters \in [Mutexes -> Seq(Threads)]
      /\ s.pending \in [Threads -> Mutexes \cup {NoMutex}] /\ NoMutex \notin Mutexes
  BY SaneTypes
<1>3. \A n \in Mutexes : ~Holds(s.waiters[n], t)  BY IdleNowhere
<1>4. /\ e \in Seq(Threads) /\ Distinct(e)
      /\ \A u : Holds(e, u) <=> Holds(s.waiters[m], u) \/ u = t
  <2> DEFINE w == s.waiters[m]
  <2>1. w \in Seq(Threads) /\ Distinct(w) /\ ~Holds(w, t)  BY <1>1, <1>2, <1>3 DEF Listed
  <2> HIDE DEF w
  <2>2. /\ Enqueue(w, t, "PRIO", s.prio) \in Seq(Threads)
        /\ Distinct(Enqueue(w, t, "PRIO", s.prio))
        /\ \A u : Holds(Enqueue(w, t, "PRIO", s.prio), u) <=> Holds(w, u) \/ u = t
    BY <2>1, EnqueueFacts
  <2> QED  BY <2>2 DEF w
<1> HIDE DEF e
<1>6. /\ \A n \in Mutexes : ws[n] = IF n = m THEN e ELSE s.waiters[n]
      /\ \A u \in Threads : ps[u] = IF u = t THEN m ELSE s.pending[u]
  BY <1>2, <1>4 DEF e
<1>7. i2 \in Inside /\ \A u \in Threads : i2[u] = IF u = t THEN m ELSE ins[u]
  BY <1>1 DEF Inside
<1>8. /\ r \in MutexStates /\ r.owner = s.owner /\ r.hold = s.hold /\ r.taken = s.taken
      /\ r.waiters = ws /\ r.pending = ps
  OBVIOUS
<1> HIDE DEF ws, ps, i2
<1>9. Listed(r, i2, g)
  <2>1. ASSUME NEW n \in Mutexes
        PROVE  /\ Distinct(ws[n])
               /\ \A u \in Threads : Holds(ws[n], u) => i2[u] = n /\ ps[u] = n /\ u \notin g
               /\ ws[n] # <<>> => s.owner[n] # NoThread /\ n \notin g
    <3>1. /\ Distinct(s.waiters[n])
          /\ \A u \in Threads :
                Holds(s.waiters[n], u) => ins[u] = n /\ s.pending[u] = n /\ u \notin g
          /\ s.waiters[n] # <<>> => s.owner[n] # NoThread /\ n \notin g
      BY <1>1 DEF Listed
    <3>2. \A u \in Threads : Holds(s.waiters[n], u) => u # t /\ i2[u] = n /\ ps[u] = n
      BY <1>3, <1>6, <1>7, <3>1
    <3>3. CASE n = m  BY <1>4, <1>6, <1>7, <3>1, <3>2, <3>3
    <3>4. CASE n # m  BY <1>6, <3>1, <3>2, <3>4
    <3> QED  BY <3>3, <3>4
  <2> QED  BY <1>8, <2>1 DEF Listed
<1>10. Taken(r, g)  BY <1>1, <1>8 DEF Taken
<1>11. Counted(r, h, i2, g)
  <2>1. \A u \in Threads, n \in Mutexes : h[u][n] # 0 => s.owner[n] = u
    BY <1>1 DEF Counted
  <2>2. \A u \in Threads \ g, n \in Mutexes : i2[u] = n => h[u][n] = 0
    BY <1>1, <1>7, <2>1 DEF Counted
  <2>3. ASSUME NEW n \in Mutexes \ g, s.owner[n] \in Threads \ g
        PROVE  s.hold[n] = h[s.owner[n]][n] + (IF i2[s.owner[n]] = n THEN 1 ELSE 0)
    <3> DEFINE o == s.owner[n]
    <3>1. o \in Threads \ g /\ (n = m => o # t)  BY <2>3
    <3>2. s.hold[n] = h[o][n] + (IF ins[o] = n THEN 1 ELSE 0)  BY <1>1, <2>3 DEF Counted
    <3> HIDE DEF o
    <3>3. i2[o] = n <=> ins[o] = n  BY <1>2, <1>7, <3>1
    <3>4. s.hold[n] = h[o][n] + (IF i2[o] = n THEN 1 ELSE 0)  BY <3>2, <3>3
    <3> QED  BY <3>4 DEF o
  <2>4. \A n \in Mutexes \ g : s.owner[n] \in Threads \cap g =>
           h[s.owner[n]][n] # 0 \/ i2[s.owner[n]] = n
    BY <1>1, <1>7 DEF Counted
  <2> QED  BY <1>8, <2>1, <2>2, <2>3, <2>4 DEF Counted
<1>12. Sane(r, h, i2, g)  BY <1>1, <1>7, <1>8, <1>9, <1>10, <1>11 DEF Sane
<1> QED  BY <1>12 DEF i2

\* A thread that waits no longer leaves its take: with the mutex, if it is the owner.
LEMMA ReturnsSane ==
    ASSUME NEW s, NEW h, NEW ins, NEW g, Sane(s, h, ins, g),
           NEW t \in Threads, t \notin g, NEW m \in Mutexes, ins[t] = m, ~Suspended(s, t)
    PROVE  /\ s.owner[m] # t => Sane(s, h, [ins EXCEPT ![t] = NoMutex], g)
           /\ s.owner[m] = t =>
                 /\ Sane(s, Holding(h, t, m, 1), [ins EXCEPT ![t] = NoMutex], g)
                 /\ \A u \in Threads : h[u][m] = 0
<1> DEFINE i2 == [ins EXCEPT ![t] = NoMutex]
           h2 == Holding(h, t, m, 1)
<1>1. /\ s \in MutexStates /\ h \in Histories /\ ins \in Inside
      /\ Listed(s, ins, g) /\ Taken(s, g) /\ Counted(s, h, ins, g)
  BY DEF Sane
<1>2. NoMutex \notin Mutexes /\ NoThread \notin Threads /\ 1 \in 0..HoldMax
  BY SaneTypes
<1>3. i2 \in Inside /\ \A u \in Threads : i2[u] = IF u = t THEN NoMutex ELSE ins[u]
  BY <1>1 DEF Inside
<1>4. /\ h2 \in Histories
      /\ \A u \in Threads, n \in Mutexes : h2[u][n] = IF u = t /\ n = m THEN 1 ELSE h[u][n]
  BY <1>1, <1>2, HoldingFacts
<1> HIDE DEF i2, h2
<1>5. Listed(s, i2, g)
  <2>1. \A n \in Mutexes : ~Holds(s.waiters[n], t)  BY DEF Suspended
  <2> QED  BY <1>1, <1>3, <2>1 DEF Listed
<1>6. ASSUME s.owner[m] # t PROVE Sane(s, h, i2, g)
  <2>1. \A u \in Threads \ g, n \in Mutexes : i2[u] = n => h[u][n] = 0
    BY <1>1, <1>2, <1>3 DEF Counted
  <2>2. ASSUME NEW n \in Mutexes \ g, s.owner[n] \in Threads \ g
        PROVE  s.hold[n] = h[s.owner[n]][n] + (IF i2[s.owner[n]] = n THEN 1 ELSE 0)
    <3>1. i2[s.owner[n]] = n <=> ins[s.owner[n]] = n  BY <1>2, <1>3, <1>6, <2>2
    <3> QED  BY <1>1, <2>2, <3>1 DEF Counted
  <2>4. \A n \in Mutexes \ g : s.owner[n] \in Threads \cap g =>
           h[s.owner[n]][n] # 0 \/ i2[s.owner[n]] = n
    BY <1>1, <1>3 DEF Counted
  <2>3. Counted(s, h, i2, g)  BY <1>1, <2>1, <2>2, <2>4 DEF Counted
  <2> QED  BY <1>1, <1>3, <1>5, <2>3 DEF Sane
<1>7. ASSUME s.owner[m] = t PROVE Sane(s, h2, i2, g) /\ \A u \in Threads : h[u][m] = 0
  <2>0. h[t][m] = 0  BY <1>1 DEF Counted
  <2>1. \A u \in Threads : h[u][m] = 0  BY <1>1, <1>7, <2>0 DEF Counted
  <2>2. \A u \in Threads, n \in Mutexes : h2[u][n] # 0 => s.owner[n] = u
    BY <1>1, <1>4, <1>7 DEF Counted
  <2>3. \A u \in Threads \ g, n \in Mutexes : i2[u] = n => h2[u][n] = 0
    BY <1>1, <1>2, <1>3, <1>4 DEF Counted
  <2>4. ASSUME NEW n \in Mutexes \ g, s.owner[n] \in Threads \ g
        PROVE  s.hold[n] = h2[s.owner[n]][n] + (IF i2[s.owner[n]] = n THEN 1 ELSE 0)
    <3>1. s.hold[n] = h[s.owner[n]][n] + (IF ins[s.owner[n]] = n THEN 1 ELSE 0)
      BY <1>1, <2>4 DEF Counted
    <3>2. CASE n = m
      <4>1. s.owner[n] = t /\ ins[t] = n /\ h[t][n] = 0  BY <1>7, <2>0, <3>2
      <4>2. h2[t][n] = 1 /\ i2[t] # n  BY <1>2, <1>3, <1>4, <3>2
      <4> QED  BY <3>1, <4>1, <4>2
    <3>3. CASE n # m
      <4>1. h2[s.owner[n]][n] = h[s.owner[n]][n]  BY <1>4, <2>4, <3>3
      <4>2. i2[s.owner[n]] = n <=> ins[s.owner[n]] = n  BY <1>2, <1>3, <2>4, <3>3
      <4> QED  BY <3>1, <4>1, <4>2
    <3> QED  BY <3>2, <3>3
  <2>6. \A n \in Mutexes \ g : s.owner[n] \in Threads \cap g =>
           h2[s.owner[n]][n] # 0 \/ i2[s.owner[n]] = n
    BY <1>1, <1>3, <1>4 DEF Counted
  <2>5. Counted(s, h2, i2, g)  BY <2>2, <2>3, <2>4, <2>6 DEF Counted
  <2> QED  BY <1>1, <1>3, <1>4, <1>5, <2>1, <2>5 DEF Sane
<1> QED  BY <1>6, <1>7 DEF i2, h2

\* What a thread that waits nowhere is said to wait for is its own affair.
LEMMA ClearedSane ==
    ASSUME NEW s, NEW h, NEW ins, NEW g, Sane(s, h, ins, g),
           NEW t \in Threads, ins[t] = NoMutex
    PROVE  Sane([s EXCEPT !.pending[t] = NoMutex], h, ins, g)
<1> DEFINE ps == [s.pending EXCEPT ![t] = NoMutex]
           r == [s EXCEPT !.pending[t] = NoMutex]
<1>1. /\ s \in MutexStates /\ h \in Histories /\ ins \in Inside
      /\ Listed(s, ins, g) /\ Taken(s, g) /\ Counted(s, h, ins, g)
  BY DEF Sane
<1>2. s.pending \in [Threads -> Mutexes \cup {NoMutex}]  BY SaneTypes
<1>3. /\ ps \in [Threads -> Mutexes \cup {NoMutex}]
      /\ \A u \in Threads : u # t => ps[u] = s.pending[u]
  BY <1>2
<1>4. r = [s EXCEPT !.pending = ps]  BY <1>1 DEF MutexStates
<1> HIDE DEF r, ps
<1>5. /\ r \in MutexStates /\ r.owner = s.owner /\ r.hold = s.hold /\ r.taken = s.taken
      /\ r.waiters = s.waiters /\ r.pending = ps
  BY <1>1, <1>3, <1>4 DEF MutexStates
<1>6. \A n \in Mutexes : ~Holds(s.waiters[n], t)  BY IdleNowhere
<1>7. Listed(r, ins, g)  BY <1>1, <1>3, <1>5, <1>6 DEF Listed
<1>8. Taken(r, g) /\ Counted(r, h, ins, g)  BY <1>1, <1>5 DEF Taken, Counted
<1>9. Sane(r, h, ins, g)  BY <1>1, <1>5, <1>7, <1>8 DEF Sane
<1> QED  BY <1>9 DEF r

\* Threads leave the lists they wait on.
LEMMA ShorterSlackens ==
    ASSUME NEW s, NEW h, NEW ins, NEW g, Sane(s, h, ins, g),
           NEW ws \in [Mutexes -> Seq(Threads)],
           \A m \in Mutexes : /\ Distinct(ws[m])
                              /\ \A t \in Threads : Holds(ws[m], t) => Holds(s.waiters[m], t)
    PROVE  Slackens([s EXCEPT !.waiters = ws], s)
<1>1. s \in MutexStates  BY DEF Sane
<1> DEFINE r == [s EXCEPT !.waiters = ws]
<1>2. /\ r \in MutexStates /\ r.owner = s.owner /\ r.hold = s.hold /\ r.taken = s.taken
      /\ r.waiters = ws /\ r.pending = s.pending
  BY <1>1 DEF MutexStates
<1> HIDE DEF r
<1>3. Slackens(r, s)  BY <1>2 DEF Slackens
<1> QED  BY <1>3 DEF r

\* A mutex without waiters that its owner, if there is one, no longer lists, is closed.
LEMMA DetachedSane ==
    ASSUME NEW s, NEW h, NEW ins, NEW g, Sane(s, h, ins, g),
           NEW m \in Mutexes,
           NEW r \in MutexStates, r.owner = s.owner, r.hold = s.hold, r.pending = s.pending,
           r.waiters = [s.waiters EXCEPT ![m] = <<>>],
           \A u \in Threads : r.taken[u] = s.taken[u] \ {m}
    PROVE  Sane(r, h, ins, g \cup {m})
<1> DEFINE g2 == g \cup {m}
<1>1. /\ s \in MutexStates /\ h \in Histories /\ ins \in Inside
      /\ Listed(s, ins, g) /\ Taken(s, g) /\ Counted(s, h, ins, g)
  BY DEF Sane
<1>2. s.waiters \in [Mutexes -> Seq(Threads)]  BY SaneTypes
<1>3. \A n \in Mutexes : r.waiters[n] = IF n = m THEN <<>> ELSE s.waiters[n]  BY <1>2
<1>4. /\ \A u \in Threads : u \in g2 <=> u \in g
      /\ \A n \in Mutexes : n \in g2 <=> n \in g \/ n = m
  BY MutexAssumption
<1> HIDE DEF g2
<1>5. Listed(r, ins, g2)
  <2>1. ASSUME NEW n \in Mutexes
        PROVE  /\ Distinct(r.waiters[n])
               /\ \A u \in Threads : Holds(r.waiters[n], u) =>
                     ins[u] = n /\ r.pending[u] = n /\ u \notin g2
               /\ r.waiters[n] # <<>> => r.owner[n] # NoThread /\ n \notin g2
    <3>1. CASE n = m
      <4>1. r.waiters[n] = <<>>  BY <1>3, <3>1
      <4> QED  BY <4>1 DEF Distinct, Holds
    <3>2. CASE n # m  BY <1>1, <1>3, <1>4, <3>2 DEF Listed
    <3> QED  BY <3>1, <3>2
  <2> QED  BY <2>1 DEF Listed
<1>6. Taken(r, g2)  BY <1>1, <1>4 DEF Taken
<1>7. Counted(r, h, ins, g2)
  <2>1. \A u \in Threads, n \in Mutexes : h[u][n] # 0 => r.owner[n] = u
    BY <1>1, <1>4 DEF Counted
  <2>2. \A u \in Threads \ g2, n \in Mutexes : ins[u] = n => h[u][n] = 0
    BY <1>1, <1>4 DEF Counted
  <2>3. \A n \in Mutexes \ g2 : r.owner[n] \in Threads \ g2 =>
           r.hold[n] = h[r.owner[n]][n] + (IF ins[r.owner[n]] = n THEN 1 ELSE 0)
    BY <1>1, <1>4 DEF Counted
  <2>4. \A n \in Mutexes \ g2 : r.owner[n] \in Threads \cap g2 =>
           h[r.owner[n]][n] # 0 \/ ins[r.owner[n]] = n
    BY <1>1, <1>4 DEF Counted
  <2> QED  BY <2>1, <2>2, <2>3, <2>4 DEF Counted
<1>8. Sane(r, h, ins, g2)  BY <1>1, <1>5, <1>6, <1>7 DEF Sane
<1> QED  BY <1>8 DEF g2

\* t stands on no list of r, which is s otherwise but for what t has and waits for.
Departs(r, s, t) ==
    /\ r \in MutexStates /\ r.owner = s.owner /\ r.taken = s.taken
    /\ \A n \in Mutexes :
          /\ Distinct(r.waiters[n])
          /\ \A u \in Threads : Holds(r.waiters[n], u) => Holds(s.waiters[n], u) /\ u # t
          /\ r.hold[n] = s.hold[n] \/ (n \in s.taken[t] /\ r.hold[n] = 1)
    /\ \A u \in Threads \ {t} : r.pending[u] = s.pending[u]

\* b is h for everybody but t, who has what it owns in s.
HasOwn(b, h, s, ins, g, t) ==
    /\ b \in Histories
    /\ \A u \in Threads \ {t} : b[u] = h[u]
    /\ \A n \in Mutexes : b[t][n] # 0 => s.owner[n] = t
    /\ \A n \in Mutexes \ g : s.owner[n] = t => b[t][n] # 0 \/ ins[t] = n

\* A thread that stands on no list ends: it has what it owns, if it owns anything.
LEMMA EndedSane ==
    ASSUME NEW s, NEW h, NEW ins, NEW g, Sane(s, h, ins, g), NEW t \in Threads,
           NEW r, Departs(r, s, t),
           NEW b, HasOwn(b, h, s, ins, g, t)
    PROVE  Sane(r, b, ins, g \cup {t})
<1> DEFINE g2 == g \cup {t}
<1>1. /\ s \in MutexStates /\ h \in Histories /\ ins \in Inside
      /\ Listed(s, ins, g) /\ Taken(s, g) /\ Counted(s, h, ins, g)
  BY DEF Sane
<1>7. /\ r \in MutexStates /\ r.owner = s.owner /\ r.taken = s.taken
      /\ \A n \in Mutexes :
            /\ Distinct(r.waiters[n])
            /\ \A u \in Threads : Holds(r.waiters[n], u) => Holds(s.waiters[n], u) /\ u # t
            /\ r.hold[n] = s.hold[n] \/ (n \in s.taken[t] /\ r.hold[n] = 1)
      /\ \A u \in Threads \ {t} : r.pending[u] = s.pending[u]
  BY DEF Departs
<1>8. /\ b \in Histories
      /\ \A u \in Threads \ {t} : b[u] = h[u]
      /\ \A n \in Mutexes : b[t][n] # 0 => s.owner[n] = t
      /\ \A n \in Mutexes \ g : s.owner[n] = t => b[t][n] # 0 \/ ins[t] = n
  BY DEF HasOwn
<1> USE <1>7, <1>8
<1>2. /\ \A u \in Threads : u \in g2 <=> u \in g \/ u = t
      /\ \A n \in Mutexes : n \in g2 <=> n \in g
  BY MutexAssumption
<1> HIDE DEF g2
<1>3. Listed(r, ins, g2)
  <2>1. ASSUME NEW n \in Mutexes
        PROVE  /\ Distinct(r.waiters[n])
               /\ \A u \in Threads : Holds(r.waiters[n], u) =>
                     ins[u] = n /\ r.pending[u] = n /\ u \notin g2
               /\ r.waiters[n] # <<>> => r.owner[n] # NoThread /\ n \notin g2
    <3>1. \A u \in Threads :
             Holds(s.waiters[n], u) => ins[u] = n /\ s.pending[u] = n /\ u \notin g
      BY <1>1 DEF Listed
    <3>2. \A u \in Threads : Holds(r.waiters[n], u) =>
             ins[u] = n /\ r.pending[u] = n /\ u \notin g2
      BY <1>2, <3>1
    <3>3. ASSUME r.waiters[n] # <<>> PROVE r.owner[n] # NoThread /\ n \notin g2
      <4>1. r.waiters[n] \in Seq(Threads) /\ s.waiters[n] \in Seq(Threads)
        BY <1>1 DEF MutexStates
      <4>2. PICK u \in Threads : Holds(r.waiters[n], u)  BY <3>3, <4>1, EmptyHoldsNobody
      <4>3. s.waiters[n] # <<>>  BY <4>1, <4>2, EmptyHoldsNobody
      <4> QED  BY <1>1, <1>2, <4>3 DEF Listed
    <3> QED  BY <3>2, <3>3
  <2> QED  BY <2>1 DEF Listed
<1>4. Taken(r, g2)
  <2>1. \A n \in Mutexes : r.hold[n] = s.hold[n] \/ r.hold[n] = 1  OBVIOUS
  <2> QED  BY <1>1, <1>2, <2>1 DEF Taken
<1>5. Counted(r, b, ins, g2)
  <2>1. ASSUME NEW u \in Threads, NEW n \in Mutexes, b[u][n] # 0
        PROVE  r.owner[n] = u
    BY <1>1, <2>1 DEF Counted
  <2>2. ASSUME NEW u \in Threads \ g2, NEW n \in Mutexes, ins[u] = n PROVE b[u][n] = 0
    BY <1>1, <1>2, <2>2 DEF Counted
  <2>3. ASSUME NEW n \in Mutexes \ g2, r.owner[n] \in Threads \ g2
        PROVE  r.hold[n] = b[r.owner[n]][n] + (IF ins[r.owner[n]] = n THEN 1 ELSE 0)
    <3>1. s.owner[n] # t /\ s.owner[n] \in Threads \ g /\ n \in Mutexes \ g  BY <1>2, <2>3
    <3>2. n \notin s.taken[t]  BY <1>1, <3>1 DEF Taken
    <3>3. b[s.owner[n]] = h[s.owner[n]]  BY <3>1
    <3>4. s.hold[n] = h[s.owner[n]][n] + (IF ins[s.owner[n]] = n THEN 1 ELSE 0)
      BY <1>1, <3>1 DEF Counted
    <3>5. r.hold[n] = s.hold[n]  BY <2>3, <3>2
    <3> QED  BY <3>3, <3>4, <3>5
  <2>4. ASSUME NEW n \in Mutexes \ g2, r.owner[n] \in Threads \cap g2
        PROVE  b[r.owner[n]][n] # 0 \/ ins[r.owner[n]] = n
    BY <1>1, <1>2, <2>4 DEF Counted
  <2> QED  BY <2>1, <2>2, <2>3, <2>4 DEF Counted
<1>6. Sane(r, b, ins, g2)  BY <1>1, <1>3, <1>4, <1>5 DEF Sane
<1> QED  BY <1>6 DEF g2

-----------------------------------------------------------------------------
(***************************************************************************)
(* Mutex: the invariant and the steps of the specification.                *)
(***************************************************************************)
MutexInv == Sane(Now, held, inside, gone) /\ gone \subseteq Threads \cup Mutexes

LEMMA NowFields ==
    /\ Now.owner = owner /\ Now.hold = hold /\ Now.mpri = mpri /\ Now.ceil = ceil
    /\ Now.waiters = waiters /\ Now.prio = prio /\ Now.pending = pending /\ Now.taken = taken
BY DEF Now

\* The variables after a step are the fields of the record it computes.
LEMMA NextIs ==
    ASSUME NEW r \in MutexStates, Become(r)
    PROVE  Now' = r
<1>1. [owner |-> r.owner, hold |-> r.hold, mpri |-> r.mpri, ceil |-> r.ceil,
       waiters |-> r.waiters, prio |-> r.prio, pending |-> r.pending, taken |-> r.taken] = r
  BY DEF MutexStates
<1> QED  BY <1>1 DEF Become, Now

LEMMA BecomeNext ==
    ASSUME NEW r \in MutexStates, Become(r), Sane(r, held', inside', gone'),
           gone' \subseteq Threads \cup Mutexes
    PROVE  MutexInv'
<1>1. Now' = r  BY NextIs
<1> QED  BY <1>1 DEF MutexInv

LEMMA MutexInvInit == MutexInit => MutexInv
<1> SUFFICES ASSUME MutexInit PROVE MutexInv
  OBVIOUS
<1>1. /\ NoThread \notin Threads /\ NoMutex \notin Mutexes /\ HoldMax \in Nat \ {0} /\ NoPrio \in Nat
      /\ 0 \in 0..HoldMax /\ NoPrio \in 0..NoPrio /\ <<>> \in Seq(Threads)
      /\ InitPrio \in [Threads -> 0..(NoPrio - 1)]
  BY MutexAssumption
<1>2. Now \in MutexStates /\ held \in Histories /\ inside \in Inside
  BY <1>1 DEF MutexInit, Now, MutexStates, Histories, Inside
<1>3. Listed(Now, inside, gone)  BY DEF MutexInit, Now, Listed, Distinct, Holds
<1>4. Taken(Now, gone)  BY <1>1 DEF MutexInit, Now, Taken
<1>5. Counted(Now, held, inside, gone)  BY <1>1 DEF MutexInit, Now, Counted
<1> QED  BY <1>2, <1>3, <1>4, <1>5 DEF MutexInv, Sane, MutexInit

LEMMA TakeFreeStep ==
    ASSUME MutexInv, NEW t \in Threads, NEW m \in Mutexes, TakeFree(t, m)
    PROVE  MutexInv' /\ Lock!Lock(t, m)
<1> DEFINE p == IF ceil[m] < prio[t] THEN ceil[m] ELSE prio[t]
<1>1. /\ Sane(Now, held, inside, gone) /\ t \notin gone /\ inside[t] = NoMutex /\ m \notin gone
      /\ Now.owner[m] = NoThread
  BY NowFields DEF MutexInv, TakeFree, Running
<1>2. p \in 0..(NoPrio - 1)
  <2>1. prio[t] \in 0..(NoPrio - 1) /\ ceil[m] \in 0..NoPrio /\ NoPrio \in Nat
    BY <1>1, SaneTypes, NowFields
  <2> QED  BY <2>1
<1>3. /\ owner' = [owner EXCEPT ![m] = t] /\ mpri' = [mpri EXCEPT ![m] = NoPrio]
      /\ hold' = [hold EXCEPT ![m] = 1] /\ prio' = [prio EXCEPT ![t] = p]
      /\ taken' = [taken EXCEPT ![t] = @ \cup {m}] /\ ceil' = ceil /\ waiters' = waiters
      /\ pending' = pending /\ inside' = inside /\ gone' = gone
      /\ held' = [held EXCEPT ![t][m] = @ + 1]
  BY DEF TakeFree, Become, Now
<1> HIDE DEF p
<1>4. HoldMax \in Nat \ {0} /\ NoPrio \in Nat  BY MutexAssumption
<1>5. Now' \in MutexStates
  <2>1. /\ owner \in [Mutexes -> Threads \cup {NoThread}] /\ mpri \in [Mutexes -> 0..NoPrio]
        /\ hold \in [Mutexes -> 0..HoldMax] /\ prio \in [Threads -> 0..(NoPrio - 1)]
        /\ taken \in [Threads -> SUBSET Mutexes] /\ ceil \in [Mutexes -> 0..NoPrio]
        /\ waiters \in [Mutexes -> Seq(Threads)]
        /\ pending \in [Threads -> Mutexes \cup {NoMutex}]
    BY <1>1, SaneTypes, NowFields
  <2>2. 1 \in 0..HoldMax /\ NoPrio \in 0..NoPrio  BY <1>4
  <2> QED  BY <1>2, <1>3, <2>1, <2>2 DEF Now, MutexStates
<1>6. Grants(Now', Now, t, m)
  <2>1. /\ Now'.waiters = Now.waiters /\ Now'.pending = Now.pending
        /\ Now'.owner = [Now.owner EXCEPT ![m] = t] /\ Now'.hold = [Now.hold EXCEPT ![m] = 1]
        /\ Now'.taken = [Now.taken EXCEPT ![t] = @ \cup {m}]
    BY <1>3 DEF Now
  <2> QED  BY <1>5, <2>1 DEF Grants
<1>7. Sane(Now', Holding(held, t, m, 1), inside, gone) /\ \A u \in Threads : held[u][m] = 0
  <2> DEFINE r == Now'
  <2>1. Grants(r, Now, t, m)  BY <1>6
  <2> HIDE DEF r
  <2>2. Sane(r, Holding(held, t, m, 1), inside, gone) /\ \A u \in Threads : held[u][m] = 0
    BY <1>1, <2>1, FreeSane
  <2> QED  BY <2>2 DEF r
<1>8. held' = Holding(held, t, m, 1)
  <2>1. held' = Holding(held, t, m, held[t][m] + 1)  BY <1>3 DEF Holding
  <2>2. held[t][m] + 1 = 1  BY <1>7
  <2> QED  BY <2>1, <2>2
<1>9. MutexInv'  BY <1>3, <1>7, <1>8 DEF MutexInv
<1> QED  BY <1>3, <1>4, <1>7, <1>9 DEF Lock!Lock

LEMMA TakeAgainStep ==
    ASSUME MutexInv, NEW t \in Threads, NEW m \in Mutexes, TakeAgain(t, m)
    PROVE  MutexInv' /\ Lock!Lock(t, m)
<1> DEFINE v == hold[m] + 1
           r == [Now EXCEPT !.hold[m] = v]
<1>1. /\ Sane(Now, held, inside, gone) /\ t \notin gone /\ inside[t] = NoMutex /\ m \notin gone
      /\ Now.owner[m] = t /\ Now.hold[m] = hold[m] /\ hold[m] < HoldMax
  BY NowFields DEF MutexInv, TakeAgain, Running
<1>2. hold[m] = held[t][m] /\ hold[m] \in 0..HoldMax /\ HoldMax \in Nat
  BY <1>1, OwnerCount, MutexAssumption
<1>3. Become(r) /\ held' = Holding(held, t, m, held[t][m] + 1) /\ inside' = inside /\ gone' = gone
  BY NowFields DEF TakeAgain, Holding
<1>4. v \in 1..HoldMax /\ held' = Holding(held, t, m, v)  BY <1>1, <1>2, <1>3
<1> HIDE DEF v
<1>5. Sane(r, Holding(held, t, m, v), inside, gone)  BY <1>1, <1>4, AgainSane
<1> HIDE DEF r
<1>6. r \in MutexStates  BY <1>5, SaneTypes
<1>7. MutexInv'  BY <1>3, <1>4, <1>5, <1>6, BecomeNext DEF MutexInv
<1>8. \A u \in Threads \ {t} : held[u][m] = 0  BY <1>1 DEF Sane, Counted
<1>9. held' = [held EXCEPT ![t][m] = @ + 1]  BY DEF TakeAgain
<1> QED  BY <1>1, <1>2, <1>7, <1>8, <1>9 DEF Lock!Lock

LEMMA ReleaseStep ==
    ASSUME MutexInv, NEW t \in Threads, NEW m \in Mutexes, Release(t, m)
    PROVE  MutexInv' /\ Lock!Unlock(t, m)
<1> DEFINE v == hold[m] - 1
           r == [Now EXCEPT !.hold[m] = v]
           q == HandOver(Now, t, m)
<1>1. /\ Sane(Now, held, inside, gone) /\ t \notin gone /\ inside[t] = NoMutex /\ m \notin gone
      /\ Now.owner[m] = t /\ Now.hold[m] = hold[m]
  BY NowFields DEF MutexInv, Release, Running
<1>2. hold[m] = held[t][m] /\ hold[m] # 0 /\ hold[m] \in 0..HoldMax /\ HoldMax \in Nat
  BY <1>1, OwnerCount, MutexAssumption
<1>3. /\ Become(IF hold[m] > 1 THEN r ELSE q)
      /\ held' = Holding(held, t, m, held[t][m] - 1) /\ inside' = inside /\ gone' = gone
  BY NowFields DEF Release, Holding
<1>8. inside' = inside /\ gone' = gone /\ gone' \subseteq Threads \cup Mutexes
  BY DEF Release, MutexInv
<1>4. ASSUME hold[m] > 1 PROVE MutexInv'
  <2>1. v \in 1..HoldMax /\ held' = Holding(held, t, m, v)  BY <1>2, <1>3, <1>4
  <2> HIDE DEF v
  <2>2. Sane(r, Holding(held, t, m, v), inside, gone)  BY <1>1, <2>1, AgainSane
  <2> HIDE DEF r
  <2>3. r \in MutexStates /\ Become(r)  BY <1>3, <1>4, <2>2, SaneTypes
  <2>4. Sane(r, held', inside', gone')  BY <1>8, <2>1, <2>2
  <2> QED  BY <1>8, <2>3, <2>4, BecomeNext
<1>5. ASSUME ~(hold[m] > 1) PROVE MutexInv'
  <2>1. held' = Holding(held, t, m, 0)
    <3>1. held[t][m] - 1 = 0  BY <1>2, <1>5
    <3> QED  BY <1>3, <3>1
  <2>2. Sane(q, Holding(held, t, m, 0), inside, gone)  BY <1>1, HandOverSane
  <2> HIDE DEF q
  <2>3. q \in MutexStates /\ Become(q)  BY <1>3, <1>5, <2>2, SaneTypes
  <2>4. Sane(q, held', inside', gone')  BY <1>8, <2>1, <2>2
  <2> QED  BY <1>8, <2>3, <2>4, BecomeNext
<1>6. MutexInv'  BY <1>4, <1>5
<1>7. held[t][m] > 0 /\ held' = [held EXCEPT ![t][m] = @ - 1]  BY <1>2 DEF Release
<1> QED  BY <1>6, <1>7 DEF Lock!Unlock

\* A thread that blocks: y is the state with t on the list of m, and m asking for t when t
\* is the most urgent; the owner may have to follow.
Blocking(y, t, m) ==
    /\ y.owner = owner /\ y.taken = taken /\ y.ceil = ceil /\ y.prio = prio
    /\ y.waiters = [waiters EXCEPT ![m] = Enqueue(@, t, "PRIO", prio)]
    /\ \/ prio[t] >= mpri[m] /\ y.mpri = mpri /\ Now' = y
       \/ /\ prio[t] < mpri[m] /\ y.mpri = [mpri EXCEPT ![m] = prio[t]]
          /\ \/ prio[t] >= prio[owner[m]] /\ Now' = y
             \/ prio[t] < prio[owner[m]] /\ Now' = UpdatePriority(y, owner[m], prio[t])

LEMMA BlocksIs ==
    ASSUME MutexInv, NEW t \in Threads, NEW m \in Mutexes, TakeBlocks(t, m)
    PROVE  \E y \in MutexStates :
              Blocking(y, t, m) /\ Sane(y, held, [inside EXCEPT ![t] = m], gone)
<1> DEFINE e == Enqueue(waiters[m], t, "PRIO", prio)
           ws == [waiters EXCEPT ![m] = e]
           ps == [pending EXCEPT ![t] = m]
           queued == [Now EXCEPT !.waiters[m] = Enqueue(@, t, "PRIO", prio), !.pending[t] = m]
           asking == [queued EXCEPT !.mpri[m] = prio[t]]
           raised == UpdatePriority(asking, owner[m], prio[t])
           r == IF prio[t] >= mpri[m] THEN queued
                ELSE IF prio[t] >= prio[owner[m]] THEN asking ELSE raised
           i2 == [inside EXCEPT ![t] = m]
<1>1. /\ Sane(Now, held, inside, gone) /\ t \notin gone /\ inside[t] = NoMutex /\ m \notin gone
      /\ Now.owner[m] \notin {t, NoThread} /\ prio = Now.prio
  BY NowFields DEF MutexInv, TakeBlocks, Running
<1>2. /\ Now \in MutexStates /\ waiters \in [Mutexes -> Seq(Threads)]
      /\ pending \in [Threads -> Mutexes \cup {NoMutex}] /\ mpri \in [Mutexes -> 0..NoPrio]
      /\ prio \in [Threads -> 0..(NoPrio - 1)] /\ NoPrio \in Nat /\ owner[m] \in Threads
  <2>1. /\ Now.owner[m] \in Threads \cup {NoThread} /\ Now \in MutexStates
        /\ Now.waiters \in [Mutexes -> Seq(Threads)]
        /\ Now.pending \in [Threads -> Mutexes \cup {NoMutex}]
        /\ Now.mpri \in [Mutexes -> 0..NoPrio]
        /\ Now.prio \in [Threads -> 0..(NoPrio - 1)] /\ NoPrio \in Nat
    BY <1>1, SaneTypes
  <2> QED  BY <1>1, <2>1, NowFields
<1>3. Become(r)  BY DEF TakeBlocks
<1>4. e \in Seq(Threads)
  <2> DEFINE w == waiters[m]
  <2>1. w \in Seq(Threads) /\ Distinct(w)  BY <1>1, <1>2, NowFields DEF Sane, Listed
  <2>2. ~Holds(w, t)  BY <1>1, IdleNowhere, NowFields
  <2> HIDE DEF w
  <2>3. Enqueue(w, t, "PRIO", prio) \in Seq(Threads)  BY <2>1, <2>2, EnqueueFacts
  <2> QED  BY <2>3 DEF w
<1>5. queued = [Now EXCEPT !.waiters = ws, !.pending = ps]  BY NowFields DEF Now
<1>6. ws = [waiters EXCEPT ![m] = Enqueue(@, t, "PRIO", prio)]  OBVIOUS
<1> HIDE DEF e
<1>7. ws \in [Mutexes -> Seq(Threads)] /\ ps \in [Threads -> Mutexes \cup {NoMutex}]
  BY <1>2, <1>4
<1> HIDE DEF ws, queued
<1>8. /\ queued \in MutexStates /\ queued.waiters = ws /\ queued.pending = ps
      /\ queued.owner = owner /\ queued.hold = hold /\ queued.taken = taken
      /\ queued.mpri = mpri /\ queued.ceil = ceil /\ queued.prio = prio
  <2> HIDE DEF ps
  <2> QED  BY <1>2, <1>5, <1>7, NowFields DEF MutexStates
<1>9. Sane(queued, held, i2, gone)
  <2>1. /\ queued.waiters = [Now.waiters EXCEPT ![m] = Enqueue(@, t, "PRIO", Now.prio)]
        /\ queued.pending = [Now.pending EXCEPT ![t] = m]
        /\ queued.owner = Now.owner /\ queued.hold = Now.hold /\ queued.taken = Now.taken
    BY <1>6, <1>8, NowFields
  <2> QED  BY <1>1, <1>8, <2>1, BlocksSane
<1> DEFINE p == prio[t]
           ms == [mpri EXCEPT ![m] = p]
<1>10. p \in 0..(NoPrio - 1) /\ p \in 0..NoPrio  BY <1>2
<1>11. asking = [queued EXCEPT !.mpri = ms]  BY <1>8 DEF MutexStates
<1>12. ms \in [Mutexes -> 0..NoPrio]  BY <1>2, <1>10
<1> HIDE DEF asking
<1>13. /\ asking \in MutexStates /\ asking.owner = owner /\ asking.hold = hold
       /\ asking.taken = taken /\ asking.pending = ps /\ asking.waiters = ws
       /\ asking.mpri = ms /\ asking.ceil = ceil /\ asking.prio = prio
  <2> HIDE DEF ps, ms
  <2> QED  BY <1>8, <1>11, <1>12 DEF MutexStates
<1>14. Slackens(asking, queued)
  <2> HIDE DEF ps
  <2> QED  BY <1>8, <1>9, <1>13, SlackensPriority
<1>15. Sane(asking, held, i2, gone)  BY <1>9, <1>14, SlackensSane
<1>16. raised \in MutexStates
  <2> DEFINE o == owner[m]
  <2>1. o \in Threads /\ raised = UpdatePriority(asking, o, p)  BY <1>2
  <2> HIDE DEF o, p, raised
  <2>2. Slackens(UpdatePriority(asking, o, p), asking)  BY <1>10, <1>15, <2>1, UpdateSlackens
  <2> QED  BY <2>1, <2>2 DEF Slackens
<1>17. Now' = r
  <2>1. r \in MutexStates
    <3> HIDE DEF raised
    <3> QED  BY <1>8, <1>13, <1>16
  <2> HIDE DEF r
  <2> QED  BY <1>3, <2>1, NextIs
<1> HIDE DEF i2
<1>18. CASE prio[t] >= mpri[m]
  <2>1. Now' = queued  BY <1>17, <1>18
  <2>2. Blocking(queued, t, m)  BY <1>6, <1>8, <1>18, <2>1 DEF Blocking
  <2> QED  BY <1>8, <1>9, <2>2 DEF i2
<1>19. CASE ~(prio[t] >= mpri[m])
  <2>1. prio[t] < mpri[m]
    <3>1. mpri[m] \in Nat  BY <1>2
    <3> QED  BY <1>10, <1>19, <3>1
  <2>2. \/ prio[t] >= prio[owner[m]] /\ Now' = asking
        \/ prio[t] < prio[owner[m]] /\ Now' = raised
    <3>1. prio[owner[m]] \in Nat /\ prio[t] \in Nat  BY <1>2
    <3> HIDE DEF raised
    <3> QED  BY <1>17, <1>19, <3>1
  <2>3. asking.mpri = [mpri EXCEPT ![m] = prio[t]]  BY <1>13
  <2>4. Blocking(asking, t, m)  BY <1>6, <1>13, <2>1, <2>2, <2>3 DEF Blocking
  <2> QED  BY <1>13, <1>15, <2>4 DEF i2
<1> QED  BY <1>18, <1>19

LEMMA TakeBlocksStep ==
    ASSUME MutexInv, NEW t \in Threads, NEW m \in Mutexes, TakeBlocks(t, m)
    PROVE  MutexInv' /\ held' = held
<1> DEFINE i2 == [inside EXCEPT ![t] = m]
<1>1. /\ held' = held /\ inside' = i2 /\ gone' = gone /\ gone \subseteq Threads \cup Mutexes
  BY DEF MutexInv, TakeBlocks
<1>2. PICK y \in MutexStates : Blocking(y, t, m) /\ Sane(y, held, i2, gone)
  BY BlocksIs
<1> HIDE DEF i2
<1>3. ASSUME Now' = UpdatePriority(y, owner[m], prio[t]) PROVE Sane(Now', held, i2, gone)
  <2> DEFINE o == owner[m]
             p == prio[t]
             r == Now'
  <2>1. Sane(Now, held, inside, gone) /\ owner[m] # NoThread  BY DEF MutexInv, TakeBlocks
  <2>2. o \in Threads /\ p \in 0..(NoPrio - 1)
    <3>1. Now.owner[m] \in Threads \cup {NoThread} /\ Now.prio[t] \in 0..(NoPrio - 1)
      BY <2>1, SaneTypes
    <3> QED  BY <2>1, <3>1, NowFields
  <2>3. r = UpdatePriority(y, o, p)  BY <1>3
  <2> HIDE DEF o, p, r
  <2>4. Slackens(r, y)  BY <1>2, <2>2, <2>3, UpdateSlackens
  <2>5. Sane(r, held, i2, gone)  BY <1>2, <2>4, SlackensSane
  <2> QED  BY <2>5 DEF r
<1>4. Sane(Now', held, i2, gone)  BY <1>2, <1>3 DEF Blocking
<1> QED  BY <1>1, <1>4 DEF MutexInv

LEMMA WaitEndsStep ==
    ASSUME MutexInv, NEW t \in Threads, MutexWaitEnds(t)
    PROVE  MutexInv' /\ held' = held
<1> DEFINE m == inside[t]
           ws == [waiters EXCEPT ![m] = Unlink(@, t)]
           r == [Now EXCEPT !.waiters[m] = Unlink(@, t)]
<1>1. Sane(Now, held, inside, gone)  BY DEF MutexInv
<1>2. /\ Now \in MutexStates /\ waiters \in [Mutexes -> Seq(Threads)] /\ m \in Mutexes
      /\ \A n \in Mutexes : Distinct(waiters[n])
  <2>1. /\ Now \in MutexStates /\ Now.waiters \in [Mutexes -> Seq(Threads)]
        /\ m \in Mutexes \cup {NoMutex} /\ m # NoMutex
    BY <1>1, SaneTypes DEF MutexWaitEnds
  <2>2. \A n \in Mutexes : Distinct(Now.waiters[n])  BY <1>1 DEF Sane, Listed
  <2> QED  BY <2>1, <2>2, NowFields
<1>3. Become(r) /\ held' = held /\ inside' = inside /\ gone' = gone
  BY NowFields DEF MutexWaitEnds
<1>4. r = [Now EXCEPT !.waiters = ws]  BY NowFields DEF Now
<1> DEFINE w == waiters[m]
<1>5. w \in Seq(Threads) /\ Distinct(w)  BY <1>2
<1> HIDE DEF w
<1>6. Unlink(w, t) \in Seq(Threads) /\ Distinct(Unlink(w, t))
      /\ \A u : Holds(Unlink(w, t), u) <=> Holds(w, u) /\ u # t
  BY <1>5, UnlinkFacts
<1> DEFINE e == Unlink(w, t)
<1>7. \A n \in Mutexes : ws[n] = IF n = m THEN e ELSE waiters[n]  BY <1>2 DEF w
<1>8. ws \in [Mutexes -> Seq(Threads)]  BY <1>2, <1>6 DEF w
<1> HIDE DEF r, ws, e
<1>9. ASSUME NEW n \in Mutexes
      PROVE  /\ Distinct(ws[n])
             /\ \A u \in Threads : Holds(ws[n], u) => Holds(waiters[n], u)
  <2>1. CASE n = m
    <3>1. ws[n] = e /\ waiters[n] = w  BY <1>7, <2>1 DEF w
    <3> QED  BY <1>6, <3>1 DEF e
  <2>2. CASE n # m  BY <1>2, <1>7, <2>2
  <2> QED  BY <2>1, <2>2
<1>10. Slackens([Now EXCEPT !.waiters = ws], Now)
  <2>1. \A n \in Mutexes : /\ Distinct(ws[n])
                           /\ \A u \in Threads : Holds(ws[n], u) => Holds(Now.waiters[n], u)
    BY <1>9, NowFields
  <2> QED  BY <1>1, <1>8, <2>1, ShorterSlackens
<1>11. Sane(r, held, inside, gone) /\ r \in MutexStates
  <2>1. Slackens(r, Now)  BY <1>4, <1>10
  <2>2. r \in MutexStates  BY <2>1 DEF Slackens
  <2> QED  BY <1>1, <2>1, <2>2, SlackensSane
<1> QED  BY <1>3, <1>11, BecomeNext DEF MutexInv

LEMMA TakeReturnsStep ==
    ASSUME MutexInv, NEW t \in Threads, TakeReturns(t)
    PROVE  MutexInv' /\ (held' = held \/ \E m \in Mutexes : Lock!Lock(t, m))
<1> DEFINE i2 == [inside EXCEPT ![t] = NoMutex]
<1>1. /\ Sane(Now, held, inside, gone) /\ t \notin gone /\ ~Suspended(Now, t)
      /\ gone \subseteq Threads \cup Mutexes
  BY DEF MutexInv, TakeReturns
<1>2. PICK m \in Mutexes : inside[t] = m
  <2>1. inside[t] \in Mutexes \cup {NoMutex}  BY <1>1, SaneTypes
  <2> QED  BY <2>1 DEF TakeReturns
<1>3. inside' = i2 /\ gone' = gone  BY DEF TakeReturns
<1>4. ASSUME owner[m] = t PROVE MutexInv' /\ Lock!Lock(t, m)
  <2>1. Sane(Now, Holding(held, t, m, 1), i2, gone) /\ \A u \in Threads : held[u][m] = 0
    BY <1>1, <1>2, <1>4, ReturnsSane, NowFields
  <2>2. held' = [held EXCEPT ![t][m] = @ + 1] /\ Become(Now)
    BY <1>2, <1>4 DEF TakeReturns
  <2>3. held' = Holding(held, t, m, 1)
    <3>1. held' = Holding(held, t, m, held[t][m] + 1)  BY <2>2 DEF Holding
    <3>2. held[t][m] + 1 = 1  BY <2>1
    <3> QED  BY <3>1, <3>2
  <2> HIDE DEF i2
  <2>4. Sane(Now, held', inside', gone')  BY <1>3, <2>1, <2>3
  <2>5. Now \in MutexStates /\ HoldMax \in Nat \ {0}  BY <1>1, SaneTypes
  <2>6. MutexInv'  BY <1>1, <1>3, <2>2, <2>4, <2>5, BecomeNext
  <2> QED  BY <2>1, <2>2, <2>5, <2>6 DEF Lock!Lock
<1>5. ASSUME owner[m] # t PROVE MutexInv' /\ held' = held
  <2> DEFINE r == LeaveWait(Now, t, m)
  <2>1. Sane(Now, held, i2, gone)  BY <1>1, <1>2, <1>5, ReturnsSane, NowFields
  <2>2. held' = held /\ Become(r)  BY <1>2, <1>5 DEF TakeReturns
  <2> HIDE DEF i2
  <2>3. Slackens(r, Now)  BY <2>1, LeaveSlackens
  <2> HIDE DEF r
  <2>4. Sane(r, held', inside', gone') /\ r \in MutexStates
    BY <1>3, <2>1, <2>2, <2>3, SlackensSane DEF Slackens
  <2> QED  BY <1>1, <1>3, <2>2, <2>4, BecomeNext
<1> QED  BY <1>4, <1>5

LEMMA ClearPendingStep ==
    ASSUME MutexInv, NEW t \in Threads, ClearPending(t)
    PROVE  MutexInv' /\ held' = held
<1> DEFINE r == [Now EXCEPT !.pending[t] = NoMutex]
<1>1. Sane(Now, held, inside, gone) /\ inside[t] = NoMutex /\ gone \subseteq Threads \cup Mutexes
  BY DEF MutexInv, ClearPending
<1>2. Become(r) /\ inside' = inside /\ gone' = gone /\ held' = held  BY DEF ClearPending
<1>3. Sane(r, held, inside, gone)  BY <1>1, ClearedSane
<1> HIDE DEF r
<1>4. Sane(r, held', inside', gone') /\ r \in MutexStates  BY <1>2, <1>3, SaneTypes
<1> QED  BY <1>1, <1>2, <1>4, BecomeNext

LEMMA SetCeilingStep ==
    ASSUME MutexInv, NEW m \in Mutexes, NEW p \in Ceilings, SetCeiling(m, p)
    PROVE  MutexInv' /\ held' = held
<1> DEFINE set == [Now EXCEPT !.ceil[m] = p]
           r == IF owner[m] = NoThread THEN set ELSE Refresh(set, owner[m])
<1>1. Sane(Now, held, inside, gone) /\ gone \subseteq Threads \cup Mutexes
  BY DEF MutexInv
<1>2. Become(r) /\ inside' = inside /\ gone' = gone /\ held' = held
  BY NowFields DEF SetCeiling
<1>3. Slackens(set, Now)
  <2>1. Now \in MutexStates /\ Now.ceil \in [Mutexes -> 0..NoPrio]  BY <1>1, SaneTypes
  <2>2. p \in 0..NoPrio  BY MutexAssumption
  <2>3. [Now.ceil EXCEPT ![m] = p] \in [Mutexes -> 0..NoPrio]  BY <2>1, <2>2
  <2>4. set = [Now EXCEPT !.ceil = [Now.ceil EXCEPT ![m] = p]]  BY <2>1 DEF MutexStates
  <2>5. /\ set \in MutexStates /\ set.owner = Now.owner /\ set.hold = Now.hold
        /\ set.taken = Now.taken /\ set.pending = Now.pending /\ set.waiters = Now.waiters
    BY <2>1, <2>3, <2>4 DEF MutexStates
  <2> HIDE DEF set
  <2> QED  BY <1>1, <2>5, SlackensPriority
<1> HIDE DEF set
<1>4. Sane(set, held, inside, gone)  BY <1>1, <1>3, SlackensSane
<1>5. Sane(r, held, inside, gone)
  <2>1. CASE owner[m] = NoThread  BY <1>4, <2>1
  <2>2. CASE owner[m] # NoThread
    <3> DEFINE o == owner[m]
    <3>1. o \in Threads
      <4>1. Now.owner[m] \in Threads \cup {NoThread}  BY <1>1, SaneTypes
      <4> QED  BY <2>2, <4>1, NowFields
    <3>2. r = Refresh(set, o)  BY <2>2
    <3> HIDE DEF o, r
    <3>3. Slackens(Refresh(set, o), set)  BY <1>4, <3>1, RefreshSlackens
    <3> QED  BY <1>4, <3>2, <3>3, SlackensSane
  <2> QED  BY <2>1, <2>2
<1> HIDE DEF r
<1>6. Sane(r, held', inside', gone') /\ r \in MutexStates  BY <1>2, <1>5, SaneTypes
<1> QED  BY <1>1, <1>2, <1>6, BecomeNext

LEMMA DetachStep ==
    ASSUME MutexInv, NEW m \in Mutexes, Detach(m)
    PROVE  MutexInv' /\ held' = held
<1> DEFINE o == owner[m]
           emptied == [Now EXCEPT !.waiters[m] = <<>>]
           freed == [emptied EXCEPT !.taken[o] = @ \ {m}]
           r == IF o = NoThread THEN emptied ELSE CheckAndUpdate(freed, o, m)
           g2 == gone \cup {m}
           ws == [waiters EXCEPT ![m] = <<>>]
           ts == [taken EXCEPT ![o] = @ \ {m}]
<1>1. Sane(Now, held, inside, gone) /\ gone \subseteq Threads \cup Mutexes
  BY DEF MutexInv
<1>2. Become(r) /\ inside' = inside /\ gone' = g2 /\ held' = held
  BY DEF Detach
<1>3. /\ Now \in MutexStates /\ waiters \in [Mutexes -> Seq(Threads)]
      /\ taken \in [Threads -> SUBSET Mutexes] /\ o \in Threads \cup {NoThread}
      /\ NoThread \notin Threads
  <2>1. /\ Now \in MutexStates /\ Now.waiters \in [Mutexes -> Seq(Threads)]
        /\ Now.taken \in [Threads -> SUBSET Mutexes] /\ Now.owner[m] \in Threads \cup {NoThread}
        /\ NoThread \notin Threads
    BY <1>1, SaneTypes
  <2> QED  BY <2>1, NowFields
<1>4. \A u \in Threads : u # o => m \notin taken[u]
  BY <1>1, NowFields DEF Sane, Taken
<1>5. emptied = [Now EXCEPT !.waiters = ws]  BY NowFields DEF Now
<1>6. ws \in [Mutexes -> Seq(Threads)]  BY <1>3
<1> HIDE DEF ws, o, emptied
<1>7. /\ emptied \in MutexStates /\ emptied.owner = Now.owner /\ emptied.hold = Now.hold
      /\ emptied.pending = Now.pending /\ emptied.waiters = ws /\ emptied.taken = taken
  BY <1>3, <1>5, <1>6, NowFields DEF MutexStates
<1>8. ws = [Now.waiters EXCEPT ![m] = <<>>]  BY NowFields DEF ws
<1>9. gone' = g2 /\ g2 \subseteq Threads \cup Mutexes  BY <1>1, <1>2
<1>10. CASE o = NoThread
  <2>1. \A u \in Threads : emptied.taken[u] = Now.taken[u] \ {m}
    <3>1. \A u \in Threads : m \notin taken[u]  BY <1>3, <1>4, <1>10
    <3>2. \A u \in Threads : taken[u] \ {m} = taken[u]  BY <3>1
    <3> QED  BY <1>7, <3>2, NowFields
  <2>2. Sane(emptied, held, inside, g2)  BY <1>1, <1>7, <1>8, <2>1, DetachedSane
  <2>3. Become(emptied)  BY <1>2, <1>10
  <2> HIDE DEF g2, r
  <2>4. Sane(emptied, held', inside', gone')  BY <1>2, <2>2
  <2> QED  BY <1>2, <1>7, <1>9, <2>3, <2>4, BecomeNext
<1>11. CASE o # NoThread
  <2>0. o \in Threads  BY <1>3, <1>11
  <2>1. freed = [emptied EXCEPT !.taken = ts]  BY <1>7 DEF MutexStates
  <2>2. ts \in [Threads -> SUBSET Mutexes]  BY <1>3
  <2>3. \A u \in Threads : ts[u] = taken[u] \ {m}
    <3>1. \A u \in Threads : u # o => ts[u] = taken[u]  BY <1>3
    <3>2. ts[o] = taken[o] \ {m}  BY <1>3, <2>0
    <3> QED  BY <1>4, <3>1, <3>2
  <2> HIDE DEF ts, freed
  <2>4. /\ freed \in MutexStates /\ freed.owner = Now.owner /\ freed.hold = Now.hold
        /\ freed.pending = Now.pending /\ freed.waiters = ws /\ freed.taken = ts
    BY <1>7, <2>1, <2>2 DEF MutexStates
  <2>5. \A u \in Threads : freed.taken[u] = Now.taken[u] \ {m}  BY <2>3, <2>4, NowFields
  <2>6. Sane(freed, held, inside, g2)  BY <1>1, <1>8, <2>4, <2>5, DetachedSane
  <2> HIDE DEF g2
  <2> DEFINE c == CheckAndUpdate(freed, o, m)
  <2>7. Become(c)  BY <1>2, <1>11
  <2>8. Slackens(c, freed)  BY <2>0, <2>6, CheckSlackens
  <2> HIDE DEF c, r
  <2>9. Sane(c, held', inside', gone') /\ c \in MutexStates
    BY <1>2, <2>6, <2>8, SlackensSane DEF Slackens
  <2> QED  BY <1>2, <1>9, <2>7, <2>9, BecomeNext
<1> QED  BY <1>10, <1>11

\* Forget(t) leaves a history in which t has nothing.
LEMMA ForgetFacts ==
    ASSUME held \in Histories, NEW t \in Threads, Forget(t)
    PROVE  /\ held' \in Histories
           /\ \A u \in Threads \ {t} : held'[u] = held[u]
           /\ \A m \in Mutexes : held'[t][m] = 0
           /\ Lock!Die(t)
<1> DEFINE row == [m \in Mutexes |-> 0]
<1>1. held' = [held EXCEPT ![t] = row]  BY DEF Forget
<1>2. 0 \in 0..HoldMax  BY MutexAssumption
<1>3. row \in [Mutexes -> 0..HoldMax] /\ \A m \in Mutexes : row[m] = 0  BY <1>2
<1>4. Lock!Die(t)  BY <1>1 DEF Lock!Die
<1> HIDE DEF row
<1> QED  BY <1>1, <1>3, <1>4 DEF Histories

LEMMA ExitStep ==
    ASSUME MutexInv, NEW t \in Threads, Exit(t)
    PROVE  MutexInv' /\ Lock!Die(t)
<1>1. /\ Sane(Now, held, inside, gone) /\ gone \subseteq Threads \cup Mutexes
      /\ t \notin gone /\ inside[t] = NoMutex
  BY DEF MutexInv, Exit, Running
<1>2. inside' = inside /\ gone' = gone \cup {t} /\ Forget(t)
  BY DEF Exit
<1>3. PICK q \in Orders(taken[t]) : Become(HandAll(Now, t, q))  BY DEF Exit
<1> DEFINE r == HandAll(Now, t, q)
<1>4. PICK b \in Histories : /\ Sane(r, b, inside, gone)
                             /\ \A u \in Threads \ {t} : b[u] = held[u]
                             /\ \A m \in Mutexes \ gone : b[t][m] = 0
  BY <1>1, <1>3, HandAllSane, NowFields
<1>5. Become(r)  BY <1>3
<1> HIDE DEF r
<1>6. /\ held' \in Histories
      /\ \A u \in Threads \ {t} : held'[u] = held[u]
      /\ \A m \in Mutexes : held'[t][m] = 0
      /\ Lock!Die(t)
  BY <1>1, <1>2, SaneTypes, ForgetFacts
<1>7. r \in MutexStates /\ Listed(r, inside, gone)  BY <1>4 DEF Sane
<1>8. \A n \in Mutexes : /\ Distinct(r.waiters[n])
                         /\ \A u \in Threads : Holds(r.waiters[n], u) => u # t
  BY <1>1, <1>4, <1>7, IdleNowhere DEF Listed
\* Of what is not detached, t owns nothing any more.
<1>11. ASSUME NEW n \in Mutexes \ gone PROVE r.owner[n] # t
  <2>1. inside[t] # n  BY <1>1, SaneTypes
  <2> QED  BY <1>1, <1>4, <2>1 DEF Sane, Taken, Counted
<1>9. Sane(r, held', inside, gone \cup {t})
  <2> DEFINE h2 == held'
  <2>1. /\ h2 \in Histories
        /\ \A u \in Threads \ {t} : h2[u] = b[u]
        /\ \A m \in Mutexes : h2[t][m] = 0
    BY <1>4, <1>6
  <2> HIDE DEF h2
  <2>2. Departs(r, r, t)  BY <1>7, <1>8 DEF Departs
  <2>3. HasOwn(h2, b, r, inside, gone, t)  BY <1>11, <2>1 DEF HasOwn
  <2>4. Sane(r, b, inside, gone)  BY <1>4
  <2>5. Sane(r, h2, inside, gone \cup {t})  BY <2>2, <2>3, <2>4, EndedSane
  <2> QED  BY <2>5 DEF h2
<1>10. Sane(r, held', inside', gone') /\ gone' \subseteq Threads \cup Mutexes
  BY <1>1, <1>2, <1>9
<1> QED  BY <1>5, <1>6, <1>7, <1>10, BecomeNext

LEMMA DeleteStep ==
    ASSUME MutexInv, NEW t \in Threads, Delete(t)
    PROVE  MutexInv' /\ held' = held
<1> DEFINE m == pending[t]
           ws == [n \in Mutexes |-> Unlink(waiters[n], t)]
           closed == [Now EXCEPT !.waiters = ws]
           away == LeaveWait(closed, t, m)
           dropped == IF m = NoMutex THEN closed ELSE [away EXCEPT !.pending[t] = NoMutex]
           hs == [n \in Mutexes |-> IF n \in taken[t] THEN 1 ELSE hold[n]]
           r == [dropped EXCEPT !.hold = hs]
<1>1. Sane(Now, held, inside, gone) /\ gone \subseteq Threads \cup Mutexes
  BY DEF MutexInv
<1>2. Become(r) /\ inside' = inside /\ gone' = gone \cup {t} /\ held' = held /\ t \notin gone
  BY DEF Delete
<1>3. /\ waiters \in [Mutexes -> Seq(Threads)] /\ hold \in [Mutexes -> 0..HoldMax]
      /\ pending \in [Threads -> Mutexes \cup {NoMutex}]
      /\ \A n \in Mutexes : Distinct(waiters[n])
      /\ 1 \in 0..HoldMax
  <2>1. /\ Now.waiters \in [Mutexes -> Seq(Threads)] /\ Now.hold \in [Mutexes -> 0..HoldMax]
        /\ Now.pending \in [Threads -> Mutexes \cup {NoMutex}] /\ HoldMax \in Nat \ {0}
    BY <1>1, SaneTypes
  <2>2. \A n \in Mutexes : Distinct(Now.waiters[n])  BY <1>1 DEF Sane, Listed
  <2> QED  BY <2>1, <2>2, NowFields
<1>4. ASSUME NEW n \in Mutexes
      PROVE  /\ ws[n] \in Seq(Threads) /\ Distinct(ws[n])
             /\ \A u : Holds(ws[n], u) <=> Holds(waiters[n], u) /\ u # t
  <2> DEFINE w == waiters[n]
  <2>1. w \in Seq(Threads) /\ Distinct(w) /\ ws[n] = Unlink(w, t)  BY <1>3
  <2> HIDE DEF w, ws
  <2>2. /\ Unlink(w, t) \in Seq(Threads) /\ Distinct(Unlink(w, t))
        /\ \A u : Holds(Unlink(w, t), u) <=> Holds(w, u) /\ u # t
    BY <2>1, UnlinkFacts
  <2> QED  BY <2>1, <2>2 DEF w
<1>5. ws \in [Mutexes -> Seq(Threads)]  BY <1>4
<1> HIDE DEF ws
<1>6. Slackens(closed, Now)
  <2>1. \A n \in Mutexes : /\ Distinct(ws[n])
                           /\ \A u \in Threads : Holds(ws[n], u) => Holds(Now.waiters[n], u)
    BY <1>4, NowFields
  <2> QED  BY <1>1, <1>5, <2>1, ShorterSlackens
<1>7. Sane(closed, held, inside, gone)  BY <1>1, <1>6, SlackensSane
<1>8. closed.waiters = ws  BY DEF Now
<1> HIDE DEF closed
\* The lists of dropped, on none of which t stands.
<1>9. /\ dropped \in MutexStates /\ dropped.owner = owner /\ dropped.taken = taken
      /\ \A u \in Threads \ {t} : dropped.pending[u] = pending[u]
      /\ \A n \in Mutexes :
            /\ Distinct(dropped.waiters[n])
            /\ \A u \in Threads : Holds(dropped.waiters[n], u) => Holds(waiters[n], u) /\ u # t
  <2>1. /\ closed \in MutexStates /\ closed.owner = owner /\ closed.taken = taken
        /\ closed.pending = pending
    BY <1>6, NowFields DEF Slackens
  <2>2. CASE m = NoMutex
    <3>1. dropped = closed  BY <2>2
    <3> HIDE DEF dropped
    <3> QED  BY <1>4, <1>8, <2>1, <3>1
  <2>3. CASE m # NoMutex
    <3>1. m \in Mutexes  BY <1>3, <2>3
    <3> HIDE DEF m
    <3>2. Slackens(away, closed)  BY <1>7, <3>1, LeaveSlackens
    <3> HIDE DEF away
    <3> DEFINE ps == [away.pending EXCEPT ![t] = NoMutex]
    <3>3. /\ away \in MutexStates /\ away.owner = owner /\ away.taken = taken
          /\ away.pending = pending
          /\ \A n \in Mutexes :
                /\ Distinct(away.waiters[n])
                /\ \A u \in Threads : Holds(away.waiters[n], u) => Holds(ws[n], u)
      BY <1>8, <2>1, <3>2 DEF Slackens
    <3>4. /\ ps \in [Threads -> Mutexes \cup {NoMutex}]
          /\ \A u \in Threads \ {t} : ps[u] = pending[u]
      BY <1>3, <3>3
    <3>5. dropped = [away EXCEPT !.pending = ps]  BY <2>3, <3>3 DEF MutexStates
    <3> HIDE DEF dropped, ps
    <3>6. /\ dropped \in MutexStates /\ dropped.owner = away.owner
          /\ dropped.taken = away.taken /\ dropped.pending = ps
          /\ dropped.waiters = away.waiters
      BY <3>3, <3>4, <3>5 DEF MutexStates
    <3> QED  BY <1>4, <3>3, <3>4, <3>6
  <2> QED  BY <2>2, <2>3
<1> HIDE DEF dropped
<1>10. /\ hs \in [Mutexes -> 0..HoldMax]
       /\ \A n \in Mutexes : hs[n] = hold[n] \/ (n \in taken[t] /\ hs[n] = 1)
  BY <1>3
<1> HIDE DEF hs
<1>11. /\ r \in MutexStates /\ r.owner = dropped.owner /\ r.taken = dropped.taken
       /\ r.waiters = dropped.waiters /\ r.pending = dropped.pending /\ r.hold = hs
  BY <1>9, <1>10 DEF MutexStates
<1> HIDE DEF r
\* It keeps what it has.
<1>12. HasOwn(held, held, Now, inside, gone, t)
  <2>1. /\ held \in Histories
        /\ Taken(Now, gone) /\ Counted(Now, held, inside, gone)
    BY <1>1 DEF Sane
  <2>2. ASSUME NEW n \in Mutexes \ gone, Now.owner[n] = t PROVE held[t][n] # 0 \/ inside[t] = n
    <3>1. Now.hold[n] = held[t][n] + (IF inside[t] = n THEN 1 ELSE 0)
      BY <1>2, <2>1, <2>2 DEF Counted
    <3>2. Now.hold[n] # 0  BY <2>1, <2>2 DEF Taken
    <3> QED  BY <3>1, <3>2
  <2> QED  BY <2>1, <2>2 DEF Counted, HasOwn
<1>13. Sane(r, held, inside, gone \cup {t})
  <2>2. r.owner = Now.owner /\ r.taken = Now.taken
    BY <1>9, <1>11, NowFields
  <2>3. \A n \in Mutexes :
           /\ Distinct(r.waiters[n])
           /\ \A u \in Threads : Holds(r.waiters[n], u) => Holds(Now.waiters[n], u) /\ u # t
           /\ r.hold[n] = Now.hold[n] \/ (n \in Now.taken[t] /\ r.hold[n] = 1)
    BY <1>9, <1>10, <1>11, NowFields
  <2>4. \A u \in Threads \ {t} : r.pending[u] = Now.pending[u]  BY <1>9, <1>11, NowFields
  <2>5. Departs(r, Now, t)  BY <1>11, <1>9, <2>2, <2>3, <2>4 DEF Departs
  <2> QED  BY <1>1, <1>12, <2>5, EndedSane
<1>14. Sane(r, held', inside', gone') /\ gone' \subseteq Threads \cup Mutexes
  BY <1>1, <1>2, <1>13
<1> QED  BY <1>2, <1>11, <1>14, BecomeNext

LEMMA MutexInvStutter ==
    ASSUME MutexInv, UNCHANGED mutexVars
    PROVE  MutexInv' /\ held' = held
<1>1. Now' = Now /\ held' = held /\ inside' = inside /\ gone' = gone  BY DEF mutexVars, Now
<1> QED  BY <1>1 DEF MutexInv

\* Every step keeps the invariant, and to those who use the mutexes it is a lock, an
\* unlock, the end of a thread, or nothing.
LEMMA MutexStep ==
    ASSUME MutexInv, [MutexNext]_mutexVars
    PROVE  MutexInv' /\ [Lock!LockNext]_held
<1>1. ASSUME NEW t \in Threads, NEW m \in Mutexes, TakeFree(t, m)
      PROVE  MutexInv' /\ [Lock!LockNext]_held
  BY <1>1, TakeFreeStep DEF Lock!LockNext
<1>2. ASSUME NEW t \in Threads, NEW m \in Mutexes, TakeAgain(t, m)
      PROVE  MutexInv' /\ [Lock!LockNext]_held
  BY <1>2, TakeAgainStep DEF Lock!LockNext
<1>3. ASSUME NEW t \in Threads, NEW m \in Mutexes, TakeFails(t, m)
      PROVE  MutexInv' /\ [Lock!LockNext]_held
  BY <1>3, MutexInvStutter DEF TakeFails
<1>4. ASSUME NEW t \in Threads, NEW m \in Mutexes, TakeBlocks(t, m)
      PROVE  MutexInv' /\ [Lock!LockNext]_held
  BY <1>4, TakeBlocksStep
<1>5. ASSUME NEW t \in Threads, NEW m \in Mutexes, Release(t, m)
      PROVE  MutexInv' /\ [Lock!LockNext]_held
  BY <1>5, ReleaseStep DEF Lock!LockNext
<1>6. ASSUME NEW t \in Threads, NEW m \in Mutexes, ReleaseRefused(t, m)
      PROVE  MutexInv' /\ [Lock!LockNext]_held
  BY <1>6, MutexInvStutter DEF ReleaseRefused
<1>7. ASSUME NEW t \in Threads, TakeReturns(t) PROVE MutexInv' /\ [Lock!LockNext]_held
  BY <1>7, TakeReturnsStep DEF Lock!LockNext
<1>8. ASSUME NEW t \in Threads, ClearPending(t) PROVE MutexInv' /\ [Lock!LockNext]_held
  BY <1>8, ClearPendingStep
<1>9. ASSUME NEW t \in Threads, Exit(t) PROVE MutexInv' /\ [Lock!LockNext]_held
  BY <1>9, ExitStep DEF Lock!LockNext
<1>10. ASSUME NEW t \in Threads, MutexWaitEnds(t) PROVE MutexInv' /\ [Lock!LockNext]_held
  BY <1>10, WaitEndsStep
<1>11. ASSUME NEW t \in Threads, Delete(t) PROVE MutexInv' /\ [Lock!LockNext]_held
  BY <1>11, DeleteStep
<1>12. ASSUME NEW m \in Mutexes, Detach(m) PROVE MutexInv' /\ [Lock!LockNext]_held
  BY <1>12, DetachStep
<1>13. ASSUME NEW m \in Mutexes, NEW p \in Ceilings, SetCeiling(m, p)
       PROVE  MutexInv' /\ [Lock!LockNext]_held
  BY <1>13, SetCeilingStep
<1>14. CASE UNCHANGED mutexVars  BY <1>14, MutexInvStutter
<1> QED  BY <1>1, <1>2, <1>3, <1>4, <1>5, <1>6, <1>7, <1>8, <1>9, <1>10, <1>11, <1>12, <1>13,
            <1>14 DEF MutexNext, ThreadOps

LEMMA MutexInvTypes == MutexInv => MutexTypeOK
BY DEF MutexInv, Sane, MutexTypeOK, Histories, Inside

LEMMA MutexInvOwnership == MutexInv => OwnershipAgrees
<1> SUFFICES ASSUME MutexInv PROVE OwnershipAgrees
  OBVIOUS
<1>1. /\ Listed(Now, inside, gone) /\ Taken(Now, gone) /\ Counted(Now, held, inside, gone)
  BY DEF MutexInv, Sane
<1>2. HoldCountsTakes
  <2>1. ASSUME NEW m \in Mutexes \ gone, owner[m] \in Threads
        PROVE  LET takes == held[owner[m]][m] + (IF inside[owner[m]] = m THEN 1 ELSE 0)
               IN  takes # 0 /\ (owner[m] \notin gone => hold[m] = takes)
    <3> DEFINE o == owner[m]
    <3>1. held[o][m] \in Nat  BY <2>1, SaneTypes DEF MutexInv
    <3>2. hold[m] # 0  BY <1>1, <2>1, NowFields DEF Taken
    <3>3. CASE o \in gone
      <4>1. held[o][m] # 0 \/ inside[o] = m  BY <1>1, <2>1, <3>3, NowFields DEF Counted
      <4> QED  BY <3>1, <3>3, <4>1
    <3>4. CASE o \notin gone
      <4>1. hold[m] = held[o][m] + (IF inside[o] = m THEN 1 ELSE 0)
        BY <1>1, <2>1, <3>4, NowFields DEF Counted
      <4> QED  BY <3>2, <4>1
    <3> QED  BY <3>3, <3>4
  <2> QED  BY <2>1 DEF HoldCountsTakes, Live
<1>3. TakenIsOwned  BY <1>1, NowFields DEF TakenIsOwned, Live, Taken
<1>4. WaitersHaveOwner  BY <1>1, NowFields DEF WaitersHaveOwner, Live, Listed
<1> QED  BY <1>2, <1>3, <1>4 DEF OwnershipAgrees

(***************************************************************************)
(* Mutex: the due priority.                                                *)
(***************************************************************************)
\* v is the most urgent of the own priority of t and of what its mutexes ask for.
IsDue(v, s, t) ==
    /\ v \in 0..(NoPrio - 1)
    /\ v <= InitPrio[t]
    /\ \A m \in s.taken[t] : v <= s.mpri[m] /\ v <= s.ceil[m]
    /\ v = InitPrio[t] \/ \E m \in s.taken[t] : v = s.mpri[m] \/ v = s.ceil[m]

LEMMA DueIs ==
    ASSUME NEW s \in MutexStates, NEW t \in Threads
    PROVE  /\ IsDue(DuePriority(s, t), s, t)
           /\ \A v : IsDue(v, s, t) => v = DuePriority(s, t)
<1> DEFINE D == {InitPrio[t]} \cup {s.mpri[m] : m \in s.taken[t]} \cup {s.ceil[m] : m \in s.taken[t]}
           d == DuePriority(s, t)
<1>1. /\ NoPrio \in Nat /\ InitPrio[t] \in 0..(NoPrio - 1)
      /\ s.mpri \in [Mutexes -> 0..NoPrio] /\ s.ceil \in [Mutexes -> 0..NoPrio]
      /\ s.taken[t] \in SUBSET Mutexes
  BY MutexAssumption DEF MutexStates
<1>2. D \in SUBSET Nat /\ D # {}  BY <1>1
<1>3. d = Min(D) /\ d \in 0..(NoPrio - 1)  BY DuePriorityType DEF DuePriority
<1>4. /\ \A x : x \in D <=> x = InitPrio[t] \/ \E m \in s.taken[t] : x = s.mpri[m] \/ x = s.ceil[m]
  OBVIOUS
<1>5. \A m \in s.taken[t] : s.mpri[m] \in D /\ s.ceil[m] \in D  OBVIOUS
<1>6. InitPrio[t] \in D  OBVIOUS
<1> HIDE DEF D, d
<1>7. \E x \in D : \A y \in D : x <= y  BY <1>2, LeastNat
<1>8. d \in D /\ \A y \in D : d <= y  BY <1>3, <1>7, Zenon DEF Min
<1>9. IsDue(d, s, t)  BY <1>3, <1>4, <1>5, <1>6, <1>8 DEF IsDue
<1>10. ASSUME NEW v, IsDue(v, s, t) PROVE v = d
  <2>1. v \in D /\ v \in Nat  BY <1>1, <1>4, <1>10 DEF IsDue
  <2>2. \A y \in D : v <= y  BY <1>4, <1>10 DEF IsDue
  <2>3. v <= d /\ d <= v  BY <1>8, <2>1, <2>2
  <2> QED  BY <1>3, <1>1, <2>1, <2>3
<1> QED  BY <1>9, <1>10 DEF d

\* The due priority is a matter of what t has taken.
LEMMA DueSame ==
    ASSUME NEW r \in MutexStates, NEW s \in MutexStates, NEW t \in Threads,
           r.taken[t] = s.taken[t],
           \A m \in s.taken[t] : r.mpri[m] = s.mpri[m] /\ r.ceil[m] = s.ceil[m]
    PROVE  DuePriority(r, t) = DuePriority(s, t)
<1>1. IsDue(DuePriority(s, t), s, t)  BY DueIs
<1>2. IsDue(DuePriority(s, t), r, t)  BY <1>1 DEF IsDue
<1> QED  BY <1>2, DueIs

-----------------------------------------------------------------------------
(***************************************************************************)
(* Mutex: states in which priorities are inherited.                        *)
(***************************************************************************)
\* Lists are in order, no owner is less urgent than his mutex asks him to be, and no
\* mutex asks for less than those who wait for it.
Orderly(s) ==
    \A m \in Mutexes :
        /\ Sorted(s.waiters[m], s.prio)
        /\ s.owner[m] \in Threads => s.prio[s.owner[m]] <= s.mpri[m]
        /\ \A u \in Threads : Holds(s.waiters[m], u) => s.mpri[m] <= s.prio[u]

\* The same, but for where t stands and what it has asked for by waiting.
OrderlyBut(s, t) ==
    \A m \in Mutexes :
        /\ Sorted(Unlink(s.waiters[m], t), s.prio)
        /\ s.owner[m] \in Threads => s.prio[s.owner[m]] <= s.mpri[m]
        /\ \A u \in Threads \ {t} : Holds(s.waiters[m], u) => s.mpri[m] <= s.prio[u]

\* A list t does not stand on is in order whatever the priority of t.
LEMMA SortedElsewhere ==
    ASSUME NEW q, NEW t, ~Holds(q, t), NEW p1, NEW p2,
           \A i \in DOMAIN q : q[i] # t => p2[q[i]] = p1[q[i]], Sorted(q, p1)
    PROVE  Sorted(q, p2)
BY DEF Sorted, Holds

LEMMA SortedFirst ==
    ASSUME NEW q \in Seq(Threads), q # <<>>, NEW p \in [Threads -> Nat], Sorted(q, p)
    PROVE  /\ Head(q) \in Threads /\ Holds(q, Head(q))
           /\ \A u \in Threads : Holds(q, u) => p[Head(q)] <= p[u]
<1>1. Len(q) \in Nat /\ DOMAIN q = 1..Len(q) /\ Len(q) # 0 /\ Head(q) = q[1]
  BY LenProperties, EmptySeq
<1>2. 1 \in DOMAIN q /\ q[1] \in Threads  BY <1>1, ElementOfSeq
<1>3. ASSUME NEW i \in DOMAIN q PROVE p[q[1]] <= p[q[i]]
  <2>1. i = 1 \/ 1 < i  BY <1>1
  <2>2. p[q[1]] \in Nat  BY <1>2
  <2> QED  BY <1>2, <2>1, <2>2 DEF Sorted
<1> QED  BY <1>1, <1>2, <1>3 DEF Holds

\* A thread that stands nowhere makes no exception.
LEMMA ButNobody ==
    ASSUME NEW s, NEW t, \A m \in Mutexes : ~Holds(s.waiters[m], t), OrderlyBut(s, t)
    PROVE  Orderly(s)
<1>1. \A m \in Mutexes : Unlink(s.waiters[m], t) = s.waiters[m]  BY DEF Unlink
<1> QED  BY <1>1 DEF Orderly, OrderlyBut

\* Setting the priority of t to at most what its mutexes ask for disturbs only where it
\* stands.
LEMMA PrioBut ==
    ASSUME NEW s \in MutexStates, \A m \in Mutexes : Distinct(s.waiters[m]),
           NEW t \in Threads, NEW r \in MutexStates,
           r.owner = s.owner, r.waiters = s.waiters, r.mpri = s.mpri,
           \A u \in Threads \ {t} : r.prio[u] = s.prio[u],
           \A m \in Mutexes : s.owner[m] = t => r.prio[t] <= s.mpri[m],
           \A m \in Mutexes :
               /\ Sorted(Unlink(s.waiters[m], t), s.prio)
               /\ s.owner[m] \in Threads \ {t} => s.prio[s.owner[m]] <= s.mpri[m]
               /\ \A u \in Threads \ {t} : Holds(s.waiters[m], u) => s.mpri[m] <= s.prio[u]
    PROVE  OrderlyBut(r, t)
<1>1. s.waiters \in [Mutexes -> Seq(Threads)] /\ \A m \in Mutexes : Distinct(s.waiters[m])
  BY DEF MutexStates
<1>2. ASSUME NEW m \in Mutexes PROVE Sorted(Unlink(r.waiters[m], t), r.prio)
  <2> DEFINE w == s.waiters[m]
             q == Unlink(w, t)
  <2>1. w \in Seq(Threads) /\ Distinct(w)  BY <1>1
  <2>2. Sorted(q, s.prio) /\ Unlink(r.waiters[m], t) = q  OBVIOUS
  <2> HIDE DEF w
  <2>3. q \in Seq(Threads) /\ ~Holds(q, t)  BY <2>1, UnlinkFacts
  <2> HIDE DEF q
  <2>4. \A i \in DOMAIN q : q[i] \in Threads  BY <2>3, LenProperties, ElementOfSeq
  <2>5. \A i \in DOMAIN q : q[i] # t => r.prio[q[i]] = s.prio[q[i]]  BY <2>4
  <2>6. Sorted(q, r.prio)  BY <2>2, <2>3, <2>5, SortedElsewhere
  <2> QED  BY <2>2, <2>6
<1>3. ASSUME NEW m \in Mutexes, r.owner[m] \in Threads PROVE r.prio[r.owner[m]] <= r.mpri[m]
  <2>1. CASE s.owner[m] = t  BY <2>1
  <2>2. CASE s.owner[m] # t  BY <1>3, <2>2
  <2> QED  BY <2>1, <2>2
<1> QED  BY <1>2, <1>3 DEF OrderlyBut

-----------------------------------------------------------------------------
(***************************************************************************)
(* Mutex: a round of passing a priority on.                                *)
(***************************************************************************)
\* r is s with t sorted anew into the list of m, which asks for what its first waiter has.
Sorts(r, s, t, m) ==
    /\ r \in MutexStates
    /\ r.owner = s.owner /\ r.taken = s.taken /\ r.ceil = s.ceil /\ r.prio = s.prio
    /\ r.waiters = [s.waiters EXCEPT ![m] = Enqueue(Unlink(@, t), t, "PRIO", s.prio)]
    /\ r.mpri = [s.mpri EXCEPT ![m] = FirstPriority(r, m)]

\* r is s with the priority p for t.
Sets(r, s, t, p) ==
    /\ r \in MutexStates
    /\ r.owner = s.owner /\ r.taken = s.taken /\ r.ceil = s.ceil /\ r.mpri = s.mpri
    /\ r.waiters = s.waiters /\ r.prio = [s.prio EXCEPT ![t] = p]

\* The round that follows t, which waits for m, and leaves y when t is sorted in.
Follows(c, t, m, x, y) ==
    /\ t \in Threads /\ Holds(x.waiters[m], t) /\ x.owner[m] \in Threads
    /\ Sorts(y, x, t, m)
    /\ DuePriority(y, x.owner[m]) = y.prio[x.owner[m]] =>
          Round(c) = [thread |-> NoThread, state |-> y]
    /\ DuePriority(y, x.owner[m]) # y.prio[x.owner[m]] =>
          /\ Round(c).thread = x.owner[m]
          /\ Sets(Round(c).state, y, x.owner[m], DuePriority(y, x.owner[m]))

LEMMA RoundIs ==
    ASSUME NEW c, NEW t, NEW x, c.thread = t, c.state = x,
           NEW h, NEW ins, NEW g, Sane(x, h, ins, g), Suspended(x, t)
    PROVE  \E m \in Mutexes, y \in MutexStates : Follows(c, t, m, x, y)
<1> DEFINE m == x.pending[t]
           o == x.owner[m]
           w == x.waiters[m]
           e == Enqueue(Unlink(w, t), t, "PRIO", x.prio)
           sorted == [x EXCEPT !.waiters[m] = Enqueue(Unlink(@, t), t, "PRIO", x.prio)]
           f == FirstPriority(sorted, m)
           asking == [sorted EXCEPT !.mpri[m] = FirstPriority(sorted, m)]
           due == DuePriority(asking, o)
           passed == [asking EXCEPT !.prio[o] = due]
<1>1. /\ x \in MutexStates /\ x.waiters \in [Mutexes -> Seq(Threads)]
      /\ x.owner \in [Mutexes -> Threads \cup {NoThread}] /\ NoMutex \notin Mutexes
      /\ x.mpri \in [Mutexes -> 0..NoPrio] /\ x.prio \in [Threads -> 0..(NoPrio - 1)]
  BY SaneTypes
<1>2. PICK l \in Mutexes : Holds(x.waiters[l], t)  BY DEF Suspended
<1>3. x.waiters[l] \in Seq(Threads) /\ t \in Threads  BY <1>1, <1>2, HeldIsElement
<1>4. m = l /\ o \in Threads
  <2>1. x.waiters[l] # <<>>  BY <1>2, <1>3, EmptyHoldsNobody
  <2>2. m = l /\ x.owner[l] # NoThread  BY <1>2, <1>3, <2>1 DEF Sane, Listed
  <2> QED  BY <1>1, <2>2
<1>5. m \in Mutexes /\ Holds(w, t)  BY <1>2, <1>4
<1>6. Round(c) = IF due = asking.prio[o] THEN [thread |-> NoThread, state |-> asking]
                 ELSE [thread |-> o, state |-> passed]
  <2>1. m # NoMutex  BY <1>1, <1>5
  <2> QED  BY <2>1 DEF Round
<1> HIDE DEF passed, due
<1>7. e \in Seq(Threads)
  <2>1. w \in Seq(Threads) /\ Distinct(w)  BY <1>1, <1>5 DEF Sane, Listed
  <2> HIDE DEF w
  <2> DEFINE u == Unlink(w, t)
  <2>2. u \in Seq(Threads) /\ Distinct(u) /\ ~Holds(u, t)  BY <2>1, UnlinkFacts
  <2> HIDE DEF u
  <2>3. Enqueue(u, t, "PRIO", x.prio) \in Seq(Threads)  BY <1>3, <2>2, EnqueueFacts
  <2> QED  BY <2>3 DEF u
<1> DEFINE ws == [x.waiters EXCEPT ![m] = e]
<1>8. sorted = [x EXCEPT !.waiters = ws]  BY <1>1 DEF MutexStates
<1>9. ws = [x.waiters EXCEPT ![m] = Enqueue(Unlink(@, t), t, "PRIO", x.prio)]  OBVIOUS
<1> HIDE DEF e
<1>10. ws \in [Mutexes -> Seq(Threads)]  BY <1>1, <1>7
<1> HIDE DEF ws, sorted, w
<1>11. /\ sorted \in MutexStates /\ sorted.owner = x.owner /\ sorted.taken = x.taken
       /\ sorted.ceil = x.ceil /\ sorted.prio = x.prio /\ sorted.waiters = ws
       /\ sorted.mpri = x.mpri
  BY <1>1, <1>8, <1>10 DEF MutexStates
<1> HIDE DEF m, o
<1>12. f \in 0..NoPrio  BY <1>5, <1>11, FirstPriorityType
<1> DEFINE ms == [x.mpri EXCEPT ![m] = f]
<1>13. asking = [sorted EXCEPT !.mpri = ms]  BY <1>11 DEF MutexStates
<1> HIDE DEF f, asking
<1>14. ms \in [Mutexes -> 0..NoPrio]  BY <1>1, <1>12
<1> HIDE DEF ms
<1>15. /\ asking \in MutexStates /\ asking.owner = x.owner /\ asking.taken = x.taken
       /\ asking.ceil = x.ceil /\ asking.prio = x.prio /\ asking.waiters = ws
       /\ asking.mpri = ms
  BY <1>11, <1>13, <1>14 DEF MutexStates
<1>16. f = FirstPriority(asking, m)  BY <1>11, <1>15 DEF f, FirstPriority
<1>17. Sorts(asking, x, t, m)
  <2>1. ms = [x.mpri EXCEPT ![m] = FirstPriority(asking, m)]  BY <1>16 DEF ms
  <2> QED  BY <1>9, <1>15, <2>1 DEF Sorts
<1>18. due \in 0..(NoPrio - 1)  BY <1>4, <1>15, DuePriorityType DEF due
<1> DEFINE pr == [asking.prio EXCEPT ![o] = due]
<1>19. passed = [asking EXCEPT !.prio = pr]  BY <1>15 DEF passed, MutexStates
<1>20. pr \in [Threads -> 0..(NoPrio - 1)]  BY <1>1, <1>15, <1>18
<1> HIDE DEF pr
<1>21. /\ passed \in MutexStates /\ passed.owner = asking.owner /\ passed.taken = asking.taken
       /\ passed.ceil = asking.ceil /\ passed.mpri = asking.mpri
       /\ passed.waiters = asking.waiters /\ passed.prio = pr
  BY <1>15, <1>19, <1>20 DEF MutexStates
<1>22. Sets(passed, asking, o, due)  BY <1>21 DEF Sets, pr
<1>23. x.owner[m] = o /\ DuePriority(asking, o) = due  BY DEF o, due
<1>24. Holds(x.waiters[m], t)  BY <1>5 DEF w
<1>25. Follows(c, t, m, x, asking)  BY <1>3, <1>4, <1>6, <1>17, <1>22, <1>23, <1>24 DEF Follows
<1> QED  BY <1>5, <1>15, <1>25

\* Lists in order but for t are in order when t has been sorted in; only what the owner of
\* that mutex is due may be missing.
LEMMA SortedIn ==
    ASSUME NEW x, NEW h, NEW ins, NEW g, Sane(x, h, ins, g), NEW t \in Threads,
           NEW m \in Mutexes, Holds(x.waiters[m], t), OrderlyBut(x, t),
           NEW y, Sorts(y, x, t, m)
    PROVE  /\ y.mpri[m] <= y.prio[t]
           /\ \A n \in Mutexes :
                 /\ Distinct(y.waiters[n])
                 /\ Sorted(y.waiters[n], y.prio)
                 /\ n # m /\ y.owner[n] \in Threads => y.prio[y.owner[n]] <= y.mpri[n]
                 /\ \A u \in Threads : Holds(y.waiters[n], u) => y.mpri[n] <= y.prio[u]
<1>1. /\ x \in MutexStates /\ x.waiters \in [Mutexes -> Seq(Threads)]
      /\ x.prio \in [Threads -> 0..(NoPrio - 1)] /\ x.mpri \in [Mutexes -> 0..NoPrio]
      /\ NoPrio \in Nat /\ \A n \in Mutexes : Distinct(x.waiters[n])
  BY SaneTypes DEF Sane, Listed
<1>2. \A n \in Mutexes : Holds(x.waiters[n], t) => n = m  BY DEF Sane, Listed
<1> DEFINE w == x.waiters[m]
           q == Unlink(w, t)
           e == Enqueue(q, t, "PRIO", x.prio)
<1>3. /\ y.owner = x.owner /\ y.prio = x.prio
      /\ \A n \in Mutexes : y.waiters[n] = IF n = m THEN e ELSE x.waiters[n]
      /\ \A n \in Mutexes : n # m => y.mpri[n] = x.mpri[n]
      /\ y.mpri[m] = FirstPriority(y, m)
  BY <1>1 DEF Sorts
<1>4. w \in Seq(Threads) /\ Distinct(w) /\ Sorted(q, x.prio)  BY <1>1 DEF OrderlyBut
<1> HIDE DEF w
<1>5. q \in Seq(Threads) /\ Distinct(q) /\ ~Holds(q, t)  BY <1>4, UnlinkFacts
<1> HIDE DEF q
<1>6. x.prio \in [Threads -> Nat]  BY <1>1
<1>7. e \in Seq(Threads) /\ Distinct(e) /\ Sorted(e, x.prio) /\ Holds(e, t)
  BY <1>4, <1>5, <1>6, EnqueueFacts, EnqueueSorted
<1> HIDE DEF e
<1>8. e # <<>>  BY <1>7, EmptyHoldsNobody
<1>9. y.mpri[m] = x.prio[Head(e)]  BY <1>3, <1>8 DEF FirstPriority
<1>10. \A u \in Threads : Holds(e, u) => y.mpri[m] <= x.prio[u]
  BY <1>6, <1>7, <1>8, <1>9, SortedFirst
<1>11. ASSUME NEW n \in Mutexes
       PROVE  /\ Distinct(y.waiters[n])
              /\ Sorted(y.waiters[n], y.prio)
              /\ n # m /\ y.owner[n] \in Threads => y.prio[y.owner[n]] <= y.mpri[n]
              /\ \A u \in Threads : Holds(y.waiters[n], u) => y.mpri[n] <= y.prio[u]
  <2>1. CASE n = m
    <3>1. y.waiters[n] = e  BY <1>3, <2>1
    <3> QED  BY <1>3, <1>7, <1>10, <2>1, <3>1
  <2>2. CASE n # m
    <3>1. y.waiters[n] = x.waiters[n] /\ y.mpri[n] = x.mpri[n] /\ y.owner = x.owner /\ y.prio = x.prio
      BY <1>3, <2>2
    <3>2. ~Holds(x.waiters[n], t)  BY <1>2, <2>2
    <3>3. Unlink(x.waiters[n], t) = x.waiters[n]  BY <3>2 DEF Unlink
    <3>4. /\ Sorted(x.waiters[n], x.prio)
          /\ x.owner[n] \in Threads => x.prio[x.owner[n]] <= x.mpri[n]
          /\ \A u \in Threads \ {t} : Holds(x.waiters[n], u) => x.mpri[n] <= x.prio[u]
      BY <3>3 DEF OrderlyBut
    <3> QED  BY <1>1, <3>1, <3>2, <3>4
  <2> QED  BY <2>1, <2>2
<1>12. y.mpri[m] <= y.prio[t]  BY <1>3, <1>7, <1>10
<1> QED  BY <1>11, <1>12

\* Pairs a priority that is passed on may yet come to, from thread t on.
Ahead(x, t) ==
    {e \in Threads \X (0..(NoPrio - 1)) :
        e[2] < x.prio[t] \/ (e[2] = x.prio[t] /\ x.prio[e[1]] # e[2])}

LEMMA RoundOrderly ==
    ASSUME NEW c, NEW t, NEW x, c.thread = t, c.state = x,
           NEW h, NEW ins, NEW g, Sane(x, h, ins, g), g \cap Mutexes = {},
           OrderlyBut(x, t)
    PROVE  /\ OrderlyBut(Round(c).state, Round(c).thread)
           /\ Suspended(x, t) =>
                 \/ Round(c).thread = NoThread
                 \/ /\ Round(c).thread \in Threads
                    /\ \E e \in Ahead(x, t) :
                          Ahead(Round(c).state, Round(c).thread) \subseteq Ahead(x, t) \ {e}
<1>0. /\ x \in MutexStates /\ x.owner \in [Mutexes -> Threads \cup {NoThread}]
      /\ x.prio \in [Threads -> 0..(NoPrio - 1)] /\ NoThread \notin Threads /\ NoPrio \in Nat
  BY SaneTypes
<1>1. CASE ~Suspended(x, t)
  <2>1. Round(c) = c  BY <1>1 DEF Round
  <2> QED  BY <1>1, <2>1
<1>2. CASE Suspended(x, t)
  <2>1. PICK m \in Mutexes, y \in MutexStates : Follows(c, t, m, x, y)  BY <1>2, RoundIs
  <2> DEFINE o == x.owner[m]
             due == DuePriority(y, o)
             z == Round(c).state
  <2>2. /\ t \in Threads /\ Holds(x.waiters[m], t) /\ o \in Threads /\ Sorts(y, x, t, m)
        /\ due = y.prio[o] => Round(c) = [thread |-> NoThread, state |-> y]
        /\ due # y.prio[o] => Round(c).thread = o /\ Sets(z, y, o, due)
    BY <2>1 DEF Follows
  <2>3. /\ y.mpri[m] <= y.prio[t]
        /\ \A n \in Mutexes :
              /\ Distinct(y.waiters[n])
              /\ Sorted(y.waiters[n], y.prio)
              /\ n # m /\ y.owner[n] \in Threads => y.prio[y.owner[n]] <= y.mpri[n]
              /\ \A u \in Threads : Holds(y.waiters[n], u) => y.mpri[n] <= y.prio[u]
    BY <2>2, SortedIn
  <2>4. y.owner = x.owner /\ y.taken = x.taken /\ y.prio = x.prio  BY <2>2 DEF Sorts
  <2>5. due \in 0..(NoPrio - 1) /\ \A n \in y.taken[o] : due <= y.mpri[n]
    <3> HIDE DEF o
    <3>1. IsDue(due, y, o)  BY <2>2, DueIs
    <3> QED  BY <3>1 DEF IsDue
  <2>6. \A n \in Mutexes : y.owner[n] = o => due <= y.mpri[n]
    <3>1. \A n \in Mutexes : y.owner[n] = o => n \in y.taken[o]
      BY <2>2, <2>4 DEF Sane, Taken
    <3> HIDE DEF o, due
    <3> QED  BY <2>5, <3>1
  <2>7. y.owner[m] = o  BY <2>4
  <2>8. /\ y.waiters \in [Mutexes -> Seq(Threads)] /\ y.mpri \in [Mutexes -> 0..NoPrio]
        /\ y.prio \in [Threads -> 0..(NoPrio - 1)]
    BY DEF MutexStates
  <2> HIDE DEF o, due, z
  <2>9. CASE due = y.prio[o]
    <3>1. Round(c) = [thread |-> NoThread, state |-> y]  BY <2>2, <2>9
    <3>2. \A n \in Mutexes : ~Holds(y.waiters[n], NoThread)
      BY <1>0, <2>8, HeldIsElement
    <3>3. \A n \in Mutexes : Unlink(y.waiters[n], NoThread) = y.waiters[n]
      BY <3>2 DEF Unlink
    <3>4. \A n \in Mutexes : y.owner[n] \in Threads => y.prio[y.owner[n]] <= y.mpri[n]
      <4>1. y.prio[y.owner[m]] <= y.mpri[m]  BY <2>6, <2>7, <2>9
      <4> QED  BY <2>3, <4>1
    <3>5. OrderlyBut(y, NoThread)  BY <2>3, <3>3, <3>4 DEF OrderlyBut
    <3> QED  BY <3>1, <3>5
  <2>10. CASE due # y.prio[o]
    <3>1. Round(c).thread = o /\ Round(c).state = z /\ Sets(z, y, o, due)
      BY <2>2, <2>10 DEF z
    <3>2. /\ z \in MutexStates /\ z.owner = y.owner /\ z.waiters = y.waiters /\ z.mpri = y.mpri
          /\ z.prio[o] = due /\ \A u \in Threads \ {o} : z.prio[u] = y.prio[u]
      BY <2>2, <2>8, <3>1 DEF Sets
    <3>3. \A n \in Mutexes : Sorted(Unlink(y.waiters[n], o), y.prio)
      BY <2>3, <2>8, UnlinkSorted
    <3>4. \A n \in Mutexes : y.owner[n] \in Threads \ {o} => y.prio[y.owner[n]] <= y.mpri[n]
      BY <2>3, <2>7
    <3>5. \A n \in Mutexes : y.owner[n] = o => z.prio[o] <= y.mpri[n]  BY <2>6, <3>2
    <3>6. OrderlyBut(z, o)  BY <2>2, <2>3, <3>2, <3>3, <3>4, <3>5, PrioBut
    <3>7. due <= x.prio[t] /\ x.prio[o] # due
      <4>1. due <= y.mpri[m] /\ y.mpri[m] <= x.prio[t]  BY <2>3, <2>4, <2>6, <2>7
      <4>2. y.mpri[m] \in Nat /\ x.prio[t] \in Nat /\ due \in Nat  BY <1>0, <2>2, <2>5, <2>8
      <4> QED  BY <2>4, <2>10, <4>1, <4>2
    <3> DEFINE e == <<o, due>>
    <3>8. e \in Ahead(x, t)
      <4>1. e \in Threads \X (0..(NoPrio - 1)) /\ e[1] = o /\ e[2] = due  BY <2>2, <2>5
      <4>2. due < x.prio[t] \/ due = x.prio[t]  BY <1>0, <2>2, <2>5, <3>7
      <4> QED  BY <3>7, <4>1, <4>2 DEF Ahead
    <3>9. ASSUME NEW f \in Ahead(z, o) PROVE f \in Ahead(x, t) /\ f # e
      <4>1. /\ f \in Threads \X (0..(NoPrio - 1))
            /\ f[2] < due \/ (f[2] = due /\ z.prio[f[1]] # due)
        BY <3>2 DEF Ahead
      <4>2. f[1] \in Threads /\ f[2] \in 0..(NoPrio - 1)  BY <4>1
      <4>3. x.prio[t] \in Nat /\ due \in Nat /\ f[2] \in Nat  BY <1>0, <2>2, <2>5, <4>2
      <4>4. f # e  BY <3>2, <4>1, <4>3
      <4>5. f[2] < x.prio[t] \/ (f[2] = x.prio[t] /\ x.prio[f[1]] # f[2])
        <5>1. CASE f[2] < x.prio[t]  BY <5>1
        <5>2. CASE ~(f[2] < x.prio[t])
          <6>1. f[2] = due /\ due = x.prio[t] /\ z.prio[f[1]] # due  BY <3>7, <4>1, <4>3, <5>2
          <6>2. f[1] # o  BY <3>2, <6>1
          <6>3. z.prio[f[1]] = x.prio[f[1]]  BY <2>4, <3>2, <4>2, <6>2
          <6> QED  BY <6>1, <6>3
        <5> QED  BY <5>1, <5>2
      <4> QED  BY <4>1, <4>4, <4>5 DEF Ahead
    <3> HIDE DEF e
    <3>10. Ahead(z, o) \subseteq Ahead(x, t) \ {e}  BY <3>9
    <3> QED  BY <2>2, <3>1, <3>6, <3>8, <3>10
  <2> QED  BY <2>9, <2>10
<1> QED  BY <1>1, <1>2

LEMMA AheadFinite ==
    ASSUME NEW x \in MutexStates, NEW t \in Threads
    PROVE  /\ IsFiniteSet(Ahead(x, t)) /\ Cardinality(Ahead(x, t)) \in Nat
           /\ Cardinality(Ahead(x, t)) < Cardinality(Threads) * NoPrio
<1> DEFINE I == 0..(NoPrio - 1)
           A == Threads \X I
           e == <<t, x.prio[t]>>
<1>1. NoPrio \in Nat /\ IsFiniteSet(Threads) /\ x.prio[t] \in I
  BY MutexAssumption DEF MutexStates
<1>2. IsFiniteSet(I) /\ Cardinality(I) = NoPrio
  <2>1. 0 \in Int /\ NoPrio - 1 \in Int /\ (0 > NoPrio - 1 => NoPrio = 0)
        /\ NoPrio - 1 - 0 + 1 = NoPrio
    BY <1>1
  <2> QED  BY <2>1, FS_Interval
<1> HIDE DEF I
<1>3. IsFiniteSet(A) /\ Cardinality(A) = Cardinality(Threads) * NoPrio
  BY <1>1, <1>2, FS_Product
<1>4. e \in A  BY <1>1
<1>5. Ahead(x, t) \subseteq A \ {e}
  <2>1. \A f \in Ahead(x, t) : f \in A  BY DEF Ahead, I
  <2>2. ~(x.prio[t] < x.prio[t])  BY <1>1 DEF I
  <2>3. e \notin Ahead(x, t)  BY <2>2 DEF Ahead
  <2> QED  BY <2>1, <2>3
<1> HIDE DEF A, e
<1>6. IsFiniteSet(A \ {e}) /\ Cardinality(A \ {e}) = Cardinality(A) - 1
  BY <1>3, <1>4, FS_RemoveElement
<1>7. IsFiniteSet(Ahead(x, t)) /\ Cardinality(Ahead(x, t)) <= Cardinality(A \ {e})
  BY <1>5, <1>6, FS_Subset
<1>8. Cardinality(Ahead(x, t)) \in Nat /\ Cardinality(A) \in Nat
  BY <1>3, <1>7, FS_CardinalityType
<1>9. Cardinality(Ahead(x, t)) < Cardinality(A)  BY <1>6, <1>7, <1>8
<1> QED  BY <1>3, <1>7, <1>8, <1>9

\* _thread_update_priority comes to an end, and leaves everything in order, when the new
\* priority asks for nothing but to be passed on.
LEMMA UpdateOrderly ==
    ASSUME NEW s, NEW h, NEW ins, NEW g, Sane(s, h, ins, g), g \cap Mutexes = {},
           NEW t \in Threads, NEW p \in 0..(NoPrio - 1),
           OrderlyBut([s EXCEPT !.prio[t] = p], t)
    PROVE  Orderly(UpdatePriority(s, t, p))
<1> DEFINE y == [s EXCEPT !.prio[t] = p]
           N == Cardinality(Threads) * NoPrio
           size(c) == Cardinality(Ahead(c.state, c.thread))
<1>1. PICK e : /\ e[0] = [thread |-> t, state |-> y]
               /\ \A k \in 0..Rounds : e[k] \in LoopStates(s)
               /\ \A k \in 1..Rounds : e[k] = Round(e[k - 1])
               /\ UpdatePriority(s, t, p) = e[Rounds].state
  BY UpdateRuns
<1>2. /\ OrderlyBut(y, t) /\ Rounds \in Nat /\ Rounds >= N /\ N \in Nat
  <2>1. Rounds \in Nat /\ Rounds >= Cardinality(Threads) * NoPrio /\ NoPrio \in Nat
        /\ Cardinality(Threads) \in Nat
    BY MutexAssumption, RoundsAssumption, FS_CardinalityType
  <2>2. Cardinality(Threads) * NoPrio \in Nat  BY <2>1
  <2> QED  BY <2>1, <2>2
<1> HIDE DEF y, N
<1>3. \A k \in 0..Rounds : /\ e[k].state \in MutexStates
                           /\ e[k].thread \in Threads \cup {NoThread}
                           /\ Sane(e[k].state, h, ins, g)
  <2>1. \A k \in 0..Rounds : /\ e[k].state \in MutexStates
                             /\ e[k].thread \in Threads \cup {NoThread}
                             /\ Slackens(e[k].state, s)
    BY <1>1 DEF LoopStates
  <2> QED  BY <2>1, SlackensSane
\* A round is the last, or there is less ahead of it.
<1> DEFINE fine(k) ==
        /\ OrderlyBut(e[k].state, e[k].thread)
        /\ Suspended(e[k].state, e[k].thread) => size(e[k]) + k < N
    P == {k \in 0..Rounds : fine(k)}
<1>4. ASSUME NEW k \in 0..Rounds, e[k].thread = NoThread
      PROVE  ~Suspended(e[k].state, e[k].thread)
  <2>1. \A m \in Mutexes : e[k].state.waiters[m] \in Seq(Threads)
    BY <1>3 DEF MutexStates
  <2>2. NoThread \notin Threads  BY MutexAssumption
  <2> QED  BY <1>4, <2>1, <2>2, HeldIsElement DEF Suspended
<1>5. ASSUME NEW k \in 0..Rounds, e[k].thread \in Threads
      PROVE  IsFiniteSet(Ahead(e[k].state, e[k].thread)) /\ size(e[k]) \in Nat /\ size(e[k]) < N
  BY <1>3, <1>5, AheadFinite DEF N
<1>6. 0 \in P
  <2>1. 0 \in 0..Rounds /\ e[0].thread = t /\ e[0].state = y  BY <1>1, <1>2
  <2>2. size(e[0]) \in Nat /\ size(e[0]) < N  BY <1>5, <2>1
  <2>3. size(e[0]) + 0 < N  BY <2>2
  <2> QED  BY <1>2, <2>1, <2>3
<1>7. ASSUME NEW k \in 1..Rounds, k - 1 \in P PROVE k \in P
  <2> DEFINE j == k - 1
             b == e[j]
  <2>1. j \in 0..Rounds /\ k \in 0..Rounds /\ e[k] = Round(b) /\ k = j + 1 /\ j \in Nat
    BY <1>1, <1>2
  <2>2. fine(j)  BY <1>7
  <2>3. Sane(b.state, h, ins, g)  BY <1>3, <2>1
  <2>4. /\ OrderlyBut(e[k].state, e[k].thread)
        /\ Suspended(b.state, b.thread) =>
              \/ e[k].thread = NoThread
              \/ /\ e[k].thread \in Threads
                 /\ \E f \in Ahead(b.state, b.thread) :
                       Ahead(e[k].state, e[k].thread) \subseteq Ahead(b.state, b.thread) \ {f}
    BY <2>1, <2>2, <2>3, RoundOrderly
  <2>5. ASSUME Suspended(e[k].state, e[k].thread) PROVE size(e[k]) + k < N
    <3>1. e[k].thread # NoThread  BY <1>4, <2>1, <2>5
    <3>2. Suspended(b.state, b.thread)
      <4>1. ~Suspended(b.state, b.thread) => Round(b) = b  BY DEF Round
      <4> QED  BY <2>1, <2>5, <4>1
    <3>3. PICK f \in Ahead(b.state, b.thread) :
             Ahead(e[k].state, e[k].thread) \subseteq Ahead(b.state, b.thread) \ {f}
      BY <2>4, <3>1, <3>2
    <3>4. b.thread # NoThread  BY <1>4, <2>1, <3>2
    <3>5. e[k].thread \in Threads /\ b.thread \in Threads  BY <1>3, <2>1, <3>1, <3>4
    <3>6. /\ IsFiniteSet(Ahead(b.state, b.thread)) /\ size(b) \in Nat /\ size(e[k]) \in Nat
      BY <1>5, <2>1, <3>5
    <3> DEFINE A == Ahead(b.state, b.thread)
               B == Ahead(e[k].state, e[k].thread)
    <3>7. f \in A /\ B \subseteq A \ {f} /\ IsFiniteSet(A)  BY <3>3, <3>6
    <3>8. size(b) = Cardinality(A) /\ size(e[k]) = Cardinality(B)  OBVIOUS
    <3> HIDE DEF A, B
    <3>9. IsFiniteSet(A \ {f}) /\ Cardinality(A \ {f}) = Cardinality(A) - 1
      BY <3>7, FS_RemoveElement
    <3>10. Cardinality(B) <= Cardinality(A \ {f})  BY <3>7, <3>9, FS_Subset
    <3>11. size(b) + j < N  BY <2>2, <3>2
    <3> HIDE DEF size, b, j
    <3> QED  BY <1>2, <2>1, <3>6, <3>8, <3>9, <3>10, <3>11
  <2> QED  BY <2>1, <2>4, <2>5
<1> HIDE DEF P
<1>8. Rounds \in 0..Rounds  BY <1>2
<1>9. Rounds \in P  BY <1>2, <1>6, <1>7, <1>8, RoundsInduction
<1>10. fine(Rounds)  BY <1>9 DEF P
<1> DEFINE z == e[Rounds]
<1>11. ~Suspended(z.state, z.thread)
  <2> SUFFICES ASSUME Suspended(z.state, z.thread) PROVE FALSE
    OBVIOUS
  <2>1. z.thread # NoThread  BY <1>4, <1>8
  <2>2. z.thread \in Threads  BY <1>3, <1>8, <2>1
  <2>3. size(z) \in Nat  BY <1>5, <1>8, <2>2
  <2>4. size(z) + Rounds < N  BY <1>10
  <2> HIDE DEF size, z
  <2> QED  BY <1>2, <2>3, <2>4
<1>12. \A m \in Mutexes : ~Holds(z.state.waiters[m], z.thread)  BY <1>11 DEF Suspended
<1>13. OrderlyBut(z.state, z.thread)  BY <1>10
<1> HIDE DEF z, size
<1>14. Orderly(z.state)  BY <1>12, <1>13, ButNobody
<1> QED  BY <1>1, <1>14 DEF z

-----------------------------------------------------------------------------
(***************************************************************************)
(* Mutex: passing on and leaving keep things in order.                     *)
(***************************************************************************)
\* A priority with which o outranks whatever its mutexes ask for is passed on.
LEMMA PassOrderly ==
    ASSUME NEW s, NEW h, NEW ins, NEW g, Sane(s, h, ins, g), g \cap Mutexes = {},
           NEW o \in Threads, NEW p \in 0..(NoPrio - 1),
           \A m \in Mutexes :
               /\ Sorted(s.waiters[m], s.prio)
               /\ s.owner[m] = o => p <= s.mpri[m]
               /\ s.owner[m] \in Threads \ {o} => s.prio[s.owner[m]] <= s.mpri[m]
               /\ \A u \in Threads : Holds(s.waiters[m], u) => s.mpri[m] <= s.prio[u]
    PROVE  Orderly(UpdatePriority(s, o, p))
<1> DEFINE y == [s EXCEPT !.prio[o] = p]
           pr == [s.prio EXCEPT ![o] = p]
<1>1. /\ s \in MutexStates /\ s.waiters \in [Mutexes -> Seq(Threads)]
      /\ s.prio \in [Threads -> 0..(NoPrio - 1)] /\ \A m \in Mutexes : Distinct(s.waiters[m])
  BY SaneTypes DEF Sane, Listed
<1>2. /\ pr \in [Threads -> 0..(NoPrio - 1)] /\ pr[o] = p
      /\ \A u \in Threads \ {o} : pr[u] = s.prio[u]
  BY <1>1
<1>3. y = [s EXCEPT !.prio = pr]  BY <1>1 DEF MutexStates
<1> HIDE DEF y, pr
<1>4. /\ y \in MutexStates /\ y.owner = s.owner /\ y.waiters = s.waiters /\ y.mpri = s.mpri
      /\ y.prio = pr
  BY <1>1, <1>2, <1>3 DEF MutexStates
<1>5. \A m \in Mutexes : Sorted(Unlink(s.waiters[m], o), s.prio)  BY <1>1, UnlinkSorted
<1>6. \A m \in Mutexes : s.owner[m] = o => y.prio[o] <= s.mpri[m]  BY <1>2, <1>4
<1>7. \A u \in Threads \ {o} : y.prio[u] = s.prio[u]  BY <1>2, <1>4
<1>8. OrderlyBut(y, o)  BY <1>1, <1>4, <1>5, <1>6, <1>7, PrioBut
<1>9. OrderlyBut([s EXCEPT !.prio[o] = p], o)  BY <1>8 DEF y
<1> QED  BY <1>9, UpdateOrderly

LEMMA RefreshOrderly ==
    ASSUME NEW s, NEW h, NEW ins, NEW g, Sane(s, h, ins, g), g \cap Mutexes = {},
           NEW o \in Threads, Orderly(s)
    PROVE  Orderly(Refresh(s, o))
<1> DEFINE p == DuePriority(s, o)
<1>1. s \in MutexStates  BY SaneTypes
<1>2. p \in 0..(NoPrio - 1) /\ \A m \in s.taken[o] : p <= s.mpri[m]
  BY <1>1, DueIs DEF IsDue
<1> HIDE DEF p
<1>3. \A m \in Mutexes : s.owner[m] = o => p <= s.mpri[m]
  <2>1. \A m \in Mutexes : s.owner[m] = o => m \in s.taken[o]  BY DEF Sane, Taken
  <2> QED  BY <1>2, <2>1
<1>4. \A m \in Mutexes :
          /\ Sorted(s.waiters[m], s.prio)
          /\ s.owner[m] = o => p <= s.mpri[m]
          /\ s.owner[m] \in Threads \ {o} => s.prio[s.owner[m]] <= s.mpri[m]
          /\ \A u \in Threads : Holds(s.waiters[m], u) => s.mpri[m] <= s.prio[u]
  BY <1>3 DEF Orderly
<1>5. Orderly(UpdatePriority(s, o, p))  BY <1>2, <1>4, PassOrderly
<1> QED  BY <1>5 DEF Refresh, p

\* In a list in order, a mutex asks for what its first waiter has.
LEMMA FirstOrderly ==
    ASSUME NEW s \in MutexStates, NEW m \in Mutexes, Sorted(s.waiters[m], s.prio)
    PROVE  /\ \A u \in Threads : Holds(s.waiters[m], u) => FirstPriority(s, m) <= s.prio[u]
           /\ FirstPriority(s, m) = NoPrio \/
                 \E u \in Threads : Holds(s.waiters[m], u) /\ FirstPriority(s, m) = s.prio[u]
<1> DEFINE w == s.waiters[m]
<1>1. w \in Seq(Threads) /\ s.prio \in [Threads -> Nat] /\ Sorted(w, s.prio)
  <2>1. s.prio \in [Threads -> 0..(NoPrio - 1)] /\ w \in Seq(Threads) /\ NoPrio \in Nat
    BY MutexAssumption DEF MutexStates
  <2> QED  BY <2>1
<1>2. FirstPriority(s, m) = IF w = <<>> THEN NoPrio ELSE s.prio[Head(w)]
  BY DEF FirstPriority
<1> HIDE DEF w
<1>3. CASE w = <<>>
  <2>1. \A u \in Threads : ~Holds(w, u)  BY <1>1, <1>3, EmptyHoldsNobody
  <2> QED  BY <1>2, <1>3, <2>1 DEF w
<1>4. CASE w # <<>>
  <2>1. /\ Head(w) \in Threads /\ Holds(w, Head(w))
        /\ \A u \in Threads : Holds(w, u) => s.prio[Head(w)] <= s.prio[u]
    BY <1>1, <1>4, SortedFirst
  <2> QED  BY <1>2, <1>4, <2>1 DEF w
<1> QED  BY <1>3, <1>4

LEMMA AskedOrderly ==
    ASSUME NEW s, NEW h, NEW ins, NEW g, Sane(s, h, ins, g), Orderly(s), NEW m \in Mutexes
    PROVE  Orderly([s EXCEPT !.mpri[m] = FirstPriority(s, m)])
<1> DEFINE f == FirstPriority(s, m)
           ms == [s.mpri EXCEPT ![m] = f]
           r == [s EXCEPT !.mpri[m] = FirstPriority(s, m)]
<1>1. /\ s \in MutexStates /\ s.mpri \in [Mutexes -> 0..NoPrio] /\ NoPrio \in Nat
      /\ s.prio \in [Threads -> 0..(NoPrio - 1)]
  BY SaneTypes
<1>2. f \in 0..NoPrio  BY <1>1, FirstPriorityType
<1>3. \A n \in Mutexes :
          /\ Sorted(s.waiters[n], s.prio)
          /\ s.owner[n] \in Threads => s.prio[s.owner[n]] <= s.mpri[n]
          /\ \A u \in Threads : Holds(s.waiters[n], u) => s.mpri[n] <= s.prio[u]
  BY DEF Orderly
<1>4. /\ \A u \in Threads : Holds(s.waiters[m], u) => f <= s.prio[u]
      /\ f = NoPrio \/ \E u \in Threads : Holds(s.waiters[m], u) /\ f = s.prio[u]
  BY <1>1, <1>3, FirstOrderly
<1>5. r = [s EXCEPT !.mpri = ms]  BY <1>1 DEF MutexStates
<1> HIDE DEF f, r
<1>6. \A n \in Mutexes : ms[n] = IF n = m THEN f ELSE s.mpri[n]  BY <1>1
<1> HIDE DEF ms
<1>7. r.owner = s.owner /\ r.waiters = s.waiters /\ r.prio = s.prio /\ r.mpri = ms
  BY <1>1, <1>5 DEF MutexStates
<1>8. s.owner[m] \in Threads => s.prio[s.owner[m]] <= f
  <2> SUFFICES ASSUME s.owner[m] \in Threads PROVE s.prio[s.owner[m]] <= f
    OBVIOUS
  <2> DEFINE v == s.prio[s.owner[m]]
  <2>1. v \in 0..(NoPrio - 1) /\ v <= s.mpri[m] /\ s.mpri[m] \in 0..NoPrio  BY <1>1, <1>3
  <2> HIDE DEF v
  <2>2. CASE f = NoPrio
    <3>1. v <= NoPrio  BY <1>1, <2>1
    <3> QED  BY <2>2, <3>1 DEF v
  <2>3. CASE f # NoPrio
    <3>1. PICK u \in Threads : Holds(s.waiters[m], u) /\ f = s.prio[u]  BY <1>4, <2>3
    <3>2. s.mpri[m] <= f  BY <1>3, <3>1
    <3>3. v <= f  BY <1>2, <2>1, <3>2
    <3> QED  BY <3>3 DEF v
  <2> QED  BY <2>2, <2>3
<1>9. Orderly(r)
  <2>1. ASSUME NEW n \in Mutexes
        PROVE  /\ Sorted(r.waiters[n], r.prio)
               /\ r.owner[n] \in Threads => r.prio[r.owner[n]] <= r.mpri[n]
               /\ \A u \in Threads : Holds(r.waiters[n], u) => r.mpri[n] <= r.prio[u]
    <3>1. CASE n = m  BY <1>3, <1>4, <1>6, <1>7, <1>8, <3>1
    <3>2. CASE n # m  BY <1>3, <1>6, <1>7, <3>2
    <3> QED  BY <3>1, <3>2
  <2> QED  BY <2>1 DEF Orderly
<1> QED  BY <1>9 DEF r

LEMMA LeaveOrderly ==
    ASSUME NEW s, NEW h, NEW ins, NEW g, Sane(s, h, ins, g), g \cap Mutexes = {},
           Orderly(s), NEW t, NEW m \in Mutexes
    PROVE  Orderly(LeaveWait(s, t, m))
<1> DEFINE o == s.owner[m]
           asking == [s EXCEPT !.mpri[m] = FirstPriority(s, m)]
<1>1. Slackens(asking, s) /\ Orderly(asking)  BY AskedSlackens, AskedOrderly
<1>2. LeaveWait(s, t, m) = IF o # NoThread /\ s.prio[o] = s.prio[t] THEN Refresh(asking, o) ELSE asking
  BY DEF LeaveWait
<1> HIDE DEF asking
<1>3. Sane(asking, h, ins, g)  BY <1>1, SlackensSane
<1>4. CASE o # NoThread
  <2>1. o \in Threads  BY <1>4 DEF Sane, MutexStates
  <2> HIDE DEF o
  <2>2. Orderly(Refresh(asking, o))  BY <1>1, <1>3, <2>1, RefreshOrderly
  <2> QED  BY <1>1, <1>2, <2>2
<1>5. CASE o = NoThread  BY <1>1, <1>2, <1>5
<1> QED  BY <1>4, <1>5

-----------------------------------------------------------------------------
(***************************************************************************)
(* Mutex: passing on leaves everybody what is due.                         *)
(***************************************************************************)
AllDue(s, g) == \A u \in Threads \ g : s.prio[u] = DuePriority(s, u)

\* Only the owner of m depends on what m asks for.
LEMMA OthersDue ==
    ASSUME NEW s, NEW h, NEW ins, NEW g, Sane(s, h, ins, g), NEW m \in Mutexes,
           NEW r \in MutexStates, NEW u \in Threads, r.taken[u] = s.taken[u],
           \A n \in Mutexes \ {m} : r.mpri[n] = s.mpri[n] /\ r.ceil[n] = s.ceil[n],
           s.owner[m] # u
    PROVE  DuePriority(r, u) = DuePriority(s, u)
<1>1. s \in MutexStates /\ s.taken \in [Threads -> SUBSET Mutexes]  BY SaneTypes
<1>2. m \notin s.taken[u]  BY DEF Sane, Taken
<1>3. \A n \in s.taken[u] : n \in Mutexes \ {m}  BY <1>1, <1>2
<1> QED  BY <1>1, <1>3, DueSame

LEMMA RoundDue ==
    ASSUME NEW c, NEW t, NEW x, c.thread = t, c.state = x,
           NEW h, NEW ins, NEW g, Sane(x, h, ins, g), NEW a, AllDue(x, a)
    PROVE  AllDue(Round(c).state, a)
<1>1. CASE ~Suspended(x, t)
  <2>1. Round(c) = c  BY <1>1 DEF Round
  <2> QED  BY <2>1
<1>2. CASE Suspended(x, t)
  <2>1. PICK m \in Mutexes, y \in MutexStates : Follows(c, t, m, x, y)  BY <1>2, RoundIs
  <2> DEFINE o == x.owner[m]
             due == DuePriority(y, o)
             z == Round(c).state
  <2>2. /\ o \in Threads /\ Sorts(y, x, t, m)
        /\ due = y.prio[o] => Round(c) = [thread |-> NoThread, state |-> y]
        /\ due # y.prio[o] => Sets(z, y, o, due)
    BY <2>1 DEF Follows
  <2>3. /\ y.taken = x.taken /\ y.prio = x.prio
        /\ \A n \in Mutexes \ {m} : y.mpri[n] = x.mpri[n] /\ y.ceil[n] = x.ceil[n]
    <3>1. x.mpri \in [Mutexes -> 0..NoPrio]  BY SaneTypes
    <3> QED  BY <2>2, <3>1 DEF Sorts
  <2>4. ASSUME NEW u \in Threads \ a, u # o PROVE y.prio[u] = DuePriority(y, u)
    <3>1. x.owner[m] # u /\ y.taken[u] = x.taken[u]  BY <2>3, <2>4
    <3>2. DuePriority(y, u) = DuePriority(x, u)  BY <2>3, <3>1, OthersDue
    <3> QED  BY <2>3, <3>2 DEF AllDue
  <2> HIDE DEF o, z
  <2>5. CASE due = y.prio[o]
    <3>1. AllDue(y, a)  BY <2>4, <2>5 DEF AllDue
    <3> QED  BY <2>2, <2>5, <3>1
  <2>6. CASE due # y.prio[o]
    <3>1. y.prio \in [Threads -> 0..(NoPrio - 1)]  BY DEF MutexStates
    <3>2. /\ z \in MutexStates /\ z.taken = y.taken /\ z.mpri = y.mpri /\ z.ceil = y.ceil
          /\ z.prio[o] = DuePriority(y, o) /\ \A u \in Threads \ {o} : z.prio[u] = y.prio[u]
      BY <2>2, <2>6, <3>1 DEF Sets
    <3> HIDE DEF due
    <3>3. \A u \in Threads : DuePriority(z, u) = DuePriority(y, u)  BY <3>2, DueSame
    <3>4. AllDue(z, a)  BY <2>4, <3>2, <3>3 DEF AllDue
    <3> QED  BY <3>4 DEF z
  <2> QED  BY <2>5, <2>6
<1> QED  BY <1>1, <1>2

LEMMA UpdateDue ==
    ASSUME NEW s, NEW h, NEW ins, NEW g, Sane(s, h, ins, g), NEW t \in Threads,
           NEW p \in 0..(NoPrio - 1), NEW a,
           \A u \in Threads \ a : u # t => s.prio[u] = DuePriority(s, u),
           t \in a \/ p = DuePriority(s, t)
    PROVE  AllDue(UpdatePriority(s, t, p), a)
<1> DEFINE y == [s EXCEPT !.prio[t] = p]
<1>1. PICK e : /\ e[0] = [thread |-> t, state |-> y]
               /\ \A k \in 0..Rounds : e[k] \in LoopStates(s)
               /\ \A k \in 1..Rounds : e[k] = Round(e[k - 1])
               /\ UpdatePriority(s, t, p) = e[Rounds].state
  BY UpdateRuns
<1>2. Rounds \in Nat /\ s \in MutexStates /\ s.prio \in [Threads -> 0..(NoPrio - 1)]
  BY MutexAssumption, SaneTypes
<1>3. \A k \in 0..Rounds : Sane(e[k].state, h, ins, g)
  <2>1. \A k \in 0..Rounds : Slackens(e[k].state, s)  BY <1>1 DEF LoopStates
  <2> QED  BY <2>1, SlackensSane
<1>4. AllDue(y, a)
  <2> DEFINE pr == [s.prio EXCEPT ![t] = p]
  <2>1. /\ pr \in [Threads -> 0..(NoPrio - 1)] /\ pr[t] = p
        /\ \A u \in Threads \ {t} : pr[u] = s.prio[u]
    BY <1>2
  <2>2. y = [s EXCEPT !.prio = pr]  BY <1>2 DEF MutexStates
  <2> HIDE DEF y, pr
  <2>3. /\ y \in MutexStates /\ y.taken = s.taken /\ y.mpri = s.mpri /\ y.ceil = s.ceil
        /\ y.prio = pr
    BY <1>2, <2>1, <2>2 DEF MutexStates
  <2>4. \A u \in Threads : DuePriority(y, u) = DuePriority(s, u)  BY <1>2, <2>3, DueSame
  <2> QED  BY <2>1, <2>3, <2>4 DEF AllDue
<1> HIDE DEF y
<1> DEFINE P == {k \in 0..Rounds : AllDue(e[k].state, a)}
<1>5. 0 \in P  BY <1>1, <1>2, <1>4
<1>6. ASSUME NEW k \in 1..Rounds, k - 1 \in P PROVE k \in P
  <2> DEFINE j == k - 1
  <2>1. j \in 0..Rounds /\ k \in 0..Rounds /\ e[k] = Round(e[j])  BY <1>1, <1>2
  <2>2. AllDue(e[j].state, a) /\ Sane(e[j].state, h, ins, g)  BY <1>3, <1>6, <2>1
  <2> HIDE DEF j
  <2>3. AllDue(Round(e[j]).state, a)  BY <2>2, RoundDue
  <2> QED  BY <2>1, <2>3
<1>7. Rounds \in 0..Rounds  BY <1>2
<1> HIDE DEF P
<1>8. Rounds \in P  BY <1>2, <1>5, <1>6, <1>7, RoundsInduction
<1> QED  BY <1>1, <1>8 DEF P

LEMMA RefreshDue ==
    ASSUME NEW s, NEW h, NEW ins, NEW g, Sane(s, h, ins, g), NEW o \in Threads, NEW a,
           \A u \in Threads \ a : u # o => s.prio[u] = DuePriority(s, u)
    PROVE  AllDue(Refresh(s, o), a)
<1> DEFINE p == DuePriority(s, o)
<1>1. p \in 0..(NoPrio - 1)  BY SaneTypes, DuePriorityType
<1>2. CASE p = s.prio[o]
  <2>1. AllDue(s, a)  BY <1>2 DEF AllDue
  <2> QED  BY <1>2, <2>1 DEF Refresh
<1>3. CASE p # s.prio[o]
  <2>1. Refresh(s, o) = UpdatePriority(s, o, p)  BY <1>3 DEF Refresh
  <2>2. p = DuePriority(s, o)  OBVIOUS
  <2> HIDE DEF p
  <2>3. AllDue(UpdatePriority(s, o, p), a)  BY <1>1, <2>2, UpdateDue
  <2> QED  BY <2>1, <2>3
<1> QED  BY <1>2, <1>3

-----------------------------------------------------------------------------
(***************************************************************************)
(* Mutex: giving up a mutex.                                               *)
(***************************************************************************)
\* c is s after the priority of t was checked, when t no longer lists m.
Checks(c, s, t, m) ==
    /\ c \in MutexStates
    /\ c.owner = s.owner /\ c.mpri = s.mpri /\ c.ceil = s.ceil /\ c.waiters = s.waiters
    /\ c.taken = s.taken
    /\ \A u \in Threads \ {t} : c.prio[u] = s.prio[u]
    /\ \/ c.prio[t] = DuePriority(s, t)
       \/ c.prio[t] = s.prio[t] /\ s.ceil[m] = NoPrio /\ s.prio[t] # s.mpri[m]

LEMMA CheckIs ==
    ASSUME NEW s \in MutexStates, NEW t \in Threads, NEW m
    PROVE  Checks(CheckAndUpdate(s, t, m), s, t, m)
<1> DEFINE d == DuePriority(s, t)
           pr == [s.prio EXCEPT ![t] = d]
           c == CheckAndUpdate(s, t, m)
<1>1. d \in 0..(NoPrio - 1) /\ s.prio \in [Threads -> 0..(NoPrio - 1)]
  BY DuePriorityType DEF MutexStates
<1>2. CASE s.ceil[m] # NoPrio \/ s.prio[t] = s.mpri[m]
  <2>1. c = [s EXCEPT !.prio[t] = d]  BY <1>2 DEF CheckAndUpdate
  <2>2. c = [s EXCEPT !.prio = pr]  BY <2>1 DEF MutexStates
  <2>3. pr \in [Threads -> 0..(NoPrio - 1)] /\ pr[t] = d
        /\ \A u \in Threads \ {t} : pr[u] = s.prio[u]
    BY <1>1
  <2> HIDE DEF c, pr
  <2>4. /\ c \in MutexStates /\ c.owner = s.owner /\ c.mpri = s.mpri /\ c.ceil = s.ceil
        /\ c.waiters = s.waiters /\ c.taken = s.taken /\ c.prio = pr
    BY <2>2, <2>3 DEF MutexStates
  <2>5. Checks(c, s, t, m)  BY <2>3, <2>4 DEF Checks
  <2> QED  BY <2>5 DEF c
<1>3. CASE ~(s.ceil[m] # NoPrio \/ s.prio[t] = s.mpri[m])
  <2>1. c = s  BY <1>3 DEF CheckAndUpdate
  <2> QED  BY <1>3, <2>1 DEF Checks
<1> QED  BY <1>2, <1>3

\* Without m, and with no ceiling on it, t has what the others of its mutexes ask for.
LEMMA CheckDue ==
    ASSUME NEW s \in MutexStates, NEW r \in MutexStates, NEW t \in Threads, NEW m \in Mutexes,
           r.taken[t] = s.taken[t] \ {m},
           \A u \in Threads \ {t} : r.taken[u] = s.taken[u],
           r.mpri = s.mpri, r.ceil = s.ceil, r.prio = s.prio,
           NEW a, AllDue(s, a), NEW c, Checks(c, r, t, m)
    PROVE  AllDue(c, a)
<1>1. \A u \in Threads : DuePriority(c, u) = DuePriority(r, u)
  <2>1. c \in MutexStates /\ c.taken = r.taken /\ c.mpri = r.mpri /\ c.ceil = r.ceil
    BY DEF Checks
  <2> QED  BY <2>1, DueSame
<1>2. ASSUME NEW u \in Threads \ a, u # t PROVE c.prio[u] = DuePriority(c, u)
  <2>1. r.taken[u] = s.taken[u] /\ c.prio[u] = s.prio[u]  BY <1>2 DEF Checks
  <2>2. DuePriority(r, u) = DuePriority(s, u)  BY <2>1, DueSame
  <2> QED  BY <1>1, <2>1, <2>2 DEF AllDue
<1>3. ASSUME t \notin a PROVE c.prio[t] = DuePriority(c, t)
  <2>1. CASE c.prio[t] = DuePriority(r, t)  BY <1>1, <2>1
  <2>2. CASE c.prio[t] # DuePriority(r, t)
    <3>1. c.prio[t] = s.prio[t] /\ s.ceil[m] = NoPrio /\ s.prio[t] # s.mpri[m]
      BY <2>2 DEF Checks
    <3> DEFINE v == s.prio[t]
    <3>2. v = DuePriority(s, t)  BY <1>3 DEF AllDue
    <3> HIDE DEF v
    <3>3. IsDue(v, s, t)  BY <3>2, DueIs
    <3>4. v # NoPrio /\ v # s.mpri[m]
      <4>1. v \in 0..(NoPrio - 1) /\ NoPrio \in Nat  BY <3>3, MutexAssumption DEF IsDue
      <4> QED  BY <3>1, <4>1 DEF v
    <3>5. IsDue(v, r, t)  BY <3>1, <3>3, <3>4 DEF IsDue
    <3>6. v = DuePriority(r, t)  BY <3>5, DueIs
    <3> QED  BY <1>1, <3>1, <3>6 DEF v
  <2> QED  BY <2>1, <2>2
<1> QED  BY <1>2, <1>3 DEF AllDue

\* r is c with m, which nobody waits for, given back.
Frees(r, c, m) ==
    /\ r \in MutexStates
    /\ r.owner = [c.owner EXCEPT ![m] = NoThread] /\ r.mpri = [c.mpri EXCEPT ![m] = NoPrio]
    /\ r.ceil = c.ceil /\ r.prio = c.prio /\ r.taken = c.taken /\ r.waiters = c.waiters

\* r is c with m in the hands of n, its first waiter.
Serves(r, c, m, n) ==
    /\ r \in MutexStates
    /\ r.owner = [c.owner EXCEPT ![m] = n]
    /\ r.mpri = [c.mpri EXCEPT ![m] = FirstPriority(r, m)]
    /\ r.ceil = c.ceil /\ r.prio = c.prio
    /\ r.taken = [c.taken EXCEPT ![n] = @ \cup {m}]
    /\ r.waiters = [c.waiters EXCEPT ![m] = Tail(@)]

\* x is s when t no longer lists m.
Unlists(x, s, t, m) ==
    /\ x \in MutexStates
    /\ x.owner = s.owner /\ x.mpri = s.mpri /\ x.ceil = s.ceil /\ x.prio = s.prio
    /\ x.waiters = s.waiters /\ x.taken = [s.taken EXCEPT ![t] = @ \ {m}]

LEMMA HandOverIs ==
    ASSUME NEW s, NEW h, NEW ins, NEW g, Sane(s, h, ins, g),
           NEW t \in Threads, NEW m \in Mutexes
    PROVE  \E x, c \in MutexStates :
              /\ Unlists(x, s, t, m) /\ Checks(c, x, t, m)
              /\ s.waiters[m] = <<>> => Frees(HandOver(s, t, m), c, m)
              /\ s.waiters[m] # <<>> => Serves(HandOver(s, t, m), c, m, Head(s.waiters[m]))
<1> DEFINE spent == [s EXCEPT !.hold[m] = 0, !.taken[t] = @ \ {m}]
           calm == CheckAndUpdate(spent, t, m)
           next == Head(calm.waiters[m])
           served == [calm EXCEPT !.waiters[m] = Tail(@),
                                  !.owner[m] = next,
                                  !.hold[m] = 1,
                                  !.taken[next] = @ \cup {m},
                                  !.pending[next] = NoMutex]
           r == HandOver(s, t, m)
<1>1. /\ s \in MutexStates /\ s.hold \in [Mutexes -> 0..HoldMax]
      /\ s.taken \in [Threads -> SUBSET Mutexes] /\ s.waiters \in [Mutexes -> Seq(Threads)]
      /\ NoPrio \in Nat /\ HoldMax \in Nat \ {0} /\ 0 \in 0..HoldMax /\ 1 \in 0..HoldMax
      /\ Distinct(s.waiters[m])
  <2>1. HoldMax \in Nat \ {0}  BY SaneTypes
  <2> QED  BY <2>1, SaneTypes DEF Sane, Listed
<1>2. r = IF calm.waiters[m] = <<>>
          THEN [calm EXCEPT !.owner[m] = NoThread, !.mpri[m] = NoPrio]
          ELSE [served EXCEPT !.mpri[m] = FirstPriority(served, m)]
  BY DEF HandOver
<1>3. Unlists(spent, s, t, m)
  <2> DEFINE hs == [s.hold EXCEPT ![m] = 0]
             ts == [s.taken EXCEPT ![t] = @ \ {m}]
  <2>1. spent = [s EXCEPT !.hold = hs, !.taken = ts]  BY <1>1 DEF MutexStates
  <2>2. hs \in [Mutexes -> 0..HoldMax] /\ ts \in [Threads -> SUBSET Mutexes]  BY <1>1
  <2>3. ts = [s.taken EXCEPT ![t] = @ \ {m}]  OBVIOUS
  <2> HIDE DEF spent, hs, ts
  <2>4. /\ spent \in MutexStates /\ spent.owner = s.owner /\ spent.mpri = s.mpri
        /\ spent.ceil = s.ceil /\ spent.prio = s.prio /\ spent.waiters = s.waiters
        /\ spent.taken = ts
    BY <1>1, <2>1, <2>2 DEF MutexStates
  <2> QED  BY <2>3, <2>4 DEF Unlists
<1>4. Checks(calm, spent, t, m)
  <2>1. spent \in MutexStates  BY <1>3 DEF Unlists
  <2> HIDE DEF spent
  <2> QED  BY <2>1, CheckIs
<1>5. calm \in MutexStates /\ calm.waiters = s.waiters  BY <1>3, <1>4 DEF Checks, Unlists
<1> HIDE DEF spent, calm, r
<1>6. /\ calm.owner \in [Mutexes -> Threads \cup {NoThread}] /\ calm.mpri \in [Mutexes -> 0..NoPrio]
      /\ calm.hold \in [Mutexes -> 0..HoldMax] /\ calm.taken \in [Threads -> SUBSET Mutexes]
      /\ calm.pending \in [Threads -> Mutexes \cup {NoMutex}]
  BY <1>5 DEF MutexStates
<1>7. ASSUME s.waiters[m] = <<>> PROVE Frees(r, calm, m)
  <2> DEFINE os == [calm.owner EXCEPT ![m] = NoThread]
             ms == [calm.mpri EXCEPT ![m] = NoPrio]
  <2>1. r = [calm EXCEPT !.owner = os, !.mpri = ms]  BY <1>2, <1>5, <1>7 DEF MutexStates
  <2>2. os \in [Mutexes -> Threads \cup {NoThread}] /\ ms \in [Mutexes -> 0..NoPrio]
    BY <1>1, <1>6
  <2> HIDE DEF os, ms
  <2>3. /\ r \in MutexStates /\ r.owner = os /\ r.mpri = ms /\ r.ceil = calm.ceil
        /\ r.prio = calm.prio /\ r.taken = calm.taken /\ r.waiters = calm.waiters
    BY <1>5, <2>1, <2>2 DEF MutexStates
  <2> QED  BY <2>3 DEF Frees, os, ms
<1>8. ASSUME s.waiters[m] # <<>> PROVE Serves(r, calm, m, next)
  <2> DEFINE w == s.waiters[m]
  <2>1. w \in Seq(Threads) /\ w # <<>> /\ Distinct(w) /\ next = Head(w)  BY <1>1, <1>5, <1>8
  <2> HIDE DEF w
  <2>2. Head(w) \in Threads /\ Tail(w) \in Seq(Threads)  BY <2>1, TailFacts
  <2>3. next \in Threads  BY <2>1, <2>2
  <2> HIDE DEF next
  <2> DEFINE ws == [calm.waiters EXCEPT ![m] = Tail(@)]
             os == [calm.owner EXCEPT ![m] = next]
             hs == [calm.hold EXCEPT ![m] = 1]
             ts == [calm.taken EXCEPT ![next] = @ \cup {m}]
             ps == [calm.pending EXCEPT ![next] = NoMutex]
  <2>4. served = [calm EXCEPT !.waiters = ws, !.owner = os, !.hold = hs, !.taken = ts, !.pending = ps]
    BY <1>5 DEF MutexStates
  <2>5. ws = [s.waiters EXCEPT ![m] = Tail(w)]  BY <1>5 DEF w
  <2>6. /\ ws \in [Mutexes -> Seq(Threads)]
        /\ os \in [Mutexes -> Threads \cup {NoThread}]
        /\ hs \in [Mutexes -> 0..HoldMax]
        /\ ts \in [Threads -> SUBSET Mutexes]
        /\ ps \in [Threads -> Mutexes \cup {NoMutex}]
    BY <1>1, <1>6, <2>2, <2>3, <2>5
  <2> HIDE DEF ws, os, hs, ts, ps
  <2>7. r = [served EXCEPT !.mpri[m] = FirstPriority(served, m)]  BY <1>2, <1>5, <1>8
  <2> HIDE DEF served
  <2>8. /\ served \in MutexStates /\ served.owner = os /\ served.taken = ts
        /\ served.waiters = ws /\ served.mpri = calm.mpri /\ served.ceil = calm.ceil
        /\ served.prio = calm.prio
    BY <1>5, <2>4, <2>6 DEF MutexStates
  <2> DEFINE f == FirstPriority(served, m)
             ms == [calm.mpri EXCEPT ![m] = f]
  <2>9. f \in 0..NoPrio  BY <2>8, FirstPriorityType
  <2>10. r = [served EXCEPT !.mpri = ms]  BY <2>7, <2>8 DEF MutexStates
  <2> HIDE DEF f
  <2>11. ms \in [Mutexes -> 0..NoPrio]  BY <1>6, <2>9
  <2> HIDE DEF ms
  <2>12. /\ r \in MutexStates /\ r.owner = os /\ r.taken = ts
         /\ r.waiters = ws /\ r.mpri = ms /\ r.ceil = calm.ceil
         /\ r.prio = calm.prio
    BY <2>8, <2>10, <2>11 DEF MutexStates
  <2>13. f = FirstPriority(r, m)  BY <2>8, <2>12 DEF f, FirstPriority
  <2>14. ms = [calm.mpri EXCEPT ![m] = FirstPriority(r, m)]  BY <2>13 DEF ms
  <2> QED  BY <2>12, <2>14 DEF Serves, os, ts, ws
<1>9. next = Head(s.waiters[m])  BY <1>5
<1>10. spent \in MutexStates  BY <1>3 DEF Unlists
<1> HIDE DEF next
<1>11. /\ Unlists(spent, s, t, m) /\ Checks(calm, spent, t, m)
       /\ s.waiters[m] = <<>> => Frees(r, calm, m)
       /\ s.waiters[m] # <<>> => Serves(r, calm, m, Head(s.waiters[m]))
  BY <1>3, <1>4, <1>7, <1>8, <1>9
<1> QED  BY <1>5, <1>10, <1>11 DEF r

\* What the check leaves in order when t, which waits nowhere, gives up m: all but who is
\* to have m.
LEMMA CheckOrderly ==
    ASSUME NEW s, NEW h, NEW ins, NEW g, Sane(s, h, ins, g), g \cap Mutexes = {},
           Orderly(s), NEW t \in Threads, ins[t] = NoMutex,
           NEW m \in Mutexes, s.owner[m] = t,
           NEW x, Unlists(x, s, t, m), NEW c, Checks(c, x, t, m)
    PROVE  \A n \in Mutexes :
              /\ Sorted(c.waiters[n], c.prio)
              /\ n # m /\ c.owner[n] \in Threads => c.prio[c.owner[n]] <= c.mpri[n]
              /\ \A u \in Threads : Holds(c.waiters[n], u) => c.mpri[n] <= c.prio[u]
<1>1. /\ s \in MutexStates /\ s.waiters \in [Mutexes -> Seq(Threads)]
      /\ s.taken \in [Threads -> SUBSET Mutexes]
      /\ \A n \in Mutexes : ~Holds(s.waiters[n], t)
  BY SaneTypes, IdleNowhere
<1>2. /\ x \in MutexStates /\ x.mpri = s.mpri /\ x.prio = s.prio /\ x.taken[t] = s.taken[t] \ {m}
      /\ c.owner = s.owner /\ c.mpri = s.mpri /\ c.waiters = s.waiters
      /\ \A u \in Threads \ {t} : c.prio[u] = s.prio[u]
      /\ c.prio[t] = DuePriority(x, t) \/ c.prio[t] = s.prio[t]
  BY <1>1 DEF Unlists, Checks
<1> SUFFICES ASSUME NEW n \in Mutexes
             PROVE  /\ Sorted(c.waiters[n], c.prio)
                    /\ n # m /\ c.owner[n] \in Threads => c.prio[c.owner[n]] <= c.mpri[n]
                    /\ \A u \in Threads : Holds(c.waiters[n], u) => c.mpri[n] <= c.prio[u]
  OBVIOUS
<1>3. /\ Sorted(s.waiters[n], s.prio)
      /\ s.owner[n] \in Threads => s.prio[s.owner[n]] <= s.mpri[n]
      /\ \A u \in Threads : Holds(s.waiters[n], u) => s.mpri[n] <= s.prio[u]
  BY DEF Orderly
<1>4. Sorted(s.waiters[n], c.prio)
  <2> DEFINE w == s.waiters[n]
  <2>1. w \in Seq(Threads) /\ ~Holds(w, t) /\ Sorted(w, s.prio)  BY <1>1, <1>3
  <2> HIDE DEF w
  <2>2. \A i \in DOMAIN w : w[i] \in Threads  BY <2>1, LenProperties, ElementOfSeq
  <2>3. \A i \in DOMAIN w : w[i] # t => c.prio[w[i]] = s.prio[w[i]]  BY <1>2, <2>2
  <2> DEFINE p1 == s.prio
             p2 == c.prio
  <2>4. /\ ~Holds(w, t) /\ Sorted(w, p1)
        /\ \A i \in DOMAIN w : w[i] # t => p2[w[i]] = p1[w[i]]
    BY <2>1, <2>3
  <2> HIDE DEF p1, p2
  <2>5. Sorted(w, p2)  BY <2>4, SortedElsewhere
  <2> QED  BY <2>5 DEF w, p2
<1>5. ASSUME n # m, s.owner[n] \in Threads PROVE c.prio[s.owner[n]] <= s.mpri[n]
  <2>1. CASE s.owner[n] = t
    <3>1. n \in x.taken[t]
      <4>1. n \in s.taken[t]  BY <2>1 DEF Sane, Taken
      <4> QED  BY <1>2, <1>5, <4>1
    <3>2. DuePriority(x, t) <= x.mpri[n]  BY <1>2, <3>1, DueIs DEF IsDue
    <3> QED  BY <1>2, <1>3, <2>1, <3>2
  <2>2. CASE s.owner[n] # t  BY <1>2, <1>3, <1>5, <2>2
  <2> QED  BY <2>1, <2>2
<1>6. \A u \in Threads : Holds(s.waiters[n], u) => u # t  BY <1>1
<1> QED  BY <1>2, <1>3, <1>4, <1>5, <1>6

\* A mutex that is given up goes to its most urgent waiter, who inherits from the others;
\* with no ceiling on it, nobody has more or less than is due.
LEMMA HandOverOrderly ==
    ASSUME NEW s, NEW h, NEW ins, NEW g, Sane(s, h, ins, g), g \cap Mutexes = {},
           Orderly(s), NEW t \in Threads, ins[t] = NoMutex,
           NEW m \in Mutexes, s.owner[m] = t
    PROVE  /\ Orderly(HandOver(s, t, m))
           /\ HandOver(s, t, m).ceil = s.ceil
           /\ \A a : AllDue(s, a) /\ s.ceil[m] = NoPrio => AllDue(HandOver(s, t, m), a)
<1> DEFINE r == HandOver(s, t, m)
           w == s.waiters[m]
           next == Head(w)
<1>1. PICK x, c \in MutexStates :
         /\ Unlists(x, s, t, m) /\ Checks(c, x, t, m)
         /\ w = <<>> => Frees(r, c, m)
         /\ w # <<>> => Serves(r, c, m, next)
  BY HandOverIs
<1>2. /\ s \in MutexStates /\ s.waiters \in [Mutexes -> Seq(Threads)]
      /\ s.taken \in [Threads -> SUBSET Mutexes] /\ NoThread \notin Threads /\ NoPrio \in Nat
      /\ s.owner \in [Mutexes -> Threads \cup {NoThread}]
      /\ w \in Seq(Threads) /\ Distinct(w)
  BY SaneTypes DEF Sane, Listed
<1>3. \A n \in Mutexes :
         /\ Sorted(c.waiters[n], c.prio)
         /\ n # m /\ c.owner[n] \in Threads => c.prio[c.owner[n]] <= c.mpri[n]
         /\ \A u \in Threads : Holds(c.waiters[n], u) => c.mpri[n] <= c.prio[u]
  BY <1>1, CheckOrderly
<1>4. /\ x \in MutexStates /\ x.mpri = s.mpri /\ x.ceil = s.ceil /\ x.prio = s.prio
      /\ x.taken = [s.taken EXCEPT ![t] = @ \ {m}]
      /\ c.waiters = s.waiters /\ c.taken = x.taken /\ c.ceil = s.ceil /\ c.owner = s.owner
  BY <1>1 DEF Unlists, Checks
<1>5. /\ c.waiters \in [Mutexes -> Seq(Threads)] /\ c.mpri \in [Mutexes -> 0..NoPrio]
      /\ c.owner \in [Mutexes -> Threads \cup {NoThread}]
      /\ c.taken \in [Threads -> SUBSET Mutexes] /\ c.prio \in [Threads -> 0..(NoPrio - 1)]
  BY <1>1 DEF MutexStates
<1>6. x.taken[t] = s.taken[t] \ {m} /\ \A u \in Threads \ {t} : x.taken[u] = s.taken[u]
  BY <1>2, <1>4
<1>7. \A u \in Threads : m \notin c.taken[u]
  <2>1. \A u \in Threads \ {t} : m \notin s.taken[u]  BY DEF Sane, Taken
  <2> QED  BY <1>4, <1>6, <2>1
<1>8. ASSUME NEW a, AllDue(s, a) PROVE AllDue(c, a)
  BY <1>1, <1>2, <1>4, <1>6, <1>8, CheckDue
<1> HIDE DEF w, r
<1>9. CASE w = <<>>
  <2>1. /\ r \in MutexStates /\ r.ceil = c.ceil /\ r.prio = c.prio /\ r.taken = c.taken
        /\ r.waiters = c.waiters
        /\ \A n \in Mutexes : r.owner[n] = IF n = m THEN NoThread ELSE c.owner[n]
        /\ \A n \in Mutexes : r.mpri[n] = IF n = m THEN NoPrio ELSE c.mpri[n]
    BY <1>1, <1>5, <1>9 DEF Frees
  <2>2. \A u \in Threads : ~Holds(r.waiters[m], u)
    <3>1. r.waiters[m] = w  BY <1>4, <2>1 DEF w
    <3>2. w \in Seq(Threads)  BY <1>2
    <3>3. \A u \in Threads : ~Holds(w, u)  BY <1>9, <3>2, EmptyHoldsNobody
    <3> QED  BY <3>1, <3>3
  <2>3. Orderly(r)  BY <1>2, <1>3, <2>1, <2>2 DEF Orderly
  <2>4. ASSUME NEW u \in Threads PROVE DuePriority(r, u) = DuePriority(c, u)
    <3>1. \A n \in c.taken[u] : n \in Mutexes /\ n # m  BY <1>5, <1>7
    <3>2. \A n \in c.taken[u] : r.mpri[n] = c.mpri[n] /\ r.ceil[n] = c.ceil[n]
      BY <2>1, <3>1
    <3>3. r.taken[u] = c.taken[u] /\ c \in MutexStates  BY <1>1, <2>1
    <3> QED  BY <2>1, <3>2, <3>3, DueSame
  <2>5. \A a : AllDue(s, a) => AllDue(r, a)  BY <1>8, <2>1, <2>4 DEF AllDue
  <2> QED  BY <1>4, <2>1, <2>3, <2>5 DEF r
<1>10. CASE w # <<>>
  <2> DEFINE v == Tail(w)
  <2>1. /\ next \in Threads /\ Holds(w, next) /\ v \in Seq(Threads)
        /\ \A u : Holds(v, u) <=> Holds(w, u) /\ u # next
    BY <1>2, <1>10, TailFacts
  <2>2. c.waiters[m] = w  BY <1>4 DEF w
  <2>3. Sorted(w, c.prio) /\ c.prio \in [Threads -> Nat]
    <3>1. c.prio \in [Threads -> Nat]  BY <1>2, <1>5
    <3> QED  BY <1>3, <2>2, <3>1
  <2>4. \A u \in Threads : Holds(w, u) => c.prio[next] <= c.prio[u]
    BY <1>2, <1>10, <2>3, SortedFirst
  <2>5. Sorted(v, c.prio)  BY <1>2, <1>10, <2>3, TailSorted
  <2> HIDE DEF next, v
  <2>6. Serves(r, c, m, next)  BY <1>1, <1>10
  <2>7. /\ r \in MutexStates /\ r.ceil = c.ceil /\ r.prio = c.prio
        /\ \A n \in Mutexes : r.waiters[n] = IF n = m THEN v ELSE c.waiters[n]
        /\ \A u \in Threads : r.taken[u] = IF u = next THEN c.taken[u] \cup {m} ELSE c.taken[u]
        /\ \A n \in Mutexes : r.owner[n] = IF n = m THEN next ELSE c.owner[n]
        /\ \A n \in Mutexes : n # m => r.mpri[n] = c.mpri[n]
        /\ r.mpri[m] = FirstPriority(r, m)
    <3>1. \A n \in Mutexes : r.waiters[n] = IF n = m THEN v ELSE c.waiters[n]
      BY <1>5, <2>2, <2>6 DEF Serves, v
    <3>2. \A u \in Threads : r.taken[u] = IF u = next THEN c.taken[u] \cup {m} ELSE c.taken[u]
      <4>1. r.taken = [c.taken EXCEPT ![next] = @ \cup {m}]  BY <2>6 DEF Serves
      <4>2. c.taken \in [Threads -> SUBSET Mutexes]  BY <1>5
      <4> QED  BY <4>1, <4>2
    <3>3. \A n \in Mutexes : r.owner[n] = IF n = m THEN next ELSE c.owner[n]
      BY <1>5, <2>6 DEF Serves
    <3>4. /\ \A n \in Mutexes : n # m => r.mpri[n] = c.mpri[n]
          /\ r.mpri[m] = FirstPriority(r, m)
      BY <1>5, <2>6 DEF Serves
    <3> QED  BY <2>6, <3>1, <3>2, <3>3, <3>4 DEF Serves
  <2>8. r.waiters[m] = v /\ Sorted(r.waiters[m], r.prio)  BY <2>5, <2>7
  <2>9. /\ \A u \in Threads : Holds(v, u) => r.mpri[m] <= c.prio[u]
        /\ r.mpri[m] = NoPrio \/ \E u \in Threads : Holds(v, u) /\ r.mpri[m] = c.prio[u]
    BY <2>7, <2>8, FirstOrderly
  <2>10. c.prio[next] <= r.mpri[m]
    <3>1. CASE r.mpri[m] = NoPrio
      <4>1. c.prio[next] \in 0..(NoPrio - 1)  BY <1>5, <2>1
      <4> QED  BY <1>2, <3>1, <4>1
    <3>2. CASE r.mpri[m] # NoPrio  BY <2>1, <2>4, <2>9, <3>2
    <3> QED  BY <3>1, <3>2
  <2>11. Orderly(r)
    <3>1. ASSUME NEW n \in Mutexes
          PROVE  /\ Sorted(r.waiters[n], r.prio)
                 /\ r.owner[n] \in Threads => r.prio[r.owner[n]] <= r.mpri[n]
                 /\ \A u \in Threads : Holds(r.waiters[n], u) => r.mpri[n] <= r.prio[u]
      <4>1. CASE n = m  BY <2>7, <2>8, <2>9, <2>10, <4>1
      <4>2. CASE n # m  BY <1>3, <2>7, <4>2
      <4> QED  BY <4>1, <4>2
    <3> QED  BY <3>1 DEF Orderly
  <2>12. ASSUME NEW a, AllDue(s, a), s.ceil[m] = NoPrio PROVE AllDue(r, a)
    <3>1. AllDue(c, a)  BY <1>8, <2>12
    <3>2. ASSUME NEW u \in Threads \ a, u # next PROVE r.prio[u] = DuePriority(r, u)
      <4>1. \A n \in c.taken[u] : n \in Mutexes /\ n # m  BY <1>5, <1>7
      <4>2. \A n \in c.taken[u] : r.mpri[n] = c.mpri[n] /\ r.ceil[n] = c.ceil[n]
        BY <2>7, <4>1
      <4>3. r.taken[u] = c.taken[u] /\ c \in MutexStates  BY <1>1, <2>7, <3>2
      <4>4. DuePriority(r, u) = DuePriority(c, u)  BY <2>7, <4>2, <4>3, DueSame
      <4> QED  BY <2>7, <3>1, <4>4 DEF AllDue
    <3>3. ASSUME next \notin a PROVE r.prio[next] = DuePriority(r, next)
      <4> DEFINE q == c.prio[next]
      <4>1. q = DuePriority(c, next)  BY <2>1, <3>1, <3>3 DEF AllDue
      <4>2. q <= r.mpri[m]  BY <2>10
      <4> HIDE DEF q
      <4>3. IsDue(q, c, next)  BY <1>1, <2>1, <4>1, DueIs
      <4>4. q <= r.ceil[m]
        <5>1. q \in 0..(NoPrio - 1) /\ r.ceil[m] = NoPrio
          BY <1>4, <2>7, <2>12, <4>3 DEF IsDue
        <5> QED  BY <1>2, <5>1
      <4>5. r.taken[next] = c.taken[next] \cup {m}  BY <2>1, <2>7
      <4>6. \A n \in c.taken[next] : r.mpri[n] = c.mpri[n] /\ r.ceil[n] = c.ceil[n]
        <5>1. \A n \in c.taken[next] : n \in Mutexes /\ n # m  BY <1>5, <1>7, <2>1
        <5> QED  BY <2>7, <5>1
      <4>7. IsDue(q, r, next)  BY <4>2, <4>3, <4>4, <4>5, <4>6 DEF IsDue
      <4>8. q = DuePriority(r, next)  BY <2>1, <2>7, <4>7, DueIs
      <4> QED  BY <2>7, <4>8 DEF q
    <3> QED  BY <3>2, <3>3 DEF AllDue
  <2> QED  BY <1>4, <2>7, <2>11, <2>12 DEF r
<1> QED  BY <1>9, <1>10

LEMMA HandAllOrderly ==
    ASSUME NEW s, NEW h, NEW ins, NEW g, Sane(s, h, ins, g), g \cap Mutexes = {},
           Orderly(s), NEW t \in Threads, t \notin g, ins[t] = NoMutex,
           NEW q \in Orders(s.taken[t])
    PROVE  /\ Orderly(HandAll(s, t, q))
           /\ \A a : AllDue(s, a) /\ (\A m \in Mutexes : s.ceil[m] = NoPrio)
                     => AllDue(HandAll(s, t, q), a)
<1> DEFINE n == Len(q)
<1>1. n \in Nat /\ \A i \in 1..n : q[i] \in Mutexes  BY HandAllRuns
<1>2. PICK e : /\ e[0] = s
               /\ \A k \in 0..n : e[k] \in GivenStates(h, ins, g, t, q, k)
               /\ \A k \in 1..n : e[k] = HandOver(e[k - 1], t, q[k])
               /\ HandAll(s, t, q) = e[n]
  BY HandAllRuns
<1> DEFINE good(x) == /\ Orderly(x) /\ x.ceil = s.ceil
                      /\ \A a : AllDue(s, a) /\ (\A m \in Mutexes : s.ceil[m] = NoPrio)
                                => AllDue(x, a)
           P == {k \in 0..n : good(e[k])}
<1>3. 0 \in P  BY <1>1, <1>2
<1>4. ASSUME NEW k \in 1..n, k - 1 \in P PROVE k \in P
  <2> DEFINE x == e[k - 1]
             m == q[k]
  <2>1. k - 1 \in 0..n /\ k \in 0..n /\ m \in Mutexes /\ e[k] = HandOver(x, t, m)
    BY <1>1, <1>2
  <2>2. /\ Sane(x, Given(h, t, q, k - 1), ins, g)
        /\ x.owner[m] = t
    <3>1. x \in GivenStates(h, ins, g, t, q, k - 1)  BY <1>2, <2>1
    <3>2. k \in (k - 1 + 1)..Len(q)  BY <1>1
    <3> QED  BY <3>1, <3>2 DEF GivenStates
  <2>3. good(x)  BY <1>4
  <2> HIDE DEF x, m
  <2>4. /\ Orderly(HandOver(x, t, m)) /\ HandOver(x, t, m).ceil = x.ceil
        /\ \A a : AllDue(x, a) /\ x.ceil[m] = NoPrio => AllDue(HandOver(x, t, m), a)
    BY <2>1, <2>2, <2>3, HandOverOrderly
  <2>5. good(e[k])  BY <2>1, <2>3, <2>4
  <2> QED  BY <2>1, <2>5
<1> HIDE DEF P, good
<1>5. \A k \in 0..n : k \in P
  <2> HIDE DEF n
  <2> QED  BY <1>1, <1>3, <1>4, RoundsInduction
<1>6. n \in 0..n  BY <1>1
<1>7. good(e[n])  BY <1>5, <1>6 DEF P
<1> QED  BY <1>2, <1>7 DEF good

-----------------------------------------------------------------------------
(***************************************************************************)
(* Mutex: every step keeps the order and what is due.                      *)
(***************************************************************************)
OrderInv == MutexInv /\ (gone \cap Mutexes = {} => Orderly(Now))

\* What a step makes of order and due priorities.
OrderNext == gone' \cap Mutexes = {} => Orderly(Now')
DueNext ==
    /\ AllDue(Now, gone)
    /\ gone \cap Mutexes = {} /\ \A m \in Mutexes : ceil[m] = NoPrio
    => AllDue(Now', gone')

\* Only these fields matter.
LEMMA SameOrder ==
    ASSUME NEW s \in MutexStates, NEW r \in MutexStates,
           r.owner = s.owner, r.mpri = s.mpri, r.ceil = s.ceil, r.waiters = s.waiters,
           r.prio = s.prio, r.taken = s.taken
    PROVE  /\ Orderly(s) => Orderly(r)
           /\ \A a : AllDue(s, a) => AllDue(r, a)
<1>1. \A u \in Threads : DuePriority(r, u) = DuePriority(s, u)  BY DueSame
<1> QED  BY <1>1 DEF Orderly, AllDue

\* A step that only counts, or winds up a take.
LEMMA QuietOrder ==
    ASSUME OrderInv, MutexInv',
           owner' = owner, mpri' = mpri, ceil' = ceil, waiters' = waiters, prio' = prio,
           taken' = taken, gone' = gone
    PROVE  OrderNext /\ DueNext
<1> DEFINE r == Now'
<1>1. /\ r \in MutexStates /\ r.owner = Now.owner /\ r.mpri = Now.mpri /\ r.ceil = Now.ceil
      /\ r.waiters = Now.waiters /\ r.prio = Now.prio /\ r.taken = Now.taken
  BY DEF MutexInv, Sane, Now
<1>2. Now \in MutexStates  BY DEF OrderInv, MutexInv, Sane
<1> HIDE DEF r
<1>3. /\ Orderly(Now) => Orderly(r)
      /\ \A a : AllDue(Now, a) => AllDue(r, a)
  BY <1>1, <1>2, SameOrder
<1> QED  BY <1>3 DEF OrderInv, OrderNext, DueNext, r

LEMMA TakeFreeOrder ==
    ASSUME OrderInv, MutexInv', NEW t \in Threads, NEW m \in Mutexes, TakeFree(t, m)
    PROVE  OrderNext /\ DueNext
<1> DEFINE p == IF ceil[m] < prio[t] THEN ceil[m] ELSE prio[t]
           r == Now'
<1>1. /\ Sane(Now, held, inside, gone) /\ inside[t] = NoMutex
      /\ owner[m] = NoThread /\ Now \in MutexStates
  BY SaneTypes DEF OrderInv, MutexInv, TakeFree, Running
<1>2. /\ owner \in [Mutexes -> Threads \cup {NoThread}] /\ mpri \in [Mutexes -> 0..NoPrio]
      /\ prio \in [Threads -> 0..(NoPrio - 1)] /\ ceil \in [Mutexes -> 0..NoPrio]
      /\ taken \in [Threads -> SUBSET Mutexes] /\ waiters \in [Mutexes -> Seq(Threads)]
      /\ NoPrio \in Nat /\ NoThread \notin Threads
  BY <1>1, SaneTypes, NowFields
<1>3. /\ owner' = [owner EXCEPT ![m] = t] /\ mpri' = [mpri EXCEPT ![m] = NoPrio]
      /\ prio' = [prio EXCEPT ![t] = p]
      /\ taken' = [taken EXCEPT ![t] = @ \cup {m}] /\ ceil' = ceil /\ waiters' = waiters
      /\ gone' = gone
  BY DEF TakeFree, Become, Now
<1>4. p <= prio[t] /\ p \in 0..(NoPrio - 1) /\ (ceil[m] = NoPrio => p = prio[t])
  <2>1. prio[t] \in 0..(NoPrio - 1) /\ ceil[m] \in 0..NoPrio  BY <1>2
  <2> QED  BY <1>2, <2>1
<1> HIDE DEF p
<1>5. /\ r \in MutexStates /\ r.waiters = waiters /\ r.ceil = ceil
      /\ \A n \in Mutexes : r.owner[n] = IF n = m THEN t ELSE owner[n]
      /\ \A n \in Mutexes : r.mpri[n] = IF n = m THEN NoPrio ELSE mpri[n]
      /\ \A u \in Threads : r.prio[u] = IF u = t THEN p ELSE prio[u]
      /\ \A u \in Threads : r.taken[u] = IF u = t THEN taken[u] \cup {m} ELSE taken[u]
  <2>1. r \in MutexStates  BY DEF MutexInv, Sane
  <2>2. /\ r.owner = owner' /\ r.mpri = mpri' /\ r.prio = prio' /\ r.taken = taken'
        /\ r.waiters = waiters /\ r.ceil = ceil
    BY <1>3 DEF Now
  <2> HIDE DEF r
  <2>3. \A n \in Mutexes : r.owner[n] = IF n = m THEN t ELSE owner[n]  BY <1>2, <1>3, <2>2
  <2>4. \A n \in Mutexes : r.mpri[n] = IF n = m THEN NoPrio ELSE mpri[n]  BY <1>2, <1>3, <2>2
  <2>5. \A u \in Threads : r.prio[u] = IF u = t THEN p ELSE prio[u]  BY <1>2, <1>3, <2>2
  <2>6. \A u \in Threads : r.taken[u] = IF u = t THEN taken[u] \cup {m} ELSE taken[u]
    BY <1>2, <1>3, <2>2
  <2> QED  BY <2>1, <2>2, <2>3, <2>4, <2>5, <2>6
<1> HIDE DEF r
<1>6. \A n \in Mutexes : ~Holds(waiters[n], t)  BY <1>1, IdleNowhere, NowFields
<1>7. \A u \in Threads : ~Holds(waiters[m], u)
  <2>1. waiters[m] = <<>>  BY <1>1, NowFields DEF Sane, Listed
  <2>2. waiters[m] \in Seq(Threads)  BY <1>2
  <2> QED  BY <2>1, <2>2, EmptyHoldsNobody
<1>8. ASSUME gone \cap Mutexes = {} PROVE Orderly(r)
  <2> SUFFICES ASSUME NEW n \in Mutexes
               PROVE  /\ Sorted(r.waiters[n], r.prio)
                      /\ r.owner[n] \in Threads => r.prio[r.owner[n]] <= r.mpri[n]
                      /\ \A u \in Threads : Holds(r.waiters[n], u) => r.mpri[n] <= r.prio[u]
    BY DEF Orderly
  <2>1. /\ Sorted(waiters[n], prio)
        /\ owner[n] \in Threads => prio[owner[n]] <= mpri[n]
        /\ \A u \in Threads : Holds(waiters[n], u) => mpri[n] <= prio[u]
    BY <1>8, NowFields DEF OrderInv, Orderly
  <2>2. Sorted(r.waiters[n], r.prio)
    <3> DEFINE w == waiters[n]
    <3>1. w \in Seq(Threads) /\ ~Holds(w, t) /\ Sorted(w, prio)  BY <1>2, <1>6, <2>1
    <3> HIDE DEF w
    <3>2. \A i \in DOMAIN w : w[i] \in Threads  BY <3>1, LenProperties, ElementOfSeq
    <3>3. \A i \in DOMAIN w : w[i] # t => r.prio[w[i]] = prio[w[i]]  BY <1>5, <3>2
    <3>4. Sorted(w, r.prio)  BY <3>1, <3>3, SortedElsewhere
    <3> QED  BY <1>5, <3>4 DEF w
  <2>3. ASSUME r.owner[n] \in Threads PROVE r.prio[r.owner[n]] <= r.mpri[n]
    <3>1. CASE n = m
      <4>1. r.owner[n] = t /\ r.mpri[n] = NoPrio /\ r.prio[t] = p  BY <1>5, <3>1
      <4>2. p <= NoPrio  BY <1>2, <1>4
      <4> QED  BY <4>1, <4>2
    <3>2. CASE n # m
      <4>1. r.owner[n] = owner[n] /\ r.mpri[n] = mpri[n]  BY <1>5, <3>2
      <4>2. prio[owner[n]] <= mpri[n] /\ mpri[n] \in Nat /\ prio[owner[n]] \in Nat
        BY <1>2, <2>1, <2>3, <4>1
      <4>3. CASE owner[n] = t
        <5>1. r.prio[owner[n]] = p /\ p <= prio[owner[n]] /\ p \in Nat
          BY <1>4, <1>5, <4>3
        <5> QED  BY <4>1, <4>2, <5>1
      <4>4. CASE owner[n] # t  BY <1>5, <2>3, <4>1, <4>2, <4>4
      <4> QED  BY <4>3, <4>4
    <3> QED  BY <3>1, <3>2
  <2>4. ASSUME NEW u \in Threads, Holds(r.waiters[n], u) PROVE r.mpri[n] <= r.prio[u]
    <3>1. n # m /\ u # t /\ Holds(waiters[n], u)  BY <1>5, <1>6, <1>7, <2>4
    <3> QED  BY <1>5, <2>1, <3>1
  <2> QED  BY <2>2, <2>3, <2>4
<1>9. ASSUME AllDue(Now, gone), \A n \in Mutexes : ceil[n] = NoPrio PROVE AllDue(r, gone)
  <2>1. \A u \in Threads : m \notin taken[u]
    BY <1>1, <1>2, NowFields DEF Sane, Taken
  <2>2. ASSUME NEW u \in Threads \ gone PROVE r.prio[u] = DuePriority(r, u)
    <3>1. r.prio[u] = prio[u]  BY <1>4, <1>5, <1>9
    <3> DEFINE v == prio[u]
    <3>2. v = DuePriority(Now, u)  BY <1>9, NowFields DEF AllDue
    <3> HIDE DEF v
    <3>3. IsDue(v, Now, u)  BY <1>1, <3>2, DueIs
    <3>4. /\ v \in 0..(NoPrio - 1) /\ v <= InitPrio[u]
          /\ \A n \in taken[u] : v <= mpri[n] /\ v <= ceil[n]
          /\ v = InitPrio[u] \/ \E n \in taken[u] : v = mpri[n] \/ v = ceil[n]
      BY <3>3, NowFields DEF IsDue
    <3>5. \A n \in taken[u] : r.mpri[n] = mpri[n] /\ r.ceil[n] = ceil[n] /\ n \in r.taken[u]
      <4>1. \A n \in taken[u] : n \in Mutexes /\ n # m  BY <1>2, <2>1
      <4> QED  BY <1>5, <4>1
    <3>6. \A n \in r.taken[u] : n \in taken[u] \/ n = m  BY <1>5
    <3>7. v <= r.mpri[m] /\ v <= r.ceil[m]
      <4>1. r.mpri[m] = NoPrio /\ r.ceil[m] = NoPrio  BY <1>5, <1>9
      <4> QED  BY <1>2, <3>4, <4>1
    <3>8. IsDue(v, r, u)  BY <3>4, <3>5, <3>6, <3>7 DEF IsDue
    <3>9. v = DuePriority(r, u)  BY <1>5, <3>8, DueIs
    <3> QED  BY <3>1, <3>9 DEF v
  <2> QED  BY <2>2 DEF AllDue
<1> QED  BY <1>3, <1>8, <1>9 DEF OrderNext, DueNext, r

\* Taking t off lists leaves them in order.
LEMMA ShorterOrderly ==
    ASSUME NEW s \in MutexStates, Orderly(s), \A m \in Mutexes : Distinct(s.waiters[m]),
           NEW r \in MutexStates, r.owner = s.owner, r.mpri = s.mpri, r.prio = s.prio, NEW t,
           \A m \in Mutexes : r.waiters[m] \in {s.waiters[m], Unlink(s.waiters[m], t)}
    PROVE  Orderly(r)
<1> SUFFICES ASSUME NEW m \in Mutexes
             PROVE  /\ Sorted(r.waiters[m], r.prio)
                    /\ r.owner[m] \in Threads => r.prio[r.owner[m]] <= r.mpri[m]
                    /\ \A u \in Threads : Holds(r.waiters[m], u) => r.mpri[m] <= r.prio[u]
  BY DEF Orderly
<1> DEFINE w == s.waiters[m]
<1>1. /\ Sorted(w, s.prio)
      /\ s.owner[m] \in Threads => s.prio[s.owner[m]] <= s.mpri[m]
      /\ \A u \in Threads : Holds(w, u) => s.mpri[m] <= s.prio[u]
  BY DEF Orderly
<1>2. w \in Seq(Threads) /\ Distinct(w) /\ r.waiters[m] \in {w, Unlink(w, t)}
  BY DEF MutexStates
<1> HIDE DEF w
<1>3. Sorted(Unlink(w, t), s.prio) /\ \A u : Holds(Unlink(w, t), u) => Holds(w, u)
  BY <1>1, <1>2, UnlinkSorted, UnlinkFacts
<1>4. Sorted(r.waiters[m], s.prio) /\ \A u : Holds(r.waiters[m], u) => Holds(w, u)
  BY <1>1, <1>2, <1>3
<1> QED  BY <1>1, <1>4

LEMMA WaitEndsOrder ==
    ASSUME OrderInv, MutexInv', NEW t \in Threads, MutexWaitEnds(t)
    PROVE  OrderNext /\ DueNext
<1> DEFINE m == inside[t]
           r == Now'
<1>1. /\ Now \in MutexStates /\ Now.waiters \in [Mutexes -> Seq(Threads)]
      /\ \A n \in Mutexes : Distinct(Now.waiters[n])
  BY SaneTypes DEF OrderInv, MutexInv, Sane, Listed
<1>2. /\ owner' = owner /\ mpri' = mpri /\ ceil' = ceil /\ prio' = prio /\ taken' = taken
      /\ waiters' = [waiters EXCEPT ![m] = Unlink(@, t)] /\ gone' = gone
  BY DEF MutexWaitEnds, Become, Now
<1> HIDE DEF m
<1>3. /\ r \in MutexStates /\ r.owner = Now.owner /\ r.mpri = Now.mpri /\ r.ceil = Now.ceil
      /\ r.prio = Now.prio /\ r.taken = Now.taken
      /\ r.waiters = [Now.waiters EXCEPT ![m] = Unlink(@, t)]
  BY <1>2 DEF MutexInv, Sane, Now
<1> HIDE DEF r
<1>4. \A n \in Mutexes : r.waiters[n] \in {Now.waiters[n], Unlink(Now.waiters[n], t)}
  BY <1>1, <1>3
<1>5. Orderly(Now) => Orderly(r)  BY <1>1, <1>3, <1>4, ShorterOrderly
<1>6. \A u \in Threads : DuePriority(r, u) = DuePriority(Now, u)  BY <1>1, <1>3, DueSame
<1>7. AllDue(Now, gone) => AllDue(r, gone)  BY <1>3, <1>6 DEF AllDue
<1> QED  BY <1>2, <1>5, <1>7 DEF OrderInv, OrderNext, DueNext, r

LEMMA TakeReturnsOrder ==
    ASSUME OrderInv, MutexInv', NEW t \in Threads, TakeReturns(t)
    PROVE  OrderNext
<1>1. Sane(Now, held, inside, gone) /\ gone' = gone  BY DEF OrderInv, MutexInv, TakeReturns
<1>2. PICK m \in Mutexes : inside[t] = m
  <2>1. inside[t] \in Mutexes \cup {NoMutex}  BY <1>1, SaneTypes
  <2> QED  BY <2>1 DEF TakeReturns
<1>3. CASE owner[m] = t
  <2>1. Become(Now) /\ Now \in MutexStates  BY <1>1, <1>2, <1>3, SaneTypes DEF TakeReturns
  <2>2. Now' = Now  BY <2>1, NextIs
  <2> QED  BY <1>1, <2>2 DEF OrderInv, OrderNext
<1>4. CASE owner[m] # t
  <2> DEFINE r == LeaveWait(Now, t, m)
  <2>1. Become(r)  BY <1>2, <1>4 DEF TakeReturns
  <2>2. Slackens(r, Now)  BY <1>1, LeaveSlackens
  <2>3. gone \cap Mutexes = {} => Orderly(r)  BY <1>1, LeaveOrderly DEF OrderInv
  <2> HIDE DEF r
  <2>4. Now' = r  BY <2>1, <2>2, NextIs DEF Slackens
  <2> QED  BY <1>1, <2>3, <2>4 DEF OrderNext
<1> QED  BY <1>3, <1>4

LEMMA ReleaseOrder ==
    ASSUME OrderInv, MutexInv', NEW t \in Threads, NEW m \in Mutexes, Release(t, m)
    PROVE  OrderNext /\ DueNext
<1>1. CASE hold[m] > 1
  <2>1. /\ owner' = owner /\ mpri' = mpri /\ ceil' = ceil /\ waiters' = waiters
        /\ prio' = prio /\ taken' = taken /\ gone' = gone
    BY <1>1 DEF Release, Become, Now
  <2> QED  BY <2>1, QuietOrder
<1>2. CASE ~(hold[m] > 1)
  <2> DEFINE r == HandOver(Now, t, m)
  <2>1. /\ Sane(Now, held, inside, gone) /\ inside[t] = NoMutex /\ Now.owner[m] = t
        /\ gone' = gone /\ Become(r)
    BY <1>2, NowFields DEF OrderInv, MutexInv, Release, Running
  <2>2. Sane(r, Holding(held, t, m, 0), inside, gone)
    BY <2>1, NowFields, HandOverSane DEF Release, Running
  <2>3. Sane(Now, held, inside, gone) /\ Now.ceil = ceil  BY <2>1, NowFields
  <2>4. gone \cap Mutexes = {} => Orderly(Now)  BY DEF OrderInv
  <2>5. gone \cap Mutexes = {} =>
           /\ Orderly(r)
           /\ \A a : AllDue(Now, a) /\ Now.ceil[m] = NoPrio => AllDue(r, a)
    BY <2>1, <2>4, HandOverOrderly
  <2> HIDE DEF r
  <2>6. Now' = r  BY <2>1, <2>2, SaneTypes, NextIs
  <2> QED  BY <2>1, <2>3, <2>5, <2>6 DEF OrderNext, DueNext
<1> QED  BY <1>1, <1>2

LEMMA TakeBlocksOrder ==
    ASSUME OrderInv, MutexInv', NEW t \in Threads, NEW m \in Mutexes, TakeBlocks(t, m)
    PROVE  OrderNext /\ DueNext
<1> DEFINE o == owner[m]
           p == prio[t]
           i2 == [inside EXCEPT ![t] = m]
           r == Now'
<1>1. PICK y \in MutexStates : Blocking(y, t, m) /\ Sane(y, held, i2, gone)
  BY BlocksIs DEF OrderInv
<1>2. /\ Sane(Now, held, inside, gone) /\ inside[t] = NoMutex /\ m \notin gone
      /\ gone' = gone /\ o \notin {t, NoThread}
  BY DEF OrderInv, MutexInv, TakeBlocks, Running
<1>3. /\ Now \in MutexStates /\ waiters \in [Mutexes -> Seq(Threads)]
      /\ mpri \in [Mutexes -> 0..NoPrio]
      /\ prio \in [Threads -> 0..(NoPrio - 1)] /\ prio \in [Threads -> Nat] /\ NoPrio \in Nat
      /\ o \in Threads /\ taken \in [Threads -> SUBSET Mutexes]
  <2>1. Now.owner[m] \in Threads \cup {NoThread}  BY <1>2, SaneTypes
  <2>2. /\ Now \in MutexStates /\ waiters \in [Mutexes -> Seq(Threads)]
        /\ mpri \in [Mutexes -> 0..NoPrio]
        /\ prio \in [Threads -> 0..(NoPrio - 1)] /\ NoPrio \in Nat
        /\ taken \in [Threads -> SUBSET Mutexes]
    BY <1>2, SaneTypes, NowFields
  <2> QED  BY <1>2, <2>1, <2>2, NowFields
<1>4. \A n \in Mutexes : ~Holds(waiters[n], t) /\ Distinct(waiters[n])
  BY <1>2, IdleNowhere, NowFields DEF Sane, Listed
<1>5. m \in taken[o]  BY <1>2, <1>3, NowFields DEF Sane, Taken
<1>6. /\ y.owner = owner /\ y.taken = taken /\ y.ceil = ceil /\ y.prio = prio
      /\ y.waiters = [waiters EXCEPT ![m] = Enqueue(@, t, "PRIO", prio)]
      /\ \A n \in Mutexes : n # m => y.mpri[n] = mpri[n]
      /\ \/ p >= mpri[m] /\ y.mpri = mpri /\ r = y
         \/ p < mpri[m] /\ y.mpri[m] = p /\ p >= prio[o] /\ r = y
         \/ p < mpri[m] /\ y.mpri[m] = p /\ p < prio[o] /\ r = UpdatePriority(y, o, p)
  BY <1>1, <1>3 DEF Blocking
<1>7. p \in 0..(NoPrio - 1) /\ p \in Nat /\ prio[o] \in Nat /\ mpri[m] \in Nat  BY <1>3
<1>8. y.mpri[m] <= p /\ y.mpri[m] <= mpri[m]  BY <1>6, <1>7
<1> HIDE DEF i2, r, o, p
<1>9. ASSUME gone \cap Mutexes = {} PROVE Orderly(r)
  <2>1. ASSUME NEW n \in Mutexes
        PROVE  /\ Sorted(waiters[n], prio)
               /\ owner[n] \in Threads => prio[owner[n]] <= mpri[n]
               /\ \A u \in Threads : Holds(waiters[n], u) => mpri[n] <= prio[u]
    BY <1>9, NowFields DEF OrderInv, Orderly
  <2>2. ASSUME NEW n \in Mutexes
        PROVE  /\ Sorted(y.waiters[n], y.prio)
               /\ \A u \in Threads : Holds(y.waiters[n], u) => y.mpri[n] <= y.prio[u]
    <3>1. CASE n # m
      <4>1. y.waiters[n] = waiters[n] /\ y.mpri[n] = mpri[n]  BY <1>3, <1>6, <3>1
      <4> QED  BY <1>6, <2>1, <4>1
    <3>2. CASE n = m
      <4> DEFINE w == waiters[m]
                 e == Enqueue(w, t, "PRIO", prio)
      <4>1. w \in Seq(Threads) /\ Distinct(w) /\ ~Holds(w, t) /\ Sorted(w, prio)
        BY <1>3, <1>4, <2>1
      <4>2. y.waiters[n] = e  BY <1>3, <1>6, <3>2
      <4>3. \A u \in Threads : Holds(w, u) => mpri[m] <= prio[u]  BY <2>1
      <4> HIDE DEF w
      <4>4. Sorted(e, prio) /\ \A u : Holds(e, u) <=> Holds(w, u) \/ u = t
        BY <1>3, <4>1, EnqueueSorted, EnqueueFacts
      <4> HIDE DEF e
      <4>5. ASSUME NEW u \in Threads, Holds(e, u) PROVE y.mpri[m] <= prio[u]
        <5>1. CASE u = t  BY <1>8, <5>1 DEF p
        <5>2. CASE u # t
          <6>1. mpri[m] <= prio[u] /\ prio[u] \in Nat  BY <1>3, <4>3, <4>4, <4>5, <5>2
          <6>2. y.mpri[m] \in Nat  BY <1>6, <1>7
          <6> QED  BY <1>7, <1>8, <6>1, <6>2
        <5> QED  BY <5>1, <5>2
      <4> QED  BY <1>6, <3>2, <4>2, <4>4, <4>5
    <3> QED  BY <3>1, <3>2
  <2>3. \A n \in Mutexes : n # m /\ owner[n] \in Threads => prio[owner[n]] <= y.mpri[n]
    BY <1>6, <2>1
  <2>4. prio[o] <= mpri[m]  BY <1>3, <2>1 DEF o
  <2>5. CASE p >= mpri[m] /\ y.mpri = mpri /\ r = y
    BY <1>6, <2>2, <2>3, <2>4, <2>5 DEF Orderly, o
  <2>6. CASE p < mpri[m] /\ y.mpri[m] = p /\ p >= prio[o] /\ r = y
    <3>1. prio[o] <= y.mpri[m]  BY <1>7, <2>6
    <3> QED  BY <1>6, <2>2, <2>3, <2>6, <3>1 DEF Orderly, o
  <2>7. CASE p < mpri[m] /\ y.mpri[m] = p /\ p < prio[o] /\ r = UpdatePriority(y, o, p)
    <3>1. ASSUME NEW n \in Mutexes
          PROVE  /\ Sorted(y.waiters[n], y.prio)
                 /\ y.owner[n] = o => p <= y.mpri[n]
                 /\ y.owner[n] \in Threads \ {o} => y.prio[y.owner[n]] <= y.mpri[n]
                 /\ \A u \in Threads : Holds(y.waiters[n], u) => y.mpri[n] <= y.prio[u]
      <4>1. ASSUME y.owner[n] = o PROVE p <= y.mpri[n]
        <5>1. CASE n = m  BY <1>7, <2>7, <5>1
        <5>2. CASE n # m
          <6>1. prio[o] <= y.mpri[n]  BY <1>3, <1>6, <2>3, <4>1, <5>2
          <6>2. y.mpri[n] \in Nat  BY <1>3, <1>6, <5>2
          <6> QED  BY <1>7, <2>7, <6>1, <6>2
        <5> QED  BY <5>1, <5>2
      <4>2. ASSUME y.owner[n] \in Threads \ {o} PROVE y.prio[y.owner[n]] <= y.mpri[n]
        BY <1>6, <2>3, <4>2 DEF o
      <4> QED  BY <2>2, <4>1, <4>2
    <3>2. Orderly(UpdatePriority(y, o, p))
      BY <1>1, <1>3, <1>7, <1>9, <3>1, PassOrderly
    <3> QED  BY <2>7, <3>2
  <2> QED  BY <1>6, <2>5, <2>6, <2>7
<1>10. ASSUME AllDue(Now, gone) PROVE AllDue(r, gone)
  <2>1. ASSUME NEW u \in Threads \ gone, u # o PROVE y.prio[u] = DuePriority(y, u)
    <3>1. prio[u] = DuePriority(Now, u)  BY <1>10, NowFields DEF AllDue
    <3>2. /\ y.taken[u] = Now.taken[u] /\ Now.owner[m] # u
          /\ \A n \in Mutexes \ {m} : y.mpri[n] = Now.mpri[n] /\ y.ceil[n] = Now.ceil[n]
      BY <1>6, <2>1, NowFields DEF o
    <3>3. DuePriority(y, u) = DuePriority(Now, u)  BY <1>1, <1>2, <3>2, OthersDue
    <3> QED  BY <1>6, <3>1, <3>3
  <2> DEFINE v == prio[o]
  <2>2. ASSUME o \notin gone
        PROVE  /\ v \in 0..(NoPrio - 1) /\ v <= InitPrio[o]
               /\ \A n \in taken[o] : v <= mpri[n] /\ v <= ceil[n]
               /\ v = InitPrio[o] \/ \E n \in taken[o] : v = mpri[n] \/ v = ceil[n]
    <3>1. v = DuePriority(Now, o)  BY <1>3, <1>10, <2>2, NowFields DEF AllDue
    <3> HIDE DEF v
    <3>2. IsDue(v, Now, o)  BY <1>3, <3>1, DueIs
    <3> QED  BY <3>2, NowFields DEF IsDue
  <2> HIDE DEF v
  <2>3. \A n \in taken[o] : n \in Mutexes  BY <1>3
  <2>4. CASE p >= mpri[m] /\ y.mpri = mpri /\ r = y
    <3>0. /\ y.taken[o] = Now.taken[o]
          /\ \A n \in Now.taken[o] : y.mpri[n] = Now.mpri[n] /\ y.ceil[n] = Now.ceil[n]
      BY <1>6, <2>4, NowFields
    <3>1. DuePriority(y, o) = DuePriority(Now, o)  BY <1>1, <1>3, <3>0, DueSame
    <3>2. o \notin gone => y.prio[o] = DuePriority(y, o)
      BY <1>3, <1>6, <1>10, <3>1, NowFields DEF AllDue
    <3> QED  BY <2>1, <2>4, <3>2 DEF AllDue
  <2>5. CASE p < mpri[m] /\ y.mpri[m] = p /\ p >= prio[o] /\ r = y
    <3>1. ASSUME o \notin gone PROVE y.prio[o] = DuePriority(y, o)
      <4>1. v < mpri[m] /\ v <= p  BY <1>7, <2>5 DEF v
      <4>2. \A n \in taken[o] : v <= y.mpri[n] /\ v <= y.ceil[n]
        BY <1>6, <2>2, <2>3, <2>5, <3>1, <4>1
      <4>3. v = InitPrio[o] \/ \E n \in taken[o] : v = y.mpri[n] \/ v = y.ceil[n]
        <5>1. v # mpri[m]  BY <1>7, <4>1
        <5> QED  BY <1>6, <2>2, <2>3, <3>1, <5>1
      <4>4. IsDue(v, y, o)  BY <1>6, <2>2, <3>1, <4>2, <4>3 DEF IsDue
      <4>5. v = DuePriority(y, o)  BY <1>1, <1>3, <4>4, DueIs
      <4> QED  BY <1>6, <4>5 DEF v
    <3> QED  BY <2>1, <2>5, <3>1 DEF AllDue
  <2>6. CASE p < mpri[m] /\ y.mpri[m] = p /\ p < prio[o] /\ r = UpdatePriority(y, o, p)
    <3>1. ASSUME o \notin gone PROVE p = DuePriority(y, o)
      <4>1. p < v /\ v \in Nat /\ InitPrio[o] \in Nat  BY <1>3, <1>7, <2>6, MutexAssumption DEF v
      <4>2. p <= InitPrio[o]  BY <1>7, <2>2, <3>1, <4>1
      <4>3. ASSUME NEW n \in taken[o] PROVE p <= y.mpri[n] /\ p <= y.ceil[n]
        <5>1. v <= mpri[n] /\ v <= ceil[n] /\ n \in Mutexes  BY <2>2, <2>3, <3>1
        <5>2. mpri[n] \in Nat /\ ceil[n] \in Nat
          <6>1. Now.ceil \in [Mutexes -> 0..NoPrio]  BY <1>2, SaneTypes
          <6> QED  BY <1>3, <5>1, <6>1, NowFields
        <5>3. p <= mpri[n] /\ p <= ceil[n]  BY <1>7, <4>1, <5>1, <5>2
        <5>4. n = m => p <= y.mpri[n]  BY <1>7, <2>6
        <5> QED  BY <1>6, <5>1, <5>3, <5>4
      <4>4. IsDue(p, y, o)  BY <1>5, <1>6, <1>7, <2>6, <4>2, <4>3 DEF IsDue
      <4> QED  BY <1>1, <1>3, <4>4, DueIs
    <3>2. AllDue(UpdatePriority(y, o, p), gone)
      BY <1>1, <1>3, <1>7, <2>1, <3>1, UpdateDue
    <3> QED  BY <2>6, <3>2
  <2> QED  BY <1>6, <2>4, <2>5, <2>6
<1> QED  BY <1>2, <1>9, <1>10 DEF OrderNext, DueNext, r

LEMMA SetCeilingOrder ==
    ASSUME OrderInv, MutexInv', NEW m \in Mutexes, NEW p \in Ceilings, SetCeiling(m, p)
    PROVE  OrderNext /\ DueNext
<1> DEFINE cs == [ceil EXCEPT ![m] = p]
           set == [Now EXCEPT !.ceil[m] = p]
           o == owner[m]
           r == Now'
<1>1. Sane(Now, held, inside, gone) /\ gone' = gone /\ Now \in MutexStates
  BY SaneTypes DEF OrderInv, MutexInv, SetCeiling
<1>2. Become(IF o = NoThread THEN set ELSE Refresh(set, o))  BY DEF SetCeiling
<1>3. cs \in [Mutexes -> 0..NoPrio] /\ \A n \in Mutexes : n # m => cs[n] = ceil[n]
  <2>1. p \in 0..NoPrio  BY MutexAssumption
  <2>2. ceil \in [Mutexes -> 0..NoPrio]  BY <1>1, SaneTypes, NowFields
  <2> QED  BY <2>1, <2>2
<1>4. set = [Now EXCEPT !.ceil = cs]  BY NowFields DEF Now
<1> HIDE DEF cs, set
<1>5. /\ set \in MutexStates /\ set.owner = Now.owner /\ set.hold = Now.hold
      /\ set.taken = Now.taken /\ set.pending = Now.pending /\ set.waiters = Now.waiters
      /\ set.mpri = Now.mpri /\ set.prio = Now.prio /\ set.ceil = cs
  BY <1>1, <1>3, <1>4 DEF MutexStates
<1>6. Sane(set, held, inside, gone)
  <2>1. Slackens(set, Now)  BY <1>1, <1>5, SlackensPriority
  <2> QED  BY <1>1, <2>1, SlackensSane
<1>7. Orderly(Now) => Orderly(set)  BY <1>5 DEF Orderly
<1>8. ASSUME AllDue(Now, gone), NEW u \in Threads \ gone, u # o
      PROVE  set.prio[u] = DuePriority(set, u)
  <2>1. \A n \in Mutexes \ {m} : set.mpri[n] = Now.mpri[n] /\ set.ceil[n] = Now.ceil[n]
    BY <1>3, <1>5, NowFields
  <2>2. DuePriority(set, u) = DuePriority(Now, u)
    BY <1>1, <1>5, <1>8, <2>1, OthersDue, NowFields
  <2> QED  BY <1>5, <1>8, <2>2 DEF AllDue
<1>9. CASE o = NoThread
  <2>1. r = set  BY <1>2, <1>5, <1>9, NextIs
  <2>2. AllDue(Now, gone) => AllDue(set, gone)  BY <1>8, <1>9, MutexAssumption DEF AllDue
  <2> QED  BY <1>1, <1>7, <2>1, <2>2 DEF OrderInv, OrderNext, DueNext, r
<1>10. CASE o # NoThread
  <2>1. o \in Threads
    <3>1. Now.owner[m] \in Threads \cup {NoThread}  BY <1>1, SaneTypes
    <3> QED  BY <1>10, <3>1, NowFields
  <2> HIDE DEF o
  <2> DEFINE q == Refresh(set, o)
  <2>2. Become(q)  BY <1>2, <1>10
  <2>3. Slackens(q, set)  BY <1>6, <2>1, RefreshSlackens
  <2>4. gone \cap Mutexes = {} => Orderly(q)
    BY <1>6, <1>7, <2>1, RefreshOrderly DEF OrderInv
  <2>5. AllDue(Now, gone) => AllDue(q, gone)  BY <1>6, <1>8, <2>1, RefreshDue
  <2> HIDE DEF q
  <2>6. r = q  BY <2>2, <2>3, NextIs DEF Slackens
  <2> QED  BY <1>1, <2>4, <2>5, <2>6 DEF OrderNext, DueNext, r
<1> QED  BY <1>9, <1>10

LEMMA DetachOrder ==
    ASSUME OrderInv, MutexInv', NEW m \in Mutexes, Detach(m)
    PROVE  OrderNext /\ DueNext
<1> DEFINE o == owner[m]
           emptied == [Now EXCEPT !.waiters[m] = <<>>]
           freed == [emptied EXCEPT !.taken[o] = @ \ {m}]
           ws == [waiters EXCEPT ![m] = <<>>]
           ts == [taken EXCEPT ![o] = @ \ {m}]
           r == Now'
<1>1. Sane(Now, held, inside, gone) /\ gone' = gone \cup {m} /\ Now \in MutexStates
  BY SaneTypes DEF OrderInv, MutexInv, Detach
<1>2. OrderNext  BY <1>1 DEF OrderNext
<1>3. \A u \in Threads : u \in gone' <=> u \in gone  BY <1>1, MutexAssumption
<1>4. Become(IF o = NoThread THEN emptied ELSE CheckAndUpdate(freed, o, m))  BY DEF Detach
<1>5. /\ waiters \in [Mutexes -> Seq(Threads)] /\ taken \in [Threads -> SUBSET Mutexes]
      /\ o \in Threads \cup {NoThread}
  <2>1. /\ Now.waiters \in [Mutexes -> Seq(Threads)] /\ Now.taken \in [Threads -> SUBSET Mutexes]
        /\ Now.owner[m] \in Threads \cup {NoThread}
    BY <1>1, SaneTypes
  <2> QED  BY <2>1, NowFields
<1>6. emptied = [Now EXCEPT !.waiters = ws]  BY NowFields DEF Now
<1>7. ws \in [Mutexes -> Seq(Threads)]  BY <1>5
<1> HIDE DEF ws, o, emptied
<1>8. /\ emptied \in MutexStates /\ emptied.taken = taken /\ emptied.mpri = Now.mpri
      /\ emptied.ceil = Now.ceil /\ emptied.prio = Now.prio
  BY <1>1, <1>6, <1>7, NowFields DEF MutexStates
<1>9. CASE o = NoThread
  <2>1. r = emptied  BY <1>4, <1>8, <1>9, NextIs
  <2> HIDE DEF r
  <2>2. \A u \in Threads : DuePriority(emptied, u) = DuePriority(Now, u)
    BY <1>1, <1>8, DueSame, NowFields
  <2>3. AllDue(Now, gone) => AllDue(emptied, gone')  BY <1>3, <1>8, <2>2 DEF AllDue
  <2> QED  BY <1>2, <2>1, <2>3 DEF DueNext, r
<1>10. CASE o # NoThread
  <2>1. o \in Threads  BY <1>5, <1>10
  <2>2. freed = [emptied EXCEPT !.taken = ts]  BY <1>8 DEF MutexStates
  <2>3. ts \in [Threads -> SUBSET Mutexes]  BY <1>5
  <2>4. ts[o] = taken[o] \ {m} /\ \A u \in Threads \ {o} : ts[u] = taken[u]
    BY <1>5, <2>1
  <2> HIDE DEF ts, freed
  <2>5. /\ freed \in MutexStates /\ freed.taken = ts /\ freed.mpri = Now.mpri
        /\ freed.ceil = Now.ceil /\ freed.prio = Now.prio
    BY <1>8, <2>2, <2>3 DEF MutexStates
  <2> DEFINE c == CheckAndUpdate(freed, o, m)
  <2>6. Checks(c, freed, o, m)  BY <2>1, <2>5, CheckIs
  <2>7. Become(c)  BY <1>4, <1>10
  <2> HIDE DEF c
  <2>8. r = c  BY <2>6, <2>7, NextIs DEF Checks
  <2> HIDE DEF r
  <2>9. freed.taken[o] = Now.taken[o] \ {m} /\ \A u \in Threads \ {o} : freed.taken[u] = Now.taken[u]
    BY <2>4, <2>5, NowFields
  <2>10. AllDue(Now, gone) => AllDue(c, gone)
    BY <1>1, <2>1, <2>5, <2>6, <2>9, CheckDue
  <2>11. AllDue(c, gone) => AllDue(c, gone')  BY <1>3 DEF AllDue
  <2> QED  BY <1>2, <2>8, <2>10, <2>11 DEF DueNext, r
<1> QED  BY <1>9, <1>10

LEMMA ExitOrder ==
    ASSUME OrderInv, MutexInv', NEW t \in Threads, Exit(t)
    PROVE  OrderNext /\ DueNext
<1>1. /\ Sane(Now, held, inside, gone) /\ t \notin gone /\ inside[t] = NoMutex
      /\ gone' = gone \cup {t}
  BY DEF OrderInv, MutexInv, Exit, Running
<1>2. PICK q \in Orders(Now.taken[t]) : Become(HandAll(Now, t, q))  BY NowFields DEF Exit
<1> DEFINE r == HandAll(Now, t, q)
<1>3. r \in MutexStates
  <2>1. PICK b \in Histories : Sane(r, b, inside, gone)  BY <1>1, <1>2, HandAllSane
  <2> QED  BY <2>1 DEF Sane
<1>4. Now' = r  BY <1>2, <1>3, NextIs
<1>5. gone' \cap Mutexes = gone \cap Mutexes  BY <1>1, MutexAssumption
<1>6. gone \cap Mutexes = {} =>
         /\ Orderly(r)
         /\ (\A m \in Mutexes : Now.ceil[m] = NoPrio) => \A a : AllDue(Now, a) => AllDue(r, a)
  BY <1>1, <1>2, HandAllOrderly DEF OrderInv
<1> HIDE DEF r
<1>7. AllDue(r, gone) => AllDue(r, gone')  BY <1>1 DEF AllDue
<1> QED  BY <1>4, <1>5, <1>6, <1>7, NowFields DEF OrderNext, DueNext

LEMMA DeleteOrder ==
    ASSUME OrderInv, MutexInv', NEW t \in Threads, Delete(t)
    PROVE  OrderNext
<1> DEFINE m == pending[t]
           ws == [n \in Mutexes |-> Unlink(waiters[n], t)]
           closed == [Now EXCEPT !.waiters = ws]
           away == LeaveWait(closed, t, m)
           dropped == IF m = NoMutex THEN closed ELSE [away EXCEPT !.pending[t] = NoMutex]
           hs == [n \in Mutexes |-> IF n \in taken[t] THEN 1 ELSE hold[n]]
           r == [dropped EXCEPT !.hold = hs]
<1>1. Sane(Now, held, inside, gone) /\ gone' = gone \cup {t} /\ Now \in MutexStates
  BY SaneTypes DEF OrderInv, MutexInv, Delete
<1>2. Become(r)  BY DEF Delete
<1>3. gone' \cap Mutexes = gone \cap Mutexes  BY <1>1, MutexAssumption
<1> SUFFICES ASSUME gone \cap Mutexes = {} PROVE Orderly(Now')
  BY <1>3 DEF OrderNext
<1>4. Orderly(Now)  BY DEF OrderInv
<1>5. /\ waiters \in [Mutexes -> Seq(Threads)] /\ \A n \in Mutexes : Distinct(waiters[n])
      /\ m \in Mutexes \cup {NoMutex}
  <2>1. Now.waiters \in [Mutexes -> Seq(Threads)] /\ Now.pending[t] \in Mutexes \cup {NoMutex}
    BY <1>1, SaneTypes
  <2>2. \A n \in Mutexes : Distinct(Now.waiters[n])  BY <1>1 DEF Sane, Listed
  <2> QED  BY <2>1, <2>2, NowFields
<1>6. ASSUME NEW n \in Mutexes
      PROVE  /\ ws[n] = Unlink(Now.waiters[n], t)
             /\ ws[n] \in Seq(Threads) /\ Distinct(ws[n])
             /\ \A u : Holds(ws[n], u) => Holds(Now.waiters[n], u)
  <2> DEFINE w == waiters[n]
  <2>1. w \in Seq(Threads) /\ Distinct(w) /\ ws[n] = Unlink(w, t) /\ w = Now.waiters[n]
    BY <1>5, NowFields
  <2> HIDE DEF w, ws
  <2>2. /\ Unlink(w, t) \in Seq(Threads) /\ Distinct(Unlink(w, t))
        /\ \A u : Holds(Unlink(w, t), u) <=> Holds(w, u) /\ u # t
    BY <2>1, UnlinkFacts
  <2> QED  BY <2>1, <2>2
<1>7. ws \in [Mutexes -> Seq(Threads)]  BY <1>6
<1> HIDE DEF ws
<1>8. Slackens(closed, Now)  BY <1>1, <1>6, <1>7, ShorterSlackens
<1>9. Sane(closed, held, inside, gone)  BY <1>1, <1>8, SlackensSane
<1>10. /\ closed \in MutexStates /\ closed.owner = Now.owner /\ closed.mpri = Now.mpri
       /\ closed.prio = Now.prio /\ closed.waiters = ws
  BY <1>1, <1>7 DEF MutexStates
<1> HIDE DEF closed
<1>11. Orderly(closed)
  <2>1. \A n \in Mutexes : Distinct(Now.waiters[n])  BY <1>5, NowFields
  <2>2. \A n \in Mutexes : closed.waiters[n] \in {Now.waiters[n], Unlink(Now.waiters[n], t)}
    BY <1>6, <1>10
  <2> QED  BY <1>1, <1>4, <1>10, <2>1, <2>2, ShorterOrderly
<1>12. Orderly(dropped) /\ dropped \in MutexStates
  <2>1. CASE m = NoMutex
    <3>1. dropped = closed  BY <2>1
    <3> HIDE DEF dropped
    <3> QED  BY <1>10, <1>11, <3>1
  <2>2. CASE m # NoMutex
    <3>1. m \in Mutexes  BY <1>5, <2>2
    <3> HIDE DEF m
    <3>2. Slackens(away, closed) /\ Orderly(away)
      BY <1>9, <1>11, <3>1, LeaveSlackens, LeaveOrderly
    <3> HIDE DEF away
    <3> DEFINE ps == [away.pending EXCEPT ![t] = NoMutex]
    <3>3. away \in MutexStates /\ ps \in [Threads -> Mutexes \cup {NoMutex}]
      BY <3>2 DEF Slackens, MutexStates
    <3>4. dropped = [away EXCEPT !.pending = ps]  BY <2>2, <3>3 DEF MutexStates
    <3> HIDE DEF dropped, ps
    <3>5. /\ dropped \in MutexStates /\ dropped.owner = away.owner /\ dropped.mpri = away.mpri
          /\ dropped.prio = away.prio /\ dropped.waiters = away.waiters
      BY <3>3, <3>4 DEF MutexStates
    <3> QED  BY <3>2, <3>5 DEF Orderly
  <2> QED  BY <2>1, <2>2
<1> HIDE DEF dropped, hs
<1>13. /\ r.owner = dropped.owner /\ r.mpri = dropped.mpri /\ r.prio = dropped.prio
       /\ r.waiters = dropped.waiters
  BY <1>12 DEF MutexStates
<1> HIDE DEF r
<1>14. /\ owner' = r.owner /\ mpri' = r.mpri /\ prio' = r.prio /\ waiters' = r.waiters
  BY <1>2 DEF Become
<1> DEFINE x == Now'
<1>15. x.owner = r.owner /\ x.mpri = r.mpri /\ x.prio = r.prio /\ x.waiters = r.waiters
  BY <1>14 DEF Now
<1> HIDE DEF x
<1>16. Orderly(x)  BY <1>12, <1>13, <1>15 DEF Orderly
<1> QED  BY <1>16 DEF x

LEMMA OrderInit == MutexInit => OrderInv
<1> SUFFICES ASSUME MutexInit PROVE OrderInv
  OBVIOUS
<1>1. MutexInv  BY MutexInvInit
<1>2. /\ \A m \in Mutexes : Now.waiters[m] = <<>> /\ Now.owner[m] = NoThread
      /\ NoThread \notin Threads
  BY MutexAssumption DEF MutexInit, Now
<1>3. Orderly(Now)  BY <1>2 DEF Orderly, Sorted, Holds
<1> QED  BY <1>1, <1>3 DEF OrderInv

LEMMA OrderStutter ==
    ASSUME OrderInv, MutexInv', UNCHANGED mutexVars
    PROVE  OrderNext /\ DueNext
<1>1. /\ owner' = owner /\ mpri' = mpri /\ ceil' = ceil /\ waiters' = waiters /\ prio' = prio
      /\ taken' = taken /\ gone' = gone
  BY DEF mutexVars
<1> QED  BY <1>1, QuietOrder

\* Lists stay in order, and only who gives up waiting, or is deleted while it waits, leaves
\* a priority behind that is not due.
LEMMA OrderStep ==
    ASSUME OrderInv, [MutexNext]_mutexVars
    PROVE  OrderNext /\ (DueNext \/ \E t \in Threads : TakeReturns(t) \/ Delete(t))
<1> DEFINE Goal == OrderNext /\ (DueNext \/ \E t \in Threads : TakeReturns(t) \/ Delete(t))
<1>1. MutexInv'  BY MutexStep DEF OrderInv
<1>2. ASSUME NEW t \in Threads, NEW m \in Mutexes, TakeFree(t, m) PROVE Goal
  BY <1>1, <1>2, TakeFreeOrder
<1>3. ASSUME NEW t \in Threads, NEW m \in Mutexes, TakeAgain(t, m) PROVE Goal
  <2>1. /\ owner' = owner /\ mpri' = mpri /\ ceil' = ceil /\ waiters' = waiters
        /\ prio' = prio /\ taken' = taken /\ gone' = gone
    BY <1>3 DEF TakeAgain, Become, Now
  <2> QED  BY <1>1, <2>1, QuietOrder
<1>4. ASSUME NEW t \in Threads, NEW m \in Mutexes, TakeFails(t, m) PROVE Goal
  BY <1>1, <1>4, OrderStutter DEF TakeFails
<1>5. ASSUME NEW t \in Threads, NEW m \in Mutexes, TakeBlocks(t, m) PROVE Goal
  BY <1>1, <1>5, TakeBlocksOrder
<1>6. ASSUME NEW t \in Threads, NEW m \in Mutexes, Release(t, m) PROVE Goal
  BY <1>1, <1>6, ReleaseOrder
<1>7. ASSUME NEW t \in Threads, NEW m \in Mutexes, ReleaseRefused(t, m) PROVE Goal
  BY <1>1, <1>7, OrderStutter DEF ReleaseRefused
<1>8. ASSUME NEW t \in Threads, TakeReturns(t) PROVE Goal
  BY <1>1, <1>8, TakeReturnsOrder
<1>9. ASSUME NEW t \in Threads, ClearPending(t) PROVE Goal
  <2>1. /\ owner' = owner /\ mpri' = mpri /\ ceil' = ceil /\ waiters' = waiters
        /\ prio' = prio /\ taken' = taken /\ gone' = gone
    BY <1>9 DEF ClearPending, Become, Now
  <2> QED  BY <1>1, <2>1, QuietOrder
<1>10. ASSUME NEW t \in Threads, Exit(t) PROVE Goal
  BY <1>1, <1>10, ExitOrder
<1>11. ASSUME NEW t \in Threads, MutexWaitEnds(t) PROVE Goal
  BY <1>1, <1>11, WaitEndsOrder
<1>12. ASSUME NEW t \in Threads, Delete(t) PROVE Goal
  BY <1>1, <1>12, DeleteOrder
<1>13. ASSUME NEW m \in Mutexes, Detach(m) PROVE Goal
  BY <1>1, <1>13, DetachOrder
<1>14. ASSUME NEW m \in Mutexes, NEW p \in Ceilings, SetCeiling(m, p) PROVE Goal
  BY <1>1, <1>14, SetCeilingOrder
<1>15. ASSUME UNCHANGED mutexVars PROVE Goal  BY <1>1, <1>15, OrderStutter
<1> HIDE DEF Goal
<1>16. Goal
  BY <1>2, <1>3, <1>4, <1>5, <1>6, <1>7, <1>8, <1>9, <1>10, <1>11, <1>12, <1>13, <1>14,
     <1>15 DEF MutexNext, ThreadOps
<1> QED  BY <1>16 DEF Goal

LEMMA OrderInvKept == OrderInv /\ [MutexNext]_mutexVars => OrderInv'
<1> SUFFICES ASSUME OrderInv, [MutexNext]_mutexVars PROVE OrderInv'
  OBVIOUS
<1>1. MutexInv'  BY MutexStep DEF OrderInv
<1>2. OrderNext  BY OrderStep
<1> QED  BY <1>1, <1>2 DEF OrderInv, OrderNext

LEMMA OrderInherits == OrderInv => InheritanceHolds
<1> SUFFICES ASSUME OrderInv, gone \cap Mutexes = {} PROVE WaitersByPriority /\ OwnerInherits
  BY DEF InheritanceHolds
<1>1. /\ owner \in [Mutexes -> Threads \cup {NoThread}] /\ waiters \in [Mutexes -> Seq(Threads)]
      /\ mpri \in [Mutexes -> 0..NoPrio] /\ prio \in [Threads -> 0..(NoPrio - 1)] /\ NoPrio \in Nat
  BY SaneTypes, NowFields DEF OrderInv, MutexInv
<1>2. ASSUME NEW m \in Mutexes
      PROVE  /\ Sorted(waiters[m], prio)
             /\ owner[m] \in Threads => prio[owner[m]] <= mpri[m]
             /\ \A u \in Threads : Holds(waiters[m], u) => mpri[m] <= prio[u]
  BY NowFields DEF OrderInv, Orderly
<1>3. WaitersByPriority  BY <1>2 DEF WaitersByPriority, Live
<1>4. ASSUME NEW m \in Mutexes, NEW i \in DOMAIN waiters[m], owner[m] # NoThread
      PROVE  prio[owner[m]] <= prio[waiters[m][i]]
  <2> DEFINE w == waiters[m]
             u == w[i]
  <2>1. w \in Seq(Threads) /\ i \in DOMAIN w /\ Holds(w, u)  BY <1>1, <1>4 DEF Holds
  <2>2. u \in Threads  BY <2>1, LenProperties, ElementOfSeq
  <2>3. mpri[m] <= prio[u]  BY <1>2, <2>1, <2>2
  <2> HIDE DEF u
  <2>4. owner[m] \in Threads /\ prio[owner[m]] <= mpri[m]  BY <1>1, <1>2, <1>4
  <2>5. prio[owner[m]] \in Nat /\ mpri[m] \in Nat /\ prio[u] \in Nat  BY <1>1, <2>2, <2>4
  <2>6. prio[owner[m]] <= prio[u]  BY <2>3, <2>4, <2>5
  <2> QED  BY <2>6 DEF u
<1>5. OwnerInherits  BY <1>4 DEF OwnerInherits, Live
<1> QED  BY <1>3, <1>5

LEMMA OrderDue ==
    ASSUME OrderInv, [MutexNext]_mutexVars, PriorityIsDue,
           gone \cap Mutexes = {}, \A m \in Mutexes : ceil[m] = NoPrio
    PROVE  PriorityIsDue' \/ \E t \in Threads : TakeReturns(t) \/ Delete(t)
<1>1. AllDue(Now, gone)  BY NowFields DEF PriorityIsDue, AllDue
<1>2. SUFFICES ASSUME DueNext PROVE PriorityIsDue'
  BY OrderStep
<1>3. AllDue(Now', gone')  BY <1>1, <1>2 DEF DueNext
<1> DEFINE r == Now'
<1>4. prio' = r.prio  BY DEF Now
<1> HIDE DEF r
<1>5. AllDue(r, gone')  BY <1>3 DEF r
<1>6. \A u \in Threads \ gone' : prio'[u] = DuePriority(r, u)  BY <1>4, <1>5 DEF AllDue
<1> QED  BY <1>6 DEF PriorityIsDue, r

-----------------------------------------------------------------------------
\* Every variable of the mutexes keeps its type: nobody is owner, waiter or due a
\* priority that does not exist, and no hold count passes RT_MUTEX_HOLD_MAX.
THEOREM MutexTypeCorrect == MutexSpec => []MutexTypeOK
<1>1. MutexInit => MutexInv  BY MutexInvInit
<1>2. MutexInv /\ [MutexNext]_mutexVars => MutexInv'  BY MutexStep
<1>3. MutexInv => MutexTypeOK  BY MutexInvTypes
<1> QED  BY <1>1, <1>2, <1>3, PTL DEF MutexSpec

\* Hold counts are the takes that succeeded, the lists of taken mutexes are those of the
\* owner fields, and nobody waits for a free mutex, through hand-overs, expiries,
\* ceilings, detaching and the end of threads (rt_mutex_take and rt_mutex_release).
THEOREM OwnershipAgreesAlways == MutexSpec => []OwnershipAgrees
<1>1. MutexInit => MutexInv  BY MutexInvInit
<1>2. MutexInv /\ [MutexNext]_mutexVars => MutexInv'  BY MutexStep
<1>3. MutexInv => OwnershipAgrees  BY MutexInvOwnership
<1> QED  BY <1>1, <1>2, <1>3, PTL DEF MutexSpec

\* The mutexes are locks that one thread at a time has and releases as often as it took
\* them, however waiting, inheritance and hand-over come out.
THEOREM MutexRefinesLock == MutexSpec => RefinesLock
<1>1. MutexInit => MutexInv  BY MutexInvInit
<1>2. MutexInv /\ [MutexNext]_mutexVars => MutexInv'  BY MutexStep
<1>3. MutexInit => Lock!LockInit  BY DEF MutexInit, Lock!LockInit
<1>4. MutexInv /\ [MutexNext]_mutexVars => [Lock!LockNext]_held  BY MutexStep
<1> QED  BY <1>1, <1>2, <1>3, <1>4, PTL DEF MutexSpec, RefinesLock, Lock!LockSpec

\* Until a mutex is detached, lists are in order and no owner is less urgent than those who
\* wait for its mutexes, along chains of owners of any length (_thread_update_priority).
THEOREM InheritanceHoldsAlways == MutexSpec => []InheritanceHolds
<1>1. MutexInit => OrderInv  BY OrderInit
<1>2. OrderInv /\ [MutexNext]_mutexVars => OrderInv'  BY OrderInvKept
<1>3. OrderInv => InheritanceHolds  BY OrderInherits
<1> QED  BY <1>1, <1>2, <1>3, PTL DEF MutexSpec

\* With no ceiling and no mutex detached, takes, hand-overs, releases and ends of threads
\* leave nobody a priority that is not due; giving up and deleting may.
THEOREM DueKeptAlways == MutexSpec => DueKept
<1> DEFINE Leaves ==
             /\ PriorityIsDue
             /\ gone \cap Mutexes = {} /\ \A m \in Mutexes : ceil[m] = NoPrio
             => PriorityIsDue' \/ \E t \in Threads : TakeReturns(t) \/ Delete(t)
<1>1. MutexInit => OrderInv  BY OrderInit
<1>2. OrderInv /\ [MutexNext]_mutexVars => OrderInv'  BY OrderInvKept
<1>3. OrderInv /\ [MutexNext]_mutexVars => [Leaves]_mutexVars  BY OrderDue
<1> QED  BY <1>1, <1>2, <1>3, PTL DEF MutexSpec, DueKept
=============================================================================
