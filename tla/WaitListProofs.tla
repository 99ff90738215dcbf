--------------------------- MODULE WaitListProofs ---------------------------
(***************************************************************************)
(* What linking and unlinking a thread do to a wait list, for every list:  *)
(* the facts the proofs about the blocking objects rest on; and what       *)
(* putting and getting do to a ring.                                       *)
(***************************************************************************)
EXTENDS WaitList, SequenceTheorems, WellFoundedInduction, TLAPS

\* InsertAt, element by element.
Inserted(q, s, k, e) ==
    /\ Len(q) = Len(s) + 1
    /\ \A i \in 1..(Len(s) + 1) : q[i] = IF i < k THEN s[i] ELSE IF i = k THEN e ELSE s[i - 1]

LEMMA InsertAtElements ==
    ASSUME NEW S, NEW s \in Seq(S), NEW e \in S, NEW k \in 1..(Len(s) + 1)
    PROVE  InsertAt(s, k, e) \in Seq(S) /\ Inserted(InsertAt(s, k, e), s, k, e)
<1>0. Len(s) \in Nat /\ k \in Int  BY LenProperties
<1> DEFINE front == SubSeq(s, 1, k - 1)
           back  == SubSeq(s, k, Len(s))
<1>1. /\ front \in Seq(S)
      /\ Len(front) = k - 1
      /\ \A i \in 1..(k - 1) : front[i] = s[i]
  BY SubSeqProperties
<1>2. /\ back \in Seq(S)
      /\ Len(back) = Len(s) - k + 1
      /\ \A i \in 1..(Len(s) - k + 1) : back[i] = s[k + i - 1]
  BY SubSeqProperties
<1>3. /\ <<e>> \in Seq(S)
      /\ Len(<<e>>) = 1
      /\ <<e>>[1] = e
  OBVIOUS
<1> HIDE DEF front, back
<1>4. /\ front \o <<e>> \in Seq(S)
      /\ Len(front \o <<e>>) = k
      /\ \A i \in 1..k : (front \o <<e>>)[i] = IF i < k THEN front[i] ELSE e
  BY <1>1, <1>3, ConcatProperties
<1>5. /\ (front \o <<e>>) \o back \in Seq(S)
      /\ Len((front \o <<e>>) \o back) = Len(s) + 1
      /\ \A i \in 1..(Len(s) + 1) : ((front \o <<e>>) \o back)[i] =
            IF i <= k THEN (front \o <<e>>)[i] ELSE back[i - k]
  BY <1>2, <1>4, ConcatProperties
<1>6. \A i \in 1..(Len(s) + 1) : ((front \o <<e>>) \o back)[i] =
            IF i < k THEN s[i] ELSE IF i = k THEN e ELSE s[i - 1]
  <2> TAKE i \in 1..(Len(s) + 1)
  <2>0. i \in Int  BY <1>0
  <2>1. CASE i <= k  BY <2>1, <1>1, <1>4, <1>5
  <2>2. CASE i > k
    <3>1. i - k \in 1..(Len(s) - k + 1) /\ k + (i - k) - 1 = i - 1  BY <2>2
    <3> QED  BY <3>1, <2>2, <1>2, <1>5
  <2>3. i <= k \/ i > k  BY <1>0, <2>0
  <2> QED  BY <2>1, <2>2, <2>3
<1>7. Inserted((front \o <<e>>) \o back, s, k, e)  BY <1>5, <1>6 DEF Inserted
<1>8. InsertAt(s, k, e) = (front \o <<e>>) \o back  BY DEF InsertAt, front, back
<1> QED  BY <1>5, <1>7, <1>8

\* RemoveAt, element by element.
LEMMA RemoveAtElements ==
    ASSUME NEW S, NEW s \in Seq(S), NEW k \in 1..Len(s)
    PROVE  /\ RemoveAt(s, k) \in Seq(S)
           /\ Len(RemoveAt(s, k)) = Len(s) - 1
           /\ \A i \in 1..(Len(s) - 1) :
                RemoveAt(s, k)[i] = IF i < k THEN s[i] ELSE s[i + 1]
<1>0. Len(s) \in Nat /\ k \in Int  BY LenProperties
<1> DEFINE front == SubSeq(s, 1, k - 1)
           back  == SubSeq(s, k + 1, Len(s))
<1>1. /\ front \in Seq(S)
      /\ Len(front) = k - 1
      /\ \A i \in 1..(k - 1) : front[i] = s[i]
  BY SubSeqProperties
<1>2. /\ back \in Seq(S)
      /\ Len(back) = Len(s) - k
      /\ \A i \in 1..(Len(s) - k) : back[i] = s[k + i]
  <2>1. \A i \in (k + 1)..Len(s) : s[i] \in S  OBVIOUS
  <2>2. \A i \in 1..(Len(s) - (k + 1) + 1) : k + 1 + i - 1 = k + i  OBVIOUS
  <2> QED  BY <2>1, <2>2, SubSeqProperties
<1> HIDE DEF front, back
<1>3. /\ front \o back \in Seq(S)
      /\ Len(front \o back) = Len(s) - 1
      /\ \A i \in 1..(Len(s) - 1) : (front \o back)[i] =
            IF i <= k - 1 THEN front[i] ELSE back[i - (k - 1)]
  <2>1. Len(front) + Len(back) = Len(s) - 1  BY <1>0, <1>1, <1>2
  <2>2. /\ front \o back \in Seq(S)
        /\ Len(front \o back) = Len(front) + Len(back)
        /\ \A i \in 1..(Len(front) + Len(back)) : (front \o back)[i] =
              IF i <= Len(front) THEN front[i] ELSE back[i - Len(front)]
    BY <1>1, <1>2, ConcatProperties
  <2> QED  BY <1>1, <2>1, <2>2
<1>4. \A i \in 1..(Len(s) - 1) : (front \o back)[i] = IF i < k THEN s[i] ELSE s[i + 1]
  <2> TAKE i \in 1..(Len(s) - 1)
  <2>0. i \in Int  BY <1>0
  <2>1. CASE i < k  BY <2>1, <1>1, <1>3
  <2>2. CASE i >= k
    <3>1. i - (k - 1) \in 1..(Len(s) - k) /\ k + (i - (k - 1)) = i + 1  BY <2>2
    <3> QED  BY <3>1, <2>2, <1>2, <1>3
  <2>3. i < k \/ i >= k  BY <1>0, <2>0
  <2> QED  BY <2>1, <2>2, <2>3
<1>5. RemoveAt(s, k) = front \o back  BY DEF RemoveAt, front, back
<1> QED  BY <1>3, <1>4, <1>5

\* Every two elements of r are in s too, in the same order.
Kept(r, s) ==
    \A i, j \in DOMAIN r : \E m, n \in DOMAIN s :
        r[i] = s[m] /\ r[j] = s[n] /\ (i < j <=> m < n) /\ (i = j <=> m = n)

\* What is left after a removal is there as it was.
LEMMA RemoveAtKept ==
    ASSUME NEW S, NEW s \in Seq(S), NEW k \in DOMAIN s
    PROVE  /\ RemoveAt(s, k) \in Seq(S) /\ Kept(RemoveAt(s, k), s)
           /\ \A i \in DOMAIN RemoveAt(s, k) :
                 \E m \in DOMAIN s : m # k /\ RemoveAt(s, k)[i] = s[m]
           /\ \A m \in DOMAIN s : m # k =>
                 \E i \in DOMAIN RemoveAt(s, k) : RemoveAt(s, k)[i] = s[m]
<1> DEFINE r == RemoveAt(s, k)
           P(i) == IF i < k THEN i ELSE i + 1
<1>0. Len(s) \in Nat /\ DOMAIN s = 1..Len(s) /\ k \in 1..Len(s)  BY LenProperties
<1>1. /\ r \in Seq(S) /\ Len(r) = Len(s) - 1
      /\ \A i \in 1..(Len(s) - 1) : r[i] = IF i < k THEN s[i] ELSE s[i + 1]
  BY <1>0, RemoveAtElements
<1> HIDE DEF r
<1>2. DOMAIN r = 1..(Len(s) - 1)  BY <1>1, LenProperties
<1>3. ASSUME NEW i \in DOMAIN r
      PROVE  P(i) \in DOMAIN s /\ r[i] = s[P(i)] /\ P(i) # k /\ P(i) \in Int /\ i \in Int
  BY <1>0, <1>1, <1>2, <1>3
<1>4. ASSUME NEW i \in DOMAIN r, NEW j \in DOMAIN r
      PROVE  (i < j <=> P(i) < P(j)) /\ (i = j <=> P(i) = P(j))
  BY <1>0, <1>2, <1>4
<1>5. ASSUME NEW m \in DOMAIN s, m # k PROVE \E i \in DOMAIN r : r[i] = s[m]
  <2>1. CASE m < k  BY <1>0, <1>1, <1>2, <1>5, <2>1
  <2>2. CASE m > k
    <3>1. m - 1 \in DOMAIN r /\ ~(m - 1 < k) /\ m - 1 + 1 = m  BY <1>0, <1>2, <2>2
    <3> QED  BY <1>1, <1>2, <3>1
  <2> QED  BY <1>0, <1>5, <2>1, <2>2
<1> HIDE DEF P
<1>6. Kept(r, s)  BY <1>3, <1>4 DEF Kept
<1> QED  BY <1>1, <1>3, <1>5, <1>6 DEF r

LEMMA TailKept ==
    ASSUME NEW S, NEW s \in Seq(S), s # <<>>
    PROVE  /\ Tail(s) \in Seq(S) /\ Kept(Tail(s), s)
           /\ 1 \in DOMAIN s /\ Head(s) = s[1] /\ Head(s) \in S
           /\ \A i \in DOMAIN Tail(s) : \E m \in DOMAIN s : m # 1 /\ Tail(s)[i] = s[m]
           /\ \A m \in DOMAIN s : m # 1 => \E i \in DOMAIN Tail(s) : Tail(s)[i] = s[m]
<1> DEFINE r == Tail(s)
<1>0. Len(s) \in Nat /\ DOMAIN s = 1..Len(s) /\ Len(s) # 0  BY LenProperties, EmptySeq
<1>1. /\ r \in Seq(S) /\ Len(r) = Len(s) - 1 /\ Head(s) = s[1] /\ s[1] \in S
      /\ \A i \in 1..(Len(s) - 1) : r[i] = s[i + 1]
  BY <1>0, HeadTailProperties
<1> HIDE DEF r
<1>2. DOMAIN r = 1..(Len(s) - 1)  BY <1>1, LenProperties
<1>3. ASSUME NEW i \in DOMAIN r PROVE i + 1 \in DOMAIN s /\ r[i] = s[i + 1] /\ i + 1 # 1 /\ i \in Int
  BY <1>0, <1>1, <1>2, <1>3
<1>4. Kept(r, s)
  <2> SUFFICES ASSUME NEW i \in DOMAIN r, NEW j \in DOMAIN r
               PROVE  \E m, n \in DOMAIN s :
                        r[i] = s[m] /\ r[j] = s[n] /\ (i < j <=> m < n) /\ (i = j <=> m = n)
    BY DEF Kept
  <2>1. (i < j <=> i + 1 < j + 1) /\ (i = j <=> i + 1 = j + 1)  BY <1>3
  <2> QED  BY <1>3, <2>1
<1>5. ASSUME NEW m \in DOMAIN s, m # 1 PROVE \E i \in DOMAIN r : r[i] = s[m]
  <2>1. m - 1 \in DOMAIN r /\ m - 1 + 1 = m  BY <1>0, <1>2, <1>5
  <2> QED  BY <1>1, <1>2, <2>1
<1>6. 1 \in DOMAIN s  BY <1>0
<1> QED  BY <1>1, <1>3, <1>4, <1>5, <1>6 DEF r

\* Two elements of q, which is s with e at position k: both are in s in the same
\* order, or one of them is e, with all before position k before it.
Placed(q, s, k, e) ==
    /\ k \in DOMAIN q /\ q[k] = e
    /\ \A i, j \in DOMAIN q : i # k /\ j # k => \E m, n \in DOMAIN s :
          q[i] = s[m] /\ q[j] = s[n] /\ (i < j <=> m < n) /\ (i = j <=> m = n)
    /\ \A i \in DOMAIN q : i # k => \E m \in DOMAIN s :
          q[i] = s[m] /\ (i < k <=> m < k) /\ (k < i <=> k <= m)
    /\ \A m \in DOMAIN s : \E i \in DOMAIN q : i # k /\ q[i] = s[m]

LEMMA InsertAtPlaced ==
    ASSUME NEW S, NEW s \in Seq(S), NEW e \in S, NEW k \in 1..(Len(s) + 1)
    PROVE  InsertAt(s, k, e) \in Seq(S) /\ Placed(InsertAt(s, k, e), s, k, e)
<1> DEFINE q == InsertAt(s, k, e)
           P(i) == IF i < k THEN i ELSE i - 1
<1>0. Len(s) \in Nat /\ DOMAIN s = 1..Len(s)  BY LenProperties
<1>20. q \in Seq(S) /\ Inserted(q, s, k, e)  BY InsertAtElements
<1> HIDE DEF q
<1>1. /\ q \in Seq(S) /\ Len(q) = Len(s) + 1
      /\ \A i \in 1..(Len(s) + 1) : q[i] = IF i < k THEN s[i] ELSE IF i = k THEN e ELSE s[i - 1]
  BY <1>20 DEF Inserted
<1>2. DOMAIN q = 1..(Len(s) + 1)  BY <1>1, LenProperties
<1>3. ASSUME NEW i \in DOMAIN q, i # k
      PROVE  /\ P(i) \in DOMAIN s /\ q[i] = s[P(i)] /\ P(i) \in Int /\ i \in Int
             /\ (i < k <=> P(i) < k) /\ (k < i <=> k <= P(i))
  BY <1>0, <1>1, <1>2, <1>3
<1>4. ASSUME NEW i \in DOMAIN q, NEW j \in DOMAIN q, i # k, j # k
      PROVE  (i < j <=> P(i) < P(j)) /\ (i = j <=> P(i) = P(j))
  BY <1>0, <1>2, <1>4
<1>5. ASSUME NEW m \in DOMAIN s PROVE \E i \in DOMAIN q : i # k /\ q[i] = s[m]
  <2>1. CASE m < k  BY <1>0, <1>1, <1>2, <2>1
  <2>2. CASE m >= k
    <3>1. m + 1 \in DOMAIN q /\ ~(m + 1 < k) /\ m + 1 # k /\ m + 1 - 1 = m  BY <1>0, <1>2, <2>2
    <3> QED  BY <1>1, <1>2, <3>1
  <2> QED  BY <1>0, <2>1, <2>2
<1>6. k \in DOMAIN q /\ q[k] = e  BY <1>0, <1>1, <1>2
<1> HIDE DEF P
<1>7. Placed(q, s, k, e)  BY <1>3, <1>4, <1>5, <1>6 DEF Placed
<1> QED  BY <1>1, <1>7 DEF q

LEMMA AppendPlaced ==
    ASSUME NEW S, NEW s \in Seq(S), NEW e \in S
    PROVE  Append(s, e) \in Seq(S) /\ Placed(Append(s, e), s, Len(s) + 1, e)
<1>0. Len(s) \in Nat /\ DOMAIN s = 1..Len(s)  BY LenProperties
<1>1. /\ Append(s, e) \in Seq(S) /\ Len(Append(s, e)) = Len(s) + 1
      /\ \A i \in 1..Len(s) : Append(s, e)[i] = s[i]
      /\ Append(s, e)[Len(s) + 1] = e
  BY AppendProperties
<1>2. DOMAIN Append(s, e) = 1..(Len(s) + 1)  BY <1>1, LenProperties
<1>3. \A i \in DOMAIN Append(s, e) : i # Len(s) + 1 =>
         i \in DOMAIN s /\ Append(s, e)[i] = s[i] /\ i < Len(s) + 1 /\ ~(Len(s) + 1 < i)
  BY <1>0, <1>1, <1>2
<1>4. \A m \in DOMAIN s : /\ m \in DOMAIN Append(s, e) /\ m # Len(s) + 1
                          /\ Append(s, e)[m] = s[m] /\ ~(Len(s) + 1 <= m)
  BY <1>0, <1>1, <1>2
<1>5. Len(s) + 1 \in DOMAIN Append(s, e)  BY <1>0, <1>2
<1> QED  BY <1>1, <1>3, <1>4, <1>5 DEF Placed

-----------------------------------------------------------------------------
\* Every non-empty set of naturals has a least element.
LEMMA LeastNat ==
    ASSUME NEW T \in SUBSET Nat, T # {}
    PROVE  \E x \in T : \A y \in T : x <= y
<1> DEFINE less == {ss \in Nat \X Nat : ss[1] < ss[2]}
<1>1. IsWellFoundedOn(less, Nat)  BY NatLessThanWellFounded, Zenon DEF OpToRel
<1>2. PICK x \in T : \A y \in T : <<y, x>> \notin less
  <2> HIDE DEF less
  <2> QED  BY <1>1, WFMin
<1>3. ASSUME NEW y \in T PROVE x <= y
  <2>1. <<y, x>> \in Nat \X Nat /\ <<y, x>>[1] = y /\ <<y, x>>[2] = x  OBVIOUS
  <2>2. ~(y < x)  BY <1>2, <2>1
  <2> QED  BY <2>2
<1> QED  BY <1>3

\* Unlink takes t, and only t, off the list.
LEMMA UnlinkFacts ==
    ASSUME NEW S, NEW s \in Seq(S), NEW t, Distinct(s)
    PROVE  /\ Unlink(s, t) \in Seq(S)
           /\ Distinct(Unlink(s, t))
           /\ \A u : Holds(Unlink(s, t), u) <=> Holds(s, u) /\ u # t
<1>0. Len(s) \in Nat /\ DOMAIN s = 1..Len(s)  BY LenProperties
<1>1. CASE ~Holds(s, t)
  <2>1. Unlink(s, t) = s  BY <1>1 DEF Unlink
  <2> QED  BY <1>1, <2>1
<1>2. CASE Holds(s, t)
  <2> DEFINE k == CHOOSE i \in DOMAIN s : s[i] = t
             r == RemoveAt(s, k)
  <2>1. k \in 1..Len(s) /\ s[k] = t  BY <1>0, <1>2 DEF Holds
  <2>2. Unlink(s, t) = r  BY <1>2 DEF Unlink
  <2> HIDE DEF k
  <2>3. /\ r \in Seq(S)
        /\ Len(r) = Len(s) - 1
        /\ \A i \in 1..(Len(s) - 1) : r[i] = IF i < k THEN s[i] ELSE s[i + 1]
    BY <2>1, RemoveAtElements
  <2> HIDE DEF r
  <2>4. DOMAIN r = 1..(Len(s) - 1)  BY <2>3, LenProperties
  <2>5. Distinct(r)
    <3> SUFFICES ASSUME NEW i \in DOMAIN r, NEW j \in DOMAIN r, r[i] = r[j]
                 PROVE  i = j
      BY DEF Distinct
    <3> DEFINE from(n) == IF n < k THEN n ELSE n + 1
    <3>1. from(i) \in DOMAIN s /\ from(j) \in DOMAIN s  BY <1>0, <2>1, <2>4
    <3>2. s[from(i)] = s[from(j)]  BY <2>3, <2>4
    <3>3. from(i) = from(j)  BY <3>1, <3>2 DEF Distinct
    <3> QED  BY <1>0, <2>1, <2>4, <3>3
  <2>6. ASSUME NEW u PROVE Holds(r, u) <=> Holds(s, u) /\ u # t
    <3>1. ASSUME Holds(r, u) PROVE Holds(s, u) /\ u # t
      <4>1. PICK i \in 1..(Len(s) - 1) : r[i] = u  BY <2>4, <3>1 DEF Holds
      <4>2. CASE i < k
        <5>1. i \in DOMAIN s /\ s[i] = u /\ i # k  BY <1>0, <2>1, <2>3, <4>1, <4>2
        <5> QED  BY <1>0, <2>1, <5>1 DEF Distinct, Holds
      <4>3. CASE ~(i < k)
        <5>1. i + 1 \in DOMAIN s /\ s[i + 1] = u /\ i + 1 # k
          BY <1>0, <2>1, <2>3, <4>1, <4>3
        <5> QED  BY <1>0, <2>1, <5>1 DEF Distinct, Holds
      <4> QED  BY <4>2, <4>3
    <3>2. ASSUME Holds(s, u), u # t PROVE Holds(r, u)
      <4>1. PICK i \in 1..Len(s) : s[i] = u  BY <1>0, <3>2 DEF Holds
      <4>2. i # k  BY <2>1, <3>2, <4>1
      <4>3. CASE i < k
        <5>1. i \in 1..(Len(s) - 1) /\ r[i] = u  BY <1>0, <2>1, <2>3, <4>1, <4>3
        <5> QED  BY <2>4, <5>1 DEF Holds
      <4>4. CASE ~(i < k)
        <5>1. i - 1 \in 1..(Len(s) - 1) /\ ~(i - 1 < k) /\ (i - 1) + 1 = i
          BY <1>0, <2>1, <4>2, <4>4
        <5>2. r[i - 1] = u  BY <2>3, <4>1, <5>1
        <5> QED  BY <2>4, <5>1, <5>2 DEF Holds
      <4> QED  BY <4>3, <4>4
    <3> QED  BY <3>1, <3>2
  <2> QED  BY <2>2, <2>3, <2>5, <2>6
<1> QED  BY <1>1, <1>2

\* Enqueue adds t, and only t, whatever the flag and the priorities.
LEMMA EnqueueFacts ==
    ASSUME NEW S, NEW s \in Seq(S), NEW t \in S, NEW flag, NEW prio,
           Distinct(s), ~Holds(s, t)
    PROVE  /\ Enqueue(s, t, flag, prio) \in Seq(S)
           /\ Distinct(Enqueue(s, t, flag, prio))
           /\ \A u : Holds(Enqueue(s, t, flag, prio), u) <=> Holds(s, u) \/ u = t
<1>0. Len(s) \in Nat /\ DOMAIN s = 1..Len(s)  BY LenProperties
<1> DEFINE q == Enqueue(s, t, flag, prio)
\* Either way t is inserted at some position k.
<1>1. \E k \in 1..(Len(s) + 1) :
        /\ q \in Seq(S)
        /\ Len(q) = Len(s) + 1
        /\ \A i \in 1..(Len(s) + 1) :
              q[i] = IF i < k THEN s[i] ELSE IF i = k THEN t ELSE s[i - 1]
  <2> DEFINE after == LessUrgent(s, t, prio)
  <2>1. CASE flag = "PRIO" /\ after # {}
    <3> DEFINE k == CHOOSE i \in after : \A j \in after : i <= j
    <3>1. after \in SUBSET Nat /\ after \subseteq 1..Len(s)
      BY <1>0 DEF LessUrgent
    <3>2. k \in after  BY <2>1, <3>1, LeastNat
    <3>3. k \in 1..(Len(s) + 1)  BY <1>0, <3>1, <3>2
    <3>4. q = InsertAt(s, k, t)  BY <2>1 DEF Enqueue
    <3> HIDE DEF k, q, after
    <3>5. InsertAt(s, k, t) \in Seq(S) /\ Inserted(InsertAt(s, k, t), s, k, t)
      BY <3>3, InsertAtElements
    <3>6. q \in Seq(S) /\ Inserted(q, s, k, t)  BY <3>4, <3>5
    <3> QED  BY <3>3, <3>6 DEF Inserted
  <2>2. CASE ~(flag = "PRIO" /\ after # {})
    <3>1. q = Append(s, t)  BY <2>2 DEF Enqueue
    <3> HIDE DEF q
    <3>2. /\ q \in Seq(S)
          /\ Len(q) = Len(s) + 1
          /\ \A i \in 1..Len(s) : q[i] = s[i]
          /\ q[Len(s) + 1] = t
      BY <3>1, AppendProperties
    <3>3. Len(s) + 1 \in 1..(Len(s) + 1)  BY <1>0
    <3>4. \A i \in 1..(Len(s) + 1) :
            q[i] = IF i < Len(s) + 1 THEN s[i] ELSE IF i = Len(s) + 1 THEN t ELSE s[i - 1]
      BY <1>0, <3>2
    <3> QED  BY <3>2, <3>3, <3>4
  <2> QED  BY <2>1, <2>2
<1> HIDE DEF q
<1>2. PICK k \in 1..(Len(s) + 1) :
        /\ q \in Seq(S)
        /\ Len(q) = Len(s) + 1
        /\ \A i \in 1..(Len(s) + 1) :
              q[i] = IF i < k THEN s[i] ELSE IF i = k THEN t ELSE s[i - 1]
  BY <1>1
<1>3. DOMAIN q = 1..(Len(s) + 1)  BY <1>2, LenProperties
<1>4. \A i \in DOMAIN q : i # k =>
        LET o == IF i < k THEN i ELSE i - 1 IN o \in DOMAIN s /\ q[i] = s[o]
  BY <1>0, <1>2, <1>3
<1>5. q[k] = t  BY <1>2
<1>6. Distinct(q)
  <2> SUFFICES ASSUME NEW i \in DOMAIN q, NEW j \in DOMAIN q, q[i] = q[j]
               PROVE  i = j
    BY DEF Distinct
  <2>1. CASE i = k \/ j = k  BY <2>1, <1>4, <1>5 DEF Holds
  <2>2. CASE i # k /\ j # k
    <3> DEFINE o(n) == IF n < k THEN n ELSE n - 1
    <3>1. o(i) \in DOMAIN s /\ o(j) \in DOMAIN s /\ s[o(i)] = s[o(j)]  BY <2>2, <1>4
    <3>2. o(i) = o(j)  BY <3>1 DEF Distinct
    <3> QED  BY <1>0, <1>3, <2>2, <3>2
  <2> QED  BY <2>1, <2>2
<1>7. ASSUME NEW u PROVE Holds(q, u) <=> Holds(s, u) \/ u = t
  <2>1. Holds(q, u) => Holds(s, u) \/ u = t  BY <1>4, <1>5 DEF Holds
  <2>2. u = t => Holds(q, u)  BY <1>2, <1>3, <1>5 DEF Holds
  <2>3. ASSUME Holds(s, u) PROVE Holds(q, u)
    <3>1. PICK i \in 1..Len(s) : s[i] = u  BY <1>0, <2>3 DEF Holds
    <3>2. CASE i < k
      <4>1. i \in DOMAIN q /\ q[i] = u  BY <1>0, <1>2, <1>3, <3>1, <3>2
      <4> QED  BY <4>1 DEF Holds
    <3>3. CASE ~(i < k)
      <4>1. i + 1 \in DOMAIN q /\ ~(i + 1 < k) /\ i + 1 # k /\ (i + 1) - 1 = i
        BY <1>0, <1>3, <3>3
      <4>2. q[i + 1] = u  BY <1>2, <1>3, <3>1, <4>1
      <4> QED  BY <4>1, <4>2 DEF Holds
    <3> QED  BY <3>2, <3>3
  <2> QED  BY <2>1, <2>2, <2>3
<1> QED  BY <1>2, <1>6, <1>7 DEF q

\* Serving the head takes it, and only it, off the list.
LEMMA TailFacts ==
    ASSUME NEW S, NEW s \in Seq(S), s # <<>>, Distinct(s)
    PROVE  /\ Head(s) \in S /\ Holds(s, Head(s))
           /\ Tail(s) \in Seq(S)
           /\ Distinct(Tail(s))
           /\ \A u : Holds(Tail(s), u) <=> Holds(s, u) /\ u # Head(s)
<1>0. Len(s) \in Nat /\ DOMAIN s = 1..Len(s) /\ Len(s) # 0
  BY LenProperties, EmptySeq
<1>1. /\ Tail(s) \in Seq(S)
      /\ Len(Tail(s)) = Len(s) - 1
      /\ \A i \in 1..(Len(s) - 1) : Tail(s)[i] = s[i + 1]
  BY <1>0, HeadTailProperties
<1>2. DOMAIN Tail(s) = 1..(Len(s) - 1)  BY <1>1, LenProperties
<1>3. Head(s) = s[1] /\ 1 \in DOMAIN s /\ s[1] \in S  BY <1>0, HeadTailProperties
<1>4. Distinct(Tail(s))
  <2> SUFFICES ASSUME NEW i \in 1..(Len(s) - 1), NEW j \in 1..(Len(s) - 1),
                      Tail(s)[i] = Tail(s)[j]
               PROVE  i = j
    BY <1>2 DEF Distinct
  <2>1. i + 1 \in DOMAIN s /\ j + 1 \in DOMAIN s /\ s[i + 1] = s[j + 1]  BY <1>0, <1>1
  <2>2. i + 1 = j + 1  BY <2>1 DEF Distinct
  <2> QED  BY <2>2
<1>5. ASSUME NEW u PROVE Holds(Tail(s), u) <=> Holds(s, u) /\ u # Head(s)
  <2>1. ASSUME Holds(Tail(s), u) PROVE Holds(s, u) /\ u # Head(s)
    <3>1. PICK i \in 1..(Len(s) - 1) : Tail(s)[i] = u  BY <1>2, <2>1 DEF Holds
    <3>2. i + 1 \in DOMAIN s /\ s[i + 1] = u /\ i + 1 # 1  BY <1>0, <1>1, <3>1
    <3> QED  BY <1>3, <3>2 DEF Distinct, Holds
  <2>2. ASSUME Holds(s, u), u # Head(s) PROVE Holds(Tail(s), u)
    <3>1. PICK i \in 1..Len(s) : s[i] = u  BY <1>0, <2>2 DEF Holds
    <3>2. i # 1  BY <1>3, <2>2, <3>1
    <3>3. i - 1 \in 1..(Len(s) - 1) /\ (i - 1) + 1 = i  BY <1>0, <3>1, <3>2
    <3>4. Tail(s)[i - 1] = u  BY <1>1, <3>1, <3>3
    <3> QED  BY <1>2, <3>3, <3>4 DEF Holds
  <2> QED  BY <2>1, <2>2
<1> QED  BY <1>1, <1>3, <1>4, <1>5 DEF Holds

-----------------------------------------------------------------------------
\* Queueing by priority keeps a sorted list sorted.
LEMMA EnqueueSorted ==
    ASSUME NEW S, NEW s \in Seq(S), NEW t \in S, NEW prio \in [S -> Nat], Sorted(s, prio)
    PROVE  Sorted(Enqueue(s, t, "PRIO", prio), prio)
<1>0. Len(s) \in Nat /\ DOMAIN s = 1..Len(s)  BY LenProperties
<1>00. \A i, j \in 1..Len(s) : i < j => prio[s[i]] <= prio[s[j]]  BY <1>0 DEF Sorted
<1> DEFINE q == Enqueue(s, t, "PRIO", prio)
           after == LessUrgent(s, t, prio)
<1>1. after \in SUBSET Nat /\ after \subseteq 1..Len(s)  BY <1>0 DEF LessUrgent
\* t goes to a position with nobody less urgent before it, and only less
\* urgent threads from it on.
<1>2. \E k \in 1..(Len(s) + 1) :
        /\ Len(q) = Len(s) + 1 /\ q \in Seq(S)
        /\ \A i \in 1..(Len(s) + 1) :
              q[i] = IF i < k THEN s[i] ELSE IF i = k THEN t ELSE s[i - 1]
        /\ \A i \in 1..Len(s) : i < k => prio[s[i]] <= prio[t]
        /\ \A i \in 1..Len(s) : i >= k => prio[t] <= prio[s[i]]
  <2>1. CASE after # {}
    <3> DEFINE k == CHOOSE i \in after : \A j \in after : i <= j
    <3>1. k \in after /\ \A j \in after : k <= j  BY <2>1, <1>1, LeastNat
    <3>2. k \in DOMAIN s  BY <1>0, <1>1, <3>1
    <3>2a. k \in 1..(Len(s) + 1)  BY <1>0, <3>2
    <3>3. q = InsertAt(s, k, t)  BY <2>1 DEF Enqueue
    <3> HIDE DEF k, q
    <3>4. InsertAt(s, k, t) \in Seq(S) /\ Inserted(InsertAt(s, k, t), s, k, t)
      BY <3>2a, InsertAtElements
    <3>5. ASSUME NEW i \in 1..Len(s), i < k PROVE prio[s[i]] <= prio[t]
      <4>1. i \notin after  BY <1>1, <3>1, <3>5
      <4>2. prio[s[i]] \in Nat /\ prio[t] \in Nat  BY ElementOfSeq
      <4> QED  BY <1>0, <4>1, <4>2 DEF LessUrgent
    <3>6. ASSUME NEW i \in 1..Len(s), i >= k PROVE prio[t] <= prio[s[i]]
      <4>1. prio[t] < prio[s[k]]  BY <3>1 DEF LessUrgent
      <4>2. prio[s[i]] \in Nat /\ prio[t] \in Nat /\ prio[s[k]] \in Nat
        BY <1>0, <3>2, ElementOfSeq
      <4>3. prio[s[k]] <= prio[s[i]]
        <5>1. k \in 1..Len(s) /\ k \in Nat /\ i \in Nat  BY <1>0, <3>2
        <5>2. CASE i = k  BY <4>2, <5>2
        <5>3. CASE i # k
          <6>1. k < i  BY <3>6, <5>1, <5>3
          <6> QED  BY <1>00, <5>1, <6>1
        <5> QED  BY <5>2, <5>3
      <4> QED  BY <4>1, <4>2, <4>3
    <3>7. q \in Seq(S) /\ Inserted(q, s, k, t)  BY <3>3, <3>4
    <3>8. /\ Len(q) = Len(s) + 1 /\ q \in Seq(S)
          /\ \A i \in 1..(Len(s) + 1) :
                q[i] = IF i < k THEN s[i] ELSE IF i = k THEN t ELSE s[i - 1]
      BY <3>7 DEF Inserted
    <3> HIDE DEF after
    <3> QED  BY <3>2a, <3>5, <3>6, <3>8, Zenon
  <2>2. CASE after = {}
    <3>1. q = Append(s, t)  BY <2>2 DEF Enqueue
    <3> HIDE DEF q
    <3>2. /\ q \in Seq(S)
          /\ Len(q) = Len(s) + 1
          /\ \A i \in 1..Len(s) : q[i] = s[i]
          /\ q[Len(s) + 1] = t
      BY <3>1, AppendProperties
    <3>3. \A i \in 1..(Len(s) + 1) :
            q[i] = IF i < Len(s) + 1 THEN s[i] ELSE IF i = Len(s) + 1 THEN t ELSE s[i - 1]
      BY <1>0, <3>2
    <3>4. \A i \in 1..Len(s) : prio[s[i]] \in Nat /\ prio[t] \in Nat  BY ElementOfSeq
    <3>5. \A i \in 1..Len(s) : prio[s[i]] <= prio[t]
      BY <1>0, <2>2, <3>4 DEF LessUrgent
    <3>6. Len(s) + 1 \in 1..(Len(s) + 1) /\ \A i \in 1..Len(s) : ~(i >= Len(s) + 1)  BY <1>0
    <3> QED  BY <3>2, <3>3, <3>5, <3>6
  <2> QED  BY <2>1, <2>2
<1> HIDE DEF q
<1>3. PICK k \in 1..(Len(s) + 1) :
        /\ Len(q) = Len(s) + 1 /\ q \in Seq(S)
        /\ \A i \in 1..(Len(s) + 1) :
              q[i] = IF i < k THEN s[i] ELSE IF i = k THEN t ELSE s[i - 1]
        /\ \A i \in 1..Len(s) : i < k => prio[s[i]] <= prio[t]
        /\ \A i \in 1..Len(s) : i >= k => prio[t] <= prio[s[i]]
  BY <1>2
<1>4. DOMAIN q = 1..(Len(s) + 1)  BY <1>3, LenProperties
<1>5. ASSUME NEW i \in DOMAIN q, NEW j \in DOMAIN q, i < j PROVE prio[q[i]] <= prio[q[j]]
  <2>1. CASE i # k /\ j # k
    <3> DEFINE o(n) == IF n < k THEN n ELSE n - 1
    <3>0. i \in 1..(Len(s) + 1) /\ j \in 1..(Len(s) + 1) /\ i < j /\ k \in 1..(Len(s) + 1)
      BY <1>4, <1>5
    <3>1. o(i) \in DOMAIN s /\ o(j) \in DOMAIN s /\ o(i) < o(j)
      <4>1. CASE j < k  BY <1>0, <3>0, <4>1
      <4>2. CASE i < k /\ k < j
        <5>1. o(i) = i /\ o(j) = j - 1  BY <1>0, <3>0, <4>2
        <5> HIDE DEF o
        <5> QED  BY <1>0, <3>0, <4>2, <5>1
      <4>3. CASE k < i
        <5>1. o(i) = i - 1 /\ o(j) = j - 1  BY <1>0, <3>0, <4>3
        <5> HIDE DEF o
        <5> QED  BY <1>0, <3>0, <4>3, <5>1
      <4>4. j < k \/ (i < k /\ k < j) \/ k < i  BY <1>0, <2>1, <3>0
      <4> QED  BY <4>1, <4>2, <4>3, <4>4
    <3>2. q[i] = s[o(i)] /\ q[j] = s[o(j)]  BY <1>3, <1>4, <2>1
    <3> QED  BY <3>1, <3>2 DEF Sorted
  <2>2. CASE i = k
    <3>0. i \in 1..(Len(s) + 1) /\ j \in 1..(Len(s) + 1) /\ i < j
      BY <1>4, <1>5
    <3>1. j - 1 \in 1..Len(s) /\ j - 1 >= k /\ ~(j < k) /\ j # k
      BY <1>0, <2>2, <3>0
    <3>2. q[i] = t /\ q[j] = s[j - 1]  BY <1>3, <1>4, <2>2, <3>1
    <3> QED  BY <1>3, <3>1, <3>2
  <2>3. CASE j = k
    <3>1. i \in 1..Len(s) /\ i < k  BY <1>0, <1>3, <1>4, <1>5, <2>3
    <3>2. q[i] = s[i] /\ q[j] = t  BY <1>3, <1>4, <2>3, <3>1
    <3> QED  BY <1>3, <3>1, <3>2
  <2> QED  BY <2>1, <2>2, <2>3
<1> QED  BY <1>5 DEF Sorted, q

\* So does unlinking any thread.
LEMMA UnlinkSorted ==
    ASSUME NEW S, NEW s \in Seq(S), NEW t, NEW prio, Sorted(s, prio)
    PROVE  Sorted(Unlink(s, t), prio)
<1>0. Len(s) \in Nat /\ DOMAIN s = 1..Len(s)  BY LenProperties
<1>1. CASE ~Holds(s, t)  BY <1>1 DEF Unlink
<1>2. CASE Holds(s, t)
  <2> DEFINE k == CHOOSE i \in DOMAIN s : s[i] = t
             r == RemoveAt(s, k)
  <2>1. k \in 1..Len(s)  BY <1>0, <1>2 DEF Holds
  <2>2. Unlink(s, t) = r  BY <1>2 DEF Unlink
  <2> HIDE DEF k
  <2>3. /\ r \in Seq(S)
        /\ Len(r) = Len(s) - 1
        /\ \A i \in 1..(Len(s) - 1) : r[i] = IF i < k THEN s[i] ELSE s[i + 1]
    BY <2>1, RemoveAtElements
  <2> HIDE DEF r
  <2>4. DOMAIN r = 1..(Len(s) - 1)  BY <2>3, LenProperties
  <2>5. ASSUME NEW i \in DOMAIN r, NEW j \in DOMAIN r, i < j PROVE prio[r[i]] <= prio[r[j]]
    <3> DEFINE from(n) == IF n < k THEN n ELSE n + 1
    <3>1. from(i) \in DOMAIN s /\ from(j) \in DOMAIN s /\ from(i) < from(j)
      BY <1>0, <2>1, <2>4, <2>5
    <3>2. r[i] = s[from(i)] /\ r[j] = s[from(j)]  BY <2>3, <2>4
    <3> QED  BY <3>1, <3>2 DEF Sorted
  <2> QED  BY <2>2, <2>5 DEF Sorted
<1> QED  BY <1>1, <1>2

\* And so does serving the head.
LEMMA TailSorted ==
    ASSUME NEW S, NEW s \in Seq(S), s # <<>>, NEW prio, Sorted(s, prio)
    PROVE  Sorted(Tail(s), prio)
<1>0. Len(s) \in Nat /\ DOMAIN s = 1..Len(s) /\ Len(s) # 0
  BY LenProperties, EmptySeq
<1>1. /\ Tail(s) \in Seq(S)
      /\ Len(Tail(s)) = Len(s) - 1
      /\ \A i \in 1..(Len(s) - 1) : Tail(s)[i] = s[i + 1]
  BY <1>0, HeadTailProperties
<1>2. DOMAIN Tail(s) = 1..(Len(s) - 1)  BY <1>1, LenProperties
<1>3. \A i \in 1..(Len(s) - 1) : i + 1 \in DOMAIN s  BY <1>0
<1>4. \A i, j \in 1..(Len(s) - 1) : i < j => i + 1 < j + 1  BY <1>0
<1> QED  BY <1>1, <1>2, <1>3, <1>4 DEF Sorted
-----------------------------------------------------------------------------
\* Who stands on a list is one of its elements, and an empty list holds nobody.
LEMMA HeldIsElement ==
    ASSUME NEW S, NEW s \in Seq(S), NEW u, Holds(s, u)
    PROVE  u \in S
  BY LenProperties, ElementOfSeq DEF Holds

LEMMA EmptyHoldsNobody ==
    ASSUME NEW S, NEW s \in Seq(S)
    PROVE  (s = <<>>) <=> (\A t \in S : ~Holds(s, t))
<1>1. s = <<>> => \A t \in S : ~Holds(s, t)  BY DEF Holds
<1>2. s # <<>> => 1 \in DOMAIN s /\ s[1] \in S  BY EmptySeq, LenProperties
<1>3. s # <<>> => \E t \in S : Holds(s, t)  BY <1>2 DEF Holds
<1> QED  BY <1>1, <1>3

\* Append puts e, and only e, on the list.
LEMMA AppendFacts ==
    ASSUME NEW S, NEW s \in Seq(S), NEW e \in S
    PROVE  /\ Append(s, e) \in Seq(S)
           /\ \A u : Holds(Append(s, e), u) <=> Holds(s, u) \/ u = e
           /\ Distinct(s) /\ ~Holds(s, e) => Distinct(Append(s, e))
<1> DEFINE n == Len(s)
           q == Append(s, e)
<1>1. n \in Nat /\ DOMAIN s = 1..n  BY LenProperties
<1>2. /\ q \in Seq(S)
      /\ Len(q) = n + 1
      /\ \A i \in 1..n : q[i] = s[i]
      /\ q[n + 1] = e
  BY AppendProperties
<1>3. DOMAIN q = 1..(n + 1)  BY <1>2, LenProperties
<1>4. \A i \in 1..(n + 1) : i \in 1..n \/ i = n + 1  BY <1>1
<1> HIDE DEF n, q
<1>5. ASSUME NEW u PROVE Holds(q, u) <=> Holds(s, u) \/ u = e
  BY <1>1, <1>2, <1>3, <1>4 DEF Holds
<1>6. ASSUME Distinct(s), ~Holds(s, e) PROVE Distinct(q)
  <2> SUFFICES ASSUME NEW i \in 1..(n + 1), NEW j \in 1..(n + 1), q[i] = q[j]
               PROVE  i = j
    BY <1>3 DEF Distinct
  <2>1. \A k \in 1..n : s[k] # e  BY <1>1, <1>6 DEF Holds
  <2>2. CASE i \in 1..n /\ j \in 1..n  BY <1>1, <1>2, <1>6, <2>2 DEF Distinct
  <2>3. CASE i = n + 1 \/ j = n + 1  BY <1>2, <1>4, <2>1, <2>3
  <2> QED  BY <1>4, <2>2, <2>3
<1> QED  BY <1>2, <1>5, <1>6 DEF q

-----------------------------------------------------------------------------
(***************************************************************************)
(* Several lists: a thread has one list node, so it is on at most one of   *)
(* the lists of an object, and there once.                                 *)
(***************************************************************************)
OnOneList(f) ==
    /\ \A l \in DOMAIN f : Distinct(f[l])
    /\ \A l, k \in DOMAIN f : \A i \in DOMAIN f[l] : Holds(f[k], f[l][i]) => l = k

\* An element put before the first, and only it, joins the list.
LEMMA PrependFacts ==
    ASSUME NEW S, NEW s \in Seq(S), NEW e \in S
    PROVE  /\ <<e>> \o s \in Seq(S)
           /\ Len(<<e>> \o s) = Len(s) + 1
           /\ \A u : Holds(<<e>> \o s, u) <=> Holds(s, u) \/ u = e
           /\ Distinct(s) /\ ~Holds(s, e) => Distinct(<<e>> \o s)
<1> DEFINE n == Len(s)
           q == <<e>> \o s
<1>1. n \in Nat /\ DOMAIN s = 1..n  BY LenProperties
<1>2. /\ q \in Seq(S)
      /\ Len(q) = n + 1
      /\ q[1] = e
      /\ \A i \in 1..n : q[i + 1] = s[i]
  <2>1. <<e>> \in Seq(S) /\ Len(<<e>>) = 1 /\ <<e>>[1] = e  OBVIOUS
  <2>2. /\ q \in Seq(S) /\ Len(q) = 1 + n
        /\ \A i \in 1..(1 + n) : q[i] = IF i <= 1 THEN <<e>>[i] ELSE s[i - 1]
    BY <2>1, ConcatProperties
  <2>3. q[1] = e  BY <1>1, <2>1, <2>2
  <2>4. ASSUME NEW i \in 1..n PROVE q[i + 1] = s[i]
    <3>1. i + 1 \in 1..(1 + n) /\ ~(i + 1 <= 1) /\ (i + 1) - 1 = i  BY <1>1
    <3> HIDE DEF q
    <3> QED  BY <2>2, <3>1
  <2> QED  BY <1>1, <2>2, <2>3, <2>4
<1>3. DOMAIN q = 1..(n + 1)  BY <1>2, LenProperties
<1> HIDE DEF q, n
<1>4. \A i \in 1..(n + 1) : i = 1 \/ (i - 1 \in 1..n /\ q[i] = s[i - 1])
  <2> TAKE i \in 1..(n + 1)
  <2>1. CASE i # 1
    <3>1. i - 1 \in 1..n /\ (i - 1) + 1 = i  BY <1>1, <2>1
    <3> QED  BY <1>2, <3>1
  <2> QED  BY <2>1
<1>5. ASSUME NEW u PROVE Holds(q, u) <=> Holds(s, u) \/ u = e
  <2>1. ASSUME Holds(q, u) PROVE Holds(s, u) \/ u = e
    <3>1. PICK i \in 1..(n + 1) : q[i] = u  BY <1>3, <2>1 DEF Holds
    <3>2. CASE i = 1  BY <1>2, <3>1, <3>2
    <3>3. CASE i # 1
      <4>1. i - 1 \in DOMAIN s /\ s[i - 1] = u  BY <1>1, <1>4, <3>1, <3>3
      <4> QED  BY <4>1 DEF Holds
    <3> QED  BY <3>2, <3>3
  <2>2. ASSUME Holds(s, u) PROVE Holds(q, u)
    <3>1. PICK i \in 1..n : s[i] = u  BY <1>1, <2>2 DEF Holds
    <3>2. i + 1 \in 1..(n + 1) /\ q[i + 1] = u  BY <1>1, <1>2, <3>1
    <3> QED  BY <1>3, <3>2 DEF Holds
  <2>3. 1 \in DOMAIN q  BY <1>1, <1>3
  <2> QED  BY <1>2, <2>1, <2>2, <2>3 DEF Holds
<1>6. ASSUME Distinct(s), ~Holds(s, e) PROVE Distinct(q)
  <2>1. ASSUME NEW i \in 1..(n + 1), NEW j \in 1..(n + 1), q[i] = q[j] PROVE i = j
    <3>1. CASE i = 1 /\ j = 1  BY <3>1
    <3>2. CASE i = 1 /\ j # 1  BY <1>1, <1>2, <1>4, <1>6, <2>1, <3>2 DEF Holds
    <3>3. CASE i # 1 /\ j = 1  BY <1>1, <1>2, <1>4, <1>6, <2>1, <3>3 DEF Holds
    <3>4. CASE i # 1 /\ j # 1
      <4>1. i - 1 = j - 1  BY <1>1, <1>4, <1>6, <2>1, <3>4 DEF Distinct
      <4> QED  BY <1>1, <4>1
    <3> QED  BY <3>1, <3>2, <3>3, <3>4
  <2> QED  BY <1>3, <2>1 DEF Distinct
<1> QED  BY <1>2, <1>5, <1>6 DEF q, n

LEMMA OneListOnly ==
    ASSUME NEW f, OnOneList(f), NEW l \in DOMAIN f, NEW k \in DOMAIN f, NEW u,
           Holds(f[l], u), Holds(f[k], u)
    PROVE  l = k
<1>1. PICK i \in DOMAIN f[l] : f[l][i] = u  BY DEF Holds
<1> QED  BY <1>1 DEF OnOneList

LEMMA OnOneListIntro ==
    ASSUME NEW f, \A l \in DOMAIN f : Distinct(f[l]),
           \A l, k \in DOMAIN f : \A u : Holds(f[l], u) /\ Holds(f[k], u) => l = k
    PROVE  OnOneList(f)
<1>1. \A l \in DOMAIN f : \A i \in DOMAIN f[l] : Holds(f[l], f[l][i])  BY DEF Holds
<1> QED  BY <1>1 DEF OnOneList

\* The lists Ls of threads in S, and the steps of the kernel on them.
ListsOf(S, Ls, f) == f \in [Ls -> Seq(S)] /\ OnOneList(f)

UnlinkAll(f, t) == [l \in DOMAIN f |-> Unlink(f[l], t)]
EnqueueOne(f, l, t, flag, prio) == [f EXCEPT ![l] = Enqueue(@, t, flag, prio)]
TailOne(f, l) == [f EXCEPT ![l] = Tail(@)]
EmptySome(f, ls) == [l \in DOMAIN f |-> IF l \in ls THEN <<>> ELSE f[l]]

\* A thread is unlinked from whatever list holds it.
LEMMA UnlinkAllFacts ==
    ASSUME NEW S, NEW Ls, NEW f, ListsOf(S, Ls, f), NEW t
    PROVE  /\ ListsOf(S, Ls, UnlinkAll(f, t))
           /\ \A l \in Ls : \A u : Holds(UnlinkAll(f, t)[l], u) <=> Holds(f[l], u) /\ u # t
<1>0. f \in [Ls -> Seq(S)] /\ OnOneList(f)  BY DEF ListsOf
<1> USE <1>0
<1> DEFINE g == UnlinkAll(f, t)
<1>20. g = [l \in DOMAIN f |-> Unlink(f[l], t)]  BY DEF UnlinkAll
<1> HIDE DEF g
<1> USE <1>20
<1>1. ASSUME NEW l \in Ls
      PROVE  /\ g[l] \in Seq(S)
             /\ Distinct(g[l])
             /\ \A u : Holds(g[l], u) <=> Holds(f[l], u) /\ u # t
  <2>1. f[l] \in Seq(S) /\ Distinct(f[l]) /\ g[l] = Unlink(f[l], t)  BY DEF OnOneList
  <2> QED  BY <2>1, UnlinkFacts
<1>2. g \in [Ls -> Seq(S)]  BY <1>1
<1>3. \A l, k \in Ls : \A u : Holds(g[l], u) /\ Holds(g[k], u) => l = k
  BY <1>1, OneListOnly
<1>4. DOMAIN g = Ls  OBVIOUS
<1> QED  BY <1>1, <1>2, <1>3, <1>4, OnOneListIntro DEF ListsOf, g

\* A thread that is on no list is queued on one.
LEMMA EnqueueOneFacts ==
    ASSUME NEW S, NEW Ls, NEW f, ListsOf(S, Ls, f),
           NEW l \in Ls, NEW t \in S, NEW flag, NEW prio,
           \A k \in Ls : ~Holds(f[k], t)
    PROVE  /\ ListsOf(S, Ls, EnqueueOne(f, l, t, flag, prio))
           /\ \A k \in Ls : \A u : Holds(EnqueueOne(f, l, t, flag, prio)[k], u) <=> Holds(f[k], u) \/ (k = l /\ u = t)
<1>0. f \in [Ls -> Seq(S)] /\ OnOneList(f)  BY DEF ListsOf
<1> USE <1>0
<1> DEFINE g == EnqueueOne(f, l, t, flag, prio)
<1>20. g = [f EXCEPT ![l] = Enqueue(@, t, flag, prio)]  BY DEF EnqueueOne
<1> HIDE DEF g
<1> USE <1>20
<1>1. /\ f[l] \in Seq(S) /\ Distinct(f[l])
      /\ g[l] = Enqueue(f[l], t, flag, prio)
      /\ \A k \in Ls \ {l} : g[k] = f[k]
      /\ DOMAIN g = Ls
  BY DEF OnOneList
<1>2. /\ g[l] \in Seq(S) /\ Distinct(g[l])
      /\ \A u : Holds(g[l], u) <=> Holds(f[l], u) \/ u = t
  BY <1>1, EnqueueFacts
<1>3. g \in [Ls -> Seq(S)]  BY <1>1, <1>2
<1>4. \A k \in Ls : \A u : Holds(g[k], u) <=> Holds(f[k], u) \/ (k = l /\ u = t)
  BY <1>1, <1>2
<1>5. \A k \in Ls : Distinct(g[k])  BY <1>1, <1>2 DEF OnOneList
<1>6. \A j, k \in Ls : \A u : Holds(g[j], u) /\ Holds(g[k], u) => j = k
  BY <1>4, OneListOnly
<1>7. OnOneList(g)  BY <1>1, <1>5, <1>6, OnOneListIntro
<1> QED  BY <1>3, <1>4, <1>7 DEF ListsOf, g

\* The first thread of one list is taken off.
LEMMA TailOneFacts ==
    ASSUME NEW S, NEW Ls, NEW f, ListsOf(S, Ls, f),
           NEW l \in Ls, f[l] # <<>>
    PROVE  /\ ListsOf(S, Ls, TailOne(f, l))
           /\ Head(f[l]) \in S /\ Holds(f[l], Head(f[l]))
           /\ \A k \in Ls : \A u : Holds(TailOne(f, l)[k], u) <=> Holds(f[k], u) /\ u # Head(f[l])
<1>0. f \in [Ls -> Seq(S)] /\ OnOneList(f)  BY DEF ListsOf
<1> USE <1>0
<1> DEFINE g == TailOne(f, l)
<1>20. g = [f EXCEPT ![l] = Tail(@)]  BY DEF TailOne
<1> HIDE DEF g
<1> USE <1>20
<1>1. /\ f[l] \in Seq(S) /\ Distinct(f[l])
      /\ g[l] = Tail(f[l])
      /\ \A k \in Ls \ {l} : g[k] = f[k]
      /\ DOMAIN g = Ls
  BY DEF OnOneList
<1>2. /\ Head(f[l]) \in S /\ Holds(f[l], Head(f[l]))
      /\ g[l] \in Seq(S) /\ Distinct(g[l])
      /\ \A u : Holds(g[l], u) <=> Holds(f[l], u) /\ u # Head(f[l])
  BY <1>1, TailFacts
<1>3. g \in [Ls -> Seq(S)]  BY <1>1, <1>2
<1>4. \A k \in Ls \ {l} : ~Holds(f[k], Head(f[l]))  BY <1>2, OneListOnly
<1>5. \A k \in Ls : \A u : Holds(g[k], u) <=> Holds(f[k], u) /\ u # Head(f[l])
  BY <1>1, <1>2, <1>4
<1>6. \A k \in Ls : Distinct(g[k])  BY <1>1, <1>2 DEF OnOneList
<1>7. \A j, k \in Ls : \A u : Holds(g[j], u) /\ Holds(g[k], u) => j = k
  BY <1>5, OneListOnly
<1>8. OnOneList(g)  BY <1>1, <1>6, <1>7, OnOneListIntro
<1> QED  BY <1>2, <1>3, <1>5, <1>8 DEF ListsOf, g

\* Some of the lists are emptied.
LEMMA EmptySomeFacts ==
    ASSUME NEW S, NEW Ls, NEW f, ListsOf(S, Ls, f), NEW ls
    PROVE  /\ ListsOf(S, Ls, EmptySome(f, ls))
           /\ \A l \in Ls : EmptySome(f, ls)[l] = IF l \in ls THEN <<>> ELSE f[l]
           /\ \A l \in Ls : \A u : Holds(EmptySome(f, ls)[l], u) <=> Holds(f[l], u) /\ l \notin ls
<1>0. f \in [Ls -> Seq(S)] /\ OnOneList(f)  BY DEF ListsOf
<1> USE <1>0
<1> DEFINE g == EmptySome(f, ls)
<1>20. g = [l \in DOMAIN f |-> IF l \in ls THEN <<>> ELSE f[l]]  BY DEF EmptySome
<1> HIDE DEF g
<1> USE <1>20
<1>1. <<>> \in Seq(S) /\ Distinct(<<>>) /\ \A u : ~Holds(<<>>, u)  BY DEF Distinct, Holds
<1>2. \A l \in Ls : g[l] = IF l \in ls THEN <<>> ELSE f[l]  OBVIOUS
<1>3. g \in [Ls -> Seq(S)] /\ DOMAIN g = Ls  BY <1>1
<1>4. \A l \in Ls : \A u : Holds(g[l], u) <=> Holds(f[l], u) /\ l \notin ls
  BY <1>1, <1>2
<1>5. \A l \in Ls : Distinct(g[l])  BY <1>1, <1>2 DEF OnOneList
<1>6. \A j, k \in Ls : \A u : Holds(g[j], u) /\ Holds(g[k], u) => j = k
  BY <1>4, OneListOnly
<1>7. OnOneList(g)  BY <1>3, <1>5, <1>6, OnOneListIntro
<1> QED  BY <1>2, <1>3, <1>4, <1>7 DEF ListsOf, g

-----------------------------------------------------------------------------
(***************************************************************************)
(* Rings: n items in an array f of N places, the first one at offset o.    *)
(***************************************************************************)
IsRing(V, N, f, o, n) ==
    N \in Nat \ {0} /\ f \in [0..(N - 1) -> V] /\ o \in 0..(N - 1) /\ n \in 0..N

\* The place of an offset.
Wrap(a, N) == a % N
Before(o, N) == IF o > 0 THEN o - 1 ELSE N - 1

Store(f, k, v) == [f EXCEPT ![k] = v]

RingOf(f, o, n, N) == [i \in 1..n |-> f[Wrap(o + i - 1, N)]]

\* An offset of less than two rounds wraps around at most once.
LEMMA WrapFacts ==
    ASSUME NEW N \in Nat \ {0}, NEW a \in 0..(2 * N - 1)
    PROVE  /\ Wrap(a, N) = IF a < N THEN a ELSE a - N
           /\ Wrap(a, N) \in 0..(N - 1)
<1>1. Wrap(a, N) = IF a < N THEN a ELSE a - N  BY DEF Wrap
<1> QED  BY <1>1

\* The same also below 0, for sums and differences of a counter that wraps.
LEMMA WrapWide ==
    ASSUME NEW N \in Nat \ {0}, NEW a \in (-N)..(2 * N - 1)
    PROVE  /\ Wrap(a, N) = IF a < 0 THEN a + N ELSE IF a < N THEN a ELSE a - N
           /\ Wrap(a, N) \in 0..(N - 1)
<1>1. Wrap(a, N) = IF a < 0 THEN a + N ELSE IF a < N THEN a ELSE a - N  BY DEF Wrap
<1> QED  BY <1>1

\* One offset on, one back, and what they do to the place behind the last item.
LEMMA WrapSteps ==
    ASSUME NEW N \in Nat \ {0}, NEW o \in 0..(N - 1), NEW n \in 0..N
    PROVE  /\ Wrap(o + 1, N) = IF o + 1 >= N THEN 0 ELSE o + 1
           /\ n # N => Wrap(o + (n + 1), N) = Wrap(Wrap(o + n, N) + 1, N)
           /\ n # 0 => Wrap(Wrap(o + 1, N) + (n - 1), N) = Wrap(o + n, N)
           /\ n # N => Wrap(Before(o, N) + (n + 1), N) = Wrap(o + n, N)
<1>0. \A a \in 0..(2 * N - 1) :
         Wrap(a, N) = (IF a < N THEN a ELSE a - N) /\ Wrap(a, N) \in 0..(N - 1)
  BY WrapFacts
<1> DEFINE e == Wrap(o + n, N)
           p == Wrap(o + 1, N)
           b == Before(o, N)
<1>1. o + n \in 0..(2 * N - 1) /\ o + 1 \in 0..(2 * N - 1)  OBVIOUS
<1>2. e = (IF o + n < N THEN o + n ELSE o + n - N) /\ e \in 0..(N - 1)  BY <1>0, <1>1
<1>3. p = (IF o + 1 < N THEN o + 1 ELSE o + 1 - N) /\ p \in 0..(N - 1)  BY <1>0, <1>1
<1> HIDE DEF e, p
<1>4. ASSUME n # N PROVE Wrap(o + (n + 1), N) = Wrap(e + 1, N)
  <2>1. o + (n + 1) \in 0..(2 * N - 1) /\ e + 1 \in 0..(2 * N - 1)  BY <1>2, <1>4
  <2>2. Wrap(o + (n + 1), N) = IF o + (n + 1) < N THEN o + (n + 1) ELSE o + (n + 1) - N
    BY <1>0, <2>1
  <2>3. Wrap(e + 1, N) = IF e + 1 < N THEN e + 1 ELSE e + 1 - N  BY <1>0, <1>2, <2>1
  <2> QED  BY <1>2, <1>4, <2>2, <2>3
<1>5. ASSUME n # 0 PROVE Wrap(p + (n - 1), N) = e
  <2>1. p + (n - 1) \in 0..(2 * N - 1)  BY <1>3, <1>5
  <2>2. Wrap(p + (n - 1), N) = IF p + (n - 1) < N THEN p + (n - 1) ELSE p + (n - 1) - N
    BY <1>0, <1>3, <2>1
  <2> QED  BY <1>2, <1>3, <1>5, <2>2
<1>6. ASSUME n # N PROVE Wrap(b + (n + 1), N) = e
  <2>0. b = (IF o > 0 THEN o - 1 ELSE N - 1) /\ b \in 0..(N - 1)  BY DEF Before
  <2> HIDE DEF b
  <2>1. b + (n + 1) \in 0..(2 * N - 1)  BY <1>6, <2>0
  <2>2. Wrap(b + (n + 1), N) = IF b + (n + 1) < N THEN b + (n + 1) ELSE b + (n + 1) - N
    BY <1>0, <2>0, <2>1
  <2> QED  BY <1>2, <1>6, <2>0, <2>2
<1>7. p = IF o + 1 >= N THEN 0 ELSE o + 1  BY <1>3
<1> QED  BY <1>4, <1>5, <1>6, <1>7 DEF e, p, b

RingElements(V, N, f, o, n) ==
    /\ RingOf(f, o, n, N) \in Seq(V)
    /\ Len(RingOf(f, o, n, N)) = n
    /\ \A i \in 1..n : RingOf(f, o, n, N)[i] = f[Wrap(o + i - 1, N)]

LEMMA RingIsSeq ==
    ASSUME NEW V, NEW N, NEW f, NEW o, NEW n, IsRing(V, N, f, o, n)
    PROVE  RingElements(V, N, f, o, n)
<1>20. N \in Nat \ {0} /\ f \in [0..(N - 1) -> V] /\ o \in 0..(N - 1) /\ n \in 0..N
  BY DEF IsRing
<1> USE <1>20
<1>1. \A i \in 1..n : Wrap(o + i - 1, N) \in 0..(N - 1)
  <2> TAKE i \in 1..n
  <2>1. o + i - 1 \in 0..(2 * N - 1)  OBVIOUS
  <2> QED  BY <2>1, WrapFacts
<1> DEFINE r == RingOf(f, o, n, N)
<1>2. r = [i \in 1..n |-> f[Wrap(o + i - 1, N)]]  BY DEF RingOf
<1> HIDE DEF r
<1>3. r \in [1..n -> V]  BY <1>1, <1>2
<1>4. r \in Seq(V)  BY <1>3, SeqDef
<1>5. Len(r) = n  BY <1>3, <1>4, LenProperties
<1> QED  BY <1>2, <1>4, <1>5 DEF r, RingElements

\* An item put behind the last, into a ring with room for it.
LEMMA RingPut ==
    ASSUME NEW V, NEW N, NEW f, NEW o, NEW n, IsRing(V, N, f, o, n), n # N, NEW v \in V
    PROVE  RingOf(Store(f, Wrap(o + n, N), v), o, n + 1, N) = Append(RingOf(f, o, n, N), v)
<1> DEFINE k == Wrap(o + n, N)
           g == [f EXCEPT ![k] = v]
           r == RingOf(f, o, n, N)
           q == RingOf(g, o, n + 1, N)
<1>20. N \in Nat \ {0} /\ f \in [0..(N - 1) -> V] /\ o \in 0..(N - 1) /\ n \in 0..N
  BY DEF IsRing
<1> USE <1>20
<1>0. \A a \in 0..(2 * N - 1) :
         Wrap(a, N) = (IF a < N THEN a ELSE a - N) /\ Wrap(a, N) \in 0..(N - 1)
  BY WrapFacts
<1>1. o + n \in 0..(2 * N - 1)  OBVIOUS
<1>2. k = (IF o + n < N THEN o + n ELSE o + n - N) /\ k \in 0..(N - 1)  BY <1>0, <1>1
<1> HIDE DEF k
<1>3. g \in [0..(N - 1) -> V] /\ g[k] = v  BY <1>2
<1>4. r \in Seq(V) /\ Len(r) = n /\ \A i \in 1..n : r[i] = f[Wrap(o + i - 1, N)]
  <2>1. RingElements(V, N, f, o, n)  BY RingIsSeq
  <2> QED  BY <2>1 DEF RingElements
<1>5. q \in Seq(V) /\ Len(q) = n + 1 /\ \A i \in 1..(n + 1) : q[i] = g[Wrap(o + i - 1, N)]
  <2> HIDE DEF g
  <2>1. IsRing(V, N, g, o, n + 1)  BY <1>3 DEF IsRing
  <2>2. RingElements(V, N, g, o, n + 1)  BY <2>1, RingIsSeq
  <2> QED  BY <2>2 DEF RingElements
<1>6. /\ Append(r, v) \in Seq(V) /\ Len(Append(r, v)) = n + 1
      /\ \A i \in 1..n : Append(r, v)[i] = r[i]
      /\ Append(r, v)[n + 1] = v
  BY <1>4, AppendProperties
<1>7. ASSUME NEW i \in 1..(n + 1) PROVE q[i] = Append(r, v)[i]
  <2>1. CASE i = n + 1
    <3>1. o + i - 1 = o + n  BY <2>1
    <3>2. q[i] = g[k]  BY <1>5, <3>1 DEF k
    <3> QED  BY <1>3, <1>6, <2>1, <3>2
  <2>2. CASE i # n + 1
    <3>1. i \in 1..n /\ o + i - 1 \in 0..(2 * N - 1)  BY <2>2
    <3> DEFINE j == Wrap(o + i - 1, N)
    <3>2. j = (IF o + i - 1 < N THEN o + i - 1 ELSE o + i - 1 - N) /\ j \in 0..(N - 1)
      BY <1>0, <3>1
    <3>3. q[i] = g[j] /\ r[i] = f[j]  BY <1>4, <1>5, <3>1
    <3> HIDE DEF j
    <3>4. j # k  BY <1>2, <3>1, <3>2
    <3>5. g[j] = f[j]  BY <3>2, <3>4
    <3> QED  BY <1>6, <3>1, <3>3, <3>5
  <2> QED  BY <2>1, <2>2
<1> HIDE DEF q, r
<1>8. q = Append(r, v)  BY <1>5, <1>6, <1>7, SeqEqual
<1> QED  BY <1>8 DEF q, r, g, k, Store

\* The first item taken out of a ring that is not empty.
LEMMA RingGet ==
    ASSUME NEW V, NEW N, NEW f, NEW o, NEW n, IsRing(V, N, f, o, n), n # 0
    PROVE  /\ RingOf(f, o, n, N) # <<>>
           /\ RingOf(f, Wrap(o + 1, N), n - 1, N) = Tail(RingOf(f, o, n, N))
<1> DEFINE p == Wrap(o + 1, N)
           r == RingOf(f, o, n, N)
           q == RingOf(f, p, n - 1, N)
<1>20. N \in Nat \ {0} /\ f \in [0..(N - 1) -> V] /\ o \in 0..(N - 1) /\ n \in 0..N
  BY DEF IsRing
<1> USE <1>20
<1>0. \A a \in 0..(2 * N - 1) :
         Wrap(a, N) = (IF a < N THEN a ELSE a - N) /\ Wrap(a, N) \in 0..(N - 1)
  BY WrapFacts
<1>1. o + 1 \in 0..(2 * N - 1)  OBVIOUS
<1>2. p = (IF o + 1 < N THEN o + 1 ELSE o + 1 - N) /\ p \in 0..(N - 1)  BY <1>0, <1>1
<1> HIDE DEF p
<1>3. r \in Seq(V) /\ Len(r) = n /\ \A i \in 1..n : r[i] = f[Wrap(o + i - 1, N)]
  <2>1. RingElements(V, N, f, o, n)  BY RingIsSeq
  <2> QED  BY <2>1 DEF RingElements
<1>4. q \in Seq(V) /\ Len(q) = n - 1 /\ \A i \in 1..(n - 1) : q[i] = f[Wrap(p + i - 1, N)]
  <2>1. IsRing(V, N, f, p, n - 1)  BY <1>2 DEF IsRing
  <2>2. RingElements(V, N, f, p, n - 1)  BY <2>1, RingIsSeq
  <2> QED  BY <2>2 DEF RingElements
<1> HIDE DEF r, q
<1>5. r # <<>>  BY <1>3
<1>6. /\ Tail(r) \in Seq(V) /\ Len(Tail(r)) = n - 1
      /\ \A i \in 1..(n - 1) : Tail(r)[i] = r[i + 1]
  BY <1>3, <1>5, HeadTailProperties
<1>7. ASSUME NEW i \in 1..(n - 1) PROVE q[i] = Tail(r)[i]
  <2> DEFINE j == Wrap(p + i - 1, N)
             k == Wrap(o + (i + 1) - 1, N)
  <2>1. /\ i + 1 \in 1..n
        /\ p + i - 1 \in 0..(2 * N - 1) /\ o + (i + 1) - 1 \in 0..(2 * N - 1)
    BY <1>2
  <2>2. j = IF p + i - 1 < N THEN p + i - 1 ELSE p + i - 1 - N
    <3>1. p + i - 1 \in 0..(2 * N - 1)  BY <2>1
    <3> QED  BY <1>0, <1>2, <3>1
  <2>3. k = IF o + (i + 1) - 1 < N THEN o + (i + 1) - 1 ELSE o + (i + 1) - 1 - N
    BY <1>0, <2>1
  <2>4. q[i] = f[j] /\ r[i + 1] = f[k]  BY <1>3, <1>4, <2>1
  <2> HIDE DEF j, k
  <2>5. j = k  BY <1>2, <2>2, <2>3
  <2> QED  BY <1>6, <2>4, <2>5
<1>8. q = Tail(r)  BY <1>4, <1>6, <1>7, SeqEqual
<1> QED  BY <1>5, <1>8 DEF q, r, p

\* An item put before the first, into a ring with room for it.
LEMMA RingPutFirst ==
    ASSUME NEW V, NEW N, NEW f, NEW o, NEW n, IsRing(V, N, f, o, n), n # N, NEW v \in V
    PROVE  RingOf(Store(f, Before(o, N), v), Before(o, N), n + 1, N) = <<v>> \o RingOf(f, o, n, N)
<1> DEFINE p == Before(o, N)
           g == [f EXCEPT ![p] = v]
           r == RingOf(f, o, n, N)
           q == RingOf(g, p, n + 1, N)
<1>20. N \in Nat \ {0} /\ f \in [0..(N - 1) -> V] /\ o \in 0..(N - 1) /\ n \in 0..N
  BY DEF IsRing
<1> USE <1>20
<1>0. \A a \in 0..(2 * N - 1) :
         Wrap(a, N) = (IF a < N THEN a ELSE a - N) /\ Wrap(a, N) \in 0..(N - 1)
  BY WrapFacts
<1>1. p = (IF o > 0 THEN o - 1 ELSE N - 1) /\ p \in 0..(N - 1)  BY DEF Before
<1> HIDE DEF p
<1>2. g \in [0..(N - 1) -> V] /\ g[p] = v  BY <1>1
<1>3. r \in Seq(V) /\ Len(r) = n /\ \A i \in 1..n : r[i] = f[Wrap(o + i - 1, N)]
  <2>1. RingElements(V, N, f, o, n)  BY RingIsSeq
  <2> QED  BY <2>1 DEF RingElements
<1>4. q \in Seq(V) /\ Len(q) = n + 1 /\ \A i \in 1..(n + 1) : q[i] = g[Wrap(p + i - 1, N)]
  <2> HIDE DEF g
  <2>1. IsRing(V, N, g, p, n + 1)  BY <1>1, <1>2 DEF IsRing
  <2>2. RingElements(V, N, g, p, n + 1)  BY <2>1, RingIsSeq
  <2> QED  BY <2>2 DEF RingElements
<1>5. /\ <<v>> \o r \in Seq(V) /\ Len(<<v>> \o r) = n + 1
      /\ \A i \in 1..(n + 1) : (<<v>> \o r)[i] = IF i = 1 THEN v ELSE r[i - 1]
  <2>1. <<v>> \in Seq(V) /\ Len(<<v>>) = 1 /\ <<v>>[1] = v  OBVIOUS
  <2> HIDE DEF r
  <2>2. /\ <<v>> \o r \in Seq(V) /\ Len(<<v>> \o r) = 1 + n
        /\ \A i \in 1..(1 + n) : (<<v>> \o r)[i] = IF i <= 1 THEN <<v>>[i] ELSE r[i - 1]
    BY <1>3, <2>1, ConcatProperties
  <2> QED  BY <2>1, <2>2
<1>6. ASSUME NEW i \in 1..(n + 1) PROVE q[i] = (<<v>> \o r)[i]
  <2> DEFINE j == Wrap(p + i - 1, N)
  <2>1. p + i - 1 \in 0..(2 * N - 1)  BY <1>1
  <2>2. j = (IF p + i - 1 < N THEN p + i - 1 ELSE p + i - 1 - N) /\ j \in 0..(N - 1)
    BY <1>0, <1>1, <2>1
  <2>3. q[i] = g[j]  BY <1>4
  <2> HIDE DEF j
  <2>4. CASE i = 1
    <3>1. j = p  BY <1>1, <2>2, <2>4
    <3> QED  BY <1>2, <1>5, <2>3, <2>4, <3>1
  <2>5. CASE i # 1
    <3> DEFINE k == Wrap(o + (i - 1) - 1, N)
    <3>1. i - 1 \in 1..n /\ o + (i - 1) - 1 \in 0..(2 * N - 1)  BY <2>5
    <3>2. k = IF o + (i - 1) - 1 < N THEN o + (i - 1) - 1 ELSE o + (i - 1) - 1 - N
      BY <1>0, <3>1
    <3>3. r[i - 1] = f[k]  BY <1>3, <3>1
    <3> HIDE DEF k
    <3>4. j = k /\ j # p  BY <1>1, <2>2, <3>1, <3>2
    <3>5. g[j] = f[k]  BY <2>2, <3>4
    <3> QED  BY <1>5, <2>3, <2>5, <3>3, <3>5
  <2> QED  BY <2>4, <2>5
<1> HIDE DEF q, r
<1>7. q = <<v>> \o r  BY <1>4, <1>5, <1>6, SeqEqual
<1> QED  BY <1>7 DEF q, r, g, p, Store

\* Items taken out at the front, all at once.
LEMMA RingDrop ==
    ASSUME NEW V, NEW N, NEW f, NEW o, NEW n, IsRing(V, N, f, o, n), NEW m \in 0..n
    PROVE  /\ IsRing(V, N, f, Wrap(o + m, N), n - m)
           /\ RingOf(f, Wrap(o + m, N), n - m, N) = SubSeq(RingOf(f, o, n, N), m + 1, n)
<1> DEFINE p == Wrap(o + m, N)
           r == RingOf(f, o, n, N)
           q == RingOf(f, p, n - m, N)
<1>20. N \in Nat \ {0} /\ f \in [0..(N - 1) -> V] /\ o \in 0..(N - 1) /\ n \in 0..N
  BY DEF IsRing
<1> USE <1>20
<1>0. \A a \in 0..(2 * N - 1) :
         Wrap(a, N) = (IF a < N THEN a ELSE a - N) /\ Wrap(a, N) \in 0..(N - 1)
  BY WrapFacts
<1>1. o + m \in 0..(2 * N - 1)  OBVIOUS
<1>2. p = (IF o + m < N THEN o + m ELSE o + m - N) /\ p \in 0..(N - 1)  BY <1>0, <1>1
<1> HIDE DEF p
<1>3. r \in Seq(V) /\ Len(r) = n /\ \A i \in 1..n : r[i] = f[Wrap(o + i - 1, N)]
  <2>1. RingElements(V, N, f, o, n)  BY RingIsSeq
  <2> QED  BY <2>1 DEF RingElements
<1>9. IsRing(V, N, f, p, n - m)  BY <1>2 DEF IsRing
<1>4. q \in Seq(V) /\ Len(q) = n - m /\ \A i \in 1..(n - m) : q[i] = f[Wrap(p + i - 1, N)]
  <2>2. RingElements(V, N, f, p, n - m)  BY <1>9, RingIsSeq
  <2> QED  BY <2>2 DEF RingElements
<1> HIDE DEF r, q
<1> DEFINE t == SubSeq(r, m + 1, n)
<1>6. t \in Seq(V) /\ Len(t) = n - m /\ \A i \in 1..(n - m) : t[i] = r[m + i]
  <2>1. m + 1 \in 1..(Len(r) + 1) /\ n \in m..Len(r)  BY <1>3
  <2>2. /\ t \in Seq(V)
        /\ Len(t) = IF m + 1 <= n THEN n - (m + 1) + 1 ELSE 0
        /\ \A i \in 1..(n - (m + 1) + 1) : t[i] = r[(m + 1) + i - 1]
    BY <1>3, <2>1, SubSeqProperties
  <2>3. ASSUME NEW i \in 1..(n - m) PROVE t[i] = r[m + i]
    <3>1. i \in 1..(n - (m + 1) + 1) /\ (m + 1) + i - 1 = m + i  OBVIOUS
    <3> HIDE DEF t
    <3> QED  BY <2>2, <3>1
  <2> HIDE DEF t
  <2> QED  BY <2>2, <2>3
<1>7. ASSUME NEW i \in 1..(n - m) PROVE q[i] = t[i]
  <2> DEFINE j == Wrap(p + i - 1, N)
             k == Wrap(o + (m + i) - 1, N)
  <2>1. /\ m + i \in 1..n
        /\ p + i - 1 \in 0..(2 * N - 1) /\ o + (m + i) - 1 \in 0..(2 * N - 1)
    BY <1>2
  <2>2. j = IF p + i - 1 < N THEN p + i - 1 ELSE p + i - 1 - N
    <3>1. p + i - 1 \in 0..(2 * N - 1)  BY <2>1
    <3> QED  BY <1>0, <1>2, <3>1
  <2>3. k = IF o + (m + i) - 1 < N THEN o + (m + i) - 1 ELSE o + (m + i) - 1 - N
    BY <1>0, <2>1
  <2>4. q[i] = f[j] /\ r[m + i] = f[k]  BY <1>3, <1>4, <2>1
  <2> HIDE DEF j, k, t
  <2>5. j = k  BY <1>2, <2>2, <2>3
  <2> QED  BY <1>6, <2>4, <2>5
<1> HIDE DEF t
<1>8. q = t  BY <1>4, <1>6, <1>7, SeqEqual
<1> QED  BY <1>8, <1>9 DEF q, r, p, t

\* A block of items written behind the last, over the oldest ones if there is no
\* room: what the ring holds then are the last items of all.
Written(f, p, bs, k, N) ==
    [i \in 0..(N - 1) |-> IF Wrap(i + N - p, N) < k THEN bs[Wrap(i + N - p, N) + 1] ELSE f[i]]

Surplus(n, k, N) == IF n + k > N THEN n + k - N ELSE 0

PutsMany(V, N, f, o, n, k, bs) ==
    LET g == Written(f, Wrap(o + n, N), bs, k, N)
        over == Surplus(n, k, N)
    IN  /\ IsRing(V, N, g, Wrap(o + over, N), n + k - over)
        /\ RingOf(g, Wrap(o + over, N), n + k - over, N)
              = SubSeq(RingOf(f, o, n, N) \o bs, over + 1, n + k)

LEMMA RingPutMany ==
    ASSUME NEW V, NEW N, NEW f, NEW o, NEW n, IsRing(V, N, f, o, n),
           NEW k \in 1..N, NEW bs \in [1..k -> V]
    PROVE  PutsMany(V, N, f, o, n, k, bs)
<1> DEFINE g == Written(f, Wrap(o + n, N), bs, k, N)
           over == Surplus(n, k, N)
           p == Wrap(o + n, N)
           h == Wrap(o + over, N)
           r == RingOf(f, o, n, N)
           q == RingOf(g, h, n + k - over, N)
<1>20. N \in Nat \ {0} /\ f \in [0..(N - 1) -> V] /\ o \in 0..(N - 1) /\ n \in 0..N
  BY DEF IsRing
<1> USE <1>20
<1>0. \A a \in 0..(2 * N - 1) :
         Wrap(a, N) = (IF a < N THEN a ELSE a - N) /\ Wrap(a, N) \in 0..(N - 1)
  BY WrapFacts
<1> DEFINE c == n + k - over
<1>1. /\ over \in 0..n /\ over \in Int /\ c \in 0..N /\ c = n + k - over
      /\ (over = 0 /\ n + k <= N) \/ (over = n + k - N /\ n + k > N)
  BY DEF Surplus
<1> HIDE DEF c, over
<1>2. p = (IF o + n < N THEN o + n ELSE o + n - N) /\ p \in 0..(N - 1)
  <2>1. o + n \in 0..(2 * N - 1)  OBVIOUS
  <2> QED  BY <1>0, <2>1
<1>3. h = (IF o + over < N THEN o + over ELSE o + over - N) /\ h \in 0..(N - 1)
  <2> DEFINE a == o + over
  <2>1. a \in 0..(2 * N - 1)  BY <1>1
  <2>2. h = Wrap(a, N)  OBVIOUS
  <2> HIDE DEF a, h
  <2>3. h = (IF a < N THEN a ELSE a - N) /\ h \in 0..(N - 1)  BY <1>0, <2>1, <2>2
  <2> QED  BY <1>1, <2>3 DEF a
<1> DEFINE d(i) == Wrap(i + N - p, N)
<1> HIDE DEF p
<1>4. ASSUME NEW i \in 0..(N - 1)
      PROVE  d(i) = (IF i < p THEN i + N - p ELSE i - p) /\ d(i) \in 0..(N - 1)
  <2>1. i + N - p \in 0..(2 * N - 1)  BY <1>2
  <2> DEFINE a == i + N - p
  <2>2. Wrap(a, N) = (IF a < N THEN a ELSE a - N) /\ Wrap(a, N) \in 0..(N - 1)
    <3> HIDE DEF a
    <3> QED  BY <1>0, <2>1 DEF a
  <2>3. d(i) = Wrap(a, N)  OBVIOUS
  <2> HIDE DEF d
  <2> QED  BY <1>2, <2>2, <2>3
<1>5. g = [i \in 0..(N - 1) |-> IF d(i) < k THEN bs[d(i) + 1] ELSE f[i]]  BY DEF Written, p
<1> HIDE DEF d, g
<1>6. g \in [0..(N - 1) -> V]
  <2>1. ASSUME NEW i \in 0..(N - 1), d(i) < k PROVE bs[d(i) + 1] \in V
    <3>1. PICK e \in 0..(N - 1) : e = d(i)  BY <1>4
    <3>2. e + 1 \in 1..k  BY <2>1, <3>1
    <3> QED  BY <3>1, <3>2
  <2> QED  BY <1>5, <2>1
<1> HIDE DEF h
<1>7. IsRing(V, N, g, h, c)  BY <1>1, <1>3, <1>6 DEF IsRing
<1>8. r \in Seq(V) /\ Len(r) = n /\ \A i \in 1..n : r[i] = f[Wrap(o + i - 1, N)]
  <2>1. RingElements(V, N, f, o, n)  BY RingIsSeq
  <2> QED  BY <2>1 DEF RingElements
<1>9. q \in Seq(V) /\ Len(q) = c /\ \A i \in 1..c : q[i] = g[Wrap(h + i - 1, N)]
  <2>2. RingElements(V, N, g, h, c)  BY <1>7, RingIsSeq
  <2>3. q = RingOf(g, h, c, N)  BY <1>1
  <2> QED  BY <2>2, <2>3 DEF RingElements
<1> HIDE DEF r, q
<1> DEFINE all == r \o bs
           t == SubSeq(all, over + 1, n + k)
<1>10. all \in Seq(V) /\ Len(all) = n + k
       /\ \A i \in 1..(n + k) : all[i] = IF i <= n THEN r[i] ELSE bs[i - n]
  <2>1. bs \in Seq(V) /\ Len(bs) = k
    <3>1. bs \in Seq(V)  BY SeqDef
    <3> QED  BY <3>1, LenProperties
  <2>2. /\ all \in Seq(V) /\ Len(all) = Len(r) + Len(bs)
        /\ \A i \in 1..(Len(r) + Len(bs)) : all[i] = IF i <= Len(r) THEN r[i] ELSE bs[i - Len(r)]
    BY <1>8, <2>1, ConcatProperties
  <2> HIDE DEF all
  <2> QED  BY <1>8, <2>1, <2>2
<1> HIDE DEF all
<1>11. t \in Seq(V) /\ Len(t) = c /\ \A i \in 1..c : t[i] = all[over + i]
  <2>1. PICK m \in Nat, e \in Nat : m = over + 1 /\ e = n + k  BY <1>1
  <2>2. m \in 1..(Len(all) + 1) /\ e \in (m - 1)..Len(all)  BY <1>1, <1>10, <2>1
  <2>3. /\ SubSeq(all, m, e) \in Seq(V)
        /\ Len(SubSeq(all, m, e)) = IF m <= e THEN e - m + 1 ELSE 0
        /\ \A i \in 1..(e - m + 1) : SubSeq(all, m, e)[i] = all[m + i - 1]
    BY <1>10, <2>2, SubSeqProperties
  <2>4. t = SubSeq(all, m, e)  BY <2>1
  <2> HIDE DEF t
  <2>5. ASSUME NEW i \in 1..c PROVE t[i] = all[over + i]
    <3>1. i \in 1..(e - m + 1) /\ m + i - 1 = over + i  BY <1>1, <2>1
    <3> QED  BY <2>3, <2>4, <3>1
  <2>6. Len(t) = c  BY <1>1, <2>1, <2>3, <2>4
  <2> QED  BY <2>3, <2>4, <2>5, <2>6
<1> HIDE DEF t
<1>12. ASSUME NEW i \in 1..c PROVE q[i] = t[i]
  <2> DEFINE j == Wrap(h + i - 1, N)
  <2>1. h + i - 1 \in 0..(2 * N - 1)  BY <1>1, <1>3
  <2>2. j = (IF h + i - 1 < N THEN h + i - 1 ELSE h + i - 1 - N) /\ j \in 0..(N - 1)
    BY <1>0, <1>1, <1>3, <2>1
  <2>3. q[i] = g[j]  BY <1>9
  <2> HIDE DEF j
  <2>4. d(j) = (IF j < p THEN j + N - p ELSE j - p)  BY <1>4, <2>2
  <2>5. g[j] = IF d(j) < k THEN bs[d(j) + 1] ELSE f[j]  BY <1>5, <2>2
  <2>6. over + i \in 1..(n + k) /\ over + i \in Int  BY <1>1
  <2>7. t[i] = IF over + i <= n THEN r[over + i] ELSE bs[over + i - n]
    <3>1. PICK x \in 1..(n + k) : x = over + i  BY <2>6
    <3>2. all[x] = IF x <= n THEN r[x] ELSE bs[x - n]  BY <1>10
    <3>3. t[i] = all[x]  BY <1>11, <3>1
    <3>4. t[i] = IF x <= n THEN r[x] ELSE bs[x - n]  BY <3>2, <3>3
    <3>5. over + i = x /\ (over + i <= n <=> x <= n) /\ over + i - n = x - n  BY <1>1, <2>6, <3>1
    <3> QED  BY <3>4, <3>5
  <2>8. CASE over + i <= n
    <3> DEFINE m == Wrap(o + (over + i) - 1, N)
    <3>1. over + i \in 1..n /\ o + (over + i) - 1 \in 0..(2 * N - 1)  BY <1>1, <2>8
    <3>2. r[over + i] = f[m]  BY <1>8, <3>1
    <3>3. m = IF o + (over + i) - 1 < N THEN o + (over + i) - 1 ELSE o + (over + i) - 1 - N
      <4> DEFINE a == o + (over + i) - 1
      <4>1. a \in 0..(2 * N - 1)  BY <3>1
      <4> HIDE DEF a
      <4>2. Wrap(a, N) = IF a < N THEN a ELSE a - N  BY <1>0, <4>1
      <4> QED  BY <1>1, <4>2 DEF a
    <3> HIDE DEF m
    <3>4. m = j  BY <1>1, <1>3, <2>2, <3>1, <3>3
    <3>5. ~(d(j) < k)
      <4>1. CASE over = 0 /\ n + k <= N  BY <1>1, <1>2, <1>3, <2>2, <2>4, <2>8, <4>1
      <4>2. CASE over = n + k - N /\ n + k > N  BY <1>1, <1>2, <1>3, <2>2, <2>4, <2>8, <4>2
      <4> QED  BY <1>1, <4>1, <4>2
    <3> QED  BY <2>3, <2>5, <2>7, <2>8, <3>2, <3>4, <3>5
  <2>9. CASE ~(over + i <= n)
    <3>1. d(j) = over + i - n - 1 /\ d(j) < k
      <4>1. CASE over = 0 /\ n + k <= N  BY <1>1, <1>2, <1>3, <2>2, <2>4, <2>9, <4>1
      <4>2. CASE over = n + k - N /\ n + k > N  BY <1>1, <1>2, <1>3, <2>2, <2>4, <2>9, <4>2
      <4> QED  BY <1>1, <4>1, <4>2
    <3>2. d(j) + 1 = over + i - n  BY <1>1, <3>1
    <3> QED  BY <2>3, <2>5, <2>7, <2>9, <3>1, <3>2
  <2> QED  BY <2>8, <2>9
<1>13. q = t  BY <1>9, <1>11, <1>12, SeqEqual
<1> QED  BY <1>7, <1>13 DEF PutsMany, q, r, h, t, all, c, g, over

-----------------------------------------------------------------------------
(***************************************************************************)
(* Clocks: a counter of N values that wraps.                               *)
(***************************************************************************)
\* What the counter is x ticks after it was o, and how far p is after q.
Moment(o, x, N) == Wrap(o + x, N)
Apart(p, q, N) == Wrap(p - q, N)

\* A value within one turn of the counter, brought into its range.
Turned(a, N) == IF a < 0 THEN a + N ELSE IF a < N THEN a ELSE a - N

\* A moment less than half the range before or after now.
Near(x, N) == x \in Int /\ 2 * x < N /\ -N < 2 * x

LEMMA MomentFacts ==
    ASSUME NEW N \in Nat \ {0}, NEW o \in 0..(N - 1), NEW x, Near(x, N)
    PROVE  /\ Moment(o, x, N) = Turned(o + x, N)
           /\ Moment(o, x, N) \in 0..(N - 1)
           /\ Moment(o, 0, N) = o
<1> DEFINE a == o + x
<1>1. a \in (-N)..(2 * N - 1) /\ o \in (-N)..(2 * N - 1) /\ o + 0 = o  BY DEF Near
<1>2. Wrap(o, N) = o  BY <1>1, WrapWide
<1>3. Moment(o, x, N) = Wrap(a, N) /\ Moment(o, 0, N) = Wrap(o, N)  BY <1>1 DEF Moment
<1> HIDE DEF a
<1>4. Wrap(a, N) = Turned(a, N)  BY <1>1, WrapWide DEF Turned
<1>5. Wrap(a, N) \in 0..(N - 1)  BY <1>1, WrapWide
<1>6. Moment(o, x, N) = Turned(a, N)  BY <1>3, <1>4
<1>7. Moment(o, x, N) \in 0..(N - 1) /\ Moment(o, 0, N) = o  BY <1>2, <1>3, <1>5
<1> QED  BY <1>6, <1>7 DEF a

\* The difference of two moments near now is what it is in true time.
LEMMA ApartFacts ==
    ASSUME NEW N \in Nat \ {0}, NEW o \in 0..(N - 1), NEW x, Near(x, N), NEW y, Near(y, N)
    PROVE  Apart(Moment(o, x, N), Moment(o, y, N), N) = IF x < y THEN x - y + N ELSE x - y
<1> DEFINE p == Moment(o, x, N)
           q == Moment(o, y, N)
           a == p - q
<1>1. p = Turned(o + x, N) /\ p \in 0..(N - 1)  BY MomentFacts
<1>2. q = Turned(o + y, N) /\ q \in 0..(N - 1)  BY MomentFacts
<1> HIDE DEF p, q
<1>3. a \in (-N)..(2 * N - 1) /\ a < N  BY <1>1, <1>2
<1>4. (IF a < 0 THEN a + N ELSE a) = IF x < y THEN x - y + N ELSE x - y
  BY <1>1, <1>2 DEF Near, Turned
<1> HIDE DEF a
<1>5. Wrap(a, N) = IF a < 0 THEN a + N ELSE a  BY <1>3, WrapWide
<1> QED  BY <1>4, <1>5 DEF Apart, a, p, q

\* A tick brings every moment one tick nearer.
LEMMA MomentPasses ==
    ASSUME NEW N \in Nat \ {0}, NEW o \in 0..(N - 1), NEW x, Near(x, N), Near(x - 1, N)
    PROVE  /\ Moment(Wrap(o + 1, N), x - 1, N) = Moment(o, x, N)
           /\ Wrap(o + 1, N) \in 0..(N - 1)
<1> DEFINE e == Wrap(o + 1, N)
           y == x - 1
<1>1. e = (IF o + 1 < N THEN o + 1 ELSE o + 1 - N) /\ e \in 0..(N - 1)
  <2> DEFINE b == o + 1
  <2>1. b \in 0..(2 * N - 1)  OBVIOUS
  <2> HIDE DEF b
  <2>2. Wrap(b, N) = (IF b < N THEN b ELSE b - N) /\ Wrap(b, N) \in 0..(N - 1)
    BY <2>1, WrapFacts
  <2> QED  BY <2>2 DEF b
<1>2. Near(y, N)  OBVIOUS
<1>3. y = x - 1  OBVIOUS
<1> HIDE DEF e, y
<1>4. Moment(e, y, N) = Turned(e + y, N)
  BY <1>1, <1>2, MomentFacts
<1>5. Moment(o, x, N) = Turned(o + x, N)
  BY MomentFacts
<1>6. Moment(e, y, N) = Moment(o, x, N)
  <2>1. CASE o + 1 < N  BY <1>1, <1>3, <1>4, <1>5, <2>1 DEF Near, Turned
  <2>2. CASE ~(o + 1 < N)  BY <1>1, <1>3, <1>4, <1>5, <2>2 DEF Near, Turned
  <2> QED  BY <2>1, <2>2
<1> QED  BY <1>1, <1>6 DEF e, y
=============================================================================
