------------------------- MODULE MessageQueueProofs -------------------------
(***************************************************************************)
(* Proofs about the message queue.  The inductive invariant has two halves.*)
(* Storage speaks of slots: the next pointers lead through the queued slots*)
(* and through the free ones, each once, and every slot on neither list    *)
(* belongs to one thread.  Each operation is first a lemma about chains of *)
(* pointers (ChainsPutLast and its neighbours), then one about Storage.    *)
(* Waits and Attended speak of threads: who sleeps on which list, whose    *)
(* timer runs, and that whatever is left for a sleeper has somebody coming *)
(* for it.  QuietStep, AwakeStep, PassStep and WaitStep preserve them, for *)
(* any step of their kind.                                                 *)
(***************************************************************************)
EXTENDS MessageQueue, WaitListProofs, FiniteSetTheorems

Nodes == Slots \cup {Null}
Count == Cardinality(Slots)

USE MessagingAssumption, MessageQueueAssumption, NoThreadAssumption

-----------------------------------------------------------------------------
\* The slot at place i of q, or the end of the chain.
NodeAt(q, i) == IF i \in DOMAIN q THEN q[i] ELSE Null

\* The next pointers nx lead from h through the slots of q, each once, to Null.
Linked(q, h, nx) ==
    /\ q \in Seq(Slots) /\ Distinct(q)
    /\ h = NodeAt(q, 1)
    /\ \A i \in DOMAIN q : nx[q[i]] = NodeAt(q, i + 1)

\* w is Walk, with the next pointers nx.
Walks(w, nx) ==
    w = [n \in 0..Count |-> [s \in Nodes |->
            IF n = 0 \/ s = Null THEN <<>> ELSE <<s>> \o w[n - 1][nx[s]]]]

\* The recursion of Walk has a solution.
LEMMA WalkExists ==
    ASSUME NEW nx
    PROVE  \E w : Walks(w, nx)
<1>0. Count \in Nat  BY FS_CardinalityType DEF Count
<1> DEFINE Solves(g, n) == g = [k \in 0..n |-> [s \in Nodes |->
                 IF k = 0 \/ s = Null THEN <<>> ELSE <<s>> \o g[k - 1][nx[s]]]]
           bad == {n \in Nat : n <= Count /\ ~\E g : Solves(g, n)}
<1>1. CASE bad = {}
  <2>1. \E g : Solves(g, Count)
    <3> HIDE DEF Solves
    <3> QED  BY <1>0, <1>1
  <2> QED  BY <2>1 DEF Walks
<1>2. CASE bad # {}
  <2>1. PICK n \in bad : \A m \in bad : n <= m
    <3>1. bad \in SUBSET Nat  OBVIOUS
    <3> HIDE DEF bad
    <3> QED  BY <1>2, <3>1, LeastNat
  <2>2. n # 0
    <3>1. Solves([k \in 0..0 |-> [s \in Nodes |-> <<>>]], 0)  OBVIOUS
    <3> QED  BY <3>1
  <2>3. PICK g : Solves(g, n - 1)
    <3>1. n - 1 \in Nat /\ n - 1 <= Count /\ ~(n <= n - 1)  BY <1>0, <2>1, <2>2
    <3> HIDE DEF Solves
    <3> QED  BY <2>1, <3>1
  <2> DEFINE row(v, k) == [s \in Nodes |->
                 IF k = 0 \/ s = Null THEN <<>> ELSE <<s>> \o v[nx[s]]]
             h == [k \in 0..n |-> IF k = n THEN row(g[n - 1], n) ELSE g[k]]
  <2>4. ASSUME NEW k \in 0..n PROVE h[k] = row(h[k - 1], k)
    <3>1. CASE k = n
      <4>1. h[k] = row(g[n - 1], n) /\ h[n - 1] = g[n - 1]  BY <2>2, <3>1
      <4> QED  BY <3>1, <4>1
    <3>2. CASE k # n
      <4>1. k \in 0..(n - 1)  BY <3>2
      <4>2. g[k] = row(g[k - 1], k)  BY <2>3, <4>1
      <4>3. h[k] = g[k] /\ (k # 0 => h[k - 1] = g[k - 1])  BY <3>2, <4>1
      <4>4. CASE k = 0  BY <4>2, <4>3, <4>4
      <4> HIDE DEF h
      <4>5. CASE k # 0
        <5>1. h[k - 1] = g[k - 1]  BY <4>3, <4>5
        <5> QED  BY <4>2, <4>3, <5>1
      <4> QED  BY <4>4, <4>5
    <3> QED  BY <3>1, <3>2
  <2>5. Solves(h, n)
    <3> HIDE DEF h
    <3>1. h = [k \in 0..n |-> h[k]]  BY DEF h
    <3> QED  BY <2>4, <3>1
  <2> QED  BY <2>1, <2>5
<1> QED  BY <1>1, <1>2

LEMMA WalkStep ==
    ASSUME NEW w, NEW nx, Walks(w, nx), NEW n \in 0..Count, NEW s \in Nodes
    PROVE  w[n][s] = IF n = 0 \/ s = Null THEN <<>> ELSE <<s>> \o w[n - 1][nx[s]]
<1>1. w[n] = [r \in Nodes |-> IF n = 0 \/ r = Null THEN <<>> ELSE <<r>> \o w[n - 1][nx[r]]]
  BY DEF Walks
<1> QED  BY <1>1

LEMMA WalkSolves == Walks(Walk, next) /\ Walks(Walk', next')
<1>1. Walks(Walk, next)
  <2>1. \E w : Walks(w, next)  BY WalkExists
  <2> QED  BY <2>1, Zenon DEF Walks, Walk, Nodes, Count
<1>2. Walks(Walk', next')
  <2>1. \E w : Walks(w, next')  BY WalkExists
  <2> QED  BY <2>1, Zenon DEF Walks, Walk, Nodes, Count
<1> QED  BY <1>1, <1>2

-----------------------------------------------------------------------------
\* A sequence of distinct elements is as long as there are elements in it.
LEMMA DistinctLen ==
    ASSUME NEW S, IsFiniteSet(S), NEW q \in Seq(S), Distinct(q)
    PROVE  /\ Len(q) = Cardinality({s \in S : Holds(q, s)})
           /\ Len(q) <= Cardinality(S)
<1> DEFINE H == {s \in S : Holds(q, s)}
<1>1. Len(q) \in Nat /\ DOMAIN q = 1..Len(q) /\ q \in [1..Len(q) -> S]  BY LenProperties
<1>2. q \in [1..Len(q) -> H]  BY <1>1 DEF Holds
<1>3. q \in Bijection(1..Len(q), H)
  <2>1. q \in Injection(1..Len(q), H)  BY <1>1, <1>2 DEF Distinct, Injection, IsInjective
  <2>2. q \in Surjection(1..Len(q), H)
    <3>1. \A s \in H : \E i \in 1..Len(q) : q[i] = s  BY <1>1 DEF Holds
    <3> QED  BY <1>2, <3>1 DEF Surjection
  <2> QED  BY <2>1, <2>2 DEF Bijection
<1>4. ExistsBijection(1..Len(q), H)  BY <1>3 DEF ExistsBijection
<1>5. IsFiniteSet(1..Len(q)) /\ Cardinality(1..Len(q)) = Len(q)
  <2> DEFINE n == Len(q)
  <2>1. n \in Nat  BY <1>1
  <2> HIDE DEF n
  <2>2. /\ IsFiniteSet(1..n)
        /\ Cardinality(1..n) = IF 1 > n THEN 0 ELSE n - 1 + 1
    BY <2>1, FS_Interval
  <2>3. IsFiniteSet(1..n) /\ Cardinality(1..n) = n  BY <2>1, <2>2
  <2> QED  BY <2>3 DEF n
<1>6. Cardinality(H) = Len(q)  BY <1>4, <1>5, FS_Bijection
<1>7. H \in SUBSET S  OBVIOUS
<1>8. Cardinality(H) <= Cardinality(S)  BY <1>7, FS_Subset
<1> QED  BY <1>6, <1>8

\* Following the pointers of a chain reads the chain.
LEMMA WalkIs ==
    ASSUME NEW q, NEW h, NEW nx, Linked(q, h, nx), NEW w, Walks(w, nx)
    PROVE  w[Count][h] = q
<1>0. /\ Count \in Nat /\ q \in Seq(Slots) /\ Len(q) \in Nat /\ DOMAIN q = 1..Len(q)
      /\ \A i \in 1..Len(q) : q[i] \in Slots
      /\ Len(q) <= Count
  BY FS_CardinalityType, LenProperties, DistinctLen DEF Count, Linked
<1> DEFINE from(i) == SubSeq(q, i, Len(q))
           reads(n) == \A i \in 1..(Len(q) + 1) :
                          Len(q) + 1 - i <= n => w[n][NodeAt(q, i)] = from(i)
           bad == {n \in Nat : n <= Count /\ ~reads(n)}
<1>1. ASSUME NEW i \in 1..(Len(q) + 1)
      PROVE  /\ NodeAt(q, i) \in Nodes
             /\ NodeAt(q, i) = Null <=> i = Len(q) + 1
             /\ i = Len(q) + 1 => from(i) = <<>>
             /\ i # Len(q) + 1 => from(i) = <<q[i]>> \o from(i + 1)
  <2>1. CASE i = Len(q) + 1
    <3>1. from(i) = <<>>  BY <1>0, <2>1, SubSeqEmpty
    <3> QED  BY <1>0, <2>1, <3>1 DEF NodeAt, Nodes
  <2>2. CASE i # Len(q) + 1
    <3>1. i \in 1..Len(q) /\ Len(q) \in i..Len(q)  BY <1>0, <2>2
    <3>2. from(i) = <<q[i]>> \o from(i + 1)  BY <1>0, <3>1, SubSeqRecursiveFirst
    <3> QED  BY <1>0, <2>2, <3>1, <3>2 DEF NodeAt, Nodes
  <2> QED  BY <2>1, <2>2
<1> HIDE DEF from
<1>2. bad = {}
  <2> SUFFICES ASSUME bad # {} PROVE FALSE  OBVIOUS
  <2>1. PICK n \in bad : \A m \in bad : n <= m
    <3>1. bad \in SUBSET Nat  OBVIOUS
    <3> HIDE DEF bad
    <3> QED  BY <3>1, LeastNat
  <2>2. n \in 0..Count /\ n \in Nat  BY <1>0, <2>1
  <2>3. n # 0 => reads(n - 1)
    <3>1. n # 0 => n - 1 \in Nat /\ n - 1 <= Count /\ ~(n <= n - 1)  BY <1>0, <2>1
    <3> HIDE DEF reads
    <3> QED  BY <2>1, <3>1
  <2>4. ASSUME NEW i \in 1..(Len(q) + 1), Len(q) + 1 - i <= n
        PROVE  w[n][NodeAt(q, i)] = from(i)
    <3>1. w[n][NodeAt(q, i)] =
             IF n = 0 \/ NodeAt(q, i) = Null THEN <<>>
             ELSE <<NodeAt(q, i)>> \o w[n - 1][nx[NodeAt(q, i)]]
      <4>1. PICK x \in Nodes : x = NodeAt(q, i)  BY <1>1
      <4>2. w[n][x] = IF n = 0 \/ x = Null THEN <<>> ELSE <<x>> \o w[n - 1][nx[x]]
        BY <2>2, WalkStep
      <4> QED  BY <4>1, <4>2
    <3>2. CASE i = Len(q) + 1  BY <1>1, <3>1, <3>2
    <3>3. CASE i # Len(q) + 1
      <4>1. i \in 1..Len(q) /\ n # 0 /\ i + 1 \in 1..(Len(q) + 1) /\ Len(q) + 1 - (i + 1) <= n - 1
        BY <1>0, <2>2, <2>4, <3>3
      <4>2. NodeAt(q, i) = q[i] /\ nx[q[i]] = NodeAt(q, i + 1)
        BY <1>0, <4>1 DEF NodeAt, Linked
      <4>3. w[n - 1][NodeAt(q, i + 1)] = from(i + 1)  BY <2>3, <4>1
      <4> QED  BY <1>1, <3>1, <3>3, <4>1, <4>2, <4>3
    <3> QED  BY <3>2, <3>3
  <2>5. reads(n)  BY <2>4
  <2> QED  BY <2>1, <2>5
<1>3. reads(Count)
  <2> HIDE DEF reads
  <2> QED  BY <1>0, <1>2
<1>4. 1 \in 1..(Len(q) + 1) /\ Len(q) + 1 - 1 <= Count  BY <1>0
<1>5. w[Count][NodeAt(q, 1)] = from(1)  BY <1>3, <1>4
<1>6. from(1) = q  BY <1>0, SubSeqFull DEF from
<1> QED  BY <1>5, <1>6 DEF Linked

\* The two lists of the message queue are what their chains hold.
LEMMA ListsAre ==
    /\ \A q : Linked(q, qhead, next) => Queued = q
    /\ \A q : Linked(q, qfree, next) => Free = q
    /\ \A q : Linked(q, qhead', next') => Queued' = q
    /\ \A q : Linked(q, qfree', next') => Free' = q
  BY WalkSolves, WalkIs DEF Queued, Free, Count

\* Pointers of slots that are not in the chain do not matter to it.
LEMMA LinkedElsewhere ==
    ASSUME NEW q, NEW h, NEW nx, Linked(q, h, nx), NEW ny,
           \A s \in Slots : Holds(q, s) => ny[s] = nx[s]
    PROVE  Linked(q, h, ny)
<1>1. q \in Seq(Slots) /\ \A i \in DOMAIN q : q[i] \in Slots /\ Holds(q, q[i])
  BY LenProperties DEF Linked, Holds
<1> QED  BY <1>1 DEF Linked

\* The head of a chain, and the chain without it.
LEMMA LinkedTail ==
    ASSUME NEW q, NEW h, NEW nx, Linked(q, h, nx), h # Null
    PROVE  /\ q # <<>> /\ h = Head(q) /\ h \in Slots /\ Linked(Tail(q), nx[h], nx)
           /\ Len(Tail(q)) = Len(q) - 1
           /\ \A u : Holds(Tail(q), u) <=> Holds(q, u) /\ u # h
<1>0. q \in Seq(Slots) /\ Distinct(q) /\ h = NodeAt(q, 1)  BY DEF Linked
<1>1. /\ Len(q) \in Nat /\ DOMAIN q = 1..Len(q) /\ 1 \in DOMAIN q /\ h = q[1]
  BY <1>0, LenProperties DEF NodeAt
<1>2. q # <<>>  BY <1>1
<1>3. /\ h = Head(q) /\ h \in Slots
      /\ Tail(q) \in Seq(Slots) /\ Distinct(Tail(q))
      /\ \A u : Holds(Tail(q), u) <=> Holds(q, u) /\ u # h
  <2>1. h = Head(q)  BY <1>1
  <2> QED  BY <1>0, <1>2, <2>1, TailFacts
<1>4. /\ Len(Tail(q)) = Len(q) - 1
      /\ \A i \in 1..(Len(q) - 1) : Tail(q)[i] = q[i + 1]
  BY <1>0, <1>2, HeadTailProperties
<1> DEFINE r == Tail(q)
<1>5. DOMAIN r = 1..(Len(q) - 1)  BY <1>3, <1>4, LenProperties
<1> HIDE DEF r
<1>6. \A i \in 1..Len(q) : NodeAt(r, i) = NodeAt(q, i + 1)
  <2>1. \A i \in 1..Len(q) : i \in DOMAIN r <=> i + 1 \in DOMAIN q  BY <1>1, <1>5
  <2> QED  BY <1>1, <1>4, <1>5, <2>1 DEF NodeAt, r
<1>7. nx[h] = NodeAt(r, 1)  BY <1>1, <1>6 DEF Linked
<1>8. ASSUME NEW i \in DOMAIN r PROVE nx[r[i]] = NodeAt(r, i + 1)
  <2>1. i + 1 \in DOMAIN q /\ r[i] = q[i + 1] /\ i + 1 \in 1..Len(q)  BY <1>1, <1>4, <1>5 DEF r
  <2>2. nx[q[i + 1]] = NodeAt(q, i + 1 + 1)
    <3> DEFINE j == i + 1
    <3> HIDE DEF j
    <3>1. nx[q[j]] = NodeAt(q, j + 1)  BY <2>1 DEF Linked, j
    <3> QED  BY <3>1 DEF j
  <2> QED  BY <1>6, <2>1, <2>2
<1>9. Linked(r, nx[h], nx)  BY <1>3, <1>7, <1>8 DEF Linked, r
<1> QED  BY <1>2, <1>3, <1>4, <1>9 DEF r

\* A chain is empty iff its head is Null.
LEMMA LinkedEmpty ==
    ASSUME NEW q, NEW h, NEW nx, Linked(q, h, nx)
    PROVE  (q = <<>>) <=> (h = Null)
<1>1. q \in Seq(Slots) /\ h = NodeAt(q, 1)  BY DEF Linked
<1>2. q = <<>> => h = Null  BY <1>1 DEF NodeAt
<1>3. ASSUME h # Null PROVE q # <<>>  BY <1>3, LinkedTail
<1>4. ASSUME q # <<>> PROVE h # Null
  <2>1. 1 \in DOMAIN q /\ q[1] \in Slots  BY <1>1, <1>4, LenProperties
  <2> QED  BY <1>1, <2>1 DEF NodeAt
<1> QED  BY <1>2, <1>3, <1>4

\* A slot linked before the head.
LEMMA LinkedBefore ==
    ASSUME NEW q, NEW h, NEW nx \in [Slots -> Nodes], Linked(q, h, nx),
           NEW s \in Slots, ~Holds(q, s)
    PROVE  Linked(<<s>> \o q, s, [nx EXCEPT ![s] = h])
<1> DEFINE r == <<s>> \o q
           ny == [nx EXCEPT ![s] = h]
<1>0. q \in Seq(Slots) /\ Distinct(q) /\ h = NodeAt(q, 1)  BY DEF Linked
<1>1. Len(q) \in Nat /\ DOMAIN q = 1..Len(q)  BY <1>0, LenProperties
<1>2. r \in Seq(Slots) /\ Len(r) = Len(q) + 1 /\ Distinct(r)  BY <1>0, PrependFacts
<1>3. DOMAIN r = 1..(Len(q) + 1)  BY <1>2, LenProperties
<1>4. r[1] = s /\ \A i \in 1..Len(q) : r[i + 1] = q[i]
  <2>1. <<s>> \in Seq(Slots) /\ Len(<<s>>) = 1 /\ <<s>>[1] = s  OBVIOUS
  <2>2. \A i \in 1..(1 + Len(q)) : r[i] = IF i <= 1 THEN <<s>>[i] ELSE q[i - 1]
    BY <1>0, <2>1, ConcatProperties
  <2> HIDE DEF r
  <2>3. r[1] = s  BY <1>1, <2>1, <2>2
  <2>4. ASSUME NEW i \in 1..Len(q) PROVE r[i + 1] = q[i]
    <3> DEFINE j == i + 1
    <3>1. j \in 1..(1 + Len(q)) /\ ~(j <= 1) /\ j - 1 = i  BY <1>1
    <3> HIDE DEF j
    <3>2. r[j] = q[i]  BY <2>2, <3>1
    <3> QED  BY <3>2 DEF j
  <2> QED  BY <2>3, <2>4
<1>5. /\ ny[s] = h
      /\ \A i \in 1..Len(q) : ny[q[i]] = nx[q[i]]
  <2>1. \A i \in 1..Len(q) : q[i] # s /\ q[i] \in Slots  BY <1>0, <1>1, ElementOfSeq DEF Holds
  <2> QED  BY <2>1
<1> HIDE DEF r, ny
<1>6. \A i \in 1..(Len(q) + 1) : NodeAt(r, i + 1) = NodeAt(q, i)
  <2>1. \A i \in 1..(Len(q) + 1) : i + 1 \in DOMAIN r <=> i \in DOMAIN q  BY <1>1, <1>3
  <2> QED  BY <1>1, <1>3, <1>4, <2>1 DEF NodeAt
<1>7. ASSUME NEW i \in DOMAIN r PROVE ny[r[i]] = NodeAt(r, i + 1)
  <2>1. CASE i = 1
    <3>1. NodeAt(r, 1 + 1) = NodeAt(q, 1)  BY <1>1, <1>6
    <3> QED  BY <1>0, <1>4, <1>5, <2>1, <3>1
  <2>2. CASE i # 1
    <3>1. PICK j \in 1..Len(q) : i = j + 1
      <4>1. i - 1 \in 1..Len(q) /\ i = (i - 1) + 1  BY <1>1, <1>3, <2>2
      <4> QED  BY <4>1
    <3>2. r[i] = q[j] /\ nx[q[j]] = NodeAt(q, j + 1)  BY <1>1, <1>4, <3>1 DEF Linked
    <3>3. NodeAt(r, i + 1) = NodeAt(q, i)  BY <1>3, <1>6
    <3> QED  BY <1>5, <3>1, <3>2, <3>3
  <2> QED  BY <2>1, <2>2
<1>8. s = NodeAt(r, 1)  BY <1>1, <1>3, <1>4 DEF NodeAt
<1>9. Linked(r, s, ny)  BY <1>2, <1>7, <1>8 DEF Linked
<1> QED  BY <1>9 DEF r, ny

\* A slot linked behind the tail.
PutAfter(nx, s, tail) ==
    [x \in Slots |-> IF x = s THEN Null ELSE IF x = tail THEN s ELSE nx[x]]

LEMMA LinkedAfter ==
    ASSUME NEW q, NEW h, NEW nx \in [Slots -> Nodes], Linked(q, h, nx),
           NEW s \in Slots, ~Holds(q, s),
           NEW tail, tail = IF q = <<>> THEN Null ELSE Last(q),
           NEW g, g = IF h = Null THEN s ELSE h
    PROVE  Linked(Append(q, s), g, PutAfter(nx, s, tail))
<1> DEFINE r == Append(q, s)
           ny == PutAfter(nx, s, tail)
           n == Len(q)
<1>0. q \in Seq(Slots) /\ Distinct(q) /\ h = NodeAt(q, 1)  BY DEF Linked
<1>1. /\ n \in Nat /\ DOMAIN q = 1..n /\ \A i \in 1..n : q[i] \in Slots /\ q[i] # s
      /\ q = <<>> <=> n = 0
      /\ q # <<>> => tail = q[n]
  <2>1. n \in Nat /\ DOMAIN q = 1..n /\ \A i \in 1..n : q[i] \in Slots  BY <1>0, LenProperties
  <2>2. q = <<>> <=> n = 0  BY <1>0, EmptySeq
  <2> QED  BY <2>1, <2>2 DEF Holds, Last
<1>2. /\ r \in Seq(Slots) /\ Len(r) = n + 1 /\ Distinct(r)
      /\ \A i \in 1..n : r[i] = q[i]
      /\ r[n + 1] = s
  BY <1>0, AppendFacts, AppendProperties
<1>3. DOMAIN r = 1..(n + 1)  BY <1>2, LenProperties
<1> HIDE DEF r, n
<1>4. /\ \A i \in 1..n : NodeAt(r, i) = q[i]
      /\ NodeAt(r, n + 1) = s /\ NodeAt(r, n + 2) = Null
  BY <1>1, <1>2, <1>3 DEF NodeAt
<1>5. /\ ny[s] = Null
      /\ n # 0 => ny[q[n]] = s
      /\ \A i \in 1..n : i # n => ny[q[i]] = nx[q[i]]
  <2>1. \A i \in 1..n : i # n => q[i] # q[n]
    BY <1>0, <1>1 DEF Distinct
  <2>2. n # 0 => n \in 1..n  BY <1>1
  <2>3. \A i \in 1..n : q[i] # s /\ q[i] \in Slots  BY <1>1
  <2>4. n # 0 => tail = q[n]  BY <1>1
  <2> QED  BY <2>1, <2>2, <2>3, <2>4 DEF PutAfter
<1> HIDE DEF ny
<1>6. ASSUME NEW i \in DOMAIN r PROVE ny[r[i]] = NodeAt(r, i + 1)
  <2>1. CASE i = n + 1
    <3>1. i + 1 = n + 2 /\ r[i] = s  BY <1>1, <1>2, <2>1
    <3> QED  BY <1>4, <1>5, <3>1
  <2>2. CASE i = n
    <3>1. n # 0 /\ i + 1 = n + 1 /\ r[i] = q[n]  BY <1>1, <1>2, <1>3, <2>2
    <3> QED  BY <1>4, <1>5, <3>1
  <2>3. CASE i # n /\ i # n + 1
    <3>1. i \in 1..n /\ i + 1 \in 1..n  BY <1>1, <1>3, <2>3
    <3> DEFINE j == i + 1
    <3>2. nx[q[i]] = NodeAt(q, j)  BY <1>1, <3>1 DEF Linked
    <3>3. j \in 1..n  BY <3>1
    <3> HIDE DEF j
    <3>4. NodeAt(q, j) = NodeAt(r, j)  BY <1>1, <1>4, <3>3 DEF NodeAt
    <3>5. ny[r[i]] = NodeAt(r, j)  BY <1>2, <1>5, <2>3, <3>1, <3>2, <3>4
    <3> QED  BY <3>5 DEF j
  <2> QED  BY <2>1, <2>2, <2>3
<1>7. g = NodeAt(r, 1)
  <2>1. CASE n = 0
    <3>1. h = Null  BY <1>0, <1>1, <2>1 DEF NodeAt
    <3>2. NodeAt(r, 0 + 1) = s  BY <1>4, <2>1
    <3> QED  BY <3>1, <3>2
  <2>2. CASE n # 0
    <3>1. 1 \in 1..n  BY <1>1, <2>2
    <3>2. h = q[1] /\ q[1] # Null  BY <1>0, <1>1, <3>1 DEF NodeAt
    <3> QED  BY <1>4, <3>1, <3>2
  <2> QED  BY <2>1, <2>2
<1>8. Linked(r, g, ny)  BY <1>2, <1>6, <1>7 DEF Linked
<1> QED  BY <1>8 DEF r, ny

\* The slots of q, from the last to the first, and then those of f.
Returned(q, f) == [i \in 1..(Len(q) + Len(f)) |->
                      IF i <= Len(q) THEN q[Len(q) + 1 - i] ELSE f[i - Len(q)]]

LEMMA ReturnedFacts ==
    ASSUME NEW q \in Seq(Slots), NEW f \in Seq(Slots)
    PROVE  /\ Returned(q, f) \in Seq(Slots)
           /\ Len(Returned(q, f)) = Len(q) + Len(f)
           /\ \A i \in 1..Len(q) : Returned(q, f)[i] = q[Len(q) + 1 - i]
           /\ \A i \in 1..Len(f) : Returned(q, f)[Len(q) + i] = f[i]
           /\ \A u : Holds(Returned(q, f), u) <=> Holds(q, u) \/ Holds(f, u)
<1> DEFINE n == Len(q)
           m == Len(f)
           r == Returned(q, f)
<1>0. /\ n \in Nat /\ m \in Nat /\ DOMAIN q = 1..n /\ DOMAIN f = 1..m
      /\ \A i \in 1..n : q[i] \in Slots
      /\ \A i \in 1..m : f[i] \in Slots
  BY LenProperties
<1>1. r = [i \in 1..(n + m) |-> IF i <= n THEN q[n + 1 - i] ELSE f[i - n]]  BY DEF Returned
<1> HIDE DEF r, n, m
<1>2. /\ \A i \in 1..n : r[i] = q[n + 1 - i] /\ n + 1 - i \in 1..n
      /\ \A i \in 1..m : r[n + i] = f[i] /\ n + i \in 1..(n + m)
  BY <1>0, <1>1
<1>3. ASSUME NEW i \in 1..(n + m)
      PROVE  \/ i \in 1..n
             \/ \E j \in 1..m : i = n + j
  <2>1. ~(i \in 1..n) => i - n \in 1..m /\ i = n + (i - n)  BY <1>0
  <2> QED  BY <2>1
<1>4. \A i \in 1..(n + m) : r[i] \in Slots  BY <1>0, <1>2, <1>3
<1>5. r \in Seq(Slots) /\ Len(r) = n + m /\ DOMAIN r = 1..(n + m)
  <2>1. r \in [1..(n + m) -> Slots] /\ n + m \in Nat  BY <1>0, <1>1, <1>4
  <2>2. r \in Seq(Slots)  BY <2>1, SeqDef
  <2>3. DOMAIN r = 1..(n + m) /\ DOMAIN r = 1..Len(r) /\ Len(r) \in Nat
    BY <2>1, <2>2, LenProperties
  <2> QED  BY <1>0, <2>2, <2>3
<1>6. ASSUME NEW u PROVE Holds(r, u) <=> Holds(q, u) \/ Holds(f, u)
  <2>1. ASSUME NEW i \in 1..n, q[i] = u PROVE Holds(r, u)
    <3>1. n + 1 - i \in 1..n /\ n + 1 - (n + 1 - i) = i /\ n + 1 - i \in 1..(n + m)  BY <1>0
    <3> DEFINE j == n + 1 - i
    <3>2. j \in 1..n /\ n + 1 - j = i /\ j \in 1..(n + m)  BY <3>1
    <3> HIDE DEF j
    <3>3. r[j] = u  BY <1>2, <2>1, <3>2
    <3> QED  BY <1>5, <3>2, <3>3 DEF Holds
  <2>2. ASSUME NEW i \in 1..m, f[i] = u PROVE Holds(r, u)
    BY <1>2, <1>5, <2>2 DEF Holds
  <2>3. ASSUME Holds(r, u) PROVE Holds(q, u) \/ Holds(f, u)
    <3>1. PICK i \in 1..(n + m) : r[i] = u  BY <1>5, <2>3 DEF Holds
    <3>2. CASE i \in 1..n  BY <1>0, <1>2, <3>1, <3>2 DEF Holds
    <3>3. CASE \E j \in 1..m : i = n + j  BY <1>0, <1>2, <3>1, <3>3 DEF Holds
    <3> QED  BY <1>3, <3>2, <3>3
  <2> QED  BY <1>0, <2>1, <2>2, <2>3 DEF Holds
<1> QED  BY <1>2, <1>5, <1>6 DEF r, n, m

\* What a reset does to the chains: the queue, turned round, before the free list.
TurnedRound(q, f, nx) ==
    [s \in Slots |-> IF Holds(q, s)
                      THEN LET i == CHOOSE i \in DOMAIN q : q[i] = s
                           IN  IF i = 1 THEN f ELSE q[i - 1]
                      ELSE nx[s]]

LEMMA LinkedReturned ==
    ASSUME NEW q, NEW h, NEW nx, Linked(q, h, nx),
           NEW f, NEW e, Linked(f, e, nx),
           \A s \in Slots : ~(Holds(q, s) /\ Holds(f, s))
    PROVE  Linked(Returned(q, f), IF q = <<>> THEN e ELSE Last(q), TurnedRound(q, e, nx))
<1> DEFINE n == Len(q)
           m == Len(f)
           r == Returned(q, f)
           ny == TurnedRound(q, e, nx)
<1>0. /\ q \in Seq(Slots) /\ Distinct(q) /\ f \in Seq(Slots) /\ Distinct(f)
      /\ e = NodeAt(f, 1)
      /\ \A i \in DOMAIN f : nx[f[i]] = NodeAt(f, i + 1)
  BY DEF Linked
<1>1. /\ n \in Nat /\ DOMAIN q = 1..n /\ \A i \in 1..n : q[i] \in Slots /\ Holds(q, q[i])
      /\ m \in Nat /\ DOMAIN f = 1..m /\ \A i \in 1..m : f[i] \in Slots /\ Holds(f, f[i])
      /\ q = <<>> <=> n = 0
      /\ q # <<>> => Last(q) = q[n]
  <2>1. /\ n \in Nat /\ DOMAIN q = 1..n /\ \A i \in 1..n : q[i] \in Slots
        /\ m \in Nat /\ DOMAIN f = 1..m /\ \A i \in 1..m : f[i] \in Slots
    BY <1>0, LenProperties
  <2>2. q = <<>> <=> n = 0  BY <1>0, EmptySeq
  <2> QED  BY <2>1, <2>2 DEF Holds, Last
<1>2. /\ r \in Seq(Slots) /\ Len(r) = n + m /\ DOMAIN r = 1..(n + m)
      /\ \A i \in 1..n : r[i] = q[n + 1 - i]
      /\ \A i \in 1..m : r[n + i] = f[i]
  <2>1. /\ r \in Seq(Slots) /\ Len(r) = n + m
        /\ \A i \in 1..n : r[i] = q[n + 1 - i]
        /\ \A i \in 1..m : r[n + i] = f[i]
    <3> HIDE DEF r
    <3> QED  BY <1>0, ReturnedFacts DEF r
  <2> HIDE DEF r, n, m
  <2>2. DOMAIN r = 1..Len(r)  BY <2>1, LenProperties
  <2> QED  BY <2>1, <2>2
<1>3. \A i \in 1..n : ny[q[i]] = IF i = 1 THEN e ELSE q[i - 1]
  <2> SUFFICES ASSUME NEW i \in 1..n PROVE ny[q[i]] = IF i = 1 THEN e ELSE q[i - 1]
    OBVIOUS
  <2>1. PICK j : j = CHOOSE k \in DOMAIN q : q[k] = q[i]  OBVIOUS
  <2>2. j = i  BY <1>0, <1>1, <2>1 DEF Distinct
  <2>3. ny[q[i]] = IF j = 1 THEN e ELSE q[j - 1]  BY <1>1, <2>1 DEF TurnedRound
  <2> QED  BY <2>2, <2>3
<1>4. \A i \in 1..m : ny[f[i]] = nx[f[i]]
  BY <1>1 DEF TurnedRound
<1> HIDE DEF r, ny, n, m
<1>5. \A i \in 1..(n + m) : i \in 1..n \/ \E j \in 1..m : i = n + j
  <2> SUFFICES ASSUME NEW i \in 1..(n + m), ~(i \in 1..n) PROVE \E j \in 1..m : i = n + j
    OBVIOUS
  <2>1. i - n \in 1..m /\ i = n + (i - n)  BY <1>1
  <2> QED  BY <2>1
<1>6. Distinct(r)
  <2> SUFFICES ASSUME NEW i \in 1..(n + m), NEW j \in 1..(n + m), r[i] = r[j] PROVE i = j
    BY <1>2 DEF Distinct
  <2>1. CASE i \in 1..n /\ j \in 1..n
    <3>1. n + 1 - i \in 1..n /\ n + 1 - j \in 1..n  BY <1>1, <2>1
    <3>2. q[n + 1 - i] = q[n + 1 - j]  BY <1>2, <2>1
    <3>3. PICK a \in 1..n, b \in 1..n : a = n + 1 - i /\ b = n + 1 - j  BY <3>1
    <3>4. a = b  BY <1>0, <1>1, <3>2, <3>3 DEF Distinct
    <3> QED  BY <1>1, <3>3, <3>4
  <2>2. ASSUME NEW k \in 1..m, NEW u \in 1..m, i = n + k, j = n + u PROVE i = j
    <3>1. f[k] = f[u]  BY <1>2, <2>2
    <3> QED  BY <1>0, <1>1, <2>2, <3>1 DEF Distinct
  <2>3. ASSUME NEW k \in 1..n, NEW u \in 1..m, r[k] = r[n + u] PROVE FALSE
    <3>1. n + 1 - k \in 1..n  BY <1>1
    <3>2. q[n + 1 - k] = f[u]  BY <1>2, <2>3
    <3> QED  BY <1>1, <3>1, <3>2
  <2> QED  BY <1>5, <2>1, <2>2, <2>3
<1>7. /\ \A i \in 1..n : NodeAt(r, i) = q[n + 1 - i]
      /\ \A i \in 1..(m + 1) : NodeAt(r, n + i) = NodeAt(f, i)
  <2>1. \A i \in 1..n : i \in 1..(n + m)  BY <1>1
  <2>2. \A i \in 1..(m + 1) : n + i \in 1..(n + m) <=> i \in 1..m  BY <1>1
  <2> QED  BY <1>1, <1>2, <2>1, <2>2 DEF NodeAt
<1>8. ASSUME NEW i \in 1..n PROVE ny[r[i]] = NodeAt(r, i + 1)
  <2>1. r[i] = q[n + 1 - i] /\ n + 1 - i \in 1..n  BY <1>1, <1>2
  <2>2. CASE i = n
    <3>1. r[i] = q[1] /\ ny[q[1]] = e  BY <1>1, <1>3, <2>1, <2>2
    <3>2. NodeAt(r, n + 1) = NodeAt(f, 1)  BY <1>1, <1>7
    <3> QED  BY <1>0, <2>2, <3>1, <3>2
  <2>3. CASE i # n
    <3> DEFINE j == n + 1 - i
    <3>1. j \in 1..n /\ j # 1 /\ r[i] = q[j] /\ i + 1 \in 1..n /\ n + 1 - (i + 1) = j - 1
      BY <1>1, <2>1, <2>3
    <3>2. NodeAt(r, i + 1) = q[n + 1 - (i + 1)]  BY <1>7, <3>1
    <3> HIDE DEF j
    <3>3. ny[q[j]] = q[j - 1]  BY <1>3, <3>1
    <3> QED  BY <3>1, <3>2, <3>3
  <2> QED  BY <2>2, <2>3
<1>9. ASSUME NEW i \in 1..m PROVE ny[r[n + i]] = NodeAt(r, n + i + 1)
  <2>1. r[n + i] = f[i] /\ ny[f[i]] = NodeAt(f, i + 1)  BY <1>0, <1>1, <1>2, <1>4
  <2>2. i + 1 \in 1..(m + 1) /\ n + (i + 1) = n + i + 1  BY <1>1
  <2> DEFINE k == i + 1
  <2>3. k \in 1..(m + 1) /\ n + k = n + i + 1  BY <2>2
  <2> HIDE DEF k
  <2>4. NodeAt(r, n + k) = NodeAt(f, k)  BY <1>7, <2>3
  <2> QED  BY <2>1, <2>3, <2>4 DEF k
<1>10. \A i \in DOMAIN r : ny[r[i]] = NodeAt(r, i + 1)  BY <1>2, <1>5, <1>8, <1>9
<1>11. (IF q = <<>> THEN e ELSE Last(q)) = NodeAt(r, 1)
  <2>1. CASE n = 0
    <3>1. 1 \in 1..(m + 1)  BY <1>1
    <3>2. NodeAt(r, n + 1) = NodeAt(f, 1)  BY <1>7, <3>1
    <3> QED  BY <1>0, <1>1, <2>1, <3>2
  <2>2. CASE n # 0
    <3>1. 1 \in 1..n /\ n + 1 - 1 = n  BY <1>1, <2>2
    <3> QED  BY <1>1, <1>7, <2>2, <3>1
  <2> QED  BY <2>1, <2>2
<1>12. Linked(r, IF q = <<>> THEN e ELSE Last(q), ny)
  BY <1>2, <1>6, <1>10, <1>11 DEF Linked
<1> QED  BY <1>12 DEF r, ny

-----------------------------------------------------------------------------
\* The queue q and the free list f, with their pointers, counter and tail.
ChainsOf(q, f, nx, head, tail, free, n) ==
    /\ Linked(q, head, nx) /\ Linked(f, free, nx)
    /\ \A s \in Slots : ~(Holds(q, s) /\ Holds(f, s))
    /\ n = Len(q)
    /\ tail = IF q = <<>> THEN Null ELSE Last(q)

Chains == ChainsOf(Queued, Free, next, qhead, qtail, qfree, entry)

LEMMA ChainsNext ==
    ASSUME NEW q, NEW f, ChainsOf(q, f, next', qhead', qtail', qfree', entry')
    PROVE  Chains' /\ Queued' = q /\ Free' = f
<1>1. Queued' = q /\ Free' = f  BY ListsAre DEF ChainsOf
<1> QED  BY <1>1 DEF Chains, ChainsOf

LEMMA LinkedLen ==
    ASSUME NEW q, NEW h, NEW nx, Linked(q, h, nx)
    PROVE  q \in Seq(Slots) /\ Distinct(q) /\ Len(q) \in 0..Count /\ (q = <<>> <=> Len(q) = 0)
<1>1. q \in Seq(Slots) /\ Distinct(q)  BY DEF Linked
<1>2. Len(q) \in Nat /\ Count \in Nat /\ Len(q) <= Count
  BY <1>1, DistinctLen, LenProperties, FS_CardinalityType DEF Count
<1> QED  BY <1>1, <1>2, EmptySeq

\* The tail of a list that lost its head, or was given one.
LEMMA TailEnds ==
    ASSUME NEW q \in Seq(Slots), Distinct(q), q # <<>>
    PROVE  /\ Last(q) = Head(q) <=> Tail(q) = <<>>
           /\ Tail(q) # <<>> => Last(Tail(q)) = Last(q)
           /\ Last(q) \in Slots /\ Holds(q, Last(q))
<1>1. /\ Len(q) \in Nat \ {0} /\ DOMAIN q = 1..Len(q) /\ \A i \in 1..Len(q) : q[i] \in Slots
  BY EmptySeq, LenProperties
<1>2. /\ Tail(q) \in Seq(Slots) /\ Len(Tail(q)) = Len(q) - 1
      /\ \A i \in 1..(Len(q) - 1) : Tail(q)[i] = q[i + 1]
      /\ Head(q) = q[1]
  BY HeadTailProperties
<1>3. Tail(q) = <<>> <=> Len(q) = 1
  <2>1. Tail(q) = <<>> <=> Len(Tail(q)) = 0  BY <1>2, EmptySeq
  <2> QED  BY <1>1, <1>2, <2>1
<1>4. Last(q) = q[Len(q)] /\ Last(Tail(q)) = Tail(q)[Len(q) - 1]  BY <1>2 DEF Last
<1>5. q[Len(q)] = q[1] <=> Len(q) = 1  BY <1>1 DEF Distinct
<1>6. ASSUME Len(q) # 1 PROVE Tail(q)[Len(q) - 1] = q[Len(q)]
  <2> DEFINE j == Len(q) - 1
  <2>1. j \in 1..(Len(q) - 1) /\ j + 1 = Len(q)  BY <1>1, <1>6
  <2> HIDE DEF j
  <2>2. Tail(q)[j] = q[j + 1]  BY <1>2, <2>1
  <2> QED  BY <2>1, <2>2 DEF j
<1>7. Last(q) \in Slots /\ Holds(q, Last(q))  BY <1>1, <1>4 DEF Holds
<1> QED  BY <1>2, <1>3, <1>4, <1>5, <1>6, <1>7

LEMMA HeadEnds ==
    ASSUME NEW q \in Seq(Slots), NEW s \in Slots
    PROVE  /\ <<s>> \o q # <<>> /\ Last(<<s>> \o q) = IF q = <<>> THEN s ELSE Last(q)
           /\ Append(q, s) # <<>> /\ Last(Append(q, s)) = s
<1>1. /\ <<s>> \in Seq(Slots) /\ Len(<<s>>) = 1 /\ <<s>>[1] = s
      /\ Len(q) \in Nat /\ (q = <<>> <=> Len(q) = 0)
  BY LenProperties, EmptySeq
<1>2. /\ <<s>> \o q \in Seq(Slots) /\ Len(<<s>> \o q) = 1 + Len(q)
      /\ \A i \in 1..(1 + Len(q)) : (<<s>> \o q)[i] = IF i <= 1 THEN <<s>>[i] ELSE q[i - 1]
  BY <1>1, ConcatProperties
<1>3. /\ Append(q, s) \in Seq(Slots) /\ Len(Append(q, s)) = Len(q) + 1
      /\ Append(q, s)[Len(q) + 1] = s
  BY AppendProperties
<1> DEFINE r == <<s>> \o q
           n == Len(q)
<1>4. r[1 + n] = IF n = 0 THEN s ELSE q[n]
  <2> DEFINE k == 1 + n
  <2>1. k \in 1..(1 + n) /\ k - 1 = n /\ (k <= 1 <=> n = 0) /\ (n = 0 => k = 1)  BY <1>1
  <2>2. \A i \in 1..(1 + n) : r[i] = IF i <= 1 THEN <<s>>[i] ELSE q[i - 1]  BY <1>2
  <2> HIDE DEF k, r, n
  <2>3. r[k] = IF n = 0 THEN s ELSE q[n]  BY <1>1, <2>1, <2>2
  <2> QED  BY <2>3 DEF k
<1>5. Last(r) = r[1 + n]  BY <1>2 DEF Last
<1>6. r # <<>>  BY <1>1, <1>2, EmptySeq
<1>7. q # <<>> => Last(q) = q[n]  BY DEF Last
<1>8. Append(q, s) # <<>> /\ Last(Append(q, s)) = s  BY <1>1, <1>3, EmptySeq DEF Last
<1> QED  BY <1>1, <1>4, <1>5, <1>6, <1>7, <1>8

\* The sections that unlink a slot from one of the lists or link one into it.
LEMMA ChainsPutLast ==
    ASSUME NEW nx \in [Slots -> Nodes], NEW q, NEW f, NEW head, NEW tail, NEW free, NEW n,
           ChainsOf(q, f, nx, head, tail, free, n),
           NEW s \in Slots, ~Holds(q, s), ~Holds(f, s),
           NEW ny, ny = PutAfter(nx, s, tail)
    PROVE  /\ ChainsOf(Append(q, s), f, ny, IF head = Null THEN s ELSE head, s, free, n + 1)
           /\ \A u : Holds(Append(q, s), u) <=> Holds(q, u) \/ u = s
<1>1. Linked(q, head, nx) /\ Linked(f, free, nx) /\ q \in Seq(Slots) /\ f \in Seq(Slots)
      /\ Distinct(q)
  BY DEF ChainsOf, Linked
<1>2. tail = IF q = <<>> THEN Null ELSE Last(q)  BY DEF ChainsOf
<1>3. Linked(Append(q, s), IF head = Null THEN s ELSE head, ny)
  <2>1. PICK g : g = IF head = Null THEN s ELSE head  OBVIOUS
  <2>2. Linked(Append(q, s), g, PutAfter(nx, s, tail))  BY <1>1, <1>2, <2>1, LinkedAfter
  <2> QED  BY <2>1, <2>2
<1>4. Linked(f, free, ny)
  <2>1. tail # Null => tail \in Slots /\ Holds(q, tail)  BY <1>1, <1>2, TailEnds
  <2>2. \A x \in Slots : Holds(f, x) => ny[x] = nx[x]  BY <2>1 DEF ChainsOf, PutAfter
  <2> QED  BY <1>1, <2>2, LinkedElsewhere
<1>5. /\ \A u : Holds(Append(q, s), u) <=> Holds(q, u) \/ u = s
      /\ Len(Append(q, s)) = Len(q) + 1
  BY <1>1, AppendFacts, AppendProperties
<1>6. Append(q, s) # <<>> /\ Last(Append(q, s)) = s  BY <1>1, HeadEnds
<1> QED  BY <1>3, <1>4, <1>5, <1>6 DEF ChainsOf

PutsFirst(q, f, nx, s, head, tail, free, n) ==
    /\ ChainsOf(<<s>> \o q, f, [nx EXCEPT ![s] = head], s,
                IF tail = Null THEN s ELSE tail, free, n + 1)
    /\ \A u : Holds(<<s>> \o q, u) <=> Holds(q, u) \/ u = s

LEMMA ChainsPutFirst ==
    ASSUME NEW nx \in [Slots -> Nodes], NEW q, NEW f, NEW head, NEW tail, NEW free, NEW n,
           ChainsOf(q, f, nx, head, tail, free, n),
           NEW s \in Slots, ~Holds(q, s), ~Holds(f, s)
    PROVE  PutsFirst(q, f, nx, s, head, tail, free, n)
<1> DEFINE ny == [nx EXCEPT ![s] = head]
<1>1. Linked(q, head, nx) /\ Linked(f, free, nx) /\ q \in Seq(Slots) /\ f \in Seq(Slots)
      /\ Distinct(q)
  BY DEF ChainsOf, Linked
<1>2. tail = IF q = <<>> THEN Null ELSE Last(q)  BY DEF ChainsOf
<1>3. Linked(<<s>> \o q, s, ny)  BY <1>1, LinkedBefore
<1>4. Linked(f, free, ny)
  <2>1. \A x \in Slots : Holds(f, x) => ny[x] = nx[x]  OBVIOUS
  <2> QED  BY <1>1, <2>1, LinkedElsewhere
<1>5. /\ \A u : Holds(<<s>> \o q, u) <=> Holds(q, u) \/ u = s
      /\ Len(<<s>> \o q) = Len(q) + 1
  BY <1>1, PrependFacts
<1>6. <<s>> \o q # <<>> /\ Last(<<s>> \o q) = IF q = <<>> THEN s ELSE Last(q)
  BY <1>1, HeadEnds
<1>7. tail = Null <=> q = <<>>  BY <1>1, <1>2, TailEnds
<1> QED  BY <1>2, <1>3, <1>4, <1>5, <1>6, <1>7 DEF ChainsOf, PutsFirst

LEMMA ChainsDropFirst ==
    ASSUME NEW nx, NEW q, NEW f, NEW head, NEW tail, NEW free, NEW n,
           ChainsOf(q, f, nx, head, tail, free, n), head # Null
    PROVE  /\ ChainsOf(Tail(q), f, nx, nx[head], IF tail = head THEN Null ELSE tail, free, n - 1)
           /\ q # <<>> /\ head = Head(q) /\ head \in Slots
           /\ \A u : Holds(Tail(q), u) <=> Holds(q, u) /\ u # head
<1>1. Linked(q, head, nx) /\ q \in Seq(Slots) /\ Distinct(q)  BY DEF ChainsOf, Linked
<1>2. /\ q # <<>> /\ head = Head(q) /\ head \in Slots /\ Linked(Tail(q), nx[head], nx)
      /\ Len(Tail(q)) = Len(q) - 1
      /\ \A u : Holds(Tail(q), u) <=> Holds(q, u) /\ u # head
  BY <1>1, LinkedTail
<1>3. tail = Last(q)  BY <1>2 DEF ChainsOf
<1>4. /\ tail = head <=> Tail(q) = <<>>
      /\ Tail(q) # <<>> => Last(Tail(q)) = tail
  BY <1>1, <1>2, <1>3, TailEnds
<1> QED  BY <1>2, <1>4 DEF ChainsOf

LEMMA ChainsTakeFree ==
    ASSUME NEW nx, NEW q, NEW f, NEW head, NEW tail, NEW free, NEW n,
           ChainsOf(q, f, nx, head, tail, free, n), free # Null
    PROVE  /\ ChainsOf(q, Tail(f), nx, head, tail, nx[free], n)
           /\ f # <<>> /\ free = Head(f) /\ free \in Slots /\ Len(Tail(f)) = Len(f) - 1
           /\ ~Holds(q, free)
           /\ \A u : Holds(Tail(f), u) <=> Holds(f, u) /\ u # free
<1>1. Linked(f, free, nx) /\ f \in Seq(Slots) /\ Distinct(f)  BY DEF ChainsOf, Linked
<1>2. /\ f # <<>> /\ free = Head(f) /\ free \in Slots /\ Linked(Tail(f), nx[free], nx)
      /\ Len(Tail(f)) = Len(f) - 1
      /\ \A u : Holds(Tail(f), u) <=> Holds(f, u) /\ u # free
  BY <1>1, LinkedTail
<1>3. Holds(f, free)  BY <1>1, <1>2, TailFacts
<1> QED  BY <1>2, <1>3 DEF ChainsOf

GivesFree(q, f, nx, head, tail, free, n, s, ny) ==
    /\ nx \in [Slots -> Nodes] /\ ChainsOf(q, f, nx, head, tail, free, n)
    /\ s \in Slots /\ ~Holds(q, s) /\ ~Holds(f, s)
    /\ ny = [nx EXCEPT ![s] = free]

LEMMA ChainsGiveFree ==
    ASSUME NEW q, NEW f, NEW nx, NEW head, NEW tail, NEW free, NEW n, NEW s, NEW ny,
           GivesFree(q, f, nx, head, tail, free, n, s, ny)
    PROVE  /\ ChainsOf(q, <<s>> \o f, ny, head, tail, s, n)
           /\ Len(<<s>> \o f) = Len(f) + 1
           /\ \A u : Holds(<<s>> \o f, u) <=> Holds(f, u) \/ u = s
<1>1. /\ Linked(q, head, nx) /\ Linked(f, free, nx) /\ f \in Seq(Slots) /\ Distinct(f)
      /\ nx \in [Slots -> Nodes] /\ s \in Slots /\ ~Holds(q, s) /\ ~Holds(f, s)
      /\ ny = [nx EXCEPT ![s] = free]
  BY DEF GivesFree, ChainsOf, Linked
<1>2. Linked(<<s>> \o f, s, ny)  BY <1>1, LinkedBefore
<1>3. Linked(q, head, ny)
  <2>1. \A x \in Slots : Holds(q, x) => ny[x] = nx[x]  BY <1>1
  <2> QED  BY <1>1, <2>1, LinkedElsewhere
<1>4. /\ \A u : Holds(<<s>> \o f, u) <=> Holds(f, u) \/ u = s
      /\ Len(<<s>> \o f) = Len(f) + 1
  BY <1>1, PrependFacts
<1> QED  BY <1>1, <1>2, <1>3, <1>4 DEF ChainsOf, GivesFree

LEMMA ChainsReturn ==
    ASSUME NEW nx, NEW q, NEW f, NEW head, NEW tail, NEW free, NEW n,
           ChainsOf(q, f, nx, head, tail, free, n)
    PROVE  /\ ChainsOf(<<>>, Returned(q, f), TurnedRound(q, free, nx), Null,
                       IF Holds(q, tail) THEN Null ELSE tail,
                       IF q = <<>> THEN free ELSE Last(q), 0)
           /\ \A u : Holds(Returned(q, f), u) <=> Holds(q, u) \/ Holds(f, u)
<1>1. /\ Linked(q, head, nx) /\ Linked(f, free, nx) /\ q \in Seq(Slots) /\ f \in Seq(Slots)
      /\ Distinct(q) /\ \A s \in Slots : ~(Holds(q, s) /\ Holds(f, s))
  BY DEF ChainsOf, Linked
<1>2. Linked(Returned(q, f), IF q = <<>> THEN free ELSE Last(q), TurnedRound(q, free, nx))
  BY <1>1, LinkedReturned
<1>3. /\ <<>> \in Seq(Slots) /\ DOMAIN <<>> = {} /\ Len(<<>>) = 0 /\ \A u : ~Holds(<<>>, u)
  BY DEF Holds
<1>4. Linked(<<>>, Null, TurnedRound(q, free, nx))  BY <1>3 DEF Linked, Distinct, NodeAt
<1>5. (IF Holds(q, tail) THEN Null ELSE tail) = Null
  <2>1. q # <<>> => Holds(q, tail)  BY <1>1, TailEnds DEF ChainsOf
  <2> QED  BY <2>1 DEF ChainsOf
<1>6. \A u : Holds(Returned(q, f), u) <=> Holds(q, u) \/ Holds(f, u)  BY <1>1, ReturnedFacts
<1> QED  BY <1>2, <1>3, <1>4, <1>5, <1>6 DEF ChainsOf

-----------------------------------------------------------------------------
Words == Messages \cup {NoMessage}

\* What the slots of q hold.
ContentsOf(c, q) == [i \in DOMAIN q |-> c[q[i]]]

LEMMA ContentsFacts ==
    ASSUME NEW c \in [Slots -> Words], NEW q \in Seq(Slots)
    PROVE  /\ ContentsOf(c, q) \in Seq(Words) /\ Len(ContentsOf(c, q)) = Len(q)
           /\ \A i \in 1..Len(q) : ContentsOf(c, q)[i] = c[q[i]]
           /\ ContentsOf(c, q) = <<>> <=> q = <<>>
<1>1. /\ Len(q) \in Nat /\ DOMAIN q = 1..Len(q) /\ \A i \in 1..Len(q) : q[i] \in Slots
  BY LenProperties
<1> DEFINE r == ContentsOf(c, q)
<1>2. r \in [1..Len(q) -> Words] /\ \A i \in 1..Len(q) : r[i] = c[q[i]]  BY <1>1 DEF ContentsOf
<1> HIDE DEF r
<1>3. r \in Seq(Words)  BY <1>1, <1>2, SeqDef
<1>4. DOMAIN r = 1..Len(q) /\ DOMAIN r = 1..Len(r) /\ Len(r) \in Nat  BY <1>2, <1>3, LenProperties
<1>5. Len(r) = Len(q)  BY <1>1, <1>4
<1>6. r = <<>> <=> q = <<>>  BY <1>1, <1>3, <1>5, EmptySeq
<1> QED  BY <1>2, <1>3, <1>5, <1>6 DEF r

LEMMA ContentsSame ==
    ASSUME NEW c, NEW d, NEW q \in Seq(Slots), \A s \in Slots : Holds(q, s) => d[s] = c[s]
    PROVE  ContentsOf(d, q) = ContentsOf(c, q)
<1>1. \A i \in DOMAIN q : q[i] \in Slots /\ Holds(q, q[i])  BY LenProperties DEF Holds
<1> QED  BY <1>1 DEF ContentsOf

LEMMA ContentsPutLast ==
    ASSUME NEW c \in [Slots -> Words], NEW q \in Seq(Slots), NEW s \in Slots
    PROVE  ContentsOf(c, Append(q, s)) = Append(ContentsOf(c, q), c[s])
<1> DEFINE x == ContentsOf(c, Append(q, s))
           y == Append(ContentsOf(c, q), c[s])
           n == Len(q)
<1>1. /\ Append(q, s) \in Seq(Slots) /\ Len(Append(q, s)) = n + 1 /\ n \in Nat
      /\ \A i \in 1..n : Append(q, s)[i] = q[i]
      /\ Append(q, s)[n + 1] = s
  BY AppendProperties, LenProperties
<1> HIDE DEF x, y
<1>2. /\ x \in Seq(Words) /\ Len(x) = n + 1
      /\ \A i \in 1..(n + 1) : x[i] = c[Append(q, s)[i]]
  <2> HIDE DEF n
  <2>1. PICK r \in Seq(Slots) : r = Append(q, s)  BY <1>1
  <2>2. /\ ContentsOf(c, r) \in Seq(Words) /\ Len(ContentsOf(c, r)) = Len(r)
        /\ \A i \in 1..Len(r) : ContentsOf(c, r)[i] = c[r[i]]
    BY ContentsFacts
  <2> QED  BY <1>1, <2>1, <2>2 DEF x
<1>3. /\ y \in Seq(Words) /\ Len(y) = n + 1
      /\ \A i \in 1..n : y[i] = c[q[i]]
      /\ y[n + 1] = c[s]
  <2> HIDE DEF n
  <2>1. PICK r \in Seq(Words) : r = ContentsOf(c, q) /\ Len(r) = n /\ \A i \in 1..n : r[i] = c[q[i]]
    BY ContentsFacts DEF n
  <2>2. c[s] \in Words  OBVIOUS
  <2>3. /\ Append(r, c[s]) \in Seq(Words) /\ Len(Append(r, c[s])) = Len(r) + 1
        /\ \A i \in 1..Len(r) : Append(r, c[s])[i] = r[i]
        /\ Append(r, c[s])[Len(r) + 1] = c[s]
    BY <2>2, AppendProperties
  <2> QED  BY <2>1, <2>3 DEF y
<1> HIDE DEF x, y, n
<1>4. ASSUME NEW i \in 1..(n + 1) PROVE x[i] = y[i]
  <2>1. x[i] = c[Append(q, s)[i]]  BY <1>2
  <2>2. CASE i = n + 1
    <3>1. Append(q, s)[i] = s /\ y[i] = c[s]  BY <1>1, <1>3, <2>2
    <3> QED  BY <2>1, <3>1
  <2>3. CASE i # n + 1
    <3>1. i \in 1..n  BY <1>1, <2>3
    <3>2. Append(q, s)[i] = q[i] /\ y[i] = c[q[i]]  BY <1>1, <1>3, <3>1
    <3> QED  BY <2>1, <3>2
  <2> QED  BY <2>2, <2>3
<1>5. x = y  BY <1>2, <1>3, <1>4, SeqEqual
<1> QED  BY <1>5 DEF x, y

LEMMA ContentsPutFirst ==
    ASSUME NEW c \in [Slots -> Words], NEW q \in Seq(Slots), NEW s \in Slots
    PROVE  ContentsOf(c, <<s>> \o q) = <<c[s]>> \o ContentsOf(c, q)
<1> DEFINE x == ContentsOf(c, <<s>> \o q)
           y == <<c[s]>> \o ContentsOf(c, q)
           n == Len(q)
<1>0. /\ <<s>> \in Seq(Slots) /\ Len(<<s>>) = 1 /\ <<s>>[1] = s
      /\ <<c[s]>> \in Seq(Words) /\ Len(<<c[s]>>) = 1 /\ <<c[s]>>[1] = c[s]
      /\ n \in Nat
  BY LenProperties
<1>1. /\ <<s>> \o q \in Seq(Slots) /\ Len(<<s>> \o q) = 1 + n
      /\ \A i \in 1..(1 + n) : (<<s>> \o q)[i] = IF i <= 1 THEN <<s>>[i] ELSE q[i - 1]
  BY <1>0, ConcatProperties
<1> HIDE DEF x, y
<1>2. /\ x \in Seq(Words) /\ Len(x) = 1 + n
      /\ \A i \in 1..(1 + n) : x[i] = c[(<<s>> \o q)[i]]
  <2> HIDE DEF n
  <2>1. PICK r \in Seq(Slots) : r = <<s>> \o q  BY <1>1
  <2>2. /\ ContentsOf(c, r) \in Seq(Words) /\ Len(ContentsOf(c, r)) = Len(r)
        /\ \A i \in 1..Len(r) : ContentsOf(c, r)[i] = c[r[i]]
    BY ContentsFacts
  <2> QED  BY <1>1, <2>1, <2>2 DEF x
<1>3. /\ y \in Seq(Words) /\ Len(y) = 1 + n
      /\ \A i \in 1..(1 + n) : y[i] = IF i <= 1 THEN <<c[s]>>[i] ELSE c[q[i - 1]]
  <2> HIDE DEF n
  <2>1. PICK r \in Seq(Words) : r = ContentsOf(c, q) /\ Len(r) = n /\ \A i \in 1..n : r[i] = c[q[i]]
    BY ContentsFacts DEF n
  <2>2. PICK a \in Seq(Words) : a = <<c[s]>> /\ Len(a) = 1  BY <1>0
  <2>3. /\ a \o r \in Seq(Words) /\ Len(a \o r) = Len(a) + Len(r)
        /\ \A i \in 1..(Len(a) + Len(r)) : (a \o r)[i] = IF i <= Len(a) THEN a[i] ELSE r[i - Len(a)]
    BY ConcatProperties
  <2>4. \A i \in 1..(1 + n) : ~(i <= 1) => i - 1 \in 1..n  BY <1>0
  <2>5. \A i \in 1..(1 + n) : (a \o r)[i] = IF i <= 1 THEN a[i] ELSE c[q[i - 1]]
    BY <2>1, <2>2, <2>3, <2>4
  <2> QED  BY <2>1, <2>2, <2>3, <2>5 DEF y
<1>4. \A i \in 1..(1 + n) : x[i] = y[i]
  <2> SUFFICES ASSUME NEW i \in 1..(1 + n) PROVE x[i] = y[i]  OBVIOUS
  <2> HIDE DEF x, y, n
  <2>1. CASE i <= 1
    <3>1. i = 1  BY <1>0, <2>1
    <3> QED  BY <1>0, <1>1, <1>2, <1>3, <3>1
  <2>2. CASE ~(i <= 1)
    <3>1. (<<s>> \o q)[i] = q[i - 1]  BY <1>1, <2>2
    <3>2. x[i] = c[(<<s>> \o q)[i]]  BY <1>2
    <3>3. y[i] = c[q[i - 1]]  BY <1>3, <2>2
    <3> QED  BY <3>1, <3>2, <3>3
  <2> QED  BY <2>1, <2>2
<1> HIDE DEF x, y, n
<1>5. x = y  BY <1>2, <1>3, <1>4, SeqEqual
<1> QED  BY <1>5 DEF x, y

LEMMA ContentsDropFirst ==
    ASSUME NEW c \in [Slots -> Words], NEW q \in Seq(Slots), q # <<>>
    PROVE  ContentsOf(c, Tail(q)) = Tail(ContentsOf(c, q)) /\ ContentsOf(c, q) # <<>>
<1> DEFINE x == ContentsOf(c, Tail(q))
           y == ContentsOf(c, q)
           n == Len(q)
<1>1. /\ Tail(q) \in Seq(Slots) /\ Len(Tail(q)) = n - 1 /\ n \in Nat \ {0}
      /\ \A i \in 1..(n - 1) : Tail(q)[i] = q[i + 1]
  BY HeadTailProperties, EmptySeq
<1> HIDE DEF x, y
<1>2. /\ x \in Seq(Words) /\ Len(x) = n - 1
      /\ \A i \in 1..(n - 1) : x[i] = c[Tail(q)[i]]
  <2> HIDE DEF n
  <2>1. PICK r \in Seq(Slots) : r = Tail(q)  BY <1>1
  <2>2. /\ ContentsOf(c, r) \in Seq(Words) /\ Len(ContentsOf(c, r)) = Len(r)
        /\ \A i \in 1..Len(r) : ContentsOf(c, r)[i] = c[r[i]]
    BY ContentsFacts
  <2> QED  BY <1>1, <2>1, <2>2 DEF x
<1>3. y \in Seq(Words) /\ Len(y) = n /\ y # <<>> /\ \A i \in 1..n : y[i] = c[q[i]]
  BY ContentsFacts DEF y
<1> HIDE DEF x, y, n
<1>4. /\ Tail(y) \in Seq(Words) /\ Len(Tail(y)) = n - 1
      /\ \A i \in 1..(n - 1) : Tail(y)[i] = y[i + 1]
  BY <1>3, HeadTailProperties
<1>5. \A i \in 1..(n - 1) : x[i] = Tail(y)[i]
  <2> SUFFICES ASSUME NEW i \in 1..(n - 1) PROVE x[i] = Tail(y)[i]  OBVIOUS
  <2> DEFINE j == i + 1
  <2>1. j \in 1..n  BY <1>1
  <2>2. Tail(q)[i] = q[j] /\ Tail(y)[i] = y[j]  BY <1>1, <1>4
  <2> HIDE DEF j
  <2>3. y[j] = c[q[j]]  BY <1>3, <2>1
  <2>4. x[i] = c[Tail(q)[i]]  BY <1>2
  <2> QED  BY <2>2, <2>3, <2>4
<1>6. x = Tail(y)  BY <1>2, <1>4, <1>5, SeqEqual
<1> QED  BY <1>3, <1>6 DEF x, y

-----------------------------------------------------------------------------
StoreTypes ==
    /\ content \in [Slots -> Words]
    /\ next \in [Slots -> Nodes]
    /\ {qhead, qtail, qfree} \subseteq Nodes
    /\ alive \in BOOLEAN
    /\ pc \in [Threads -> Places]
    /\ slot \in [Threads -> Nodes]
    /\ message \in [Threads -> Words]

\* Every slot is listed or some thread's, and the threads' slots are unlisted
\* and distinct; a thread has one while it copies, and keeps it if it is deleted.
Listed(s) == Holds(Queued, s) \/ Holds(Free, s)
Keeps(t) == Copying(t) \/ pc[t] = "dead"
Owners ==
    /\ \A s \in Slots : Listed(s) \/ \E t \in Threads : slot[t] = s
    /\ \A t \in Threads : ~Listed(slot[t])
    /\ \A t, u \in Threads : slot[t] = slot[u] /\ slot[t] # Null => t = u
    /\ \A t \in Threads : (Copying(t) => slot[t] # Null) /\ (slot[t] # Null => Keeps(t))

Fills(t) == Sending(t) \/ pc[t] \in {"copying", "copyingfirst"}
Posts == \A t \in Threads : Fills(t) => message[t] \in Messages

Storage == StoreTypes /\ Chains /\ Owners /\ Posts

Lists == {"recv", "send"}

\* The list a thread waits on when it is suspended.
Side(t) == IF Receiving(t) THEN "recv" ELSE IF Sending(t) THEN "send" ELSE "none"

\* Who was woken there and has not run, and what is there for them: messages, or
\* free slots.
Coming(l) == {t \in Threads : Side(t) = l /\ Woken(t)}
Left(l) == IF l = "recv" THEN entry ELSE Len(Free)

LEMMA StoreFacts ==
    ASSUME Storage
    PROVE  /\ ChainsOf(Queued, Free, next, qhead, qtail, qfree, entry)
           /\ next \in [Slots -> Nodes] /\ content \in [Slots -> Words]
           /\ Queued \in Seq(Slots) /\ Distinct(Queued) /\ Free \in Seq(Slots) /\ Distinct(Free)
           /\ entry = Len(Queued) /\ entry \in 0..Count /\ Len(Free) \in 0..Count
           /\ entry = 0 <=> qhead = Null
           /\ Len(Free) = 0 <=> qfree = Null
           /\ \A u : Listed(u) => u \in Slots
           /\ ~Listed(Null)
           /\ Contents = ContentsOf(content, Queued)
<1>1. /\ ChainsOf(Queued, Free, next, qhead, qtail, qfree, entry)
      /\ next \in [Slots -> Nodes] /\ content \in [Slots -> Words]
  BY DEF Storage, StoreTypes, Chains
<1>2. Linked(Queued, qhead, next) /\ Linked(Free, qfree, next) /\ entry = Len(Queued)
  BY <1>1 DEF ChainsOf
<1>3. /\ Queued \in Seq(Slots) /\ Distinct(Queued) /\ Len(Queued) \in 0..Count
      /\ Free \in Seq(Slots) /\ Distinct(Free) /\ Len(Free) \in 0..Count
      /\ Queued = <<>> <=> Len(Queued) = 0
      /\ Free = <<>> <=> Len(Free) = 0
  BY <1>2, LinkedLen
<1>4. (Queued = <<>> <=> qhead = Null) /\ (Free = <<>> <=> qfree = Null)
  BY <1>2, LinkedEmpty
<1>5. \A u : Listed(u) => u \in Slots  BY <1>3, HeldIsElement DEF Listed
<1>6. Contents = ContentsOf(content, Queued)  BY DEF Contents, ContentsOf
<1> QED  BY <1>1, <1>2, <1>3, <1>4, <1>5, <1>6

LEMMA StoreFactsNext == Storage' => entry' \in 0..Count /\ Len(Free)' \in 0..Count
<1> SUFFICES ASSUME Storage' PROVE entry' \in 0..Count /\ Len(Free)' \in 0..Count  OBVIOUS
<1>1. Linked(Queued', qhead', next') /\ Linked(Free', qfree', next') /\ entry' = Len(Queued')
  BY DEF Storage, Chains, ChainsOf
<1> QED  BY <1>1, LinkedLen

LEMMA ContentsNext == Contents' = ContentsOf(content', Queued')
  BY DEF Contents, ContentsOf

\* A thread takes a slot off a list, a thread gives its slot to a list, or
\* neither happens.
LEMMA SlotTaken ==
    ASSUME Storage, StoreTypes', NEW t \in Threads, NEW s \in Slots, slot[t] = Null, Listed(s),
           \A u : Listed(u)' <=> Listed(u) /\ u # s,
           slot' = [slot EXCEPT ![t] = s], Copying(t)',
           \A u \in Threads \ {t} : pc'[u] = pc[u]
    PROVE  Owners'
<1>1. slot \in [Threads -> Nodes] /\ Owners  BY DEF Storage, StoreTypes
<1>2. slot'[t] = s /\ \A u \in Threads \ {t} : slot'[u] = slot[u]  BY <1>1
<1>3. \A u \in Threads : slot[u] # s  BY <1>1 DEF Owners
<1>4. \A x \in Slots : Listed(x)' \/ \E u \in Threads : slot'[u] = x
  <2> SUFFICES ASSUME NEW x \in Slots PROVE Listed(x)' \/ \E u \in Threads : slot'[u] = x
    OBVIOUS
  <2>1. CASE x = s  BY <1>2, <2>1
  <2>2. ASSUME NEW u \in Threads, slot[u] = x PROVE slot'[u] = x
    BY <1>2, <2>2
  <2> QED  BY <1>1, <2>1, <2>2 DEF Owners
<1>5. \A u \in Threads : ~Listed(slot[u])'  BY <1>1, <1>2 DEF Owners
<1>6. \A u, x \in Threads : slot'[u] = slot'[x] /\ slot'[u] # Null => u = x
  BY <1>1, <1>2, <1>3 DEF Owners
<1>7. \A u \in Threads : (Copying(u)' => slot'[u] # Null) /\ (slot'[u] # Null => Keeps(u)')
  BY <1>1, <1>2 DEF Owners, Copying, Keeps
<1> QED  BY <1>4, <1>5, <1>6, <1>7 DEF Owners

LEMMA SlotGiven ==
    ASSUME Storage, StoreTypes', NEW t \in Threads, slot[t] # Null,
           \A u : Listed(u)' <=> Listed(u) \/ u = slot[t],
           slot' = [slot EXCEPT ![t] = Null], ~Copying(t)',
           \A u \in Threads \ {t} : pc'[u] = pc[u]
    PROVE  Owners'
<1>1. slot \in [Threads -> Nodes] /\ Owners /\ ~Listed(Null)  BY StoreFacts DEF Storage, StoreTypes
<1>2. slot'[t] = Null /\ \A u \in Threads \ {t} : slot'[u] = slot[u]  BY <1>1
<1>3. \A x \in Slots : Listed(x)' \/ \E u \in Threads : slot'[u] = x
  <2> SUFFICES ASSUME NEW x \in Slots PROVE Listed(x)' \/ \E u \in Threads : slot'[u] = x
    OBVIOUS
  <2>1. CASE x = slot[t]  BY <2>1
  <2>2. ASSUME NEW u \in Threads, slot[u] = x, x # slot[t] PROVE slot'[u] = x
    BY <1>2, <2>2
  <2> QED  BY <1>1, <2>1, <2>2 DEF Owners
<1>4. \A u \in Threads : ~Listed(slot[u])'
  <2> SUFFICES ASSUME NEW u \in Threads PROVE ~Listed(slot[u])'
    OBVIOUS
  <2>1. CASE u = t  BY <1>1, <1>2, <2>1
  <2>2. CASE u # t
    <3>1. slot'[u] = slot[u] /\ ~Listed(slot[u])  BY <1>1, <1>2, <2>2 DEF Owners
    <3>2. slot[u] # slot[t]  BY <1>1, <2>2 DEF Owners
    <3> QED  BY <3>1, <3>2
  <2> QED  BY <2>1, <2>2
<1>5. \A u, x \in Threads : slot'[u] = slot'[x] /\ slot'[u] # Null => u = x
  BY <1>1, <1>2 DEF Owners
<1>6. \A u \in Threads : (Copying(u)' => slot'[u] # Null) /\ (slot'[u] # Null => Keeps(u)')
  BY <1>1, <1>2 DEF Owners, Copying, Keeps
<1> QED  BY <1>3, <1>4, <1>5, <1>6 DEF Owners

LEMMA SlotsSame ==
    ASSUME Owners, slot' = slot, \A u : Listed(u)' <=> Listed(u),
           \A u \in Threads : \/ pc'[u] = pc[u]
                              \/ ~Keeps(u) /\ ~Copying(u)'
                              \/ pc'[u] = "dead"
    PROVE  Owners'
<1>1. \A x \in Slots : Listed(x)' \/ \E u \in Threads : slot'[u] = x  BY DEF Owners
<1>2. \A u \in Threads : ~Listed(slot[u])'  BY DEF Owners
<1>3. \A u, x \in Threads : slot'[u] = slot'[x] /\ slot'[u] # Null => u = x  BY DEF Owners
<1>4. \A u \in Threads : (Copying(u)' => slot'[u] # Null) /\ (slot'[u] # Null => Keeps(u)')
  BY DEF Owners, Copying, Keeps
<1> QED  BY <1>1, <1>2, <1>3, <1>4 DEF Owners

-----------------------------------------------------------------------------
\* The steps that move slots.  The first section of a send:
LEMMA TakeSlotStep ==
    ASSUME Storage, NEW t \in Threads, NEW m \in Messages, NEW place \in {"copying", "copyingfirst"},
           ~Keeps(t), TakeSlot(t, m, place)
    PROVE  /\ Storage' /\ UNCHANGED Contents
           /\ entry' = entry /\ Len(Free)' = Len(Free) - 1
           /\ Len(Free) \in Nat /\ pc' = [pc EXCEPT ![t] = place]
<1>1. /\ qfree # Null /\ qfree' = next[qfree]
      /\ slot' = [slot EXCEPT ![t] = qfree]
      /\ message' = [message EXCEPT ![t] = m]
      /\ pc' = [pc EXCEPT ![t] = place]
      /\ UNCHANGED <<content, next, qhead, qtail, entry, alive>>
  BY DEF TakeSlot
<1>2. /\ ChainsOf(Queued, Free, next, qhead, qtail, qfree, entry)
      /\ Queued \in Seq(Slots) /\ Free \in Seq(Slots) /\ Len(Free) \in Nat
      /\ Contents = ContentsOf(content, Queued)
  BY StoreFacts
<1>3. /\ ChainsOf(Queued, Tail(Free), next, qhead, qtail, next[qfree], entry)
      /\ qfree \in Slots /\ Len(Tail(Free)) = Len(Free) - 1 /\ ~Holds(Queued, qfree)
      /\ Free # <<>> /\ qfree = Head(Free)
      /\ \A u : Holds(Tail(Free), u) <=> Holds(Free, u) /\ u # qfree
  BY <1>1, <1>2, ChainsTakeFree
<1>4. Chains' /\ Queued' = Queued /\ Free' = Tail(Free)  BY <1>1, <1>3, ChainsNext
<1>5. StoreTypes'
  <2>1. next[qfree] \in Nodes /\ qfree \in Nodes /\ m \in Words
    BY <1>3 DEF Storage, StoreTypes, Nodes, Words
  <2> QED  BY <1>1, <2>1 DEF Storage, StoreTypes, Places
<1>6. /\ pc'[t] = place /\ \A u \in Threads \ {t} : pc'[u] = pc[u] /\ message'[u] = message[u]
      /\ message'[t] = m
  BY <1>1 DEF Storage, StoreTypes
<1>7. Owners'
  <2>1. Listed(qfree)
    <3>1. Holds(Free, qfree)
      <4>1. Distinct(Free)  BY StoreFacts
      <4> QED  BY <1>2, <1>3, <4>1, TailFacts
    <3> QED  BY <3>1 DEF Listed
  <2>2. \A u : Listed(u)' <=> Listed(u) /\ u # qfree  BY <1>3, <1>4 DEF Listed
  <2>3. slot[t] = Null  BY DEF Storage, Owners
  <2>4. Copying(t)'  BY <1>6 DEF Copying
  <2> QED  BY <1>1, <1>3, <1>5, <1>6, <2>1, <2>2, <2>3, <2>4, SlotTaken
<1>8. Posts'  BY <1>6 DEF Storage, Posts, Fills, Sending
<1>9. Contents' = Contents  BY <1>1, <1>2, <1>4, ContentsNext
<1> QED  BY <1>1, <1>2, <1>3, <1>4, <1>5, <1>7, <1>8, <1>9 DEF Storage

\* The first section of a receive:
LEMMA UnlinkFirstStep ==
    ASSUME Storage, NEW t \in Threads, ~Keeps(t), UnlinkFirst(t)
    PROVE  /\ Storage' /\ Contents # <<>> /\ Contents' = Tail(Contents)
           /\ entry \in Nat /\ entry' = entry - 1 /\ Len(Free)' = Len(Free)
           /\ pc' = [pc EXCEPT ![t] = "reading"]
<1>1. /\ entry > 0 /\ qhead' = next[qhead]
      /\ qtail' = (IF qtail = qhead THEN Null ELSE qtail)
      /\ entry' = entry - 1
      /\ slot' = [slot EXCEPT ![t] = qhead]
      /\ pc' = [pc EXCEPT ![t] = "reading"]
      /\ UNCHANGED <<content, next, qfree, alive, message>>
  BY DEF UnlinkFirst, DropFirst
<1>2. /\ ChainsOf(Queued, Free, next, qhead, qtail, qfree, entry)
      /\ Queued \in Seq(Slots) /\ Distinct(Queued) /\ entry \in Nat /\ qhead # Null
      /\ Contents = ContentsOf(content, Queued) /\ content \in [Slots -> Words]
  BY <1>1, StoreFacts
<1>3. /\ ChainsOf(Tail(Queued), Free, next, next[qhead],
                  IF qtail = qhead THEN Null ELSE qtail, qfree, entry - 1)
      /\ Queued # <<>> /\ qhead = Head(Queued) /\ qhead \in Slots
      /\ \A u : Holds(Tail(Queued), u) <=> Holds(Queued, u) /\ u # qhead
  BY <1>2, ChainsDropFirst
<1>4. Chains' /\ Queued' = Tail(Queued) /\ Free' = Free  BY <1>1, <1>3, ChainsNext
<1>5. StoreTypes'
  <2>1. next[qhead] \in Nodes /\ qhead \in Nodes /\ Null \in Nodes
    BY <1>3 DEF Storage, StoreTypes, Nodes
  <2> QED  BY <1>1, <2>1 DEF Storage, StoreTypes, Places
<1>6. pc'[t] = "reading" /\ \A u \in Threads \ {t} : pc'[u] = pc[u]
  BY <1>1 DEF Storage, StoreTypes
<1>7. Owners'
  <2>1. Holds(Queued, qhead) /\ ~Holds(Free, qhead)
    <3>1. Holds(Queued, qhead)  BY <1>2, <1>3, TailFacts
    <3> QED  BY <1>2, <1>3, <3>1 DEF ChainsOf
  <2>2. \A u : Listed(u)' <=> Listed(u) /\ u # qhead  BY <1>3, <1>4, <2>1 DEF Listed
  <2>3. slot[t] = Null  BY DEF Storage, Owners
  <2>4. Copying(t)'  BY <1>6 DEF Copying
  <2>5. Listed(qhead)  BY <2>1 DEF Listed
  <2> QED  BY <1>1, <1>3, <1>5, <1>6, <2>2, <2>3, <2>4, <2>5, SlotTaken
<1>8. Posts'  BY <1>1, <1>6 DEF Storage, Posts, Fills, Sending
<1>9. Contents # <<>> /\ Contents' = Tail(Contents)
  BY <1>1, <1>2, <1>3, <1>4, ContentsNext, ContentsDropFirst
<1> QED  BY <1>1, <1>2, <1>4, <1>5, <1>7, <1>8, <1>9 DEF Storage

\* A slot that is on neither list is linked into the queue with m in it.
LEMMA Linking ==
    ASSUME Storage, NEW f, ChainsOf(Queued, f, next, qhead, qtail, qfree', entry),
           NEW s \in Slots, ~Holds(Queued, s), ~Holds(f, s), NEW m \in Messages,
           LinkLast(s) \/ LinkFirst(s),
           content' = [content EXCEPT ![s] = m]
    PROVE  /\ Chains' /\ Free' = f /\ entry' = entry + 1
           /\ \A u : Holds(Queued', u) <=> Holds(Queued, u) \/ u = s
           /\ next' \in [Slots -> Nodes] /\ {qhead', qtail'} \subseteq Nodes
           /\ content' \in [Slots -> Words]
           /\ Chain!Put(m) \/ Chain!PutFirst(m)
<1>1. /\ Queued \in Seq(Slots) /\ Distinct(Queued) /\ next \in [Slots -> Nodes]
      /\ Contents = ContentsOf(content, Queued) /\ content \in [Slots -> Words]
      /\ {qhead, qtail} \subseteq Nodes
  BY StoreFacts DEF Storage, StoreTypes
<1>2. s \in Nodes /\ m \in Words /\ Null \in Nodes  BY DEF Nodes, Words
<1>3. content' \in [Slots -> Words] /\ content'[s] = m  BY <1>1, <1>2
<1>4. ContentsOf(content', Queued) = ContentsOf(content, Queued)
  <2>1. \A x \in Slots : Holds(Queued, x) => content'[x] = content[x]  BY <1>1
  <2> QED  BY <1>1, <2>1, ContentsSame
<1>5. Len(Contents) < Count
  <2>1. Distinct(<<s>> \o Queued) /\ <<s>> \o Queued \in Seq(Slots)
        /\ Len(<<s>> \o Queued) = Len(Queued) + 1
    BY <1>1, PrependFacts
  <2>2. Len(<<s>> \o Queued) <= Cardinality(Slots)
    <3>1. PICK r \in Seq(Slots) : r = <<s>> \o Queued  BY <2>1
    <3> QED  BY <2>1, <3>1, DistinctLen
  <2>3. Len(Contents) = Len(Queued) /\ Len(Queued) \in Nat  BY <1>1, ContentsFacts, LenProperties
  <2>4. Count \in Nat  BY FS_CardinalityType DEF Count
  <2> QED  BY <2>1, <2>2, <2>3, <2>4 DEF Count
<1>6. CASE LinkLast(s)
  <2> DEFINE ny == PutAfter(next, s, qtail)
  <2>1. /\ next' = ny /\ qtail' = s /\ qhead' = (IF qhead = Null THEN s ELSE qhead)
        /\ entry' = entry + 1
    BY <1>6 DEF LinkLast, PutAfter
  <2>2. ny \in [Slots -> Nodes]  BY <1>1, <1>2 DEF PutAfter
  <2>3. /\ ChainsOf(Append(Queued, s), f, ny, IF qhead = Null THEN s ELSE qhead, s, qfree', entry + 1)
        /\ \A u : Holds(Append(Queued, s), u) <=> Holds(Queued, u) \/ u = s
    <3>1. next \in [Slots -> Nodes]  BY <1>1
    <3> QED  BY <3>1, ChainsPutLast
  <2> HIDE DEF ny
  <2>4. Chains' /\ Queued' = Append(Queued, s) /\ Free' = f  BY <2>1, <2>3, ChainsNext
  <2>5. Contents' = Append(Contents, m)
    <3>1. ContentsOf(content', Append(Queued, s)) = Append(ContentsOf(content', Queued), content'[s])
      BY <1>1, <1>3, ContentsPutLast
    <3> QED  BY <1>1, <1>3, <1>4, <2>4, <3>1, ContentsNext
  <2>6. Chain!Put(m)  BY <1>5, <2>5 DEF Chain!Put, Count
  <2> QED  BY <1>1, <1>2, <1>3, <2>1, <2>2, <2>3, <2>4, <2>6
<1>7. CASE LinkFirst(s)
  <2> DEFINE ny == [next EXCEPT ![s] = qhead]
  <2>1. /\ next' = ny /\ qhead' = s
        /\ qtail' = (IF qtail = Null THEN s ELSE qtail)
        /\ entry' = entry + 1
    BY <1>7 DEF LinkFirst
  <2>2. ny \in [Slots -> Nodes] /\ ny = [next EXCEPT ![s] = qhead]  BY <1>1
  <2> HIDE DEF ny
  <2>3. /\ ChainsOf(<<s>> \o Queued, f, ny, s, IF qtail = Null THEN s ELSE qtail, qfree', entry + 1)
        /\ \A u : Holds(<<s>> \o Queued, u) <=> Holds(Queued, u) \/ u = s
    <3>1. next \in [Slots -> Nodes]  BY <1>1
    <3>2. PutsFirst(Queued, f, next, s, qhead, qtail, qfree', entry)  BY <3>1, ChainsPutFirst
    <3> QED  BY <2>2, <3>2 DEF PutsFirst
  <2>4. Chains' /\ Queued' = <<s>> \o Queued /\ Free' = f  BY <2>1, <2>3, ChainsNext
  <2>5. Contents' = <<m>> \o Contents
    <3>1. ContentsOf(content', <<s>> \o Queued) = <<content'[s]>> \o ContentsOf(content', Queued)
      BY <1>1, <1>3, ContentsPutFirst
    <3> QED  BY <1>1, <1>3, <1>4, <2>4, <3>1, ContentsNext
  <2>6. Chain!PutFirst(m)  BY <1>5, <2>5 DEF Chain!PutFirst, Count
  <2> QED  BY <1>1, <1>2, <1>3, <2>1, <2>2, <2>3, <2>4, <2>6
<1> QED  BY <1>6, <1>7

\* The last section of a send:
LEMMA LinkStep ==
    ASSUME Storage, NEW t \in Threads, Link(t)
    PROVE  /\ Storage' /\ Chain!QueueNext
           /\ entry \in Nat /\ entry' = entry + 1 /\ Len(Free)' = Len(Free)
           /\ pc' = [pc EXCEPT ![t] = "idle"] /\ Copying(t) /\ WakeOne("recv")
<1>1. /\ pc[t] \in {"copying", "copyingfirst"}
      /\ LinkLast(slot[t]) \/ LinkFirst(slot[t])
      /\ content' = [content EXCEPT ![slot[t]] = message[t]]
      /\ pc' = [pc EXCEPT ![t] = "idle"]
      /\ slot' = [slot EXCEPT ![t] = Null]
      /\ message' = [message EXCEPT ![t] = NoMessage]
      /\ UNCHANGED <<qfree, alive>>
  BY DEF Link
<1>2. /\ ChainsOf(Queued, Free, next, qhead, qtail, qfree', entry) /\ entry \in 0..Count
      /\ Owners /\ StoreTypes /\ Posts
  BY <1>1, StoreFacts DEF Storage
<1>3. Copying(t)  BY <1>1 DEF Copying
<1>4. slot[t] # Null /\ ~Listed(slot[t])  BY <1>2, <1>3 DEF Owners
<1>5. PICK s \in Slots : s = slot[t]  BY <1>2, <1>4 DEF StoreTypes, Nodes
<1>6. PICK m \in Messages : m = message[t]  BY <1>1, <1>2 DEF Posts, Fills
<1>7. ~Holds(Queued, s) /\ ~Holds(Free, s)  BY <1>4, <1>5 DEF Listed
<1>8. /\ LinkLast(s) \/ LinkFirst(s)
      /\ content' = [content EXCEPT ![s] = m]
  BY <1>1, <1>5, <1>6
<1>9. /\ Chains' /\ Free' = Free /\ entry' = entry + 1
      /\ \A u : Holds(Queued', u) <=> Holds(Queued, u) \/ u = s
      /\ next' \in [Slots -> Nodes] /\ {qhead', qtail'} \subseteq Nodes
      /\ content' \in [Slots -> Words]
      /\ Chain!Put(m) \/ Chain!PutFirst(m)
  BY <1>2, <1>7, <1>8, Linking
<1>10. StoreTypes'
  <2>1. Null \in Nodes /\ NoMessage \in Words  BY DEF Nodes, Words
  <2> QED  BY <1>1, <1>2, <1>9, <2>1 DEF StoreTypes, Places
<1>11. pc'[t] = "idle" /\ \A u \in Threads \ {t} : pc'[u] = pc[u] /\ message'[u] = message[u]
  BY <1>1, <1>2 DEF StoreTypes
<1>12. Owners'
  <2>1. \A u : Listed(u)' <=> Listed(u) \/ u = slot[t]  BY <1>5, <1>9 DEF Listed
  <2>2. ~Copying(t)'  BY <1>11 DEF Copying
  <2> QED  BY <1>1, <1>4, <1>10, <1>11, <2>1, <2>2, SlotGiven
<1>13. Posts'  BY <1>2, <1>11 DEF Posts, Fills, Sending
<1>14. Chain!QueueNext  BY <1>9 DEF Chain!QueueNext
<1>15. WakeOne("recv")  BY <1>1 DEF LinkLast, LinkFirst
<1> QED  BY <1>1, <1>2, <1>3, <1>9, <1>10, <1>12, <1>13, <1>14, <1>15 DEF Storage

\* The whole send of an interrupt handler:
LEMMA SendFromIrqStep ==
    ASSUME Storage, NEW m \in Messages, SendFromIrq(m)
    PROVE  /\ Storage' /\ Chain!QueueNext
           /\ entry \in Nat /\ entry' = entry + 1
           /\ Len(Free) \in Nat /\ Len(Free)' = Len(Free) - 1
           /\ pc' = pc /\ WakeOne("recv")
<1>1. /\ qfree # Null /\ qfree' = next[qfree]
      /\ content' = [content EXCEPT ![qfree] = m]
      /\ LinkLast(qfree) \/ LinkFirst(qfree)
      /\ UNCHANGED <<alive, pc, slot, message>>
  BY DEF SendFromIrq
<1>2. /\ ChainsOf(Queued, Free, next, qhead, qtail, qfree, entry) /\ entry \in 0..Count
      /\ Owners /\ StoreTypes /\ Posts /\ Len(Free) \in Nat
      /\ Free \in Seq(Slots) /\ Distinct(Free)
  BY StoreFacts DEF Storage
<1>3. /\ ChainsOf(Queued, Tail(Free), next, qhead, qtail, qfree', entry)
      /\ qfree \in Slots /\ Len(Tail(Free)) = Len(Free) - 1 /\ ~Holds(Queued, qfree)
      /\ Free # <<>> /\ qfree = Head(Free)
      /\ \A u : Holds(Tail(Free), u) <=> Holds(Free, u) /\ u # qfree
  BY <1>1, <1>2, ChainsTakeFree
<1>4. ~Holds(Tail(Free), qfree)  BY <1>3
<1>5. /\ Chains' /\ Free' = Tail(Free) /\ entry' = entry + 1
      /\ \A u : Holds(Queued', u) <=> Holds(Queued, u) \/ u = qfree
      /\ next' \in [Slots -> Nodes] /\ {qhead', qtail'} \subseteq Nodes
      /\ content' \in [Slots -> Words]
      /\ Chain!Put(m) \/ Chain!PutFirst(m)
  BY <1>1, <1>3, <1>4, Linking
<1>6. StoreTypes'
  <2>1. qfree' \in Nodes  BY <1>1, <1>2, <1>3 DEF StoreTypes
  <2> QED  BY <1>1, <1>2, <1>5, <2>1 DEF StoreTypes
<1>7. Owners'
  <2>1. Holds(Free, qfree)  BY <1>2, <1>3, TailFacts
  <2>2. \A u : Listed(u)' <=> Listed(u)  BY <1>3, <1>5, <2>1 DEF Listed
  <2> QED  BY <1>1, <1>2, <2>2, SlotsSame
<1>8. Posts'  BY <1>1, <1>2 DEF Posts, Fills, Sending
<1>9. Chain!QueueNext  BY <1>5 DEF Chain!QueueNext
<1>10. WakeOne("recv")  BY <1>1 DEF LinkLast, LinkFirst
<1> QED  BY <1>1, <1>2, <1>3, <1>5, <1>6, <1>7, <1>8, <1>9, <1>10 DEF Storage

\* The last section of a receive:
LEMMA FreeSlotStep ==
    ASSUME Storage, NEW t \in Threads, FreeSlot(t)
    PROVE  /\ Storage' /\ UNCHANGED Contents
           /\ entry' = entry /\ Len(Free) \in Nat /\ Len(Free)' = Len(Free) + 1
           /\ pc' = [pc EXCEPT ![t] = "idle"] /\ Copying(t) /\ WakeOne("send")
<1>1. /\ pc[t] = "reading"
      /\ next' = [next EXCEPT ![slot[t]] = qfree] /\ qfree' = slot[t] /\ WakeOne("send")
      /\ slot' = [slot EXCEPT ![t] = Null]
      /\ pc' = [pc EXCEPT ![t] = "idle"]
      /\ UNCHANGED <<content, qhead, qtail, entry, alive, message>>
  BY DEF FreeSlot, LinkFree
<1>2. /\ ChainsOf(Queued, Free, next, qhead, qtail, qfree, entry)
      /\ Owners /\ StoreTypes /\ Posts /\ next \in [Slots -> Nodes]
      /\ Contents = ContentsOf(content, Queued) /\ Len(Free) \in Nat
  BY StoreFacts DEF Storage
<1>3. Copying(t)  BY <1>1 DEF Copying
<1>4. slot[t] # Null /\ ~Listed(slot[t])  BY <1>2, <1>3 DEF Owners
<1>5. PICK s \in Slots : s = slot[t]  BY <1>2, <1>4 DEF StoreTypes, Nodes
<1>6. ~Holds(Queued, s) /\ ~Holds(Free, s)  BY <1>4, <1>5 DEF Listed
<1>7. /\ ChainsOf(Queued, <<s>> \o Free, next', qhead, qtail, s, entry)
      /\ Len(<<s>> \o Free) = Len(Free) + 1
      /\ \A u : Holds(<<s>> \o Free, u) <=> Holds(Free, u) \/ u = s
  <2>1. next' = [next EXCEPT ![s] = qfree]  BY <1>1, <1>5
  <2>2. GivesFree(Queued, Free, next, qhead, qtail, qfree, entry, s, next')
    BY <1>2, <1>6, <2>1 DEF GivesFree
  <2> QED  BY <2>2, ChainsGiveFree
<1>8. ChainsOf(Queued, <<s>> \o Free, next', qhead', qtail', qfree', entry')
  BY <1>1, <1>5, <1>7
<1>9. Chains' /\ Queued' = Queued /\ Free' = <<s>> \o Free  BY <1>8, ChainsNext
<1>10. StoreTypes'
  <2>1. Null \in Nodes /\ s \in Nodes  BY DEF Nodes
  <2>2. qfree \in Nodes  BY <1>2 DEF StoreTypes
  <2>3. next' \in [Slots -> Nodes]  BY <1>1, <1>2, <1>5, <2>2
  <2> QED  BY <1>1, <1>2, <1>5, <2>1, <2>3 DEF StoreTypes, Places
<1>11. pc'[t] = "idle" /\ \A u \in Threads \ {t} : pc'[u] = pc[u]
  BY <1>1, <1>2 DEF StoreTypes
<1>12. Owners'
  <2>1. \A u : Listed(u)' <=> Listed(u) \/ u = slot[t]  BY <1>5, <1>7, <1>9 DEF Listed
  <2>2. ~Copying(t)'  BY <1>11 DEF Copying
  <2> QED  BY <1>1, <1>4, <1>10, <1>11, <2>1, <2>2, SlotGiven
<1>13. Posts'  BY <1>1, <1>2, <1>11 DEF Posts, Fills, Sending
<1>14. Contents' = Contents  BY <1>1, <1>2, <1>9, ContentsNext
<1> QED  BY <1>1, <1>2, <1>3, <1>7, <1>9, <1>10, <1>12, <1>13, <1>14 DEF Storage

\* The whole receive of an interrupt handler:
LEMMA RecvFromIrqStep ==
    ASSUME Storage, RecvFromIrq
    PROVE  /\ Storage' /\ Contents # <<>> /\ Contents' = Tail(Contents)
           /\ entry \in Nat /\ entry' = entry - 1
           /\ Len(Free) \in Nat /\ Len(Free)' = Len(Free) + 1
           /\ pc' = pc /\ WakeOne("send")
<1>1. /\ entry > 0 /\ qhead' = next[qhead]
      /\ qtail' = (IF qtail = qhead THEN Null ELSE qtail)
      /\ entry' = entry - 1
      /\ next' = [next EXCEPT ![qhead] = qfree] /\ qfree' = qhead /\ WakeOne("send")
      /\ UNCHANGED <<content, alive, pc, slot, message>>
  BY DEF RecvFromIrq, DropFirst, LinkFree
<1>2. /\ ChainsOf(Queued, Free, next, qhead, qtail, qfree, entry)
      /\ Queued \in Seq(Slots) /\ Distinct(Queued) /\ entry \in Nat /\ qhead # Null
      /\ Contents = ContentsOf(content, Queued) /\ content \in [Slots -> Words]
      /\ next \in [Slots -> Nodes] /\ Len(Free) \in Nat
      /\ Owners /\ StoreTypes /\ Posts
  BY <1>1, StoreFacts DEF Storage
<1>3. /\ ChainsOf(Tail(Queued), Free, next, next[qhead],
                  IF qtail = qhead THEN Null ELSE qtail, qfree, entry - 1)
      /\ Queued # <<>> /\ qhead = Head(Queued) /\ qhead \in Slots
      /\ \A u : Holds(Tail(Queued), u) <=> Holds(Queued, u) /\ u # qhead
  BY <1>2, ChainsDropFirst
<1>4. Holds(Queued, qhead) /\ ~Holds(Free, qhead) /\ ~Holds(Tail(Queued), qhead)
  <2>1. Holds(Queued, qhead)  BY <1>2, <1>3, TailFacts
  <2> QED  BY <1>2, <1>3, <2>1 DEF ChainsOf
<1>5. /\ ChainsOf(Tail(Queued), <<qhead>> \o Free, next', next[qhead],
                  IF qtail = qhead THEN Null ELSE qtail, qhead, entry - 1)
      /\ Len(<<qhead>> \o Free) = Len(Free) + 1
      /\ \A u : Holds(<<qhead>> \o Free, u) <=> Holds(Free, u) \/ u = qhead
  <2>1. GivesFree(Tail(Queued), Free, next, next[qhead],
                  IF qtail = qhead THEN Null ELSE qtail, qfree, entry - 1, qhead, next')
    BY <1>1, <1>2, <1>3, <1>4 DEF GivesFree
  <2> QED  BY <2>1, ChainsGiveFree
<1>6. ChainsOf(Tail(Queued), <<qhead>> \o Free, next', qhead', qtail', qfree', entry')
  BY <1>1, <1>5
<1>7. Chains' /\ Queued' = Tail(Queued) /\ Free' = <<qhead>> \o Free  BY <1>6, ChainsNext
<1>8. StoreTypes'
  <2>1. next[qhead] \in Nodes /\ qhead \in Nodes /\ Null \in Nodes /\ qfree \in Nodes
    BY <1>2, <1>3 DEF StoreTypes, Nodes
  <2>2. next' \in [Slots -> Nodes]  BY <1>1, <1>2, <2>1
  <2> QED  BY <1>1, <1>2, <2>1, <2>2 DEF StoreTypes
<1>9. Owners'
  <2>1. \A u : Listed(u)' <=> Listed(u)  BY <1>3, <1>4, <1>5, <1>7 DEF Listed
  <2> QED  BY <1>1, <1>2, <2>1, SlotsSame
<1>10. Posts'  BY <1>1, <1>2 DEF Posts, Fills, Sending
<1>11. Contents # <<>> /\ Contents' = Tail(Contents)
  BY <1>1, <1>2, <1>3, <1>7, ContentsNext, ContentsDropFirst
<1> QED  BY <1>1, <1>2, <1>5, <1>7, <1>8, <1>9, <1>10, <1>11 DEF Storage

\* A reset gives every slot of the queue to the free list.
LEMMA ResetStep ==
    ASSUME Storage, Reset
    PROVE  Storage' /\ Contents' = <<>>
<1>1. /\ next' = TurnedRound(Queued, qfree, next)
      /\ qfree' = (IF Queued = <<>> THEN qfree ELSE Last(Queued))
      /\ qhead' = Null
      /\ qtail' = (IF Holds(Queued, qtail) THEN Null ELSE qtail)
      /\ entry' = 0
      /\ UNCHANGED <<content, alive, pc, slot, message>>
  BY DEF Reset, TurnedRound
<1>2. /\ ChainsOf(Queued, Free, next, qhead, qtail, qfree, entry)
      /\ Queued \in Seq(Slots) /\ Owners /\ StoreTypes /\ Posts
  BY StoreFacts DEF Storage
<1>3. /\ ChainsOf(<<>>, Returned(Queued, Free), TurnedRound(Queued, qfree, next), Null,
                  IF Holds(Queued, qtail) THEN Null ELSE qtail,
                  IF Queued = <<>> THEN qfree ELSE Last(Queued), 0)
      /\ \A u : Holds(Returned(Queued, Free), u) <=> Holds(Queued, u) \/ Holds(Free, u)
  BY <1>2, ChainsReturn
<1>4. Chains' /\ Queued' = <<>> /\ Free' = Returned(Queued, Free)
  BY <1>1, <1>3, ChainsNext
<1>5. \A u : Listed(u)' <=> Listed(u)
  <2>1. \A u : ~Holds(<<>>, u)  BY DEF Holds
  <2> QED  BY <1>3, <1>4, <2>1 DEF Listed
<1>6. StoreTypes'
  <2>1. \A s \in Slots : next'[s] \in Nodes
    <3> SUFFICES ASSUME NEW s \in Slots PROVE next'[s] \in Nodes  OBVIOUS
    <3>1. CASE ~Holds(Queued, s)  BY <1>1, <1>2, <3>1 DEF TurnedRound, StoreTypes
    <3>2. CASE Holds(Queued, s)
      <4>1. PICK i : i = CHOOSE k \in DOMAIN Queued : Queued[k] = s  OBVIOUS
      <4>2. i \in 1..Len(Queued) /\ Len(Queued) \in Nat  BY <1>2, <3>2, <4>1, LenProperties DEF Holds
      <4>3. next'[s] = IF i = 1 THEN qfree ELSE Queued[i - 1]  BY <1>1, <3>2, <4>1 DEF TurnedRound
      <4>4. i # 1 => i - 1 \in 1..Len(Queued)  BY <4>2
      <4>5. i # 1 => Queued[i - 1] \in Slots  BY <1>2, <4>4, ElementOfSeq
      <4> QED  BY <1>2, <4>3, <4>5 DEF StoreTypes, Nodes
    <3> QED  BY <3>1, <3>2
  <2>2. next' = [s \in Slots |-> next'[s]]  BY <1>1 DEF TurnedRound
  <2>3. next' \in [Slots -> Nodes]  BY <2>1, <2>2
  <2>4. {qhead', qtail', qfree'} \subseteq Nodes
    <3>1. Queued # <<>> => Last(Queued) \in Nodes
      BY <1>2, TailEnds, StoreFacts DEF Nodes
    <3> QED  BY <1>1, <1>2, <3>1 DEF StoreTypes, Nodes
  <2> QED  BY <1>1, <1>2, <2>3, <2>4 DEF StoreTypes
<1>7. Owners'  BY <1>1, <1>2, <1>5, SlotsSame
<1>8. Posts'  BY <1>1, <1>2 DEF Posts, Fills, Sending
<1>9. Contents' = <<>>  BY <1>4 DEF Contents
<1> QED  BY <1>4, <1>6, <1>7, <1>8, <1>9 DEF Storage

\* Steps that leave the slots where they are.
LEMMA StoreSame ==
    ASSUME Storage, UNCHANGED <<content, listVars, slot>>,
           alive' \in BOOLEAN, pc' \in [Threads -> Places], message' \in [Threads -> Words], Posts',
           \A u \in Threads : \/ pc'[u] = pc[u]
                              \/ ~Keeps(u) /\ ~Copying(u)'
                              \/ pc'[u] = "dead"
    PROVE  Storage' /\ UNCHANGED <<Contents, entry, Free>>
<1>1. UNCHANGED <<content, next, qhead, qtail, qfree, entry, slot>>  BY DEF listVars
<1>2. ChainsOf(Queued, Free, next', qhead', qtail', qfree', entry') /\ Owners /\ StoreTypes
  BY <1>1, StoreFacts DEF Storage
<1>3. Chains' /\ Queued' = Queued /\ Free' = Free  BY <1>2, ChainsNext
<1>4. Owners'
  <2>1. \A u : Listed(u)' <=> Listed(u)  BY <1>3 DEF Listed
  <2> QED  BY <1>1, <1>2, <2>1, SlotsSame
<1>5. StoreTypes'  BY <1>1, <1>2 DEF StoreTypes
<1>6. Contents' = Contents  BY <1>1, <1>3, ContentsNext, StoreFacts
<1> QED  BY <1>1, <1>3, <1>4, <1>5, <1>6 DEF Storage

-----------------------------------------------------------------------------
\* rt_mq_init links every slot into the free list.
LEMMA FreeOrderFacts ==
    /\ FreeOrder \in Seq(Slots) /\ Distinct(FreeOrder) /\ FreeOrder # <<>>
    /\ \A s \in Slots : Holds(FreeOrder, s)
<1>1. Count \in Nat /\ Count # 0 /\ ExistsBijection(1..Count, Slots)
  BY FS_CardinalityType, FS_EmptySet DEF Count
<1>2. \E f \in [1..Count -> Slots] : IsInjective(f)
  BY <1>1 DEF ExistsBijection, Bijection, Injection
<1>3. FreeOrder \in [1..Count -> Slots] /\ IsInjective(FreeOrder)
  BY <1>2 DEF FreeOrder, SetToSeq, Count
<1> DEFINE q == FreeOrder
<1> HIDE DEF q
<1>4. q \in [1..Count -> Slots] /\ IsInjective(q)  BY <1>3 DEF q
<1>5. q \in Seq(Slots) /\ DOMAIN q = 1..Count  BY <1>1, <1>4, SeqDef
<1>6. Distinct(q)  BY <1>4, <1>5 DEF Distinct, IsInjective
<1>7. q # <<>>
  <2>1. 1 \in DOMAIN q  BY <1>1, <1>5
  <2> QED  BY <2>1
<1>8. ASSUME NEW s \in Slots, ~Holds(q, s) PROVE FALSE
  <2> DEFINE T == Slots \ {s}
  <2>1. q \in [1..Count -> T]  BY <1>4, <1>5, <1>8 DEF Holds
  <2>2. IsFiniteSet(T) /\ Cardinality(T) = Count - 1  BY FS_RemoveElement DEF Count
  <2>3. IsFiniteSet(1..Count) /\ Cardinality(1..Count) = Count  BY <1>1, FS_Interval
  <2>4. Cardinality(T) < Cardinality(1..Count)  BY <1>1, <2>2, <2>3
  <2> HIDE DEF T
  <2>5. \E x, y \in 1..Count : x # y /\ q[x] = q[y]  BY <2>1, <2>2, <2>3, <2>4, FS_PigeonHole
  <2> QED  BY <1>4, <1>5, <2>5 DEF IsInjective
<1> QED  BY <1>5, <1>6, <1>7, <1>8 DEF q

LEMMA StoreInit == Init => Storage /\ Contents = <<>> /\ Free = FreeOrder
<1> SUFFICES ASSUME Init PROVE Storage /\ Contents = <<>> /\ Free = FreeOrder  OBVIOUS
<1>1. PICK f : f = FreeOrder  OBVIOUS
<1>2. /\ f \in Seq(Slots) /\ Distinct(f) /\ f # <<>> /\ \A s \in Slots : Holds(f, s)
      /\ DOMAIN f = 1..Len(f) /\ Len(f) \in Nat \ {0} /\ \A i \in 1..Len(f) : f[i] \in Slots
  BY <1>1, FreeOrderFacts, LenProperties, EmptySeq
<1>3. /\ next = [s \in Slots |->
                    LET i == CHOOSE i \in DOMAIN f : f[i] = s
                    IN  IF i = Len(f) THEN Null ELSE f[i + 1]]
      /\ qhead = Null /\ qtail = Null /\ qfree = f[1] /\ entry = 0
      /\ content = [s \in Slots |-> NoMessage]
      /\ alive = TRUE /\ pc = [t \in Threads |-> "idle"]
      /\ slot = [t \in Threads |-> Null]
      /\ message = [t \in Threads |-> NoMessage]
  BY <1>1 DEF Init
<1>4. \A i \in 1..Len(f) : next[f[i]] = IF i = Len(f) THEN Null ELSE f[i + 1]
  <2> SUFFICES ASSUME NEW i \in 1..Len(f)
               PROVE  next[f[i]] = IF i = Len(f) THEN Null ELSE f[i + 1]
    OBVIOUS
  <2>1. PICK j : j = CHOOSE k \in DOMAIN f : f[k] = f[i]  OBVIOUS
  <2>2. j = i  BY <1>2, <2>1 DEF Distinct
  <2>3. next[f[i]] = IF j = Len(f) THEN Null ELSE f[j + 1]  BY <1>2, <1>3, <2>1
  <2> QED  BY <2>2, <2>3
<1>5. Linked(f, qfree, next)
  <2> DEFINE n == Len(f)
  <2>1. n \in Nat /\ n # 0  BY <1>2
  <2>2. DOMAIN f = 1..n /\ \A i \in 1..n : next[f[i]] = IF i = n THEN Null ELSE f[i + 1]
    BY <1>2, <1>4
  <2> HIDE DEF n
  <2>3. ASSUME NEW i \in 1..n PROVE next[f[i]] = NodeAt(f, i + 1)
    <3>1. i + 1 \in 1..n <=> i # n  BY <2>1
    <3> QED  BY <2>2, <3>1 DEF NodeAt
  <2>4. qfree = NodeAt(f, 1)  BY <1>3, <2>1, <2>2 DEF NodeAt
  <2> QED  BY <1>2, <2>2, <2>3, <2>4 DEF Linked
<1>6. /\ <<>> \in Seq(Slots) /\ DOMAIN <<>> = {} /\ Len(<<>>) = 0 /\ \A u : ~Holds(<<>>, u)
  BY DEF Holds
<1>7. Linked(<<>>, qhead, next)  BY <1>3, <1>6 DEF Linked, Distinct, NodeAt
<1>8. Queued = <<>> /\ Free = f  BY <1>5, <1>7, ListsAre
<1>9. Chains  BY <1>3, <1>5, <1>6, <1>7, <1>8 DEF Chains, ChainsOf
<1>10. StoreTypes
  <2>1. \A s \in Slots : next[s] \in Nodes
    <3> SUFFICES ASSUME NEW s \in Slots PROVE next[s] \in Nodes  OBVIOUS
    <3>1. PICK i \in 1..Len(f) : f[i] = s  BY <1>2 DEF Holds
    <3>2. next[s] = NodeAt(f, i + 1)  BY <1>2, <1>5, <3>1 DEF Linked
    <3> QED  BY <1>2, <3>2 DEF Nodes, NodeAt
  <2>2. next \in [Slots -> Nodes]  BY <1>3, <2>1
  <2>3. Null \in Nodes /\ NoMessage \in Words /\ qfree \in Nodes
    BY <1>2, <1>3 DEF Nodes, Words
  <2> QED  BY <1>3, <2>2, <2>3 DEF StoreTypes, Places
<1>11. Owners
  <2>1. \A s \in Slots : Listed(s)  BY <1>2, <1>8 DEF Listed
  <2>2. \A u : Listed(u) => u \in Slots  BY <1>2, <1>6, <1>8, HeldIsElement DEF Listed
  <2> QED  BY <1>3, <2>1, <2>2 DEF Owners, Copying
<1>12. Posts  BY <1>3 DEF Posts, Fills, Sending
<1>13. Contents = <<>>  BY <1>8 DEF Contents
<1> QED  BY <1>1, <1>8, <1>9, <1>10, <1>11, <1>12, <1>13 DEF Storage

-----------------------------------------------------------------------------
WaitTypes ==
    /\ susp \in [Lists -> Seq(Threads)]
    /\ armed \subseteq Threads /\ ttmr \subseteq Threads
    /\ error \in [Threads -> Errors]
    /\ expiring \in Threads \cup {NoThread}
    /\ lost \in BOOLEAN

Sleepers ==
    /\ OnOneList(susp)
    /\ \A l \in Lists : \A t \in Threads : Holds(susp[l], t) => Side(t) = l

Timers ==
    /\ \A t \in armed : t \in ttmr /\ Suspended(t)
    /\ expiring \notin armed
    /\ ~lost /\ ~ThreadContext => Suspended(expiring) /\ expiring \in ttmr

Attended == \A l \in Lists : susp[l] # <<>> => Left(l) <= Cardinality(Coming(l))

Waits == WaitTypes /\ Sleepers /\ Timers
IInv == Storage /\ Waits /\ (~lost => Attended)

LEMMA TypesFacts == Storage /\ WaitTypes => TypeOK
<1> SUFFICES ASSUME Storage, WaitTypes PROVE TypeOK  OBVIOUS
<1>1. entry \in 0..Cardinality(Slots)  BY StoreFacts DEF Count
<1> QED  BY <1>1 DEF Storage, StoreTypes, WaitTypes, TypeOK, Nodes, Words, Lists

LEMMA SuspFacts ==
    ASSUME Waits
    PROVE  /\ susp \in [Lists -> Seq(Threads)] /\ OnOneList(susp)
           /\ ListsOf(Threads, Lists, susp)
           /\ \A t : Suspended(t) <=> \E l \in Lists : Holds(susp[l], t)
           /\ \A l \in Lists : susp[l] \in Seq(Threads)
           /\ \A l \in Lists : \A t : Holds(susp[l], t) => t \in Threads
<1>1. susp \in [Lists -> Seq(Threads)] /\ OnOneList(susp)  BY DEF Waits, WaitTypes, Sleepers
<1>2. \A t : Suspended(t) <=> \E l \in Lists : Holds(susp[l], t)  BY <1>1 DEF Suspended
<1> QED  BY <1>1, <1>2, HeldIsElement DEF ListsOf

LEMMA SuspFactsNext ==
    ASSUME susp' \in [Lists -> Seq(Threads)]
    PROVE  \A t : Suspended(t)' <=> \E l \in Lists : Holds(susp'[l], t)
  BY DEF Suspended

\* A list that loses threads only is not empty unless it was not before.
LEMMA ShrunkList ==
    ASSUME NEW f \in [Lists -> Seq(Threads)], NEW g \in [Lists -> Seq(Threads)], NEW l \in Lists,
           \A u \in Threads : Holds(g[l], u) => Holds(f[l], u), g[l] # <<>>
    PROVE  f[l] # <<>>
<1>1. f[l] \in Seq(Threads) /\ g[l] \in Seq(Threads)  OBVIOUS
<1> QED  BY <1>1, EmptyHoldsNobody

LEMMA ComingFacts ==
    ASSUME NEW l
    PROVE  /\ IsFiniteSet(Coming(l)) /\ Cardinality(Coming(l)) \in Nat
           /\ Coming(l) \in SUBSET Threads
<1>1. Coming(l) \in SUBSET Threads  BY DEF Coming
<1> QED  BY <1>1, FS_Subset, FS_CardinalityType

LEMMA ComingFactsNext ==
    ASSUME NEW l
    PROVE  /\ IsFiniteSet(Coming(l)') /\ Cardinality(Coming(l)') \in Nat
           /\ Coming(l)' \in SUBSET Threads
<1>1. Coming(l)' \in SUBSET Threads  BY DEF Coming
<1> QED  BY <1>1, FS_Subset, FS_CardinalityType

\* The two sides of Attended are the two parts of NobodyForgotten.
LEMMA AttendedFacts == (~lost => Attended) <=> NobodyForgotten
<1>1. Coming("recv") = WokenReceivers /\ Coming("send") = WokenSenders
  BY DEF Coming, WokenReceivers, WokenSenders, Side, Receiving, Sending
<1>2. Left("recv") = entry /\ Left("send") = Len(Free)  BY DEF Left
<1>3. Attended <=> NoSleeperBesideMessage /\ NoSleeperBesideSlot
  BY <1>1, <1>2 DEF Attended, NoSleeperBesideMessage, NoSleeperBesideSlot, Lists
<1> QED  BY <1>3 DEF NobodyForgotten

LEMMA LeftFacts ==
    ASSUME Storage
    PROVE  Left("recv") = entry /\ Left("send") = Len(Free) /\ \A l \in Lists : Left(l) \in Nat
  BY StoreFacts DEF Left, Lists

LEMMA LeftFactsNext ==
    /\ Left("recv")' = entry' /\ Left("send")' = Len(Free)'
    /\ Storage' => \A l \in Lists : Left(l)' \in Nat
<1>1. Left("recv")' = entry' /\ Left("send")' = Len(Free)'  BY DEF Left
<1>2. \A l \in Lists : l = "recv" \/ l = "send"  BY DEF Lists
<1>3. Storage' => Left("recv")' \in Nat /\ Left("send")' \in Nat
  <2>1. Count \in Nat  BY FS_CardinalityType DEF Count
  <2> QED  BY <1>1, <2>1, StoreFactsNext
<1> QED  BY <1>1, <1>2, <1>3

-----------------------------------------------------------------------------
\* A step after which nobody sleeps who did not before, and either nobody who was
\* woken is gone, or one who took what he came for, or there is nothing to come
\* for, or nobody sleeps.
LEMMA QuietStep ==
    ASSUME IInv, Storage', WaitTypes', Timers', OnOneList(susp'),
           \A l \in Lists : \A u \in Threads :
              Holds(susp'[l], u) => Holds(susp[l], u) /\ pc'[u] = pc[u],
           ~lost' => ~lost,
           \A l \in Lists : ~lost' =>
              \/ susp'[l] = <<>>
              \/ Left(l)' = 0
              \/ Left(l)' <= Left(l) /\ \A u \in Threads : u \in Coming(l) => u \in Coming(l)'
              \/ /\ Left(l)' = Left(l) - 1
                 /\ \E t \in Threads : \A u \in Threads \ {t} : u \in Coming(l) => u \in Coming(l)'
    PROVE  IInv'
<1>0. Waits /\ Storage  BY DEF IInv
<1>1. susp \in [Lists -> Seq(Threads)] /\ susp' \in [Lists -> Seq(Threads)]
  BY <1>0, SuspFacts DEF WaitTypes
<1>2. Sleepers'  BY <1>0 DEF Waits, Sleepers, Side, Receiving, Sending
<1>3. \A l \in Lists : Left(l) \in Nat /\ Left(l)' \in Nat
  BY <1>0, LeftFacts, LeftFactsNext
<1>4. ASSUME ~lost', NEW l \in Lists, susp'[l] # <<>>
      PROVE  Left(l)' <= Cardinality(Coming(l)')
  <2>1. susp[l] # <<>>  BY <1>1, <1>4, ShrunkList
  <2>2. Left(l) <= Cardinality(Coming(l))  BY <1>4, <2>1 DEF IInv, Attended
  <2>3. CASE Left(l)' = 0  BY <2>3, ComingFactsNext
  <2>4. CASE Left(l)' <= Left(l) /\ \A u \in Threads : u \in Coming(l) => u \in Coming(l)'
    <3>1. Coming(l) \in SUBSET (Coming(l)')  BY <2>4, ComingFacts
    <3>2. Cardinality(Coming(l)) <= Cardinality(Coming(l)')
      BY <3>1, ComingFactsNext, FS_Subset
    <3> QED  BY <1>3, <2>2, <2>4, <3>2, ComingFacts, ComingFactsNext
  <2>5. ASSUME NEW t \in Threads, Left(l)' = Left(l) - 1,
               \A u \in Threads \ {t} : u \in Coming(l) => u \in Coming(l)'
        PROVE  Left(l)' <= Cardinality(Coming(l)')
    <3>1. Coming(l) \ {t} \in SUBSET (Coming(l)')  BY <2>5, ComingFacts
    <3>2. Cardinality(Coming(l) \ {t}) <= Cardinality(Coming(l)')
      BY <3>1, ComingFactsNext, FS_Subset
    <3>3. Cardinality(Coming(l) \ {t}) =
            IF t \in Coming(l) THEN Cardinality(Coming(l)) - 1 ELSE Cardinality(Coming(l))
      BY ComingFacts, FS_RemoveElement
    <3> QED  BY <1>3, <2>2, <2>5, <3>2, <3>3, ComingFacts, ComingFactsNext
  <2> QED  BY <1>4, <2>3, <2>4, <2>5
<1>5. ~lost' => Attended'  BY <1>4 DEF Attended
<1> QED  BY <1>2, <1>5 DEF IInv, Waits

\* What waking the first thread of a list does to the lists and the timers.
LEMMA WakeFacts ==
    ASSUME Waits, NEW l \in Lists, WakeOne(l)
    PROVE  /\ susp' \in [Lists -> Seq(Threads)] /\ OnOneList(susp')
           /\ armed' \subseteq Threads /\ ttmr' \subseteq Threads
           /\ error' \in [Threads -> Errors]
           /\ expiring' = expiring /\ prio' = prio /\ lost' \in BOOLEAN /\ (~lost' => ~lost)
           /\ Timers'
           /\ \E w \in SUBSET Threads :
                 /\ \A k \in Lists : \A u : Holds(susp'[k], u) <=> Holds(susp[k], u) /\ u \notin w
                 /\ \A u \in Threads : error'[u] = IF u \in w THEN "EOK" ELSE error[u]
                 /\ \A u \in w : Holds(susp[l], u)
                 /\ ~lost' /\ susp[l] # <<>> => \E h : w = {h}
<1>0. /\ susp \in [Lists -> Seq(Threads)] /\ OnOneList(susp)
      /\ \A t : Suspended(t) <=> \E k \in Lists : Holds(susp[k], t)
      /\ WaitTypes /\ Timers
  BY SuspFacts DEF Waits
<1>1. CASE susp[l] = <<>>
  <2>1. UNCHANGED <<suspVars, lost>>  BY <1>1 DEF WakeOne
  <2>2. Timers'  BY <1>0, <2>1 DEF Timers, suspVars, Suspended, ThreadContext
  <2>3. {} \in SUBSET Threads  OBVIOUS
  <2> QED  BY <1>0, <1>1, <2>1, <2>2, <2>3 DEF suspVars, WaitTypes
<1>2. CASE susp[l] # <<>>
  <2> DEFINE h == Head(susp[l])
             g == [susp EXCEPT ![l] = Tail(@)]
  <2>1. Dequeue(l, "EOK") /\ lost' = (lost \/ Raced(h))  BY <1>2 DEF WakeOne
  <2>2. /\ g \in [Lists -> Seq(Threads)]
        /\ OnOneList(g)
        /\ h \in Threads /\ Holds(susp[l], h)
        /\ \A k \in Lists : \A u : Holds(g[k], u) <=> Holds(susp[k], u) /\ u # h
    <3>1. g = TailOne(susp, l)  BY DEF TailOne
    <3>2. ListsOf(Threads, Lists, susp)  BY <1>0 DEF ListsOf
    <3> HIDE DEF g
    <3>3. ListsOf(Threads, Lists, g) /\ h \in Threads /\ Holds(susp[l], h)
          /\ \A k \in Lists : \A u : Holds(g[k], u) <=> Holds(susp[k], u) /\ u # h
      BY <1>2, <3>1, <3>2, TailOneFacts
    <3> QED  BY <3>3 DEF ListsOf
  <2>3. /\ ttmr' = ttmr \ {h} /\ expiring' = expiring /\ prio' = prio
        /\ armed' = IF h \in ttmr THEN armed \ {h} ELSE armed
        /\ Raced(h) => UNCHANGED <<susp, error>>
        /\ ~Raced(h) => susp' = g /\ error' = [error EXCEPT ![h] = "EOK"]
    BY <2>1 DEF Dequeue
  <2> HIDE DEF h, g
  <2>4. armed' = armed \ {h}  BY <1>0, <2>3 DEF Timers
  <2>5. CASE Raced(h)
    <3>1. lost' /\ lost' \in BOOLEAN  BY <1>0, <2>1, <2>5 DEF WaitTypes
    <3>2. UNCHANGED <<susp, error>>  BY <2>3, <2>5
    <3>3. h \notin armed  BY <2>5 DEF Raced
    <3>4. Timers'  BY <1>0, <2>3, <2>4, <3>1, <3>2, <3>3 DEF Timers, Suspended
    <3>5. {} \in SUBSET Threads  OBVIOUS
    <3> QED  BY <1>0, <2>3, <2>4, <3>1, <3>2, <3>4, <3>5 DEF WaitTypes
  <2>6. CASE ~Raced(h)
    <3>1. susp' = g /\ error' = [error EXCEPT ![h] = "EOK"] /\ lost' = lost
      BY <1>0, <2>1, <2>3, <2>6 DEF WaitTypes
    <3>2. \A t : Suspended(t)' <=> \E k \in Lists : Holds(susp'[k], t)
      BY <2>2, <3>1, SuspFactsNext
    <3>3. Timers'
      <4>1. \A t \in armed' : t \in ttmr' /\ Suspended(t)'
        BY <1>0, <2>2, <2>3, <2>4, <3>1, <3>2 DEF Timers
      <4>2. ~lost /\ ~ThreadContext => expiring # h
        BY <1>0, <2>6 DEF Timers, Raced
      <4>3. ~lost' /\ ~ThreadContext' => Suspended(expiring)' /\ expiring' \in ttmr'
        BY <1>0, <2>2, <2>3, <3>1, <3>2, <4>2 DEF Timers, ThreadContext
      <4> QED  BY <1>0, <2>3, <2>4, <4>1, <4>3 DEF Timers
    <3>4. {h} \in SUBSET Threads  BY <2>2
    <3>5. error' \in [Threads -> Errors]  BY <1>0, <2>2, <3>1 DEF WaitTypes, Errors
    <3>6. \A u \in Threads : error'[u] = IF u \in {h} THEN "EOK" ELSE error[u]
      BY <1>0, <3>1 DEF WaitTypes
    <3>7. \A k \in Lists : \A u : Holds(susp'[k], u) <=> Holds(susp[k], u) /\ u \notin {h}
      BY <2>2, <3>1
    <3>8. lost' \in BOOLEAN /\ armed' \subseteq Threads /\ ttmr' \subseteq Threads
      BY <1>0, <2>3, <2>4, <3>1 DEF WaitTypes
    <3>9. \E w \in SUBSET Threads :
             /\ \A k \in Lists : \A u : Holds(susp'[k], u) <=> Holds(susp[k], u) /\ u \notin w
             /\ \A u \in Threads : error'[u] = IF u \in w THEN "EOK" ELSE error[u]
             /\ \A u \in w : Holds(susp[l], u)
             /\ ~lost' /\ susp[l] # <<>> => \E x : w = {x}
      <4>1. \A u \in {h} : Holds(susp[l], u)  BY <2>2
      <4>2. \E x : {h} = {x}  OBVIOUS
      <4> QED  BY <3>4, <3>6, <3>7, <4>1, <4>2
    <3> QED  BY <2>2, <2>3, <3>1, <3>3, <3>5, <3>8, <3>9
  <2> QED  BY <2>5, <2>6
<1> QED  BY <1>1, <1>2

\* A message or a slot is put and the first of those who wait for it is woken; d
\* are the threads whose call that is.
LEMMA PassStep ==
    ASSUME IInv, Storage', NEW l \in Lists, WakeOne(l),
           NEW d \in SUBSET Threads, \A t \in d : Side(t) = "none",
           \A t \in Threads \ d : pc'[t] = pc[t],
           Left(l)' = Left(l) + 1,
           \A k \in Lists \ {l} : Left(k)' <= Left(k)
    PROVE  IInv'
<1>0. Waits /\ Storage  BY DEF IInv
<1>1. /\ susp \in [Lists -> Seq(Threads)] /\ OnOneList(susp)
      /\ \A t : Suspended(t) <=> \E k \in Lists : Holds(susp[k], t)
      /\ WaitTypes /\ Sleepers
  BY <1>0, SuspFacts DEF Waits
<1>2. /\ susp' \in [Lists -> Seq(Threads)] /\ OnOneList(susp')
      /\ armed' \subseteq Threads /\ ttmr' \subseteq Threads
      /\ error' \in [Threads -> Errors]
      /\ expiring' = expiring /\ lost' \in BOOLEAN /\ (~lost' => ~lost)
      /\ Timers'
      /\ \A t : Suspended(t)' <=> \E k \in Lists : Holds(susp'[k], t)
  BY <1>0, WakeFacts, SuspFactsNext
<1>3. PICK w \in SUBSET Threads :
         /\ \A k \in Lists : \A u : Holds(susp'[k], u) <=> Holds(susp[k], u) /\ u \notin w
         /\ \A u \in Threads : error'[u] = IF u \in w THEN "EOK" ELSE error[u]
         /\ \A u \in w : Holds(susp[l], u)
         /\ ~lost' /\ susp[l] # <<>> => \E h : w = {h}
  BY <1>0, WakeFacts
<1>4. \A t \in Threads \ d : Side(t)' = Side(t)  BY DEF Side, Receiving, Sending
<1>5. \A k \in Lists : \A u \in Threads : Holds(susp[k], u) => Side(u) = k /\ u \notin d
  BY <1>1 DEF Sleepers, Lists
<1>6. Sleepers'  BY <1>2, <1>3, <1>4, <1>5 DEF Sleepers
<1>7. WaitTypes'  BY <1>1, <1>2 DEF WaitTypes
<1>8. \A k \in Lists : Left(k) \in Nat /\ Left(k)' \in Nat
  BY <1>0, LeftFacts, LeftFactsNext
<1>9. ASSUME NEW k \in Lists, NEW u \in Coming(k) PROVE u \in Coming(k)'
  <2>1. u \in Threads /\ Side(u) = k /\ ~Suspended(u) /\ error[u] = "EOK"
    BY DEF Coming, Woken
  <2>2. u \notin d  BY <2>1 DEF Lists
  <2>3. ~Suspended(u)' /\ error'[u] = "EOK"  BY <1>1, <1>2, <1>3, <2>1
  <2> QED  BY <1>4, <2>1, <2>2, <2>3 DEF Coming, Woken
<1>10. ASSUME ~lost', NEW k \in Lists, susp'[k] # <<>>
      PROVE  Left(k)' <= Cardinality(Coming(k)')
  <2>1. susp[k] # <<>>
    <3>1. \A u \in Threads : Holds(susp'[k], u) => Holds(susp[k], u)  BY <1>3, <1>10
    <3> QED  BY <1>1, <1>2, <1>10, <3>1, ShrunkList
  <2>2. Left(k) <= Cardinality(Coming(k))  BY <1>2, <1>10, <2>1 DEF IInv, Attended
  <2>3. CASE k = l
    <3>1. PICK h : w = {h}  BY <1>3, <1>10, <2>1, <2>3
    <3>2. h \in Threads /\ Side(h) = l /\ Suspended(h) /\ h \notin d
      BY <1>1, <1>3, <1>5, <3>1
    <3>3. Coming(l) \cup {h} \in SUBSET (Coming(l)')
      <4>1. h \in Coming(l)'
        BY <1>1, <1>2, <1>3, <1>4, <3>1, <3>2, OneListOnly DEF Coming, Woken
      <4> QED  BY <1>9, <4>1
    <3>4. h \notin Coming(l)  BY <3>2 DEF Coming, Woken
    <3>5. Cardinality(Coming(l) \cup {h}) = Cardinality(Coming(l)) + 1
      BY <3>4, ComingFacts, FS_AddElement
    <3>6. Cardinality(Coming(l) \cup {h}) <= Cardinality(Coming(l)')
      BY <3>3, ComingFactsNext, FS_Subset
    <3> QED  BY <1>8, <2>2, <2>3, <3>5, <3>6, ComingFacts, ComingFactsNext
  <2>4. CASE k # l
    <3>1. Left(k)' <= Left(k)  BY <2>4
    <3>2. Coming(k) \in SUBSET (Coming(k)')  BY <1>9
    <3>3. Cardinality(Coming(k)) <= Cardinality(Coming(k)')
      BY <3>2, ComingFactsNext, FS_Subset
    <3> QED  BY <1>8, <2>2, <3>1, <3>3, ComingFacts, ComingFactsNext
  <2> QED  BY <2>3, <2>4
<1>11. ~lost' => Attended'  BY <1>10 DEF Attended
<1> QED  BY <1>2, <1>6, <1>7, <1>11 DEF IInv, Waits

\* A wait begins, or begins anew, because there is nothing to come for.
LEMMA WaitStep ==
    ASSUME IInv, Storage', NEW t \in Threads, NEW l \in Lists, NEW timed \in BOOLEAN,
           ThreadContext, ~Suspended(t), Wait(t, l, timed), Left(l) = 0,
           entry' = entry, Free' = Free, Side(t)' = l,
           Side(t) = l \/ Side(t) = "none",
           \A u \in Threads \ {t} : pc'[u] = pc[u]
    PROVE  IInv'
<1>0. Waits /\ Storage  BY DEF IInv
<1>1. /\ susp \in [Lists -> Seq(Threads)] /\ ListsOf(Threads, Lists, susp)
      /\ \A u : Suspended(u) <=> \E k \in Lists : Holds(susp[k], u)
      /\ WaitTypes /\ Sleepers /\ Timers
  BY <1>0, SuspFacts DEF Waits
<1>2. /\ susp' = [susp EXCEPT ![l] = Enqueue(@, t, Flag, prio)]
      /\ armed' = IF timed THEN armed \cup {t} ELSE armed \ {t}
      /\ ttmr' = IF timed THEN ttmr \cup {t} ELSE ttmr \ {t}
      /\ error' = [error EXCEPT ![t] = "EINTR"]
      /\ UNCHANGED <<expiring, prio, lost>>
  BY DEF Wait, SuspendToList, SuspendWith
<1>3. /\ susp' \in [Lists -> Seq(Threads)] /\ OnOneList(susp')
      /\ \A k \in Lists : \A u : Holds(susp'[k], u) <=> Holds(susp[k], u) \/ (k = l /\ u = t)
  <2>1. \A k \in Lists : ~Holds(susp[k], t)  BY <1>1
  <2>2. susp' = EnqueueOne(susp, l, t, Flag, prio)  BY <1>2 DEF EnqueueOne
  <2>3. ListsOf(Threads, Lists, susp)  BY <1>1
  <2>4. ListsOf(Threads, Lists, susp')
        /\ \A k \in Lists : \A u : Holds(susp'[k], u) <=> Holds(susp[k], u) \/ (k = l /\ u = t)
    BY <2>1, <2>2, <2>3, EnqueueOneFacts
  <2> QED  BY <2>4 DEF ListsOf
<1>4. \A u : Suspended(u)' <=> \E k \in Lists : Holds(susp'[k], u)  BY <1>3, SuspFactsNext
<1>5. WaitTypes'  BY <1>1, <1>2, <1>3 DEF WaitTypes, Errors
<1>6. \A u \in Threads \ {t} : Side(u)' = Side(u)  BY DEF Side, Receiving, Sending
<1>7. Sleepers'
  <2>1. ASSUME NEW k \in Lists, NEW u \in Threads, Holds(susp'[k], u) PROVE Side(u)' = k
    <3>1. CASE u = t
      <4>1. ~Holds(susp[k], t)  BY <1>1
      <4> QED  BY <1>3, <2>1, <3>1, <4>1
    <3>2. CASE u # t  BY <1>1, <1>3, <1>6, <2>1, <3>2 DEF Sleepers
    <3> QED  BY <3>1, <3>2
  <2> QED  BY <1>3, <2>1 DEF Sleepers
<1>8. Timers'  BY <1>1, <1>2, <1>3, <1>4 DEF Timers, ThreadContext, WaitTypes
<1>9. \A k \in Lists : Left(k)' = Left(k) /\ Left(k) \in Nat  BY <1>0, LeftFacts DEF Left
<1>10. ASSUME ~lost', NEW k \in Lists, susp'[k] # <<>>
       PROVE  Left(k)' <= Cardinality(Coming(k)')
  <2>1. CASE k = l  BY <1>9, <2>1, ComingFactsNext
  <2>2. CASE k # l
    <3>1. susp[k] # <<>>  BY <1>1, <1>2, <1>10, <2>2
    <3>2. Left(k) <= Cardinality(Coming(k))  BY <1>2, <1>10, <3>1 DEF IInv, Attended
    <3>3. ASSUME NEW u \in Coming(k) PROVE u \in Coming(k)'
      <4>1. u \in Threads /\ Side(u) = k /\ ~Suspended(u) /\ error[u] = "EOK"
        BY DEF Coming, Woken
      <4>2. u # t  BY <2>2, <4>1 DEF Lists
      <4>3. ~Suspended(u)'  BY <1>1, <1>3, <1>4, <4>1, <4>2
      <4>4. error'[u] = "EOK"  BY <1>1, <1>2, <4>1, <4>2 DEF WaitTypes
      <4>5. Side(u)' = k  BY <1>6, <4>1, <4>2
      <4> QED  BY <4>1, <4>3, <4>4, <4>5 DEF Coming, Woken
    <3>4. Coming(k) \in SUBSET (Coming(k)')  BY <3>3
    <3>5. Cardinality(Coming(k)) <= Cardinality(Coming(k)')
      BY <3>4, ComingFactsNext, FS_Subset
    <3> QED  BY <1>9, <3>2, <3>5, ComingFacts, ComingFactsNext
  <2> QED  BY <2>1, <2>2
<1>11. ~lost' => Attended'  BY <1>10 DEF Attended
<1> QED  BY <1>5, <1>7, <1>8, <1>11 DEF IInv, Waits

\* A thread is unlinked from the list that holds it, if one does.
LEMMA UnlinkStep ==
    ASSUME Waits, NEW t, susp' = [l \in DOMAIN susp |-> Unlink(susp[l], t)]
    PROVE  /\ susp' \in [Lists -> Seq(Threads)] /\ OnOneList(susp')
           /\ \A l \in Lists : \A u : Holds(susp'[l], u) <=> Holds(susp[l], u) /\ u # t
           /\ \A u : Suspended(u)' <=> Suspended(u) /\ u # t
<1>1. ListsOf(Threads, Lists, susp)  BY SuspFacts
<1>2. susp' = UnlinkAll(susp, t)  BY DEF UnlinkAll
<1>3. /\ ListsOf(Threads, Lists, susp')
      /\ \A l \in Lists : \A u : Holds(susp'[l], u) <=> Holds(susp[l], u) /\ u # t
  BY <1>1, <1>2, UnlinkAllFacts
<1>4. susp' \in [Lists -> Seq(Threads)] /\ OnOneList(susp')  BY <1>3 DEF ListsOf
<1> QED  BY <1>3, <1>4, SuspFacts, SuspFactsNext

\* What no timeout, resumed thread or detached queue touches.
LEMMA MqSame ==
    ASSUME Storage, UNCHANGED <<content, listVars, slot, message>>, alive' \in BOOLEAN,
           pc' = pc \/ \E t \in Threads : pc' = [pc EXCEPT ![t] = "dead"]
    PROVE  Storage' /\ UNCHANGED <<Contents, entry, Free>> /\ \A l \in Lists : Left(l)' = Left(l)
<1>1. StoreTypes /\ Posts  BY DEF Storage
<1>2. /\ pc' \in [Threads -> Places] /\ message' \in [Threads -> Words]
      /\ \A u \in Threads : pc'[u] = pc[u] \/ pc'[u] = "dead"
  BY <1>1 DEF StoreTypes, Places
<1>3. Posts'  BY <1>1, <1>2 DEF Posts, Fills, Sending
<1>4. Storage' /\ UNCHANGED <<Contents, entry, Free>>  BY <1>2, <1>3, StoreSame
<1> QED  BY <1>4 DEF Left

\* Timeouts, resumed threads and deleted threads.
LEMMA WaitEventStep ==
    ASSUME IInv,
           \/ ThreadTimeout /\ UNCHANGED mqVars
           \/ \E t \in Threads : WaitEvents(t)
    PROVE  IInv' /\ UNCHANGED Contents
<1>0. Waits /\ Storage  BY DEF IInv
<1>1. /\ susp \in [Lists -> Seq(Threads)] /\ OnOneList(susp)
      /\ \A u : Suspended(u) <=> \E k \in Lists : Holds(susp[k], u)
      /\ WaitTypes /\ Timers
  BY <1>0, SuspFacts DEF Waits
<1>2. \A l \in Lists : Left(l) \in Nat  BY <1>0, LeftFacts
<1>3. ASSUME UNCHANGED mqVars
      PROVE  /\ Storage' /\ Contents' = Contents /\ pc' = pc /\ lost' = lost
             /\ \A l \in Lists : Left(l)' <= Left(l)
  <2>1. /\ UNCHANGED <<content, listVars, slot, message, pc, lost>> /\ alive' \in BOOLEAN
    BY <1>0, <1>3 DEF mqVars, Storage, StoreTypes
  <2>2. Storage' /\ UNCHANGED Contents /\ \A l \in Lists : Left(l)' = Left(l)
    BY <1>0, <2>1, MqSame
  <2> QED  BY <1>2, <2>1, <2>2
<1>4. CASE ThreadTimeout /\ UNCHANGED mqVars
  <2>1. /\ ~ThreadContext /\ expiring' = NoThread
        /\ error' = [error EXCEPT ![expiring] = "ETIMEOUT"]
        /\ susp' = [l \in DOMAIN susp |-> Unlink(susp[l], expiring)]
        /\ UNCHANGED <<armed, ttmr, prio>>
    BY <1>4 DEF ThreadTimeout
  <2>2. /\ Storage' /\ Contents' = Contents /\ pc' = pc /\ lost' = lost
        /\ \A l \in Lists : Left(l)' <= Left(l)
    BY <1>3, <1>4
  <2>3. /\ susp' \in [Lists -> Seq(Threads)] /\ OnOneList(susp')
        /\ \A l \in Lists : \A u : Holds(susp'[l], u) <=> Holds(susp[l], u) /\ u # expiring
        /\ \A u : Suspended(u)' <=> Suspended(u) /\ u # expiring
    BY <1>0, <2>1, UnlinkStep
  <2>4. WaitTypes'  BY <1>1, <2>1, <2>2, <2>3 DEF WaitTypes, Errors
  <2>5. Timers'  BY <1>1, <2>1, <2>3 DEF Timers, ThreadContext, WaitTypes
  <2>6. ASSUME ~lost', NEW l \in Lists, NEW u \in Threads, u \in Coming(l) PROVE u \in Coming(l)'
    <3>1. u # expiring  BY <1>1, <2>1, <2>2, <2>6 DEF Timers, Coming, Woken
    <3>2. error'[u] = error[u]  BY <1>1, <2>1, <3>1 DEF WaitTypes
    <3> QED  BY <2>2, <2>3, <2>6, <3>2 DEF Coming, Woken, Side, Receiving, Sending
  <2>7. IInv'  BY <2>2, <2>3, <2>4, <2>5, <2>6, QuietStep
  <2> QED  BY <2>2, <2>7
<1>5. ASSUME NEW t \in Threads, TimerPop(t), UNCHANGED mqVars PROVE IInv' /\ UNCHANGED Contents
  <2>1. /\ ThreadContext /\ t \in armed /\ armed' = armed \ {t} /\ expiring' = t
        /\ UNCHANGED <<susp, ttmr, error, prio>>
    BY <1>5 DEF TimerPop
  <2>2. /\ Storage' /\ Contents' = Contents /\ pc' = pc /\ lost' = lost
        /\ \A l \in Lists : Left(l)' <= Left(l)
    BY <1>3, <1>5
  <2>3. WaitTypes'  BY <1>1, <2>1, <2>2 DEF WaitTypes
  <2>4. Timers'  BY <1>1, <2>1, <2>2 DEF Timers, ThreadContext, Suspended
  <2>5. OnOneList(susp')  BY <1>1, <2>1
  <2>6. \A l \in Lists : Coming(l)' = Coming(l)
    BY <2>1, <2>2 DEF Coming, Woken, Side, Receiving, Sending, Suspended
  <2>7. \A l \in Lists : \A u \in Threads :
           Holds(susp'[l], u) => Holds(susp[l], u) /\ pc'[u] = pc[u]
    BY <2>1, <2>2
  <2>8. IInv'  BY <2>2, <2>3, <2>4, <2>5, <2>6, <2>7, QuietStep
  <2> QED  BY <2>2, <2>8
<1>6. ASSUME NEW t \in Threads, ThreadResume(t), UNCHANGED mqVars PROVE IInv' /\ UNCHANGED Contents
  <2>1. /\ ThreadContext /\ Suspended(t)
        /\ susp' = [l \in DOMAIN susp |-> Unlink(susp[l], t)]
        /\ ttmr' = ttmr \ {t} /\ armed' = armed \ {t}
        /\ UNCHANGED <<error, expiring, prio>>
    BY <1>6 DEF ThreadResume
  <2>2. /\ Storage' /\ Contents' = Contents /\ pc' = pc /\ lost' = lost
        /\ \A l \in Lists : Left(l)' <= Left(l)
    BY <1>3, <1>6
  <2>3. /\ susp' \in [Lists -> Seq(Threads)] /\ OnOneList(susp')
        /\ \A l \in Lists : \A u : Holds(susp'[l], u) <=> Holds(susp[l], u) /\ u # t
        /\ \A u : Suspended(u)' <=> Suspended(u) /\ u # t
    BY <1>0, <2>1, UnlinkStep
  <2>4. WaitTypes'  BY <1>1, <2>1, <2>2, <2>3 DEF WaitTypes
  <2>5. Timers'  BY <1>1, <2>1, <2>3 DEF Timers, ThreadContext, WaitTypes
  <2>6. ASSUME NEW l \in Lists, NEW u \in Threads, u \in Coming(l) PROVE u \in Coming(l)'
    BY <2>1, <2>2, <2>3, <2>6 DEF Coming, Woken, Side, Receiving, Sending
  <2>7. IInv'  BY <2>2, <2>3, <2>4, <2>5, <2>6, QuietStep
  <2> QED  BY <2>2, <2>7
<1>7. ASSUME NEW t \in Threads, Delete(t) PROVE IInv' /\ UNCHANGED Contents
  <2>1. /\ ThreadContext
        /\ susp' = [l \in DOMAIN susp |-> Unlink(susp[l], t)]
        /\ armed' = armed \ {t}
        /\ pc' = [pc EXCEPT ![t] = "dead"]
        /\ lost' = (lost \/ t \in WokenReceivers \cup WokenSenders)
        /\ UNCHANGED <<ttmr, error, expiring, prio, content, listVars, alive, slot, message>>
    BY <1>7 DEF Delete, ThreadClose
  <2>2. /\ Storage' /\ UNCHANGED Contents
        /\ \A l \in Lists : Left(l)' <= Left(l)
    <3>1. alive' \in BOOLEAN  BY <1>0, <2>1 DEF Storage, StoreTypes
    <3>2. Storage' /\ UNCHANGED Contents /\ \A l \in Lists : Left(l)' = Left(l)
      BY <1>0, <2>1, <3>1, MqSame
    <3> QED  BY <1>2, <3>2
  <2>3. /\ susp' \in [Lists -> Seq(Threads)] /\ OnOneList(susp')
        /\ \A l \in Lists : \A u : Holds(susp'[l], u) <=> Holds(susp[l], u) /\ u # t
        /\ \A u : Suspended(u)' <=> Suspended(u) /\ u # t
    BY <1>0, <2>1, UnlinkStep
  <2>4. \A u \in Threads \ {t} : pc'[u] = pc[u]
    BY <1>0, <2>1 DEF Storage, StoreTypes
  <2>5. lost' \in BOOLEAN  BY <1>1, <2>1 DEF WaitTypes
  <2>6. WaitTypes'  BY <1>1, <2>1, <2>3, <2>5 DEF WaitTypes
  <2>7. Timers'  BY <1>1, <2>1, <2>3 DEF Timers, ThreadContext, WaitTypes
  <2>8. ASSUME ~lost', NEW l \in Lists, NEW u \in Threads, u \in Coming(l) PROVE u \in Coming(l)'
    <3>1. u # t
      BY <2>1, <2>8 DEF Coming, WokenReceivers, WokenSenders, Side, Lists
    <3> QED  BY <2>1, <2>3, <2>4, <2>8, <3>1 DEF Coming, Woken, Side, Receiving, Sending
  <2>9. \A l \in Lists : \A u \in Threads :
           Holds(susp'[l], u) => Holds(susp[l], u) /\ pc'[u] = pc[u]
    BY <2>3, <2>4
  <2>10. IInv'  BY <2>1, <2>2, <2>3, <2>6, <2>7, <2>8, <2>9, QuietStep
  <2> QED  BY <2>2, <2>10
<1> QED  BY <1>4, <1>5, <1>6, <1>7 DEF WaitEvents

\* The queue is reset or goes away: everybody who sleeps is told.
LEMMA EverybodyResumed ==
    ASSUME IInv, Reset \/ Detach
    PROVE  IInv' /\ (Chain!QueueNext \/ UNCHANGED Contents)
<1>0. Waits /\ Storage  BY DEF IInv
<1>1. /\ ResumeAll(Lists, "ERROR") /\ ThreadContext
      /\ UNCHANGED <<pc, lost>>
  BY DEF Reset, Detach, Lists
<1>2. /\ susp' = EmptySome(susp, Lists)
      /\ \E w : ttmr' = ttmr \ w /\ armed' = armed \ w
                 /\ (\A t \in Threads : t \in w <=> \E l \in Lists : Holds(susp[l], t))
                 /\ error' = [t \in Threads |-> IF t \in w THEN "ERROR" ELSE error[t]]
      /\ expiring' = expiring
  BY <1>1 DEF ResumeAll, EmptySome
<1>3. /\ susp \in [Lists -> Seq(Threads)]
      /\ \A u : Suspended(u) <=> \E k \in Lists : Holds(susp[k], u)
      /\ ListsOf(Threads, Lists, susp) /\ WaitTypes /\ Timers
  BY <1>0, SuspFacts DEF Waits
<1>4. /\ susp' \in [Lists -> Seq(Threads)] /\ OnOneList(susp')
      /\ \A l \in Lists : \A u \in Threads : ~Holds(susp'[l], u)
      /\ \A l \in Lists : susp'[l] = <<>>
  <2>1. ListsOf(Threads, Lists, susp')  BY <1>2, <1>3, EmptySomeFacts
  <2>2. \A l \in Lists : susp'[l] = <<>>  BY <1>2, <1>3 DEF EmptySome
  <2> QED  BY <2>1, <2>2, EmptyHoldsNobody DEF ListsOf
<1>5. WaitTypes'  BY <1>1, <1>2, <1>3, <1>4 DEF WaitTypes, Errors
<1>6. armed' = {}  BY <1>2, <1>3 DEF Timers, WaitTypes
<1>7. Timers'  BY <1>1, <1>2, <1>6 DEF Timers, ThreadContext
<1>8. Storage' /\ (Chain!QueueNext \/ UNCHANGED Contents)
  <2>1. CASE Reset  BY <1>0, <2>1, ResetStep DEF Chain!QueueNext, Chain!Clear
  <2>2. CASE Detach
    <3>1. UNCHANGED <<content, listVars, slot, message, pc>> /\ alive' \in BOOLEAN
      BY <2>2 DEF Detach
    <3> QED  BY <1>0, <3>1, MqSame
  <2> QED  BY <2>1, <2>2
<1>9. IInv'  BY <1>1, <1>4, <1>5, <1>7, <1>8, QuietStep
<1> QED  BY <1>8, <1>9
-----------------------------------------------------------------------------
\* A thread that is awake goes on, and nobody falls asleep or wakes.
LEMMA AwakeStep ==
    ASSUME IInv, Storage', NEW t \in Threads, UNCHANGED <<suspVars, lost>>, ~Suspended(t),
           \A u \in Threads \ {t} : pc'[u] = pc[u],
           \A l \in Lists : \/ Left(l)' = 0
                            \/ Left(l)' = Left(l) - 1
                            \/ Left(l)' <= Left(l) /\ t \notin Coming(l)
    PROVE  IInv'
<1>0. Waits /\ Storage  BY DEF IInv
<1>1. /\ susp \in [Lists -> Seq(Threads)] /\ OnOneList(susp)
      /\ \A u : Suspended(u) <=> \E k \in Lists : Holds(susp[k], u)
      /\ WaitTypes /\ Timers
  BY <1>0, SuspFacts DEF Waits
<1>2. susp' = susp /\ armed' = armed /\ ttmr' = ttmr /\ error' = error /\ expiring' = expiring
      /\ lost' = lost
  BY DEF suspVars
<1>3. WaitTypes'  BY <1>1, <1>2 DEF WaitTypes
<1>4. Timers' /\ OnOneList(susp')  BY <1>1, <1>2 DEF Timers, Suspended, ThreadContext
<1>5. \A l \in Lists : \A u \in Threads :
         Holds(susp'[l], u) => Holds(susp[l], u) /\ pc'[u] = pc[u]
  BY <1>1, <1>2
<1>6. ASSUME NEW l \in Lists, NEW u \in Threads \ {t}, u \in Coming(l) PROVE u \in Coming(l)'
  BY <1>2, <1>6 DEF Coming, Woken, Side, Receiving, Sending, Suspended
<1>7. ASSUME NEW l \in Lists
      PROVE  \/ Left(l)' = 0
             \/ Left(l)' <= Left(l) /\ \A u \in Threads : u \in Coming(l) => u \in Coming(l)'
             \/ /\ Left(l)' = Left(l) - 1
                /\ \E v \in Threads : \A u \in Threads \ {v} : u \in Coming(l) => u \in Coming(l)'
  BY <1>6
<1> QED  BY <1>2, <1>3, <1>4, <1>5, <1>7, QuietStep

\* Nothing happens.
LEMMA UnchangedStep ==
    ASSUME IInv, UNCHANGED vars
    PROVE  IInv' /\ UNCHANGED Contents
<1>0. Waits /\ Storage /\ StoreTypes /\ Posts  BY DEF IInv, Storage
<1>1. /\ UNCHANGED <<content, listVars, slot, pc, message, alive, lost>>
      /\ UNCHANGED <<susp, armed, ttmr, error, expiring, prio>>
  BY DEF vars, mqVars, suspVars
<1>2. /\ alive' \in BOOLEAN /\ pc' \in [Threads -> Places] /\ message' \in [Threads -> Words]
      /\ Posts' /\ \A u \in Threads : pc'[u] = pc[u]
  BY <1>0, <1>1 DEF StoreTypes, Posts, Fills, Sending
<1>3. Storage' /\ UNCHANGED <<Contents, entry, Free>>  BY <1>0, <1>1, <1>2, StoreSame
<1>4. Waits'
  BY <1>0, <1>1 DEF Waits, WaitTypes, Sleepers, Timers, Side, Receiving, Sending, Suspended,
                    ThreadContext
<1>5. (~lost => Attended)'
  BY <1>1, <1>3 DEF IInv, Attended, Left, Coming, Woken, Side, Receiving, Sending, Suspended
<1> QED  BY <1>3, <1>4, <1>5 DEF IInv

\* A step of a thread in rt_mq_send_wait, rt_mq_urgent or rt_mq_recv.
LEMMA ThreadStep ==
    ASSUME IInv, NEW t \in Threads, ThreadOps(t)
    PROVE  IInv' /\ (Chain!QueueNext \/ UNCHANGED Contents)
<1>0. Storage /\ Waits  BY DEF IInv
<1>1. /\ susp \in [Lists -> Seq(Threads)]
      /\ \A u : Suspended(u) <=> \E k \in Lists : Holds(susp[k], u)
      /\ StoreTypes /\ Posts
  BY <1>0, SuspFacts DEF Storage
<1>2. Side(t) = "none" => ~Suspended(t)
  BY <1>0, <1>1 DEF Waits, Sleepers, Lists
<1>3. /\ pc[t] = "idle" => Side(t) = "none" /\ ~Suspended(t) /\ ~Keeps(t)
      /\ Copying(t) => Side(t) = "none" /\ ~Suspended(t)
      /\ Receiving(t) \/ Sending(t) => ~Keeps(t)
      /\ ~(Receiving(t) /\ Sending(t))
      /\ Receiving(t) => Side(t) = "recv"
      /\ Sending(t) => Side(t) = "send"
  BY <1>2 DEF Side, Receiving, Sending, Copying, Keeps
<1>4. \A l \in Lists : Left(l) \in Nat  BY <1>0, LeftFacts
<1>5. ASSUME NEW m \in Messages, NEW place \in {"copying", "copyingfirst"},
             TakeSlot(t, m, place), ~Keeps(t), ~Suspended(t), Side(t) # "recv"
      PROVE  IInv' /\ UNCHANGED Contents
  <2>1. /\ Storage' /\ UNCHANGED Contents
        /\ entry' = entry /\ Len(Free)' = Len(Free) - 1
        /\ pc' = [pc EXCEPT ![t] = place]
    BY <1>0, <1>5, TakeSlotStep
  <2>2. UNCHANGED <<suspVars, lost>>  BY <1>5 DEF TakeSlot
  <2>3. \A u \in Threads \ {t} : pc'[u] = pc[u]  BY <1>1, <2>1 DEF StoreTypes
  <2>4. t \notin Coming("recv")  BY <1>5 DEF Coming
  <2>5. ASSUME NEW l \in Lists
        PROVE  Left(l)' = Left(l) - 1 \/ (Left(l)' <= Left(l) /\ t \notin Coming(l))
    <3>1. CASE l = "recv"
      <4>1. Left(l)' = Left(l)  BY <2>1, <3>1 DEF Left
      <4> QED  BY <1>4, <2>4, <3>1, <4>1
    <3>2. CASE l = "send"  BY <2>1, <3>2 DEF Left
    <3> QED  BY <3>1, <3>2 DEF Lists
  <2>6. IInv'  BY <1>5, <2>1, <2>2, <2>3, <2>5, AwakeStep
  <2> QED  BY <2>1, <2>6
<1>6. ASSUME UnlinkFirst(t), ~Keeps(t), ~Suspended(t), Side(t) # "send"
      PROVE  IInv' /\ Chain!QueueNext
  <2>1. /\ Storage' /\ Contents # <<>> /\ Contents' = Tail(Contents)
        /\ entry' = entry - 1 /\ Len(Free)' = Len(Free)
        /\ pc' = [pc EXCEPT ![t] = "reading"]
    BY <1>0, <1>6, UnlinkFirstStep
  <2>2. UNCHANGED <<suspVars, lost>>  BY <1>6 DEF UnlinkFirst
  <2>3. \A u \in Threads \ {t} : pc'[u] = pc[u]  BY <1>1, <2>1 DEF StoreTypes
  <2>4. t \notin Coming("send")  BY <1>6 DEF Coming
  <2>5. ASSUME NEW l \in Lists
        PROVE  Left(l)' = Left(l) - 1 \/ (Left(l)' <= Left(l) /\ t \notin Coming(l))
    <3>1. CASE l = "send"
      <4>1. Left(l)' = Left(l)  BY <2>1, <3>1 DEF Left
      <4> QED  BY <1>4, <2>4, <3>1, <4>1
    <3>2. CASE l = "recv"  BY <2>1, <3>2 DEF Left
    <3> QED  BY <3>1, <3>2 DEF Lists
  <2>6. IInv'  BY <1>6, <2>1, <2>2, <2>3, <2>5, AwakeStep
  <2> QED  BY <2>1, <2>6 DEF Chain!QueueNext, Chain!Get
<1>7. ASSUME NEW m \in Messages, Send(t, m) \/ Urgent(t, m)
      PROVE  IInv' /\ UNCHANGED Contents
  <2>1. pc[t] = "idle"  BY <1>7 DEF Send, Urgent, Idle
  <2>2. PICK place \in {"copying", "copyingfirst"} : TakeSlot(t, m, place)
    BY <1>7 DEF Send, Urgent
  <2> QED  BY <1>3, <1>5, <2>1, <2>2
<1>8. CASE SendResumes(t)
  <2>1. TakeSlot(t, message[t], "copying") /\ ~Suspended(t) /\ Sending(t)
    BY <1>8 DEF SendResumes, Runs
  <2>2. PICK m \in Messages : m = message[t]  BY <1>1, <2>1 DEF Posts, Fills
  <2> QED  BY <1>3, <1>5, <2>1, <2>2
<1>9. CASE Recv(t)
  <2>1. UnlinkFirst(t) /\ pc[t] = "idle"  BY <1>9 DEF Recv, Idle
  <2> QED  BY <1>3, <1>6, <2>1
<1>10. CASE RecvResumes(t)
  <2>1. UnlinkFirst(t) /\ ~Suspended(t) /\ Receiving(t)  BY <1>10 DEF RecvResumes, Runs
  <2> QED  BY <1>3, <1>6, <2>1
<1>11. CASE Link(t)
  <2>1. /\ Storage' /\ Chain!QueueNext /\ entry' = entry + 1 /\ Len(Free)' = Len(Free)
        /\ pc' = [pc EXCEPT ![t] = "idle"] /\ Copying(t) /\ WakeOne("recv")
    BY <1>0, <1>11, LinkStep
  <2>2. {t} \in SUBSET Threads /\ \A u \in {t} : Side(u) = "none"  BY <1>3, <2>1
  <2>3. \A u \in Threads \ {t} : pc'[u] = pc[u]  BY <1>1, <2>1 DEF StoreTypes
  <2>4. "recv" \in Lists /\ Left("recv")' = Left("recv") + 1  BY <2>1 DEF Left, Lists
  <2>5. \A k \in Lists \ {"recv"} : Left(k)' <= Left(k)
    <3>1. \A k \in Lists \ {"recv"} : Left(k)' = Left(k)  BY <2>1 DEF Left, Lists
    <3> QED  BY <1>4, <3>1
  <2>6. IInv'  BY <2>1, <2>2, <2>3, <2>4, <2>5, PassStep
  <2> QED  BY <2>1, <2>6
<1>12. CASE FreeSlot(t)
  <2>1. /\ Storage' /\ UNCHANGED Contents /\ entry' = entry /\ Len(Free)' = Len(Free) + 1
        /\ pc' = [pc EXCEPT ![t] = "idle"] /\ Copying(t) /\ WakeOne("send")
    BY <1>0, <1>12, FreeSlotStep
  <2>2. {t} \in SUBSET Threads /\ \A u \in {t} : Side(u) = "none"  BY <1>3, <2>1
  <2>3. \A u \in Threads \ {t} : pc'[u] = pc[u]  BY <1>1, <2>1 DEF StoreTypes
  <2>4. "send" \in Lists /\ Left("send")' = Left("send") + 1  BY <2>1 DEF Left, Lists
  <2>5. \A k \in Lists \ {"send"} : Left(k)' <= Left(k)
    <3>1. \A k \in Lists \ {"send"} : Left(k)' = Left(k)  BY <2>1 DEF Left, Lists
    <3> QED  BY <1>4, <3>1
  <2>6. IInv'  BY <2>1, <2>2, <2>3, <2>4, <2>5, PassStep
  <2> QED  BY <2>1, <2>6
<1>13. ASSUME NEW timed \in BOOLEAN, RecvBlocks(t, timed) PROVE IInv' /\ UNCHANGED Contents
  <2>1. /\ ThreadContext /\ pc[t] = "idle" /\ entry = 0 /\ Wait(t, "recv", timed)
        /\ pc' = [pc EXCEPT ![t] = IF timed THEN "timedrecv" ELSE "recv"]
        /\ UNCHANGED <<content, listVars, slot, alive, message>>
    BY <1>13 DEF RecvBlocks, Idle, Wait
  <2>2. pc' \in [Threads -> Places]  BY <1>1, <2>1 DEF StoreTypes, Places
  <2>3. Receiving(t)' /\ ~Sending(t)' /\ ~Copying(t)' /\ ~Fills(t)'
        /\ \A u \in Threads \ {t} : pc'[u] = pc[u]
    BY <1>1, <2>1 DEF StoreTypes, Receiving, Sending, Copying, Fills
  <2>4. Side(t)' = "recv"  BY <2>3 DEF Side
  <2>5. Posts'  BY <1>1, <2>1, <2>3 DEF Posts, Fills, Sending
  <2>6. "recv" \in Lists /\ Left("recv") = 0  BY <2>1 DEF Lists, Left
  <2>7. \A u \in Threads : pc'[u] = pc[u] \/ (~Keeps(u) /\ ~Copying(u)')
    BY <1>3, <2>1, <2>3
  <2>8. Storage' /\ UNCHANGED <<Contents, entry, Free>>
    BY <1>0, <1>1, <2>1, <2>2, <2>5, <2>7, StoreSame DEF StoreTypes
  <2>9. IInv'  BY <1>3, <2>1, <2>3, <2>4, <2>6, <2>8, WaitStep
  <2> QED  BY <2>8, <2>9
<1>14. ASSUME NEW m \in Messages, NEW timed \in BOOLEAN, SendBlocks(t, m, timed)
       PROVE  IInv' /\ UNCHANGED Contents
  <2>1. /\ ThreadContext /\ pc[t] = "idle" /\ qfree = Null /\ Wait(t, "send", timed)
        /\ pc' = [pc EXCEPT ![t] = IF timed THEN "timedsend" ELSE "send"]
        /\ message' = [message EXCEPT ![t] = m]
        /\ UNCHANGED <<content, listVars, slot, alive>>
    BY <1>14 DEF SendBlocks, Idle, Wait
  <2>2. pc' \in [Threads -> Places] /\ message' \in [Threads -> Words] /\ alive' \in BOOLEAN
    BY <1>1, <2>1 DEF StoreTypes, Places, Words
  <2>3. ~Receiving(t)' /\ Sending(t)' /\ ~Copying(t)' /\ message'[t] = m
        /\ \A u \in Threads \ {t} : pc'[u] = pc[u] /\ message'[u] = message[u]
    BY <1>1, <2>1 DEF StoreTypes, Receiving, Sending, Copying
  <2>4. Side(t)' = "send"  BY <2>3 DEF Side
  <2>5. Posts'  BY <1>1, <2>3 DEF Posts, Fills, Sending
  <2>6. "send" \in Lists /\ Left("send") = 0
    <3>1. Len(Free) = 0  BY <1>0, <2>1, StoreFacts
    <3> QED  BY <3>1 DEF Lists, Left
  <2>7. \A u \in Threads : pc'[u] = pc[u] \/ (~Keeps(u) /\ ~Copying(u)')
    BY <1>3, <2>1, <2>3
  <2>8. Storage' /\ UNCHANGED <<Contents, entry, Free>>
    BY <1>0, <2>1, <2>2, <2>5, <2>7, StoreSame
  <2>9. \A u \in Threads \ {t} : pc'[u] = pc[u]  BY <2>3
  <2>10. IInv'  BY <1>3, <2>1, <2>4, <2>6, <2>8, <2>9, WaitStep
  <2> QED  BY <2>8, <2>10
<1>15. CASE WaitsAgain(t)
  <2> DEFINE l == IF Receiving(t) THEN "recv" ELSE "send"
  <2>1. /\ ThreadContext /\ ~Suspended(t)
        /\ Receiving(t) \/ Sending(t)
        /\ Receiving(t) => entry = 0
        /\ Sending(t) => qfree = Null
        /\ Wait(t, l, Timed(t)) /\ UNCHANGED <<pc, message, content, listVars, slot, alive>>
    BY <1>15 DEF WaitsAgain, Outrun, Runs, Wait
  <2>2. l \in Lists /\ Left(l) = 0 /\ Side(t) = l
    <3>1. qfree = Null => Len(Free) = 0  BY <1>0, StoreFacts
    <3> QED  BY <2>1, <3>1 DEF Lists, Left, Side
  <2>3. Timed(t) \in BOOLEAN  BY DEF Timed
  <2>4. Side(t)' = l  BY <2>1, <2>2 DEF Side, Receiving, Sending
  <2>5. Posts'  BY <1>1, <2>1 DEF Posts, Fills, Sending
  <2>6. /\ pc' \in [Threads -> Places] /\ message' \in [Threads -> Words] /\ alive' \in BOOLEAN
        /\ \A u \in Threads : pc'[u] = pc[u]
    BY <1>1, <2>1 DEF StoreTypes
  <2> HIDE DEF l
  <2>7. Storage' /\ UNCHANGED <<Contents, entry, Free>>
    BY <1>0, <2>1, <2>5, <2>6, StoreSame
  <2>8. IInv'  BY <2>1, <2>2, <2>3, <2>4, <2>6, <2>7, WaitStep
  <2> QED  BY <2>7, <2>8
<1>16. ASSUME GiveUp(t), ~Keeps(t)
       PROVE  /\ Storage' /\ UNCHANGED <<Contents, entry, Free>>
              /\ \A l \in Lists : Left(l)' = Left(l)
              /\ \A u \in Threads \ {t} : pc'[u] = pc[u]
  <2>1. /\ pc' = [pc EXCEPT ![t] = "idle"] /\ message' = [message EXCEPT ![t] = NoMessage]
        /\ UNCHANGED <<content, listVars, alive, slot>>
    BY <1>16 DEF GiveUp
  <2>2. pc' \in [Threads -> Places] /\ message' \in [Threads -> Words] /\ alive' \in BOOLEAN
    BY <1>1, <2>1 DEF StoreTypes, Places, Words
  <2>3. ~Copying(t)' /\ ~Fills(t)'
        /\ \A u \in Threads \ {t} : pc'[u] = pc[u] /\ message'[u] = message[u]
    BY <1>1, <2>1 DEF StoreTypes, Copying, Fills, Sending
  <2>4. Posts'  BY <1>1, <2>3 DEF Posts, Fills, Sending
  <2>5. \A u \in Threads : pc'[u] = pc[u] \/ (~Keeps(u) /\ ~Copying(u)')
    BY <1>16, <2>3
  <2>6. Storage' /\ UNCHANGED <<Contents, entry, Free>>
    BY <1>0, <2>1, <2>2, <2>4, <2>5, StoreSame
  <2> QED  BY <2>3, <2>6 DEF Left
<1>17. CASE WaitFails(t)
  <2>1. /\ error[t] # "EOK" /\ ~Suspended(t) /\ GiveUp(t) /\ UNCHANGED <<suspVars, lost>>
        /\ Receiving(t) \/ Sending(t)
    BY <1>17 DEF WaitFails, Runs
  <2>2. /\ Storage' /\ UNCHANGED <<Contents, entry, Free>>
        /\ \A l \in Lists : Left(l)' = Left(l)
        /\ \A u \in Threads \ {t} : pc'[u] = pc[u]
    BY <1>3, <1>16, <2>1
  <2>3. \A l \in Lists : Left(l)' <= Left(l) /\ t \notin Coming(l)
    BY <1>4, <2>1, <2>2 DEF Coming, Woken
  <2>4. IInv'  BY <2>1, <2>2, <2>3, AwakeStep
  <2> QED  BY <2>2, <2>4
<1>18. CASE TimeIsUp(t)
  <2>1. /\ ~Suspended(t)
        /\ Receiving(t) \/ Sending(t)
        /\ Receiving(t) => entry = 0
        /\ Sending(t) => qfree = Null
        /\ error' = [error EXCEPT ![t] = IF Receiving(t) THEN "ETIMEOUT" ELSE "EINTR"]
        /\ GiveUp(t) /\ UNCHANGED <<susp, armed, ttmr, expiring, prio, lost>>
    BY <1>18 DEF TimeIsUp, Outrun, Runs
  <2>2. /\ Storage' /\ UNCHANGED <<Contents, entry, Free>>
        /\ \A l \in Lists : Left(l)' = Left(l)
        /\ \A u \in Threads \ {t} : pc'[u] = pc[u]
    BY <1>3, <1>16, <2>1
  <2>3. WaitTypes /\ Timers /\ OnOneList(susp)  BY <1>0, SuspFacts DEF Waits
  <2>4. error' \in [Threads -> Errors] /\ \A u \in Threads \ {t} : error'[u] = error[u]
    BY <2>1, <2>3 DEF WaitTypes, Errors
  <2>5. WaitTypes'  BY <2>1, <2>3, <2>4 DEF WaitTypes
  <2>6. Timers' /\ OnOneList(susp')
    BY <2>1, <2>3 DEF Timers, Suspended, ThreadContext
  <2>7. \A l \in Lists : \A u \in Threads :
           Holds(susp'[l], u) => Holds(susp[l], u) /\ pc'[u] = pc[u]
    BY <1>1, <2>1, <2>2
  <2>8. ASSUME NEW l \in Lists
        PROVE  Left(l)' = 0 \/ (Left(l)' <= Left(l) /\ \A u \in Threads : u \in Coming(l) => u \in Coming(l)')
    <3>1. Left(l)' = Left(l) /\ Left(l) \in Nat  BY <1>4, <2>2
    <3>2. CASE Side(t) = l
      <4>1. qfree = Null => Len(Free) = 0  BY <1>0, StoreFacts
      <4>2. Left(l) = 0  BY <1>3, <2>1, <3>2, <4>1 DEF Left
      <4> QED  BY <3>1, <4>2
    <3>3. CASE Side(t) # l
      <4>1. ASSUME NEW u \in Threads, u \in Coming(l) PROVE u \in Coming(l)'
        <5>1. u # t  BY <3>3, <4>1 DEF Coming
        <5> QED  BY <2>1, <2>2, <2>4, <4>1, <5>1
                 DEF Coming, Woken, Side, Receiving, Sending, Suspended
      <4> QED  BY <3>1, <4>1
    <3> QED  BY <3>2, <3>3
  <2>9. IInv'  BY <2>1, <2>2, <2>5, <2>6, <2>7, <2>8, QuietStep
  <2> QED  BY <2>2, <2>9
<1>19. CASE SendFails(t) \/ RecvFails(t)
  <2>1. UNCHANGED vars  BY <1>19 DEF SendFails, RecvFails
  <2> QED  BY <2>1, UnchangedStep
<1> QED  BY <1>7, <1>8, <1>9, <1>10, <1>11, <1>12, <1>13, <1>14, <1>15, <1>17, <1>18, <1>19
         DEF ThreadOps

LEMMA InvInit == Init => IInv
<1> SUFFICES ASSUME Init PROVE IInv  OBVIOUS
<1>1. Storage  BY StoreInit
<1>2. /\ susp = [l \in Lists |-> <<>>] /\ armed = {} /\ ttmr = {}
      /\ error = [t \in Threads |-> "EOK"] /\ expiring = NoThread /\ lost = FALSE
  BY DEF Init, Lists
<1>3. WaitTypes
  <2>1. <<>> \in Seq(Threads)  OBVIOUS
  <2>2. susp \in [Lists -> Seq(Threads)]  BY <1>2, <2>1
  <2> QED  BY <1>2, <2>2 DEF WaitTypes, Errors
<1>4. Sleepers
  <2>1. OnOneList(susp)  BY <1>2 DEF OnOneList, Distinct, Holds
  <2>2. \A l \in Lists : \A t \in Threads : ~Holds(susp[l], t)
    <3>1. \A l \in Lists : susp[l] = <<>>  BY <1>2
    <3>2. \A t : ~Holds(<<>>, t)  BY DEF Holds
    <3> QED  BY <3>1, <3>2
  <2> QED  BY <2>1, <2>2 DEF Sleepers
<1>5. Timers  BY <1>2 DEF Timers, ThreadContext
<1>6. Attended  BY <1>2 DEF Attended
<1> QED  BY <1>1, <1>3, <1>4, <1>5, <1>6 DEF IInv, Waits

LEMMA InvStep == IInv /\ [Next]_vars => IInv' /\ [Chain!QueueNext]_Contents
<1> SUFFICES ASSUME IInv, [Next]_vars PROVE IInv' /\ (Chain!QueueNext \/ UNCHANGED Contents)
  OBVIOUS
<1>0. Storage  BY DEF IInv
<1>1. {} \in SUBSET Threads /\ \A t \in {} : Side(t) = "none"  OBVIOUS
<1>2. \A l \in Lists : Left(l) \in Nat  BY <1>0, LeftFacts
<1>3. ASSUME NEW t \in Threads, ThreadOps(t)
      PROVE  IInv' /\ (Chain!QueueNext \/ UNCHANGED Contents)
  BY <1>3, ThreadStep
<1>4. CASE \E t \in Threads : WaitEvents(t)  BY <1>4, WaitEventStep
<1>5. ASSUME NEW m \in Messages, SendFromIrq(m) PROVE IInv' /\ Chain!QueueNext
  <2>1. /\ Storage' /\ Chain!QueueNext /\ entry' = entry + 1
        /\ Len(Free) \in Nat /\ Len(Free)' = Len(Free) - 1 /\ pc' = pc /\ WakeOne("recv")
    BY <1>0, <1>5, SendFromIrqStep
  <2>2. "recv" \in Lists /\ Left("recv")' = Left("recv") + 1  BY <2>1 DEF Left, Lists
  <2>3. \A k \in Lists \ {"recv"} : Left(k)' <= Left(k)
    <3>1. \A k \in Lists \ {"recv"} : Left(k)' = Left(k) - 1  BY <2>1 DEF Left, Lists
    <3> QED  BY <1>2, <3>1
  <2>4. \A t \in Threads \ {} : pc'[t] = pc[t]  BY <2>1
  <2>5. IInv'  BY <1>1, <2>1, <2>2, <2>3, <2>4, PassStep
  <2> QED  BY <2>1, <2>5
<1>6. CASE RecvFromIrq
  <2>1. /\ Storage' /\ Contents # <<>> /\ Contents' = Tail(Contents)
        /\ entry \in Nat /\ entry' = entry - 1
        /\ Len(Free)' = Len(Free) + 1 /\ pc' = pc /\ WakeOne("send")
    BY <1>0, <1>6, RecvFromIrqStep
  <2>2. "send" \in Lists /\ Left("send")' = Left("send") + 1  BY <2>1 DEF Left, Lists
  <2>3. \A k \in Lists \ {"send"} : Left(k)' <= Left(k)
    <3>1. \A k \in Lists \ {"send"} : Left(k)' = Left(k) - 1  BY <2>1 DEF Left, Lists
    <3> QED  BY <1>2, <3>1
  <2>4. \A t \in Threads \ {} : pc'[t] = pc[t]  BY <2>1
  <2>5. IInv'  BY <1>1, <2>1, <2>2, <2>3, <2>4, PassStep
  <2> QED  BY <2>1, <2>5 DEF Chain!QueueNext, Chain!Get
<1>7. CASE Reset \/ Detach  BY <1>7, EverybodyResumed
<1>8. CASE ThreadTimeout /\ UNCHANGED mqVars  BY <1>8, WaitEventStep
<1>9. CASE UNCHANGED vars  BY <1>9, UnchangedStep
<1> QED  BY <1>3, <1>4, <1>5, <1>6, <1>7, <1>8, <1>9 DEF Next

-----------------------------------------------------------------------------
\* The slots on the two lists are different, and those on neither are the slots
\* of the threads that copy: one each.
LEMMA StoreIsSound == Storage => ChainsSound
<1> SUFFICES ASSUME Storage PROVE ChainsSound  OBVIOUS
<1> DEFINE places == Queued \o Free
<1>1. /\ Queued \in Seq(Slots) /\ Distinct(Queued) /\ Free \in Seq(Slots) /\ Distinct(Free)
      /\ ~Listed(Null)
  BY StoreFacts
<1>2. EndsMatchChain /\ \A s \in Slots : ~(Holds(Queued, s) /\ Holds(Free, s))
  BY DEF Storage, Chains, ChainsOf, EndsMatchChain
<1>3. Owners /\ slot \in [Threads -> Nodes]  BY DEF Storage, StoreTypes
<1>4. /\ places \in Seq(Slots) /\ Len(places) = Len(Queued) + Len(Free)
      /\ \A i \in 1..Len(places) :
            places[i] = IF i <= Len(Queued) THEN Queued[i] ELSE Free[i - Len(Queued)]
  BY <1>1
<1>5. DOMAIN places = 1..Len(places) /\ DOMAIN Queued = 1..Len(Queued) /\ DOMAIN Free = 1..Len(Free)
      /\ Len(Queued) \in Nat /\ Len(Free) \in Nat
  BY <1>1, <1>4
<1> HIDE DEF places
<1>6. \A u : Holds(places, u) <=> Listed(u)
  <2>1. ASSUME NEW u, Holds(places, u) PROVE Listed(u)
    <3>1. PICK i \in 1..Len(places) : places[i] = u  BY <1>5, <2>1 DEF Holds
    <3>2. CASE i <= Len(Queued)  BY <1>4, <1>5, <3>1, <3>2 DEF Listed, Holds
    <3>3. CASE ~(i <= Len(Queued))
      <4>1. i - Len(Queued) \in 1..Len(Free)  BY <1>4, <1>5, <3>3
      <4> QED  BY <1>4, <1>5, <3>1, <3>3, <4>1 DEF Listed, Holds
    <3> QED  BY <3>2, <3>3
  <2>2. ASSUME NEW u, Holds(Queued, u) PROVE Holds(places, u)
    <3>1. PICK i \in 1..Len(Queued) : Queued[i] = u  BY <1>5, <2>2 DEF Holds
    <3>2. i \in 1..Len(places) /\ places[i] = u  BY <1>4, <1>5, <3>1
    <3> QED  BY <1>5, <3>2 DEF Holds
  <2>3. ASSUME NEW u, Holds(Free, u) PROVE Holds(places, u)
    <3>1. PICK i \in 1..Len(Free) : Free[i] = u  BY <1>5, <2>3 DEF Holds
    <3> DEFINE j == Len(Queued) + i
    <3>2. j \in 1..Len(places) /\ ~(j <= Len(Queued)) /\ j - Len(Queued) = i  BY <1>4, <1>5, <3>1
    <3> HIDE DEF j
    <3>3. places[j] = u  BY <1>4, <3>1, <3>2
    <3> QED  BY <1>5, <3>2, <3>3 DEF Holds
  <2> QED  BY <2>1, <2>2, <2>3 DEF Listed
<1>7. Distinct(places)
  <2> SUFFICES ASSUME NEW i \in 1..Len(places), NEW j \in 1..Len(places), places[i] = places[j]
               PROVE  i = j
    BY <1>5 DEF Distinct
  <2>1. CASE i <= Len(Queued) /\ j <= Len(Queued)
    <3>1. i \in DOMAIN Queued /\ j \in DOMAIN Queued /\ Queued[i] = Queued[j]
      BY <1>4, <1>5, <2>1
    <3> QED  BY <1>1, <3>1 DEF Distinct
  <2>2. CASE ~(i <= Len(Queued)) /\ ~(j <= Len(Queued))
    <3>1. i - Len(Queued) \in DOMAIN Free /\ j - Len(Queued) \in DOMAIN Free
          /\ Free[i - Len(Queued)] = Free[j - Len(Queued)]
      BY <1>4, <1>5, <2>2
    <3>2. i - Len(Queued) = j - Len(Queued)  BY <1>1, <3>1 DEF Distinct
    <3> QED  BY <1>5, <3>2
  <2>3. ASSUME NEW a \in 1..Len(places), NEW b \in 1..Len(places), places[a] = places[b],
               a <= Len(Queued), ~(b <= Len(Queued))
        PROVE  FALSE
    <3>1. a \in DOMAIN Queued /\ Queued[a] = places[a]  BY <1>4, <1>5, <2>3
    <3>2. b - Len(Queued) \in DOMAIN Free /\ Free[b - Len(Queued)] = places[b]
      BY <1>4, <1>5, <2>3
    <3>3. Holds(Queued, places[a]) /\ Holds(Free, places[a]) /\ places[a] \in Slots
      BY <1>4, <2>3, <3>1, <3>2 DEF Holds
    <3> QED  BY <1>2, <3>3
  <2> QED  BY <2>1, <2>2, <2>3
<1>8. \A u : u \in Range(places) <=> Holds(places, u)  BY DEF Range, Holds
<1>9. Slots \ Range(places) = {slot[t] : t \in InTransit}
  <2>1. \A s \in Slots : s \notin Range(places) => \E t \in InTransit : slot[t] = s
    <3>1. ASSUME NEW s \in Slots, s \notin Range(places) PROVE \E t \in InTransit : slot[t] = s
      <4>1. PICK t \in Threads : slot[t] = s  BY <1>3, <1>6, <1>8, <3>1 DEF Owners
      <4> QED  BY <4>1 DEF InTransit
    <3> QED  BY <3>1
  <2>2. \A t \in InTransit : slot[t] \in Slots /\ slot[t] \notin Range(places)
    BY <1>3, <1>6, <1>8 DEF InTransit, Owners, Nodes
  <2> QED  BY <2>1, <2>2
<1>10. Cardinality(InTransit) = Cardinality(Slots) - Len(places)
  <2> DEFINE away == {slot[t] : t \in InTransit}
             f == [t \in InTransit |-> slot[t]]
             listed == {s \in Slots : Holds(places, s)}
  <2>1. IsFiniteSet(InTransit)
    <3>1. InTransit \in SUBSET Threads  BY DEF InTransit
    <3> QED  BY <3>1, FS_Subset
  <2>2. f \in Bijection(InTransit, away)
    <3>1. f \in [InTransit -> away]  OBVIOUS
    <3>2. \A t, u \in InTransit : f[t] = f[u] => t = u  BY <1>3 DEF InTransit, Owners
    <3>3. \A s \in away : \E t \in InTransit : f[t] = s  OBVIOUS
    <3> QED  BY <3>1, <3>2, <3>3 DEF Bijection, Injection, Surjection, IsInjective
  <2>3. ExistsBijection(InTransit, away)  BY <2>2 DEF ExistsBijection
  <2>4. Cardinality(away) = Cardinality(InTransit)  BY <2>1, <2>3, FS_Bijection
  <2>5. Len(places) = Cardinality(listed)  BY <1>4, <1>7, DistinctLen
  <2>6. away = Slots \ listed  BY <1>8, <1>9
  <2>7. Slots \cap listed = listed  OBVIOUS
  <2> HIDE DEF away, listed
  <2>8. Cardinality(Slots \ listed) = Cardinality(Slots) - Cardinality(Slots \cap listed)
    BY FS_Difference
  <2> QED  BY <2>4, <2>5, <2>6, <2>7, <2>8
<1>11. SlotsConserved  BY <1>7, <1>9, <1>10 DEF SlotsConserved, places
<1> QED  BY <1>2, <1>11 DEF ChainsSound

-----------------------------------------------------------------------------
\* What a message queue keeps in its fields and its two suspend lists has its
\* type, and its counter stays within the pool.
THEOREM MessageQueueTypeCorrect == Spec => []TypeOK
<1>1. IInv /\ [Next]_vars => IInv'  BY InvStep
<1>2. IInv => TypeOK  BY TypesFacts DEF IInv, Waits
<1> QED  BY InvInit, <1>1, <1>2, PTL DEF Spec

\* No slot is lost or in two places, however the copies that run with interrupts
\* enabled cross sends, receives, RT_IPC_CMD_RESET and deleted threads; and the
\* counter and msg_queue_tail agree with the chain of slots.
THEOREM ChainsSoundAlways == Spec => []ChainsSound
<1>1. IInv /\ [Next]_vars => IInv'  BY InvStep
<1>2. IInv => ChainsSound  BY StoreIsSound DEF IInv
<1> QED  BY InvInit, <1>1, <1>2, PTL DEF Spec

\* No wakeup is lost: while receivers sleep every message in the queue has
\* somebody awake coming for it, and while senders sleep every free slot has.
THEOREM NobodyForgottenAlways == Spec => []NobodyForgotten
<1>1. IInv /\ [Next]_vars => IInv'  BY InvStep
<1>2. IInv => NobodyForgotten  BY AttendedFacts DEF IInv
<1> QED  BY InvInit, <1>1, <1>2, PTL DEF Spec

\* The message queue implements a bounded queue: linking a filled slot puts its
\* message, unlinking a slot gets one, RT_IPC_CMD_RESET clears the queue, and no
\* other step (taking and freeing a slot among them) touches its contents.
THEOREM MessageQueueRefinesQueue == Spec => RefinesQueue
<1>1. Init => Chain!QueueInit  BY StoreInit DEF Chain!QueueInit
<1>2. IInv /\ [Next]_vars => IInv'  BY InvStep
<1>3. IInv /\ [Next]_vars => [Chain!QueueNext]_Contents  BY InvStep
<1> QED  BY InvInit, <1>1, <1>2, <1>3, PTL DEF Spec, RefinesQueue, Chain!QueueSpec
=============================================================================
