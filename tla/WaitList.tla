------------------------------ MODULE WaitList ------------------------------
(***************************************************************************)
(* The list of threads suspended on a kernel object (rt_list_t) as a       *)
(* sequence.  A thread is on at most one list, through the one list node   *)
(* of its control block, and at most once.                                 *)
(***************************************************************************)
EXTENDS Naturals, Sequences, SequencesExt

Holds(s, t) == \E i \in DOMAIN s : s[i] = t

\* No thread stands on the list twice.
Distinct(s) == \A i, j \in DOMAIN s : s[i] = s[j] => i = j

\* The list is in order of priority, the most urgent (smallest) first.
Sorted(s, prio) == \A i, j \in DOMAIN s : i < j => prio[s[i]] <= prio[s[j]]

\* Positions of s that hold a less urgent thread than t.
LessUrgent(s, t, prio) == {i \in DOMAIN s : prio[t] < prio[s[i]]}

\* Faulty: the priority flag of the object is ignored.
EnqueueAtTail(s, t, flag, prio) == Append(s, t)

\* rt_susp_list_enqueue: at the tail, or before the first less urgent thread.
Enqueue(s, t, flag, prio) ==
    LET after == LessUrgent(s, t, prio)
    IN  IF flag = "PRIO" /\ after # {}
        THEN InsertAt(s, CHOOSE i \in after : \A j \in after : i <= j, t)
        ELSE Append(s, t)

\* rt_list_remove of the node of t, wherever it is linked.
Unlink(s, t) ==
    IF Holds(s, t) THEN RemoveAt(s, CHOOSE i \in DOMAIN s : s[i] = t) ELSE s
=============================================================================
