---------------------------- MODULE BoundedQueue ----------------------------
(***************************************************************************)
(* What a mailbox, a message queue and a data queue promise: a queue of    *)
(* limited length whose items come out in the order they went in, urgent   *)
(* ones first.                                                             *)
(***************************************************************************)
EXTENDS Naturals, Sequences

CONSTANTS Items, Capacity

VARIABLE queue

QueueInit == queue = <<>>

Put(v) == Len(queue) < Capacity /\ queue' = Append(queue, v)
PutFirst(v) == Len(queue) < Capacity /\ queue' = <<v>> \o queue
Get == queue # <<>> /\ queue' = Tail(queue)
Clear == queue' = <<>>

QueueNext == Get \/ Clear \/ \E v \in Items : Put(v) \/ PutFirst(v)

QueueSpec == QueueInit /\ [][QueueNext]_queue

\* Where nothing is urgent.
FifoSpec == QueueInit /\ [][Get \/ Clear \/ \E v \in Items : Put(v)]_queue
=============================================================================
