---------------------------- MODULE MCWorkQueue ----------------------------
(* A small instance of WorkQueue: two items of work, one thread that cancels
   them synchronously, and a counter of three bits. *)
EXTENDS WorkQueue

CONSTANTS w1, w2, c1

MCWorks == {w1, w2}
=============================================================================
