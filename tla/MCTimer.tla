------------------------------ MODULE MCTimer ------------------------------
(* A small instance of Timer: a hard timer, two soft ones, and a counter of
   three bits. *)
EXTENDS Timer, TLC

CONSTANTS h, s1, s2

MCTimers == {h, s1, s2}

\* The two soft timers play equal parts.
MCSymmetry == Permutations({s1, s2})
=============================================================================
