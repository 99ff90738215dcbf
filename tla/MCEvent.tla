------------------------------ MODULE MCEvent ------------------------------
(* Small instances of Event: two threads, two flags. *)
EXTENDS Event

CONSTANTS t1, t2, a, b

MCPair == {t1, t2}
MCPairPrio == t1 :> 1 @@ t2 :> 2

\* Everything a thread may ask for.
MCAll == [set : SUBSET {a, b} \ {{}}, all : BOOLEAN, clear : BOOLEAN]

\* Both flags or either, cleared; and one flag, left set.
MCSome == {[set |-> {a, b}, all |-> TRUE, clear |-> TRUE],
           [set |-> {a, b}, all |-> FALSE, clear |-> TRUE],
           [set |-> {a}, all |-> FALSE, clear |-> FALSE]}
=============================================================================
