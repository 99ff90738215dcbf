---------------------------- MODULE MCScheduler ----------------------------
(* Small instances of Scheduler: the idle thread and some others. *)
EXTENDS Scheduler, TLC

CONSTANTS idle, a, b, c

MCThreads == {idle, a, b, c}
MCPrio == idle :> 2 @@ a :> 0 @@ b :> 1 @@ c :> 1
MCSlice == idle :> 1 @@ a :> 1 @@ b :> 2 @@ c :> 1
=============================================================================
