------------------------------- MODULE Timer -------------------------------
(***************************************************************************)
(* The timers of rt-thread/src/timer.c: hard ones, checked in the tick     *)
(* interrupt, and soft ones, checked by the timer thread, which the tick   *)
(* wakes.  The list is unlocked while a callback runs, and whoever runs    *)
(* meanwhile, the callback included, may start, stop, change or detach any *)
(* timer; the popped one waits on a list head of _timer_check's own.  The  *)
(* tick counter wraps around.                                              *)
(*                                                                         *)
(* A timer that was detached or deleted is one that may be initialised and *)
(* started again.  Skip lists have one level here, as configured.          *)
(***************************************************************************)
EXTENDS Integers, Sequences, SequencesExt, FiniteSetsExt

CONSTANTS
    Timers,
    Soft,        \* those with RT_TIMER_FLAG_SOFT_TIMER
    Times,       \* the init_ticks used
    Ticks,       \* values of rt_tick_t: RT_TICK_MAX + 1
    MaxLate,     \* bound: ticks the timer thread may lag behind
    Off          \* no timer, or a timer that is not running

Half == (Ticks - 1) \div 2      \* RT_TICK_MAX / 2

\* rt_timer_init asserts time < RT_TICK_MAX / 2; _timer_check supposes that
\* no timer is late by half the range, and _timer_start that the one it starts
\* is due less than that after any that is late.
ASSUME TimerAssumption ==
    /\ Soft \subseteq Timers /\ Off \notin Timers \cup Int
    /\ Ticks \in Nat /\ Half > 1 /\ Times \subseteq 0..(Half - 1) /\ Times # {}
    /\ MaxLate \in 0..(Half - 1) /\ \A d \in Times : MaxLate + d <= Half

VARIABLES
    tick,        \* rt_tick
    list,        \* timer list -> entries [timer, timeout], first due first
    phase,       \* timer list -> what its _timer_check does
    popped,      \* timer list -> the timer on the list head of _timer_check
    sem,         \* _soft_timer_sem
    activated,   \* timers with RT_TIMER_FLAG_ACTIVATED
    periodic,    \* timers with RT_TIMER_FLAG_PERIODIC
    time,        \* timer -> init_tick
    wanted,      \* history: timers started and neither stopped nor finished
    left, ahead, fired   \* history: what Deadlines says of true time

timerVars == <<tick, list, phase, popped, sem, activated, periodic, time, wanted,
               left, ahead, fired>>

Kinds == {"hard", "soft"}
Phases == {"rest", "check", "callback", "take"}

Kind(t) == IF t \in Soft THEN "soft" ELSE "hard"

True == INSTANCE Deadlines

\* Unsigned subtraction of ticks.
Minus(a, b) == (a - b) % Ticks

Listed(t) == \E i \in DOMAIN list[Kind(t)] : list[Kind(t)][i].timer = t

TimerInit ==
    /\ tick = 0
    /\ list = [k \in Kinds |-> <<>>]
    /\ phase = [k \in Kinds |-> IF k = "soft" THEN "check" ELSE "rest"]
    /\ popped = [k \in Kinds |-> Off]
    /\ sem = 0
    /\ activated = {} /\ periodic = {} /\ wanted = {}
    /\ time = [t \in Timers |-> CHOOSE d \in Times : TRUE]
    /\ True!DeadlinesInit

-----------------------------------------------------------------------------
\* _timer_remove: from whichever list head it hangs on.
Removed(s, t) ==
    LET at == {i \in DOMAIN s : s[i].timer = t}
    IN  IF at = {} THEN s ELSE RemoveAt(s, CHOOSE i \in at : TRUE)
Without(t) == [list EXCEPT ![Kind(t)] = Removed(@, t)]
PoppedWithout(t) == [k \in Kinds |-> IF popped[k] = t THEN Off ELSE popped[k]]

\* Faulty: timeouts are compared as numbers.
InsertByNumber(s, e) ==
    LET later == {i \in DOMAIN s : s[i].timeout > e.timeout}
    IN  IF later = {} THEN Append(s, e) ELSE InsertAt(s, Min(later), e)

\* The place of a new entry: after those with the same timeout.
Insert(s, e) ==
    LET later == {i \in DOMAIN s : Minus(s[i].timeout, e.timeout) \in 1..(Half - 1)}
    IN  IF later = {} THEN Append(s, e) ELSE InsertAt(s, Min(later), e)

\* _timer_start
StartTimer(t) ==
    /\ list' = [Without(t) EXCEPT
                   ![Kind(t)] = Insert(@, [timer |-> t, timeout |-> (tick + time[t]) % Ticks])]
    /\ popped' = PoppedWithout(t)
    /\ activated' = activated \cup {t}
    /\ True!Begin(t, time[t])

\* Unlinked and deactivated.
StopTimer(t) ==
    /\ list' = Without(t)
    /\ popped' = PoppedWithout(t)
    /\ activated' = activated \ {t}
    /\ wanted' = wanted \ {t}
    /\ True!Cancel(t)

Unmoved == UNCHANGED <<tick, phase, sem>>

-----------------------------------------------------------------------------
\* rt_timer_start, anywhere.
Start(t) ==
    /\ StartTimer(t)
    /\ wanted' = wanted \cup {t}
    /\ UNCHANGED <<periodic, time>> /\ Unmoved

\* rt_timer_stop of an active timer.
Stop(t) ==
    /\ t \in activated
    /\ StopTimer(t)
    /\ UNCHANGED <<periodic, time>> /\ Unmoved

\* rt_timer_stop fails: -RT_ERROR, also for a one-shot timer in its callback.
StopFails(t) == t \notin activated /\ UNCHANGED timerVars

\* rt_timer_detach and rt_timer_delete.
DetachTimer(t) ==
    /\ StopTimer(t)
    /\ UNCHANGED <<periodic, time>> /\ Unmoved

\* RT_TIMER_CTRL_SET_TIME stops an active timer.
SetTime(t, d) ==
    /\ IF t \in activated THEN StopTimer(t)
       ELSE UNCHANGED <<list, popped, activated, wanted>> /\ True!Other
    /\ time' = [time EXCEPT ![t] = d]
    /\ UNCHANGED periodic /\ Unmoved

SetMode(t, p) ==
    /\ periodic' = IF p THEN periodic \cup {t} ELSE periodic \ {t}
    /\ UNCHANGED <<list, popped, activated, wanted, time>> /\ True!Other /\ Unmoved

-----------------------------------------------------------------------------
\* The tick interrupt has not interrupted a check of hard timers.
ThreadRuns == phase["hard"] = "rest"
CanCheck(k) == k = "soft" => ThreadRuns

Late(t) == left[t] # Off /\ left[t] <= -MaxLate

\* Faulty: the soft timers are looked at one tick late.
TickSeesPast ==
    /\ ThreadRuns
    /\ \A t \in Soft : ~Late(t)
    /\ tick' = (tick + 1) % Ticks
    /\ LET announced == list["soft"] # <<>> /\ Head(list["soft"]).timeout < tick'
       IN  /\ sem' = IF announced /\ phase["soft"] # "rest" THEN 1 ELSE sem
           /\ phase' = [hard |-> "check",
                        soft |-> IF announced /\ phase["soft"] = "rest" THEN "check" ELSE phase["soft"]]
    /\ True!Elapse
    /\ UNCHANGED <<list, popped, activated, periodic, time, wanted>>

\* Faulty: every tick with a soft timer due adds a unit.
TickReleasesAgain ==
    /\ ThreadRuns
    /\ \A t \in Soft : ~Late(t)
    /\ tick' = (tick + 1) % Ticks
    /\ LET announced == list["soft"] # <<>> /\ Head(list["soft"]).timeout <= tick'
       IN  /\ sem' = IF announced /\ phase["soft"] # "rest" THEN sem + 1 ELSE sem
           /\ phase' = [hard |-> "check",
                        soft |-> IF announced /\ phase["soft"] = "rest" THEN "check" ELSE phase["soft"]]
    /\ True!Elapse
    /\ UNCHANGED <<list, popped, activated, periodic, time, wanted>>

\* rt_tick_increase, up to the check of the hard timers: the timer thread is
\* woken, or the unit it will find is there, at most one.
Tick ==
    /\ ThreadRuns
    /\ \A t \in Soft : ~Late(t)
    /\ tick' = (tick + 1) % Ticks
    /\ LET announced == list["soft"] # <<>> /\ Head(list["soft"]).timeout <= tick'
       IN  /\ sem' = IF announced /\ phase["soft"] # "rest" THEN 1 ELSE sem
           /\ phase' = [hard |-> "check",
                        soft |-> IF announced /\ phase["soft"] = "rest" THEN "check" ELSE phase["soft"]]
    /\ True!Elapse
    /\ UNCHANGED <<list, popped, activated, periodic, time, wanted>>

\* _timer_check: the first timer is due.
Due(k) == list[k] # <<>> /\ Minus(tick, Head(list[k]).timeout) < Half

Pop(k) ==
    /\ CanCheck(k) /\ phase[k] = "check" /\ Due(k)
    /\ LET t == Head(list[k]).timer
       IN  /\ list' = [list EXCEPT ![k] = Tail(@)]
           /\ popped' = [popped EXCEPT ![k] = t]
           /\ activated' = IF t \in periodic THEN activated ELSE activated \ {t}
           /\ wanted' = IF t \in periodic THEN wanted ELSE wanted \ {t}
           /\ True!End(t) /\ fired' = t
    /\ phase' = [phase EXCEPT ![k] = "callback"]
    /\ UNCHANGED <<tick, sem, periodic, time>>

\* _timer_check is done; the timer thread goes to take its semaphore.
CheckEnds(k) ==
    /\ CanCheck(k) /\ phase[k] = "check" /\ ~Due(k)
    /\ phase' = [phase EXCEPT ![k] = IF k = "soft" THEN "take" ELSE "rest"]
    /\ UNCHANGED <<tick, list, popped, sem, activated, periodic, time, wanted>>
    /\ True!Other

\* Faulty: a periodic timer is started again although it is not activated.
CallbackRestarts(k) ==
    /\ CanCheck(k) /\ phase[k] = "callback"
    /\ phase' = [phase EXCEPT ![k] = "check"]
    /\ IF popped[k] \in periodic THEN StartTimer(popped[k]) /\ UNCHANGED wanted
       ELSE /\ popped' = [popped EXCEPT ![k] = Off]
            /\ wanted' = wanted \ {popped[k]}
            /\ UNCHANGED <<list, activated>> /\ True!Other
    /\ UNCHANGED <<tick, sem, periodic, time>>

\* The callback returns.  The timer was detached, stopped or started meanwhile,
\* or it is periodic and still activated and starts again, or it has finished.
CallbackReturns(k) ==
    /\ CanCheck(k) /\ phase[k] = "callback"
    /\ phase' = [phase EXCEPT ![k] = "check"]
    /\ IF popped[k] \in periodic \cap activated THEN StartTimer(popped[k]) /\ UNCHANGED wanted
       ELSE /\ popped' = [popped EXCEPT ![k] = Off]
            /\ wanted' = wanted \ {popped[k]}
            /\ UNCHANGED <<list, activated>> /\ True!Other
    /\ UNCHANGED <<tick, sem, periodic, time>>

\* rt_sem_take(&_soft_timer_sem, RT_WAITING_FOREVER)
TakeSem ==
    /\ ThreadRuns /\ phase["soft"] = "take"
    /\ sem' = 0
    /\ phase' = [phase EXCEPT !["soft"] = IF sem = 1 THEN "check" ELSE "rest"]
    /\ UNCHANGED <<tick, list, popped, activated, periodic, time, wanted>>
    /\ True!Other

TimerNext ==
    \/ \E t \in Timers :
          \/ Start(t) \/ Stop(t) \/ StopFails(t) \/ DetachTimer(t)
          \/ \E d \in Times : SetTime(t, d)
          \/ \E p \in BOOLEAN : SetMode(t, p)
    \/ \E k \in Kinds : Pop(k) \/ CheckEnds(k) \/ CallbackReturns(k)
    \/ Tick \/ TakeSem

TimerSpec == TimerInit /\ [][TimerNext]_timerVars

-----------------------------------------------------------------------------
\* Type invariant.
TimerTypeOK ==
    /\ tick \in 0..(Ticks - 1)
    /\ list \in [Kinds -> Seq([timer : Timers, timeout : 0..(Ticks - 1)])]
    /\ phase \in [Kinds -> Phases]
    /\ popped \in [Kinds -> Timers \cup {Off}]
    /\ sem \in 0..1
    /\ activated \subseteq Timers /\ periodic \subseteq Timers /\ wanted \subseteq Timers
    /\ time \in [Timers -> Times]

\* The lists sorted by a counter that wraps, the callbacks made with the list
\* unlocked and the hand-over from tick to timer thread amount to deadlines
\* that are kept, in order, in true time.
KeepsDeadlines == True!DeadlinesSpec

\* A timer runs exactly if its user started it and neither stopped it nor had
\* it finish: it is on its list, or popped and about to be started again.
\* Stops, starts and changes of mode during its callback do not break this.
RunsAsAsked ==
    /\ \A t \in Timers :
          t \in wanted <=> Listed(t) \/ (\E k \in Kinds : popped[k] = t /\ t \in activated)
    /\ wanted \subseteq activated
    /\ \A k \in Kinds : popped[k] # Off => ~Listed(popped[k])

\* The timer thread never sleeps over a soft timer that a tick has found due (a
\* timer of no ticks, due at once, is found by the next tick).
FoundDue(t) == left[t] # Off /\ (left[t] < 0 \/ (left[t] = 0 /\ 0 \notin Times))
OverdueIsAnnounced == (\E t \in Soft : FoundDue(t)) => phase["soft"] # "rest" \/ sem = 1
=============================================================================
