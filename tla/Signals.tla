------------------------------ MODULE Signals -------------------------------
(***************************************************************************)
(* The periodic timer interrupt of one CPU and the interval timers that    *)
(* send signals from it: update_timer and do_signal of the runtime, the    *)
(* Signal structure, and the calls sigaction and setitimer.  A thread may  *)
(* be interrupted between any two steps of its call.                       *)
(***************************************************************************)
EXTENDS Integers, FiniteSets

CONSTANTS Whichs,      \* the timers used: 0 .. 2
          PERIOD,      \* PERIODIC_INTERVAL_NANOS
          LATENCY,     \* how late an interrupt may be taken
          MaxTime,     \* the clock stops here
          ItValues,    \* it_value of a setitimer call
          ItIntervals, \* it_interval
          MaxItimers   \* calls of setitimer

\* An interval timer sends at most one signal per interrupt: intervals that
\* are shorter than the time between two interrupts fall behind.
ASSUME IntervalsFit == \A i \in ItIntervals : i = 0 \/ i >= PERIOD + LATENCY

TimerSignal == [w \in Whichs |-> CASE w = 0 -> 14 [] w = 1 -> 26 [] OTHER -> 27]
Signums == {TimerSignal[w] : w \in Whichs}

VARIABLES sg_now,
          NEXT_DEADLINE, sg_oneshot, sg_tick,      \* sg_tick: the last interrupt
          sg_signal, sg_action, timer_value, timer_interval,
          sg_pc, sg_runs,                          \* sg_runs: handler calls since the timer was set
          sg_armed, sg_late,                       \* the first deadline, and whether it had passed when it was set
          sg_calls, sg_panic
sg_vars == <<sg_now, NEXT_DEADLINE, sg_oneshot, sg_tick, sg_signal, sg_action, timer_value, timer_interval,
             sg_pc, sg_runs, sg_armed, sg_late, sg_calls, sg_panic>>

Idle == [op |-> "idle"]

SgInit ==
    /\ sg_now = 1 /\ sg_tick = 0
    /\ NEXT_DEADLINE = 0 /\ sg_oneshot = 1
    /\ sg_signal = {} /\ sg_action = [s \in Signums |-> "default_handler"]
    /\ timer_value = [w \in Whichs |-> 0] /\ timer_interval = [w \in Whichs |-> 0]
    /\ sg_pc = Idle /\ sg_runs = [w \in Whichs |-> 0] /\ sg_armed = [w \in Whichs |-> 0] /\ sg_late = {}
    /\ sg_calls = 0 /\ sg_panic = FALSE

time_passes ==
    /\ ~sg_panic /\ sg_now < MaxTime /\ sg_now < sg_oneshot + LATENCY
    /\ sg_now' = sg_now + 1
    /\ UNCHANGED <<NEXT_DEADLINE, sg_oneshot, sg_tick, sg_signal, sg_action, timer_value, timer_interval,
                   sg_pc, sg_runs, sg_armed, sg_late, sg_calls, sg_panic>>

-----------------------------------------------------------------------------
(* The interrupt.                                                           *)

update_timer ==
    LET deadline == IF sg_now >= NEXT_DEADLINE THEN sg_now + PERIOD ELSE NEXT_DEADLINE
    IN  /\ NEXT_DEADLINE' = deadline + PERIOD
        /\ sg_oneshot' = deadline

\* The timers that are due send their signals and move on; then each pending
\* signal is handled and cleared, the default handler being a panic.
Expired == {w \in Whichs : timer_value[w] # 0 /\ sg_now >= timer_value[w]}

\* A timer that starts its next interval when it is handled.
mut_next_deadline(w) == IF timer_interval[w] = 0 THEN 0 ELSE sg_now + timer_interval[w]
next_deadline(w) == IF timer_interval[w] = 0 THEN 0 ELSE timer_value[w] + timer_interval[w]

do_signal ==
    LET pending == sg_signal \cup {TimerSignal[w] : w \in Expired} IN
    /\ timer_value' = [w \in Whichs |-> IF w \in Expired THEN next_deadline(w) ELSE timer_value[w]]
    /\ sg_panic' = \E s \in pending : sg_action[s] = "default_handler"
    /\ sg_signal' = IF sg_panic' THEN pending ELSE {}
    /\ sg_runs' = [w \in Whichs |-> sg_runs[w] + IF TimerSignal[w] \in pending THEN 1 ELSE 0]

timer_interrupt ==
    /\ ~sg_panic /\ sg_now >= sg_oneshot
    /\ update_timer
    /\ do_signal
    /\ sg_tick' = sg_now
    /\ UNCHANGED <<sg_now, sg_action, timer_interval, sg_pc, sg_armed, sg_late, sg_calls>>

-----------------------------------------------------------------------------
(* The thread.                                                              *)

ThreadUnchanged == UNCHANGED <<sg_now, NEXT_DEADLINE, sg_oneshot, sg_tick, sg_signal, sg_panic>>

sigaction(s) ==
    /\ ~sg_panic /\ sg_pc = Idle /\ sg_action[s] = "default_handler"
    /\ sg_action' = [sg_action EXCEPT ![s] = "handler"]
    /\ ThreadUnchanged /\ UNCHANGED <<timer_value, timer_interval, sg_pc, sg_runs, sg_armed, sg_late, sg_calls>>

\* setitimer writes the interval first ...
sys_setitimer(w, value, interval) ==
    /\ ~sg_panic /\ sg_pc = Idle /\ sg_calls < MaxItimers
    /\ timer_interval' = [timer_interval EXCEPT ![w] = interval]
    /\ sg_pc' = [op |-> "setitimer", which |-> w, value |-> value]
    /\ sg_calls' = sg_calls + 1
    /\ ThreadUnchanged /\ UNCHANGED <<sg_action, timer_value, sg_runs, sg_armed, sg_late>>

\* ... reads the clock ...
setitimer_now ==
    /\ ~sg_panic /\ sg_pc.op = "setitimer"
    /\ sg_pc' = [op |-> "deadline", which |-> sg_pc.which, new_ddl |-> sg_now + sg_pc.value]
    /\ ThreadUnchanged /\ UNCHANGED <<sg_action, timer_value, timer_interval, sg_runs, sg_armed, sg_late, sg_calls>>

\* ... and writes the deadline.
timer_deadline ==
    /\ ~sg_panic /\ sg_pc.op = "deadline"
    /\ timer_value' = [timer_value EXCEPT ![sg_pc.which] = sg_pc.new_ddl]
    /\ sg_armed' = [sg_armed EXCEPT ![sg_pc.which] = sg_pc.new_ddl]
    /\ sg_late' = (sg_late \ {sg_pc.which}) \cup IF sg_tick >= sg_pc.new_ddl THEN {sg_pc.which} ELSE {}
    /\ sg_runs' = [sg_runs EXCEPT ![sg_pc.which] = 0]
    /\ sg_pc' = Idle
    /\ ThreadUnchanged /\ UNCHANGED <<sg_action, timer_interval, sg_calls>>

SgNext ==
    \/ time_passes
    \/ timer_interrupt
    \/ \E s \in Signums : sigaction(s)
    \/ \E w \in Whichs, v \in ItValues, i \in ItIntervals : sys_setitimer(w, v, i)
    \/ setitimer_now
    \/ timer_deadline

-----------------------------------------------------------------------------
\* Expirations of timer w up to the last interrupt.
Due(w) ==
    IF sg_armed[w] = 0 \/ sg_tick < sg_armed[w] THEN 0
    ELSE IF timer_interval[w] = 0 THEN 1
    ELSE (sg_tick - sg_armed[w]) \div timer_interval[w] + 1

Setting(w) == sg_pc.op \in {"setitimer", "deadline"} /\ sg_pc.which = w

(* A timer's handler has run once for each expiration up to the last timer  *)
(* interrupt, however late the interrupts were; a timer whose setitimer was *)
(* interrupted beyond its first deadline lags behind but loses nothing; and *)
(* the next interrupt is never further away than one period: do_signal and  *)
(* update_timer.                                                            *)
SignalsOnSchedule ==
    /\ sg_tick > 0 => sg_oneshot \in sg_tick + 1 .. sg_tick + PERIOD
    /\ \A w \in Whichs : ~sg_panic /\ ~Setting(w) =>
         /\ IF w \in sg_late THEN sg_runs[w] <= Due(w) ELSE sg_runs[w] = Due(w)
         /\ sg_armed[w] # 0 /\ timer_interval[w] # 0 => timer_value[w] = sg_armed[w] + sg_runs[w] * timer_interval[w]
=============================================================================
