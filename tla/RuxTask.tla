------------------------------- MODULE RuxTask -------------------------------
(***************************************************************************)
(* Tasks, wait queues, the timer list and the gc task of modules/ruxtask,  *)
(* composed with the run queue.                                            *)
(*                                                                         *)
(* A step is what one CPU does under one lock: RUN_QUEUE, the SpinRaw lock *)
(* of a wait queue, TIMER_LIST or EXITED_TASKS.  Between two steps other   *)
(* CPUs and the timer interrupt of the same CPU may run.  A CPU that finds *)
(* the SpinRaw lock of a queue taken waits here without RUN_QUEUE, except  *)
(* in exit_current, which holds RUN_QUEUE while it spins.  pc is where a   *)
(* task is inside a call, at "run" it is in its own code; on, dl and flag  *)
(* are the queue (or task) and the deadline of the call, and its resched   *)
(* argument or its timeout result.                                         *)
(***************************************************************************)
EXTENDS RunQueue, VecDeque

CONSTANTS
    Queues,         \* wait queues the tasks use
    GcQueue,        \* WAIT_FOR_EXIT
    Calls,          \* the kernel calls the tasks make
    MaxTime         \* bound on the clock and on deadlines

ASSUME QueuesAssumption ==
    /\ Queues \cap Tasks = {} /\ GcQueue \notin Queues \cup Tasks
    /\ MaxTime \in Nat

\* The queue t is the wait_for_exit of task t.
WaitQueues == Queues \cup Tasks \cup {GcQueue}

VARIABLES
    pc, on, dl, flag,
    wq,             \* queue of each WaitQueue
    inWq,           \* in_wait_queue of each task
    inTl,           \* in_timer_list of each task
    timers,         \* TIMER_LIST: how many events it has for a task and a deadline
    now,            \* current_time
    irq,            \* where the timer interrupt handler of a CPU is
    irqTask,        \* the task whose expired event the handler holds
    exited,         \* EXITED_TASKS
    gcLeft,         \* n of gc_entry: tasks left to look at in this round
    handle,         \* tasks whose AxTaskRef the spawner still holds
    leaving,        \* the exited task whose stack a CPU still runs on
    freed,          \* tasks that gc_entry dropped
    halted          \* the init task exited

callVars == <<pc, on, dl, flag>>
waitVars == <<wq, inWq>>
timerVars == <<inTl, timers, now, irq, irqTask>>
gcVars == <<exited, gcLeft, handle, leaving, freed, halted>>
vars == <<rqVars, callVars, waitVars, timerVars, gcVars>>

PcValues ==
    {"run", "alarm_set", "woken", "cancel_queue", "cancel_timer", "until_time",
     "until_lock", "slept", "join", "notify_all", "exit", "dead", "gc_start", "gc_scan"}

-----------------------------------------------------------------------------
(* The code a CPU may run.                                                 *)

\* The interrupt handler runs with interrupts off, to its end.
InTask(c) == irq[c] = "none" /\ holder # c /\ ~halted

\* Task t runs on c at p, with no preemption due.
At(c, t, p) ==
    /\ InTask(c)
    /\ cur[c] = t
    /\ t \in Tasks
    /\ ~needResched[c]
    /\ pc[t] = p

Call(c, t, name) == At(c, t, "run") /\ name \in Calls /\ t # Gc

Goto(t, p) == pc' = [pc EXCEPT ![t] = p]

\* The call returns and its variables go.
Return(t, p) ==
    /\ Goto(t, p)
    /\ on' = [on EXCEPT ![t] = GcQueue]
    /\ dl' = [dl EXCEPT ![t] = 0]
    /\ flag' = [flag EXCEPT ![t] = FALSE]

\* The events of TIMER_LIST, and those for t; an event of t that check_events
\* holds.
Events == Tasks \X (0..MaxTime)
Pending == {e \in Events : timers[e] > 0}
Alarms(t) == {e \in Pending : e[1] = t}

InFlight(t) == \E c \in CPUs : irq[c] = "callback" /\ irqTask[c] = t

mut_set_alarm_wakeup(t, deadline) ==
    /\ timers' = [e \in Events |-> IF e = <<t, deadline>> THEN 1 ELSE 0]
    /\ inTl' = [inTl EXCEPT ![t] = TRUE]

set_alarm_wakeup(t, deadline) ==
    /\ timers' = [timers EXCEPT ![<<t, deadline>>] = @ + 1]
    /\ inTl' = [inTl EXCEPT ![t] = TRUE]

cancel_alarm(t) ==
    /\ timers' = [e \in Events |-> IF e[1] = t THEN 0 ELSE timers[e]]
    /\ inTl' = [inTl EXCEPT ![t] = FALSE]

\* cancel_events holds the SpinRaw lock of its queue to its end; without the
\* smp feature a spin lock has no state.
QueueLocked(q) ==
    /\ CPUs # {BootCpu}
    /\ \E t \in Tasks : pc[t] = "cancel_timer" /\ on[t] = q

push_back(t, q) ==
    /\ ~QueueLocked(q)
    /\ wq' = [wq EXCEPT ![q] = Append(@, t)]
    /\ inWq' = [inWq EXCEPT ![t] = TRUE]

mut_notify_one_locked(c, q, resched) ==
    IF wq[q] = <<>>
    THEN UNCHANGED <<rqVars, waitVars>>
    ELSE /\ wq' = [wq EXCEPT ![q] = Tail(@)]
         /\ unblock_task(c, Head(wq[q]), resched)
         /\ UNCHANGED inWq

\* The head of q is taken out and woken, if there is one.
notify_one_locked(c, q, resched) ==
    /\ ~QueueLocked(q)
    /\ IF wq[q] = <<>>
       THEN UNCHANGED <<rqVars, waitVars>>
       ELSE /\ wq' = [wq EXCEPT ![q] = Tail(@)]
            /\ inWq' = [inWq EXCEPT ![Head(wq[q])] = FALSE]
            /\ unblock_task(c, Head(wq[q]), resched)

-----------------------------------------------------------------------------
(* Tasks: spawning, yielding, sleeping, joining.                           *)

mut_spawn_raw(c, t, u) ==
    /\ Call(c, t, "spawn")
    /\ state[u] = "New"
    /\ state' = [state EXCEPT ![u] = "Ready"]
    /\ ready' = add_task(ready, u)
    /\ handle' = handle \cup {u}
    /\ UNCHANGED <<cur, slice, needResched, holder>>
    /\ UNCHANGED <<callVars, waitVars, timerVars, exited, gcLeft, leaving, freed, halted>>

spawn_raw(c, t, u) ==
    /\ Call(c, t, "spawn")
    /\ spawn(c, u)
    /\ handle' = handle \cup {u}
    /\ UNCHANGED <<callVars, waitVars, timerVars, exited, gcLeft, leaving, freed, halted>>

\* The holder of an AxTaskRef drops it; a joiner keeps it until join returns.
drop_handle(c, t, u) ==
    /\ Call(c, t, "drop")
    /\ u \in handle
    /\ \A v \in Tasks : ~(pc[v] = "join" /\ on[v] = u)
    /\ handle' = handle \ {u}
    /\ UNCHANGED <<rqVars, callVars, waitVars, timerVars, exited, gcLeft, leaving, freed, halted>>

yield_now(c, t) ==
    /\ Call(c, t, "yield")
    /\ yield_current(c)
    /\ UNCHANGED <<callVars, waitVars, timerVars, gcVars>>

run_idle(c) ==
    /\ InTask(c)
    /\ cur[c] = Idle
    /\ yield_current(c)
    /\ UNCHANGED <<callVars, waitVars, timerVars, gcVars>>

current_check_preempt_pending(c) ==
    /\ InTask(c)
    /\ preempt_resched(c)
    /\ UNCHANGED <<callVars, waitVars, timerVars, gcVars>>

sleep_until(c, t, deadline) ==
    /\ Call(c, t, "sleep")
    /\ now < deadline
    /\ block_current(c)
    /\ set_alarm_wakeup(t, deadline)
    /\ dl' = [dl EXCEPT ![t] = deadline]
    /\ Goto(t, "slept")
    /\ UNCHANGED <<on, flag, waitVars, now, irq, irqTask, gcVars>>

sleep_return(c, t) ==
    /\ At(c, t, "slept")
    /\ Return(t, "run")
    /\ UNCHANGED <<rqVars, waitVars, timerVars, gcVars>>

join(c, t, u) ==
    /\ Call(c, t, "join")
    /\ u \in handle \ {t}
    /\ on' = [on EXCEPT ![t] = u]
    /\ Goto(t, "join")
    /\ UNCHANGED <<rqVars, dl, flag, waitVars, timerVars, gcVars>>

\* One round of the wait_until in join: the condition is read under RUN_QUEUE.
join_wait_until(c, t) ==
    /\ At(c, t, "join")
    /\ RqFree
    /\ \/ /\ state[on[t]] = "Exited"
          /\ Goto(t, "cancel_queue")
          /\ UNCHANGED <<rqVars, waitVars>>
       \/ /\ state[on[t]] # "Exited"
          /\ block_current(c)
          /\ push_back(t, on[t])
          /\ UNCHANGED pc
    /\ UNCHANGED <<on, dl, flag, timerVars, gcVars>>

-----------------------------------------------------------------------------
(* WaitQueue: waiting.                                                     *)

\* wait_meta, and wait_meta_if when the condition lets the task block.
wait_meta(c, t, q) ==
    /\ Call(c, t, "wait")
    /\ block_current(c)
    /\ push_back(t, q)
    /\ on' = [on EXCEPT ![t] = q]
    /\ Goto(t, "cancel_queue")
    /\ UNCHANGED <<dl, flag, timerVars, gcVars>>

\* wait_timeout_absolutely_meta sets the alarm before it takes RUN_QUEUE.
wait_timeout_alarm(c, t, q, deadline) ==
    /\ Call(c, t, "wait_timeout")
    /\ set_alarm_wakeup(t, deadline)
    /\ on' = [on EXCEPT ![t] = q]
    /\ dl' = [dl EXCEPT ![t] = deadline]
    /\ Goto(t, "alarm_set")
    /\ UNCHANGED <<rqVars, flag, waitVars, now, irq, irqTask, gcVars>>

mut_wait_timeout_block(c, t) ==
    /\ At(c, t, "alarm_set")
    /\ block_current(c)
    /\ Goto(t, "woken")
    /\ UNCHANGED <<on, dl, flag, waitVars, timerVars, gcVars>>

wait_timeout_block(c, t) ==
    /\ At(c, t, "alarm_set")
    /\ block_current(c)
    /\ push_back(t, on[t])
    /\ Goto(t, "woken")
    /\ UNCHANGED <<on, dl, flag, timerVars, gcVars>>

\* wait_timeout_absolutely_meta_if sets the alarm under RUN_QUEUE.
wait_timeout_if(c, t, q, deadline) ==
    /\ Call(c, t, "wait_timeout_if")
    /\ block_current(c)
    /\ push_back(t, q)
    /\ set_alarm_wakeup(t, deadline)
    /\ on' = [on EXCEPT ![t] = q]
    /\ dl' = [dl EXCEPT ![t] = deadline]
    /\ Goto(t, "woken")
    /\ UNCHANGED <<flag, now, irq, irqTask, gcVars>>

\* "still in the wait queue, must have timed out"
wait_timeout_result(c, t) ==
    /\ At(c, t, "woken")
    /\ flag' = [flag EXCEPT ![t] = inWq[t]]
    /\ Goto(t, "cancel_queue")
    /\ UNCHANGED <<rqVars, on, dl, waitVars, timerVars, gcVars>>

wait_timeout_until(c, t, q, deadline) ==
    /\ Call(c, t, "wait_timeout_until")
    /\ set_alarm_wakeup(t, deadline)
    /\ on' = [on EXCEPT ![t] = q]
    /\ dl' = [dl EXCEPT ![t] = deadline]
    /\ Goto(t, "until_time")
    /\ UNCHANGED <<rqVars, flag, waitVars, now, irq, irqTask, gcVars>>

\* The loop reads the clock without the lock.
wait_timeout_until_time(c, t) ==
    /\ At(c, t, "until_time")
    /\ flag' = [flag EXCEPT ![t] = TRUE]
    /\ Goto(t, IF now < dl[t] THEN "until_lock" ELSE "cancel_queue")
    /\ UNCHANGED <<rqVars, on, dl, waitVars, timerVars, gcVars>>

\* The condition is the caller's: it may hold or not.
wait_timeout_until_lock(c, t) ==
    /\ At(c, t, "until_lock")
    /\ RqFree
    /\ \/ /\ flag' = [flag EXCEPT ![t] = FALSE]
          /\ Goto(t, "cancel_queue")
          /\ UNCHANGED <<rqVars, waitVars>>
       \/ /\ block_current(c)
          /\ push_back(t, on[t])
          /\ Goto(t, "until_time")
          /\ UNCHANGED flag
    /\ UNCHANGED <<on, dl, timerVars, gcVars>>

\* cancel_events, without RUN_QUEUE: first the queue, then the alarm.
cancel_events_queue(c, t) ==
    /\ At(c, t, "cancel_queue")
    /\ ~QueueLocked(on[t])
    /\ IF inWq[t]
       THEN /\ wq' = [wq EXCEPT ![on[t]] = retain(@, {i \in 1..Len(@) : @[i] # t})]
            /\ inWq' = [inWq EXCEPT ![t] = FALSE]
       ELSE UNCHANGED waitVars
    /\ Goto(t, "cancel_timer")
    /\ UNCHANGED <<rqVars, on, dl, flag, timerVars, gcVars>>

mut_cancel_events_timer(c, t) ==
    /\ At(c, t, "cancel_timer")
    /\ Return(t, IF t = Gc THEN "gc_start" ELSE "run")
    /\ UNCHANGED <<rqVars, waitVars, timerVars, gcVars>>

cancel_events_timer(c, t) ==
    /\ At(c, t, "cancel_timer")
    /\ IF inTl[t] THEN cancel_alarm(t) ELSE UNCHANGED <<inTl, timers>>
    /\ Return(t, IF t = Gc THEN "gc_start" ELSE "run")
    /\ UNCHANGED <<rqVars, waitVars, now, irq, irqTask, gcVars>>

-----------------------------------------------------------------------------
(* WaitQueue: notifying.                                                   *)

notify_one(c, t, q, resched) ==
    /\ Call(c, t, "notify_one")
    /\ RqFree
    /\ wq[q] # <<>>
    /\ notify_one_locked(c, q, resched)
    /\ UNCHANGED <<callVars, timerVars, gcVars>>

notify_all(c, t, q, resched) ==
    /\ Call(c, t, "notify_all")
    /\ on' = [on EXCEPT ![t] = q]
    /\ flag' = [flag EXCEPT ![t] = resched]
    /\ Goto(t, "notify_all")
    /\ UNCHANGED <<rqVars, dl, waitVars, timerVars, gcVars>>

\* The loop gives RUN_QUEUE back after every task it wakes.
notify_all_next(c, t) ==
    /\ At(c, t, "notify_all")
    /\ RqFree
    /\ notify_one_locked(c, on[t], flag[t])
    /\ IF wq[on[t]] = <<>> THEN Return(t, "run") ELSE UNCHANGED callVars
    /\ UNCHANGED <<timerVars, gcVars>>

notify_task(c, t, q, u, resched) ==
    /\ Call(c, t, "notify_task")
    /\ RqFree
    /\ ~QueueLocked(q)
    /\ \E i \in 1..Len(wq[q]) :
          /\ wq[q][i] = u
          /\ \A j \in 1..(i - 1) : wq[q][j] # u
          /\ wq' = [wq EXCEPT ![q] = remove(@, i)]
    /\ inWq' = [inWq EXCEPT ![u] = FALSE]
    /\ unblock_task(c, u, resched)
    /\ UNCHANGED <<callVars, timerVars, gcVars>>

-----------------------------------------------------------------------------
(* The timer interrupt: on_timer_tick.                                     *)

timer_irq(c) ==
    /\ InTask(c)
    /\ irq' = [irq EXCEPT ![c] = "check"]
    /\ UNCHANGED <<rqVars, callVars, waitVars, inTl, timers, now, irqTask, gcVars>>

\* check_events: expire_one under TIMER_LIST, the callback after it is released.
check_events(c) ==
    /\ irq[c] = "check"
    /\ \/ \E e \in Pending :
             /\ e[2] <= now
             /\ \A f \in Pending : e[2] <= f[2]
             /\ timers' = [timers EXCEPT ![e] = @ - 1]
             /\ irqTask' = [irqTask EXCEPT ![c] = e[1]]
             /\ irq' = [irq EXCEPT ![c] = "callback"]
       \/ /\ \A e \in Pending : e[2] > now
          /\ irq' = [irq EXCEPT ![c] = "tick"]
          /\ UNCHANGED <<timers, irqTask>>
    /\ UNCHANGED <<rqVars, callVars, waitVars, inTl, now, gcVars>>

mut_callback_flag(c) ==
    /\ irq[c] = "callback"
    /\ RqFree
    /\ unblock_task(c, irqTask[c], TRUE)
    /\ irq' = [irq EXCEPT ![c] = "check"]
    /\ UNCHANGED <<callVars, waitVars, inTl, timers, now, irqTask, gcVars>>

mut_callback_unchecked(c) ==
    /\ irq[c] = "callback"
    /\ inTl' = [inTl EXCEPT ![irqTask[c]] = FALSE]
    /\ state' = [state EXCEPT ![irqTask[c]] = "Ready"]
    /\ ready' = add_task(ready, irqTask[c])
    /\ irq' = [irq EXCEPT ![c] = "check"]
    /\ UNCHANGED <<cur, slice, needResched, holder>>
    /\ UNCHANGED <<callVars, waitVars, timers, now, irqTask, gcVars>>

\* TaskWakeupEvent::callback
callback(c) ==
    /\ irq[c] = "callback"
    /\ RqFree
    /\ inTl' = [inTl EXCEPT ![irqTask[c]] = FALSE]
    /\ unblock_task(c, irqTask[c], TRUE)
    /\ irq' = [irq EXCEPT ![c] = "check"]
    /\ UNCHANGED <<callVars, waitVars, timers, now, irqTask, gcVars>>

timer_tick(c) ==
    /\ irq[c] = "tick"
    /\ scheduler_timer_tick(c)
    /\ irq' = [irq EXCEPT ![c] = "none"]
    /\ UNCHANGED <<callVars, waitVars, inTl, timers, now, irqTask, gcVars>>

\* The hardware clock.
clock ==
    /\ now < MaxTime
    /\ ~halted
    /\ now' = now + 1
    /\ UNCHANGED <<rqVars, callVars, waitVars, inTl, timers, irq, irqTask, gcVars>>

-----------------------------------------------------------------------------
(* Exiting and reclaiming.                                                 *)

exit(c, t) ==
    /\ Call(c, t, "exit")
    /\ exit_current(c)
    /\ Goto(t, "exit")
    /\ UNCHANGED <<on, dl, flag, waitVars, timerVars, gcVars>>

\* notify_exit wakes every joiner before the task is handed to the gc task.
notify_exit(c, t) ==
    /\ Exiting(c) /\ cur[c] = t /\ pc[t] = "exit"
    /\ wq[t] # <<>>
    /\ notify_one_locked(c, t, FALSE)
    /\ UNCHANGED <<callVars, timerVars, gcVars>>

mut_exit_to_gc(c, t) ==
    /\ Exiting(c) /\ cur[c] = t /\ pc[t] = "exit"
    /\ exited' = Append(exited, t)
    /\ notify_one_locked(c, GcQueue, FALSE)
    /\ Goto(t, "dead")
    /\ UNCHANGED <<on, dl, flag, timerVars, gcLeft, handle, leaving, freed, halted>>

exit_to_gc(c, t) ==
    /\ Exiting(c) /\ cur[c] = t /\ pc[t] = "exit"
    /\ wq[t] = <<>>
    /\ exited' = Append(exited, t)
    /\ notify_one_locked(c, GcQueue, FALSE)
    /\ Goto(t, "dead")
    /\ UNCHANGED <<on, dl, flag, timerVars, gcLeft, handle, leaving, freed, halted>>

\* set_current gives up the reference of the CPU before the registers are
\* switched.
exit_switch(c, t) ==
    /\ cur[c] = t /\ pc[t] = "dead"
    /\ exit_resched(c)
    /\ leaving' = [leaving EXCEPT ![c] = t]
    /\ UNCHANGED <<callVars, waitVars, timerVars, exited, gcLeft, handle, freed, halted>>

context_switched(c) ==
    /\ switch_done(c)
    /\ leaving' = [leaving EXCEPT ![c] = Idle]
    /\ UNCHANGED <<callVars, waitVars, timerVars, exited, gcLeft, handle, freed, halted>>

\* The init task clears EXITED_TASKS and terminates the system.
exit_main(c) ==
    /\ Call(c, Main, "terminate")
    /\ RqFree
    /\ exited' = <<>>
    /\ halted' = TRUE
    /\ UNCHANGED <<rqVars, callVars, waitVars, timerVars, gcLeft, handle, leaving, freed>>

\* strong_count of an exited task beyond the reference gc_entry took.
Referenced(t) ==
    \/ t \in handle
    \/ \E c \in CPUs : cur[c] = t
    \/ \E i \in 1..Len(ready) : ready[i] = t
    \/ \E q \in WaitQueues : InQueue(wq[q], t)
    \/ Alarms(t) # {}
    \/ InFlight(t)

\* gc_entry: a round looks at the tasks that are in EXITED_TASKS when it starts.
gc_round(c) ==
    /\ At(c, Gc, "gc_start")
    /\ gcLeft' = Len(exited)
    /\ Goto(Gc, "gc_scan")
    /\ UNCHANGED <<rqVars, on, dl, flag, waitVars, timerVars, exited, handle, leaving, freed, halted>>

mut_gc_drop_uncounted(c) ==
    /\ At(c, Gc, "gc_scan")
    /\ gcLeft > 0
    /\ exited' = Tail(exited)
    /\ freed' = freed \cup {Head(exited)}
    /\ UNCHANGED <<rqVars, callVars, waitVars, timerVars, gcLeft, handle, leaving, halted>>

mut_gc_drop_unchecked(c) ==
    /\ At(c, Gc, "gc_scan")
    /\ gcLeft > 0
    /\ gcLeft' = gcLeft - 1
    /\ exited' = Tail(exited)
    /\ freed' = freed \cup {Head(exited)}
    /\ UNCHANGED <<rqVars, callVars, waitVars, timerVars, handle, leaving, halted>>

gc_drop(c) ==
    /\ At(c, Gc, "gc_scan")
    /\ gcLeft > 0
    /\ gcLeft' = gcLeft - 1
    /\ IF Referenced(Head(exited))
       THEN exited' = Append(Tail(exited), Head(exited)) /\ UNCHANGED freed
       ELSE exited' = Tail(exited) /\ freed' = freed \cup {Head(exited)}
    /\ UNCHANGED <<rqVars, callVars, waitVars, timerVars, handle, leaving, halted>>

gc_wait(c) ==
    /\ At(c, Gc, "gc_scan")
    /\ gcLeft = 0
    /\ block_current(c)
    /\ push_back(Gc, GcQueue)
    /\ on' = [on EXCEPT ![Gc] = GcQueue]
    /\ Goto(Gc, "cancel_queue")
    /\ UNCHANGED <<dl, flag, timerVars, gcVars>>

-----------------------------------------------------------------------------
Init ==
    /\ RqInit
    /\ pc = [t \in Tasks |-> IF t = Gc THEN "gc_start" ELSE "run"]
    /\ on = [t \in Tasks |-> GcQueue]
    /\ dl = [t \in Tasks |-> 0]
    /\ flag = [t \in Tasks |-> FALSE]
    /\ wq = [q \in WaitQueues |-> <<>>]
    /\ inWq = [t \in Tasks |-> FALSE]
    /\ inTl = [t \in Tasks |-> FALSE]
    /\ timers = [e \in Events |-> 0]
    /\ now = 0
    /\ irq = [c \in CPUs |-> "none"]
    /\ irqTask = [c \in CPUs |-> Idle]
    /\ exited = <<>>
    /\ gcLeft = 0
    /\ handle = {}
    /\ leaving = [c \in CPUs |-> Idle]
    /\ freed = {}
    /\ halted = FALSE

\* What task t does next on CPU c.
TaskStep(c, t) ==
    \/ \E u \in Tasks : spawn_raw(c, t, u) \/ drop_handle(c, t, u) \/ join(c, t, u)
    \/ yield_now(c, t)
    \/ \E d \in now..MaxTime : sleep_until(c, t, d)
    \/ \E q \in Queues : wait_meta(c, t, q)
    \/ \E q \in Queues, d \in now..MaxTime :
          \/ wait_timeout_alarm(c, t, q, d)
          \/ wait_timeout_if(c, t, q, d)
          \/ wait_timeout_until(c, t, q, d)
    \/ \E q \in Queues, r \in BOOLEAN :
          \/ notify_one(c, t, q, r)
          \/ notify_all(c, t, q, r)
          \/ \E u \in Tasks : notify_task(c, t, q, u, r)
    \/ exit(c, t)

\* What the kernel does for task t once t is inside a call.
KernelStep(c, t) ==
    \/ sleep_return(c, t)
    \/ join_wait_until(c, t)
    \/ wait_timeout_block(c, t)
    \/ wait_timeout_result(c, t)
    \/ wait_timeout_until_time(c, t)
    \/ wait_timeout_until_lock(c, t)
    \/ cancel_events_queue(c, t)
    \/ cancel_events_timer(c, t)
    \/ notify_all_next(c, t)
    \/ notify_exit(c, t)
    \/ exit_to_gc(c, t)
    \/ exit_switch(c, t)

CpuStep(c) ==
    \/ run_idle(c)
    \/ current_check_preempt_pending(c)
    \/ context_switched(c)
    \/ gc_round(c)
    \/ gc_drop(c)
    \/ gc_wait(c)

IrqStep(c) == timer_irq(c) \/ check_events(c) \/ callback(c) \/ timer_tick(c)

Terminated == halted /\ UNCHANGED vars

Next ==
    \/ \E c \in CPUs, t \in Tasks : TaskStep(c, t) \/ KernelStep(c, t)
    \/ \E c \in CPUs : CpuStep(c) \/ IrqStep(c) \/ exit_main(c)
    \/ clock
    \/ Terminated

Spec == Init /\ [][Next]_vars

\* The timer interrupt is periodic, and between two interrupts the CPU gets on
\* with what it does: a task that is inside a call goes on whenever it runs, the
\* idle loop and the gc task too.  Nothing is assumed of the tasks' own code.
Fairness ==
    /\ \A c \in CPUs : WF_vars(IrqStep(c)) /\ SF_vars(CpuStep(c))
    /\ \A t \in Tasks : SF_vars(\E c \in CPUs : KernelStep(c, t))
    /\ WF_vars(clock)

FairSpec == Spec /\ Fairness

-----------------------------------------------------------------------------
(* Properties.                                                             *)

\* The variables have their types; the round of gc_entry never counts on more
\* tasks than EXITED_TASKS holds.
CallTypeOK ==
    /\ pc \in [Tasks -> PcValues]
    /\ on \in [Tasks -> WaitQueues]
    /\ dl \in [Tasks -> 0..MaxTime]
    /\ flag \in [Tasks -> BOOLEAN]

WaitTypeOK == wq \in [WaitQueues -> Seq(Tasks)] /\ inWq \in [Tasks -> BOOLEAN]

TimerTypeOK ==
    /\ inTl \in [Tasks -> BOOLEAN]
    /\ timers \in [Events -> Nat]
    /\ now \in 0..MaxTime
    /\ irq \in [CPUs -> {"none", "check", "callback", "tick"}]
    /\ irqTask \in [CPUs -> Tasks \cup {Idle}]
    /\ \A c \in CPUs : irq[c] = "callback" => irqTask[c] \in Tasks

GcTypeOK ==
    /\ exited \in Seq(Tasks)
    /\ gcLeft \in Nat /\ (~halted => gcLeft <= Len(exited))
    /\ handle \subseteq Tasks /\ freed \subseteq Tasks
    /\ leaving \in [CPUs -> Tasks \cup {Idle}]
    /\ halted \in BOOLEAN

TypeOK == CallTypeOK /\ WaitTypeOK /\ TimerTypeOK /\ GcTypeOK

Queued(t, q) == InQueue(wq[q], t)

\* in_wait_queue tells the truth: it is set exactly while the task is in a wait
\* queue, and then in the queue of the call it is in, although notifiers, the
\* timer and cancel_events change the flag and the queue under different locks.
WaitFlag ==
    \A t \in Tasks :
        /\ inWq[t] <=> \E q \in WaitQueues : Queued(t, q)
        /\ inWq[t] => Queued(t, on[t])
        /\ pc[t] \in {"run", "cancel_timer"} => ~inWq[t]

\* in_timer_list tells the truth: it is set exactly while an alarm of the task is
\* pending, so cancel_events removes it; and a task never has two alarms.
TimerFlag ==
    \A t \in Tasks :
        /\ inTl[t] <=> (Alarms(t) # {} \/ InFlight(t))
        /\ \A e, f \in Alarms(t) : e = f /\ timers[e] = 1
        /\ pc[t] = "run" => Alarms(t) = {}

\* A blocked task can still be woken: it is in a wait queue, or an alarm of it is
\* pending.
BlockedHasWaker ==
    \A t \in Tasks : state[t] = "Blocked" =>
        \/ \E q \in WaitQueues : Queued(t, q)
        \/ Alarms(t) # {} \/ InFlight(t)

\* A task blocked with a deadline has an alarm that wakes it by then.
TimedWaitHasAlarm ==
    \A t \in Tasks :
        state[t] = "Blocked" /\ pc[t] \in {"slept", "woken", "until_time"}
            => Alarms(t) # {} \/ InFlight(t)

\* sleep_until does not return before its deadline.
SleepNotEarly == \A t \in Tasks : pc[t] = "slept" /\ state[t] = "Running" => dl[t] <= now

\* While exit_current holds RUN_QUEUE and spins for the lock of a wait queue, the
\* task that holds that lock is on a CPU and not interrupted by code that spins
\* for RUN_QUEUE: the lock is used "in the preemption-disabled and local
\* IRQ-disabled context".
SpinRawHolderRuns ==
    \A c \in CPUs, t \in Tasks :
        /\ Exiting(c) /\ pc[cur[c]] = "exit"
        /\ pc[t] = "cancel_timer" /\ on[t] \in {cur[c], GcQueue}
        => \E d \in CPUs : cur[d] = t /\ irq[d] \notin {"callback", "tick"}

\* Joiners are not left behind: nobody waits for a task that has left the
\* processor for good.
NoJoinerLeft == \A t \in Tasks : state[t] = "Exited" /\ pc[t] = "dead" => wq[t] = <<>>

\* gc_entry drops a task only when no CPU runs on its stack and nothing else
\* refers to it.
FreedUnused == \A t \in freed : ~Referenced(t) /\ \A c \in CPUs : leaving[c] # t

\* Waits, alarms and exits agree on who wakes whom: the flags in_wait_queue and
\* in_timer_list are true, a blocked task has somebody to wake it, a sleep is not
\* cut short, and no task is dropped while it is in use.
NeverStranded == TypeOK /\ WaitFlag /\ TimerFlag /\ BlockedHasWaker /\ SleepNotEarly /\ FreedUnused

\* With several CPUs too the flag is true and no joiner is left behind.
JoinersServed == WaitFlag /\ NoJoinerLeft

\* join returns once the task it waits for has exited.
JoinReturns ==
    \A t, u \in Tasks : pc[t] = "join" /\ on[t] = u /\ state[u] = "Exited" ~> pc[t] = "run"

\* A sleep, or a wait with a deadline, comes to an end.
TimedCallReturns ==
    \A t \in Tasks : pc[t] \in {"slept", "woken"} ~> pc[t] = "run"

\* Each step of the tasks, queues, timers and gc is a step of the run queue, or
\* leaves it alone: all that is proved of RunQueue holds here.
RunQueueRefined == RqSpec
=============================================================================
