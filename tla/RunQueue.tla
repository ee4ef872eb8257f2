------------------------------ MODULE RunQueue ------------------------------
(***************************************************************************)
(* The global run queue of modules/ruxtask: the task states, the ready     *)
(* queue of the scheduler and the task that each CPU runs.                 *)
(*                                                                         *)
(* Every operation runs under the RUN_QUEUE lock, a SpinNoIrq lock that    *)
(* also keeps interrupts and preemption off, so an operation is one step.  *)
(* Exiting is the exception: it wakes tasks one at a time, and another CPU *)
(* can see what happens between those wake-ups because it does not need    *)
(* this lock for all of its work; "holder" is the CPU that holds the lock  *)
(* from one such step to the next.                                         *)
(*                                                                         *)
(* Each CPU has an idle task, which is never in the ready queue; Idle      *)
(* stands for the idle task of the CPU in question.  need_resched is only  *)
(* ever read for, and set on, the current task, and switch_to clears it    *)
(* for the task it switches to, so it is kept per CPU.                     *)
(*                                                                         *)
(* Two of the schedulers of crates/scheduler are here: "fifo", which is    *)
(* cooperative, and "rr", which enables the preempt feature.               *)
(***************************************************************************)
EXTENDS Integers, Sequences

CONSTANTS
    Tasks,          \* all tasks but the idle ones
    Main,           \* the init task, running on BootCpu at the start
    Gc,             \* the task that runs gc_entry, ready at the start
    CPUs, BootCpu,
    Idle,           \* the idle task of a CPU
    NoCpu,
    Sched,          \* the scheduler feature: "fifo" or "rr"
    MaxTimeSlice

ASSUME TasksAssumption == Main \in Tasks /\ Gc \in Tasks /\ Main # Gc /\ Idle \notin Tasks
ASSUME CpusAssumption == BootCpu \in CPUs /\ NoCpu \notin CPUs
ASSUME SchedAssumption == Sched \in {"fifo", "rr"} /\ MaxTimeSlice \in Nat \ {0}

VARIABLES
    cur,            \* CurrentTask of each CPU
    state,          \* TaskState; "New" before the task is spawned
    slice,          \* time_slice of RRTask; values below 0 act like 0
    needResched,    \* need_resched of the current task
    ready,          \* ready_queue of the scheduler
    holder          \* CPU that keeps RUN_QUEUE locked, or NoCpu

rqVars == <<cur, state, slice, needResched, ready, holder>>

TaskState == {"New", "Running", "Ready", "Blocked", "Exited"}

Preempt == Sched = "rr"

RqFree == holder = NoCpu

-----------------------------------------------------------------------------
(* Scheduler: the ready queue as a sequence.                               *)

add_task(rq, t) == Append(rq, t)

\* A preempted task with time left goes to the front; any other goes to the
\* back with a new time slice.
mut_keeps_slice(t, preempt) == Sched = "rr" /\ preempt

keeps_slice(t, preempt) == Sched = "rr" /\ preempt /\ slice[t] > 0

put_prev_task(rq, t, preempt) ==
    IF keeps_slice(t, preempt) THEN <<t>> \o rq ELSE Append(rq, t)

mut_put_prev_slice_long(t, preempt) ==
    IF keeps_slice(t, preempt) THEN slice ELSE [slice EXCEPT ![t] = MaxTimeSlice + 1]

mut_put_prev_slice_no_reset(t, preempt) == slice

put_prev_slice(t, preempt) ==
    IF keeps_slice(t, preempt) THEN slice ELSE [slice EXCEPT ![t] = MaxTimeSlice]

-----------------------------------------------------------------------------
(* resched and switch_to: st and rq are the task states and the ready      *)
(* queue as the caller leaves them.                                        *)

switch_to(c, st, rq) ==
    /\ needResched' = [needResched EXCEPT ![c] = FALSE]
    /\ \/ /\ rq = <<>>
          /\ cur' = [cur EXCEPT ![c] = Idle]
          /\ state' = st
          /\ ready' = rq
       \/ /\ rq # <<>>
          /\ cur' = [cur EXCEPT ![c] = Head(rq)]
          /\ state' = [st EXCEPT ![Head(rq)] = "Running"]
          /\ ready' = Tail(rq)

\* The current task of c stays runnable.
resched_running(c, preempt) ==
    IF cur[c] = Idle
    THEN switch_to(c, state, ready) /\ UNCHANGED slice
    ELSE /\ switch_to(c, [state EXCEPT ![cur[c]] = "Ready"],
                      put_prev_task(ready, cur[c], preempt))
         /\ slice' = put_prev_slice(cur[c], preempt)

-----------------------------------------------------------------------------
(* Operations of AxRunQueue on CPU c.  A task only calls into the kernel   *)
(* when no preemption is due, because enable_preempt reschedules before    *)
(* the task goes on.                                                       *)

spawn(c, t) ==
    /\ RqFree
    /\ cur[c] # Idle
    /\ ~needResched[c]
    /\ state[t] = "New"
    /\ state' = [state EXCEPT ![t] = "Ready"]
    /\ ready' = add_task(ready, t)
    /\ UNCHANGED <<cur, slice, needResched, holder>>

\* Also what the idle task does in its loop.
yield_current(c) ==
    /\ RqFree
    /\ ~needResched[c]
    /\ resched_running(c, FALSE)
    /\ UNCHANGED holder

preempt_resched(c) ==
    /\ RqFree
    /\ needResched[c]
    /\ resched_running(c, TRUE)
    /\ UNCHANGED holder

\* block_current, and sleep_until when the deadline is in the future.
block_current(c) ==
    /\ RqFree
    /\ cur[c] # Idle
    /\ ~needResched[c]
    /\ switch_to(c, [state EXCEPT ![cur[c]] = "Blocked"], ready)
    /\ UNCHANGED <<slice, holder>>

mut_unblock_task_unchecked(c, t, resched) ==
    /\ holder \in {NoCpu, c}
    /\ state' = [state EXCEPT ![t] = "Ready"]
    /\ ready' = add_task(ready, t)
    /\ needResched' = [needResched EXCEPT ![c] = (Preempt /\ resched) \/ @]
    /\ UNCHANGED <<cur, slice, holder>>

mut_unblock_task_not_queued(c, t, resched) ==
    /\ holder \in {NoCpu, c}
    /\ state[t] \notin {"New", "Ready", "Running"}
    /\ state' = [state EXCEPT ![t] = "Ready"]
    /\ ready' = add_task(ready, t)
    /\ UNCHANGED <<cur, slice, needResched, holder>>

\* A task that is not blocked is left alone.
unblock_task(c, t, resched) ==
    /\ holder \in {NoCpu, c}
    /\ IF state[t] = "Blocked"
       THEN /\ state' = [state EXCEPT ![t] = "Ready"]
            /\ ready' = add_task(ready, t)
            /\ needResched' = [needResched EXCEPT ![c] = (Preempt /\ resched) \/ @]
       ELSE UNCHANGED <<state, ready, needResched>>
    /\ UNCHANGED <<cur, slice, holder>>

scheduler_timer_tick(c) ==
    /\ RqFree
    /\ IF cur[c] # Idle /\ Sched = "rr"
       THEN /\ slice' = [slice EXCEPT ![cur[c]] = IF @ > 0 THEN @ - 1 ELSE 0]
            /\ needResched' = [needResched EXCEPT ![c] = (slice[cur[c]] <= 1) \/ @]
       ELSE UNCHANGED <<slice, needResched>>
    /\ UNCHANGED <<cur, state, ready, holder>>

\* exit_current for a task other than the init task; the lock stays taken.
exit_current(c) ==
    /\ RqFree
    /\ cur[c] \notin {Idle, Main, Gc}
    /\ ~needResched[c]
    /\ state' = [state EXCEPT ![cur[c]] = "Exited"]
    /\ holder' = c
    /\ UNCHANGED <<cur, slice, needResched, ready>>

Exiting(c) == holder = c /\ cur[c] # Idle /\ state[cur[c]] = "Exited"

\* The resched at the end of exit_current: cur no longer names the task, but
\* CPU c still runs on its stack until the context is switched.
exit_resched(c) ==
    /\ Exiting(c)
    /\ switch_to(c, state, ready)
    /\ UNCHANGED <<slice, holder>>

\* The next task releases the lock that was held across the switch.
switch_done(c) ==
    /\ holder = c
    /\ ~Exiting(c)
    /\ holder' = NoCpu
    /\ UNCHANGED <<cur, state, slice, needResched, ready>>

-----------------------------------------------------------------------------
RqInit ==
    /\ cur = [c \in CPUs |-> IF c = BootCpu THEN Main ELSE Idle]
    /\ state = [t \in Tasks |-> CASE t = Main -> "Running"
                                  [] t = Gc -> "Ready"
                                  [] OTHER -> "New"]
    /\ slice = [t \in Tasks |-> MaxTimeSlice]
    /\ needResched = [c \in CPUs |-> FALSE]
    /\ ready = <<Gc>>
    /\ holder = NoCpu

RqStep(c) ==
    \/ \E t \in Tasks : spawn(c, t)
    \/ yield_current(c)
    \/ preempt_resched(c)
    \/ block_current(c)
    \/ \E t \in Tasks, resched \in BOOLEAN : unblock_task(c, t, resched)
    \/ scheduler_timer_tick(c)
    \/ exit_current(c)
    \/ exit_resched(c)
    \/ switch_done(c)

RqNext == \E c \in CPUs : RqStep(c)

RqSpec == RqInit /\ [][RqNext]_rqVars

\* The timer interrupt is periodic on every CPU (update_timer re-arms it), a
\* pending preemption is taken before the task goes on, the idle task loops,
\* and code that holds RUN_QUEUE does not wait for anything.
RqFairness ==
    \A c \in CPUs :
        /\ WF_rqVars(scheduler_timer_tick(c))
        /\ WF_rqVars(preempt_resched(c))
        /\ WF_rqVars(cur[c] = Idle /\ yield_current(c))
        /\ WF_rqVars(exit_resched(c))
        /\ WF_rqVars(switch_done(c))

RqFairSpec == RqSpec /\ RqFairness

-----------------------------------------------------------------------------
(* Properties.                                                             *)

\* Every variable of the run queue has its type; in particular a time slice
\* never exceeds MAX_TIME_SLICE.
RqTypeOK ==
    /\ cur \in [CPUs -> Tasks \cup {Idle}]
    /\ state \in [Tasks -> TaskState]
    /\ slice \in [Tasks -> 0..MaxTimeSlice]
    /\ needResched \in [CPUs -> BOOLEAN]
    /\ ready \in Seq(Tasks)
    /\ holder \in CPUs \cup {NoCpu}

\* No two CPUs run the same task.
OneCpuPerTask ==
    \A c, d \in CPUs : cur[c] = cur[d] /\ cur[c] # Idle => c = d

\* A CPU runs a task in state Running, or one that is on its way out and
\* whose CPU holds the lock; and every Running task is on a CPU.
RunningIsCurrent ==
    /\ \A c \in CPUs : cur[c] # Idle =>
          state[cur[c]] = "Running" \/ (state[cur[c]] = "Exited" /\ holder = c)
    /\ \A t \in Tasks : state[t] = "Running" => \E c \in CPUs : cur[c] = t

\* rq holds exactly the tasks that st says are Ready, each of them once.
ReadyQueueOf(st, rq) ==
    /\ \A i \in 1..Len(rq) : st[rq[i]] = "Ready"
    /\ \A i, j \in 1..Len(rq) : rq[i] = rq[j] => i = j
    /\ \A t \in Tasks : st[t] = "Ready" => \E i \in 1..Len(rq) : rq[i] = t

\* A runnable task is in exactly one place, on one CPU or once in the ready
\* queue, whatever order put_prev_task, unblock_task and the exit path run in.
RunQueueConsistent == OneCpuPerTask /\ RunningIsCurrent /\ ReadyQueueOf(state, ready)

\* A task whose time slice is used up is about to be preempted: task_tick,
\* put_prev_task and the preemption check never leave one on a CPU or queue
\* it without a new slice.
UsedSliceIsPreempted ==
    \A t \in Tasks : slice[t] = 0 => \E c \in CPUs : cur[c] = t /\ needResched[c]

\* An exited task never runs again, whatever late wake-up names it.
ExitedStays == [][\A t \in Tasks : state[t] = "Exited" => state'[t] = "Exited"]_rqVars

\* Round-robin starves no one: a ready task runs, although tasks that are
\* preempted with time left go to the front of the queue.
ReadyRuns == \A t \in Tasks : state[t] = "Ready" ~> state[t] = "Running"
=============================================================================
