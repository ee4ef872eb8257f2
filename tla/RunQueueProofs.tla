--------------------------- MODULE RunQueueProofs ---------------------------
(* Proofs, for any set of tasks and CPUs, that the run queue keeps every   *)
(* runnable task in exactly one place and preempts a task whose time slice *)
(* is used up.                                                             *)
EXTENDS RunQueue, TLAPS

\* What exit adds: an exited task still has time left, so the switch away
\* from it, which clears need_resched, hides no used-up slice.
ExitedHasSlice == \A t \in Tasks : state[t] = "Exited" => slice[t] # 0

\* The inductive invariant.
RqInv == RqTypeOK /\ RunQueueConsistent /\ UsedSliceIsPreempted /\ ExitedHasSlice

-----------------------------------------------------------------------------
(* The ready queue.                                                        *)

\* Queueing a task that was not Ready at the back (add_task) keeps the queue
\* equal to the set of Ready tasks.
LEMMA QueueAppend ==
    ASSUME NEW st \in [Tasks -> TaskState], NEW rq \in Seq(Tasks), NEW t \in Tasks,
           st[t] # "Ready", ReadyQueueOf(st, rq)
    PROVE  /\ Append(rq, t) \in Seq(Tasks)
           /\ ReadyQueueOf([st EXCEPT ![t] = "Ready"], Append(rq, t))
  BY DEF ReadyQueueOf

\* The same for the front (put_prev_task of a task that keeps its slice).
LEMMA QueuePushFront ==
    ASSUME NEW st \in [Tasks -> TaskState], NEW rq \in Seq(Tasks), NEW t \in Tasks,
           st[t] # "Ready", ReadyQueueOf(st, rq)
    PROVE  /\ <<t>> \o rq \in Seq(Tasks)
           /\ ReadyQueueOf([st EXCEPT ![t] = "Ready"], <<t>> \o rq)
<1> DEFINE s == <<t>> \o rq
           sn == [st EXCEPT ![t] = "Ready"]
<1>1. /\ s \in Seq(Tasks)
      /\ Len(s) = Len(rq) + 1
      /\ s[1] = t
      /\ \A i \in 2..Len(s) : i - 1 \in 1..Len(rq) /\ s[i] = rq[i - 1]
  OBVIOUS
<1>2. \A i \in 1..Len(rq) : rq[i] \in Tasks /\ rq[i] # t
  BY DEF ReadyQueueOf
<1> HIDE DEF s
<1>3. ASSUME NEW i \in 1..Len(s) PROVE sn[s[i]] = "Ready"
  <2>1. CASE i = 1
    BY <1>1, <2>1
  <2>2. CASE i # 1
    BY <1>1, <1>2, <2>2 DEF ReadyQueueOf
  <2> QED BY <2>1, <2>2
<1>4. \A i, j \in 1..Len(s) : s[i] = s[j] => i = j
  <2> SUFFICES ASSUME NEW i \in 1..Len(s), NEW j \in 1..Len(s), s[i] = s[j] PROVE i = j
    OBVIOUS
  <2>1. CASE i = 1 \/ j = 1
    BY <1>1, <1>2, <2>1
  <2>2. CASE i # 1 /\ j # 1
    BY SMTT(60), <1>1, <2>2 DEF ReadyQueueOf
  <2> QED BY <2>1, <2>2
<1>5. ASSUME NEW u \in Tasks, sn[u] = "Ready" PROVE \E i \in 1..Len(s) : s[i] = u
  <2>1. CASE u = t
    BY <1>1, <2>1
  <2>2. CASE u # t
    <3>1. PICK k \in 1..Len(rq) : rq[k] = u
      BY <1>5, <2>2 DEF ReadyQueueOf
    <3>2. k + 1 \in 1..Len(s) /\ s[k + 1] = u
      BY <1>1, <3>1
    <3> QED BY <3>2
  <2> QED BY <2>1, <2>2
<1> QED BY SMTT(60), <1>1, <1>3, <1>4, <1>5 DEF ReadyQueueOf, s

\* Taking the head off the queue (pick_next_task) and running it.
LEMMA QueuePick ==
    ASSUME NEW st \in [Tasks -> TaskState], NEW rq \in Seq(Tasks), rq # <<>>,
           ReadyQueueOf(st, rq)
    PROVE  /\ Head(rq) \in Tasks
           /\ st[Head(rq)] = "Ready"
           /\ Tail(rq) \in Seq(Tasks)
           /\ ReadyQueueOf([st EXCEPT ![Head(rq)] = "Running"], Tail(rq))
<1> DEFINE s == Tail(rq)
           h == Head(rq)
           sn == [st EXCEPT ![h] = "Running"]
<1>1. /\ s \in Seq(Tasks)
      /\ Len(rq) = Len(s) + 1
      /\ 1 \in 1..Len(rq) /\ h = rq[1] /\ h \in Tasks
      /\ \A i \in 1..Len(s) : i + 1 \in 1..Len(rq) /\ s[i] = rq[i + 1]
  OBVIOUS
<1>2. st[h] = "Ready"
  BY <1>1 DEF ReadyQueueOf
<1> HIDE DEF s, h
<1>3. \A i \in 1..Len(s) : s[i] \in Tasks /\ s[i] # h
  BY <1>1 DEF ReadyQueueOf
<1>4. \A i \in 1..Len(s) : sn[s[i]] = "Ready"
  BY <1>1, <1>3 DEF ReadyQueueOf
<1>5. \A i, j \in 1..Len(s) : s[i] = s[j] => i = j
  BY SMTT(60), <1>1 DEF ReadyQueueOf
<1>6. ASSUME NEW u \in Tasks, sn[u] = "Ready" PROVE \E i \in 1..Len(s) : s[i] = u
  <2>1. PICK k \in 1..Len(rq) : rq[k] = u
    BY <1>6, <1>1 DEF ReadyQueueOf
  <2>2. k # 1
    BY <1>1, <1>6, <2>1
  <2>3. k - 1 \in 1..Len(s) /\ s[k - 1] = u
    BY <1>1, <2>1, <2>2
  <2> QED BY <2>3
<1> QED BY <1>1, <1>2, <1>4, <1>5, <1>6 DEF ReadyQueueOf, s, h

\* A change between states other than Ready leaves the queue right.
LEMMA QueueOther ==
    ASSUME NEW st \in [Tasks -> TaskState], NEW rq \in Seq(Tasks), NEW t \in Tasks,
           NEW v \in TaskState, st[t] # "Ready", v # "Ready", ReadyQueueOf(st, rq)
    PROVE  ReadyQueueOf([st EXCEPT ![t] = v], rq)
  BY DEF ReadyQueueOf
-----------------------------------------------------------------------------
(* Switching.                                                              *)

\* Away from c, the CPUs run distinct tasks that st says are Running, and
\* there are no others.
OthersRun(c, st) ==
    /\ \A d \in CPUs \ {c} : cur[d] # Idle => st[cur[d]] = "Running"
    /\ \A t \in Tasks : st[t] = "Running" => \E d \in CPUs \ {c} : cur[d] = t

\* switch_to makes c run the head of the queue, or idle, and leaves every
\* runnable task in one place.
LEMMA SwitchTo ==
    ASSUME RqTypeOK, OneCpuPerTask, NEW c \in CPUs,
           NEW st \in [Tasks -> TaskState], NEW rq \in Seq(Tasks),
           ReadyQueueOf(st, rq), OthersRun(c, st), switch_to(c, st, rq)
    PROVE  /\ cur' \in [CPUs -> Tasks \cup {Idle}]
           /\ state' \in [Tasks -> TaskState]
           /\ ready' \in Seq(Tasks)
           /\ needResched' \in [CPUs -> BOOLEAN]
           /\ RunQueueConsistent'
<1> USE TasksAssumption DEF RqTypeOK
<1>1. CASE rq = <<>>
  <2>1. /\ cur' = [cur EXCEPT ![c] = Idle] /\ state' = st /\ ready' = rq
        /\ needResched' = [needResched EXCEPT ![c] = FALSE]
    BY <1>1 DEF switch_to
  <2>2. OneCpuPerTask'
    BY <2>1 DEF OneCpuPerTask
  <2>3. RunningIsCurrent'
    BY <2>1 DEF RunningIsCurrent, OthersRun
  <2> QED BY <2>1, <2>2, <2>3 DEF RunQueueConsistent
<1>2. CASE rq # <<>>
  <2> DEFINE h == Head(rq)
  <2>1. /\ h \in Tasks /\ st[h] = "Ready" /\ Tail(rq) \in Seq(Tasks)
        /\ ReadyQueueOf([st EXCEPT ![h] = "Running"], Tail(rq))
    BY Zenon, <1>2, QueuePick
  <2>2. /\ cur' = [cur EXCEPT ![c] = h] /\ state' = [st EXCEPT ![h] = "Running"]
        /\ ready' = Tail(rq) /\ needResched' = [needResched EXCEPT ![c] = FALSE]
    BY <1>2 DEF switch_to
  <2> HIDE DEF h
  <2>3. \A d \in CPUs \ {c} : cur[d] # h
    BY SMTT(60), <2>1 DEF OthersRun
  <2>4. OneCpuPerTask'
    BY <2>1, <2>2, <2>3 DEF OneCpuPerTask
  <2>5. ASSUME NEW d \in CPUs, cur'[d] # Idle PROVE state'[cur'[d]] = "Running"
    BY SMTT(60), <2>1, <2>2, <2>3, <2>5 DEF OthersRun
  <2>6. ASSUME NEW t \in Tasks, state'[t] = "Running" PROVE \E d \in CPUs : cur'[d] = t
    BY <2>1, <2>2, <2>6 DEF OthersRun
  <2>7. RunningIsCurrent'
    BY <2>5, <2>6 DEF RunningIsCurrent
  <2>8. state' \in [Tasks -> TaskState]
    BY <2>1, <2>2 DEF TaskState
  <2> QED BY <2>1, <2>2, <2>4, <2>7, <2>8 DEF RunQueueConsistent
<1> QED BY <1>1, <1>2

-----------------------------------------------------------------------------
(* One lemma per operation: it preserves the inductive invariant.          *)

\* The state that init leaves (main running, gc ready) satisfies the invariant.
LEMMA InitInv == RqInit => RqInv
<1> SUFFICES ASSUME RqInit PROVE RqInv
  OBVIOUS
<1> USE TasksAssumption, CpusAssumption, SchedAssumption DEF RqInit
<1>1. RqTypeOK
  BY DEF RqTypeOK, TaskState
<1>2. OneCpuPerTask /\ RunningIsCurrent
  BY Zenon DEF OneCpuPerTask, RunningIsCurrent
<1>3. ReadyQueueOf(state, ready)
  <2>1. Len(ready) = 1 /\ ready[1] = Gc /\ state[Gc] = "Ready"
    OBVIOUS
  <2>2. \A t \in Tasks : state[t] = "Ready" => t = Gc
    OBVIOUS
  <2> HIDE DEF RqInit
  <2>3. \A i \in 1..Len(ready) : i = 1
    BY <2>1
  <2>4. 1 \in 1..Len(ready)
    BY <2>1
  <2> QED BY <2>1, <2>2, <2>3, <2>4 DEF ReadyQueueOf
<1> QED BY <1>1, <1>2, <1>3 DEF RqInv, RunQueueConsistent, UsedSliceIsPreempted, ExitedHasSlice

\* add_task of a new task preserves the invariant.
LEMMA SpawnInv ==
    ASSUME RqInv, NEW c \in CPUs, NEW t \in Tasks, spawn(c, t) PROVE RqInv'
<1> USE TasksAssumption DEF RqInv, spawn, RqTypeOK
<1>1. RqTypeOK'
  BY QueueAppend DEF RunQueueConsistent, add_task, TaskState
<1>2. ReadyQueueOf(state', ready')
  BY Zenon, QueueAppend DEF RunQueueConsistent, add_task
<1>3. OneCpuPerTask' /\ RunningIsCurrent'
  BY DEF RunQueueConsistent, OneCpuPerTask, RunningIsCurrent
<1>4. UsedSliceIsPreempted' /\ ExitedHasSlice'
  BY DEF UsedSliceIsPreempted, ExitedHasSlice
<1> QED BY <1>1, <1>2, <1>3, <1>4 DEF RunQueueConsistent

\* unblock_task, which queues a task only if it is blocked, preserves the
\* invariant whatever task it names.
LEMMA UnblockInv ==
    ASSUME RqInv, NEW c \in CPUs, NEW t \in Tasks, NEW resched \in BOOLEAN,
           unblock_task(c, t, resched)
    PROVE  RqInv'
<1> USE TasksAssumption DEF RqInv, RqTypeOK
<1>1. CASE state[t] = "Blocked"
  <2>1. /\ state' = [state EXCEPT ![t] = "Ready"] /\ ready' = Append(ready, t)
        /\ needResched' = [needResched EXCEPT ![c] = (Preempt /\ resched) \/ @]
        /\ UNCHANGED <<cur, slice, holder>>
    BY <1>1 DEF unblock_task, add_task
  <2>2. ready' \in Seq(Tasks) /\ ReadyQueueOf(state', ready')
    BY Zenon, <1>1, <2>1, QueueAppend DEF RunQueueConsistent
  <2>3. needResched' \in [CPUs -> BOOLEAN] /\ \A d \in CPUs : needResched[d] => needResched'[d]
    BY <2>1, Zenon DEF Preempt
  <2>4. RqTypeOK'
    BY <2>1, <2>2, <2>3 DEF TaskState
  <2>5. OneCpuPerTask' /\ RunningIsCurrent'
    BY <1>1, <2>1 DEF RunQueueConsistent, OneCpuPerTask, RunningIsCurrent
  <2>6. UsedSliceIsPreempted' /\ ExitedHasSlice'
    BY <2>1, <2>3 DEF UsedSliceIsPreempted, ExitedHasSlice
  <2> QED BY SMTT(60), <2>2, <2>4, <2>5, <2>6 DEF RunQueueConsistent
<1>2. CASE state[t] # "Blocked"
  <2>1. UNCHANGED rqVars
    BY <1>2 DEF unblock_task, rqVars
  <2> QED BY ZenonT(60), <2>1 DEF rqVars, RunQueueConsistent, OneCpuPerTask, RunningIsCurrent, ReadyQueueOf,
               UsedSliceIsPreempted, ExitedHasSlice
<1> QED BY <1>1, <1>2

\* A timer tick preserves the invariant: it takes one off the slice of the
\* current task and marks it for preemption when the slice is used up.
LEMMA TickInv ==
    ASSUME RqInv, NEW c \in CPUs, scheduler_timer_tick(c) PROVE RqInv'
<1> USE TasksAssumption, SchedAssumption DEF RqInv, RqTypeOK
<1>1. UNCHANGED <<cur, state, ready, holder>>
  BY DEF scheduler_timer_tick
<1>2. RunQueueConsistent'
  BY <1>1 DEF RunQueueConsistent, OneCpuPerTask, RunningIsCurrent, ReadyQueueOf
<1>3. CASE cur[c] # Idle /\ Sched = "rr"
  <2> DEFINE t == cur[c]
  <2>1. /\ slice' = [slice EXCEPT ![t] = IF @ > 0 THEN @ - 1 ELSE 0]
        /\ needResched' = [needResched EXCEPT ![c] = (slice[t] <= 1) \/ @]
        /\ t \in Tasks
    BY <1>3 DEF scheduler_timer_tick
  <2>2. state[t] = "Running"
    BY <1>3, CpusAssumption DEF RunQueueConsistent, RunningIsCurrent, scheduler_timer_tick, RqFree
  <2> HIDE DEF t
  <2>3. slice' \in [Tasks -> 0..MaxTimeSlice]
    BY <2>1
  <2>4. needResched' \in [CPUs -> BOOLEAN] /\ \A d \in CPUs : needResched[d] => needResched'[d]
    BY <2>1, Zenon
  <2>5. slice'[t] = 0 => needResched'[c]
    <3>1. slice'[t] = 0 => slice[t] <= 1
      BY <2>1
    <3>2. slice[t] <= 1 => needResched'[c]
      BY <2>1, Zenon
    <3> QED BY <3>1, <3>2
  <2>6. UsedSliceIsPreempted'
    BY <1>1, <2>1, <2>4, <2>5 DEF UsedSliceIsPreempted, t
  <2>7. ExitedHasSlice'
    BY <1>1, <2>1, <2>2 DEF ExitedHasSlice
  <2> QED BY <1>1, <1>2, <2>3, <2>4, <2>6, <2>7
<1>4. CASE ~(cur[c] # Idle /\ Sched = "rr")
  <2>1. UNCHANGED <<slice, needResched>>
    BY <1>4 DEF scheduler_timer_tick
  <2> QED BY <1>1, <1>2, <2>1 DEF UsedSliceIsPreempted, ExitedHasSlice
<1> QED BY <1>3, <1>4

\* yield_current and preempt_resched: the current task, if there is one, goes
\* back to the queue before the switch.
LEMMA ReschedInv ==
    ASSUME RqInv, NEW c \in CPUs, NEW preempt \in BOOLEAN, RqFree,
           resched_running(c, preempt), UNCHANGED holder
    PROVE  RqInv'
<1> USE TasksAssumption, CpusAssumption, SchedAssumption DEF RqInv, RqTypeOK, RqFree
<1>1. \A d \in CPUs : cur[d] # Idle => state[cur[d]] = "Running"
  BY DEF RunQueueConsistent, RunningIsCurrent
<1>2. needResched' = [needResched EXCEPT ![c] = FALSE] /\ \A d \in CPUs \ {c} : cur'[d] = cur[d]
  BY DEF resched_running, switch_to
<1>3. CASE cur[c] = Idle
  <2>1. switch_to(c, state, ready) /\ slice' = slice
    BY <1>3 DEF resched_running
  <2>2. OthersRun(c, state)
    BY <1>1, <1>3 DEF OthersRun, RunQueueConsistent, RunningIsCurrent
  <2>3. /\ cur' \in [CPUs -> Tasks \cup {Idle}] /\ state' \in [Tasks -> TaskState]
        /\ ready' \in Seq(Tasks) /\ needResched' \in [CPUs -> BOOLEAN] /\ RunQueueConsistent'
    BY <2>1, <2>2, SwitchTo DEF RunQueueConsistent
  <2>4. UsedSliceIsPreempted'
    BY SMTT(60), <1>2, <1>3, <2>1, <2>3 DEF UsedSliceIsPreempted
  <2>5. ExitedHasSlice'
    BY SMTT(60), <2>1, <2>3 DEF switch_to, ExitedHasSlice
  <2> QED BY <2>1, <2>3, <2>4, <2>5
<1>4. CASE cur[c] # Idle
  <2> DEFINE t == cur[c]
             st == [state EXCEPT ![t] = "Ready"]
             rq == put_prev_task(ready, t, preempt)
  <2>1. switch_to(c, st, rq) /\ slice' = put_prev_slice(t, preempt)
    BY <1>4 DEF resched_running
  <2>2. t \in Tasks /\ state[t] = "Running"
    BY <1>1, <1>4
  <2>3. rq \in Seq(Tasks) /\ ReadyQueueOf(st, rq)
    BY Zenon, <2>2, QueueAppend, QueuePushFront DEF put_prev_task, RunQueueConsistent
  <2>4. st \in [Tasks -> TaskState]
    BY <2>2 DEF TaskState
  <2>5. OthersRun(c, st)
    BY SMTT(60), <1>1, <1>4, <2>2 DEF OthersRun, RunQueueConsistent, RunningIsCurrent, OneCpuPerTask
  <2>6. /\ cur' \in [CPUs -> Tasks \cup {Idle}] /\ state' \in [Tasks -> TaskState]
        /\ ready' \in Seq(Tasks) /\ needResched' \in [CPUs -> BOOLEAN] /\ RunQueueConsistent'
    BY ZenonT(60), <2>1, <2>3, <2>4, <2>5, SwitchTo DEF RunQueueConsistent
  <2>7. /\ slice' \in [Tasks -> 0..MaxTimeSlice]
        /\ slice'[t] # 0
        /\ \A u \in Tasks \ {t} : slice'[u] = slice[u]
    BY <2>1, <2>2 DEF put_prev_slice, keeps_slice
  <2>8. UsedSliceIsPreempted'
    BY ZenonT(60), <1>2, <2>6, <2>7 DEF UsedSliceIsPreempted
  <2>9. \A u \in Tasks : state'[u] = "Exited" => state[u] = "Exited"
    BY SMTT(60), <2>1, <2>2, <2>3 DEF switch_to
  <2>10. ExitedHasSlice'
    BY SMTT(60), <2>2, <2>7, <2>9 DEF ExitedHasSlice
  <2> QED BY <2>6, <2>7, <2>8, <2>10
<1> QED BY SMTT(60), <1>3, <1>4

\* block_current and sleep_until preserve the invariant.
LEMMA BlockInv ==
    ASSUME RqInv, NEW c \in CPUs, block_current(c) PROVE RqInv'
<1> USE TasksAssumption, CpusAssumption DEF RqInv, RqTypeOK, RqFree, block_current
<1> DEFINE t == cur[c]
           st == [state EXCEPT ![t] = "Blocked"]
<1>1. \A d \in CPUs : cur[d] # Idle => state[cur[d]] = "Running"
  BY DEF RunQueueConsistent, RunningIsCurrent
<1>2. t \in Tasks /\ state[t] = "Running" /\ st \in [Tasks -> TaskState]
  BY <1>1 DEF TaskState
<1>3. ReadyQueueOf(st, ready)
  BY ZenonT(60), <1>2, QueueOther DEF RunQueueConsistent, TaskState
<1>4. OthersRun(c, st)
  BY <1>1, <1>2 DEF OthersRun, RunQueueConsistent, RunningIsCurrent, OneCpuPerTask
<1>5. /\ cur' \in [CPUs -> Tasks \cup {Idle}] /\ state' \in [Tasks -> TaskState]
      /\ ready' \in Seq(Tasks) /\ needResched' \in [CPUs -> BOOLEAN] /\ RunQueueConsistent'
  BY Zenon, <1>2, <1>3, <1>4, SwitchTo DEF RunQueueConsistent
<1>6. slice[t] # 0
  BY <1>2 DEF UsedSliceIsPreempted, RunQueueConsistent, OneCpuPerTask
<1>7. UsedSliceIsPreempted'
  BY SMTT(60), <1>2, <1>5, <1>6 DEF UsedSliceIsPreempted, switch_to
<1>8. ExitedHasSlice'
  BY <1>2, <1>3 DEF ExitedHasSlice, switch_to
<1> QED BY <1>5, <1>7, <1>8

\* The first part of exit_current, which marks the task Exited and keeps the
\* lock, preserves the invariant.
LEMMA ExitInv ==
    ASSUME RqInv, NEW c \in CPUs, exit_current(c) PROVE RqInv'
<1> USE TasksAssumption, CpusAssumption DEF RqInv, RqTypeOK, RqFree, exit_current
<1> DEFINE t == cur[c]
<1>1. \A d \in CPUs : cur[d] # Idle => state[cur[d]] = "Running"
  BY DEF RunQueueConsistent, RunningIsCurrent
<1>2. t \in Tasks /\ state[t] = "Running"
  BY <1>1
<1>3. ReadyQueueOf(state', ready')
  BY Zenon, <1>2, QueueOther DEF RunQueueConsistent, TaskState
<1>4. OneCpuPerTask' /\ RunningIsCurrent'
  BY <1>1, <1>2 DEF RunQueueConsistent, OneCpuPerTask, RunningIsCurrent
<1>5. slice[t] # 0
  BY <1>2 DEF UsedSliceIsPreempted, RunQueueConsistent, OneCpuPerTask
<1>6. UsedSliceIsPreempted' /\ ExitedHasSlice'
  BY <1>2, <1>5 DEF UsedSliceIsPreempted, ExitedHasSlice
<1>7. RqTypeOK'
  BY <1>2 DEF TaskState
<1> QED BY <1>3, <1>4, <1>6, <1>7 DEF RunQueueConsistent

\* The switch away from an exited task preserves the invariant.
LEMMA ExitReschedInv ==
    ASSUME RqInv, NEW c \in CPUs, exit_resched(c) PROVE RqInv'
<1> USE TasksAssumption, CpusAssumption DEF RqInv, RqTypeOK, exit_resched, Exiting
<1>1. \A d \in CPUs \ {c} : cur[d] # Idle => state[cur[d]] = "Running"
  BY DEF RunQueueConsistent, RunningIsCurrent
<1>2. OthersRun(c, state)
  BY <1>1 DEF OthersRun, RunQueueConsistent, RunningIsCurrent
<1>3. /\ cur' \in [CPUs -> Tasks \cup {Idle}] /\ state' \in [Tasks -> TaskState]
      /\ ready' \in Seq(Tasks) /\ needResched' \in [CPUs -> BOOLEAN] /\ RunQueueConsistent'
  BY SMTT(60), <1>2, SwitchTo DEF RunQueueConsistent
<1>4. slice[cur[c]] # 0
  BY DEF ExitedHasSlice
<1>5. UsedSliceIsPreempted'
  BY <1>3, <1>4 DEF UsedSliceIsPreempted, switch_to
<1>6. ExitedHasSlice'
  BY SMTT(60), <1>3 DEF ExitedHasSlice, switch_to
<1> QED BY <1>3, <1>5, <1>6

\* Releasing RUN_QUEUE after such a switch preserves the invariant.
LEMMA SwitchDoneInv ==
    ASSUME RqInv, NEW c \in CPUs, switch_done(c) PROVE RqInv'
<1> USE TasksAssumption, CpusAssumption DEF RqInv, RqTypeOK, switch_done, Exiting
<1>1. OneCpuPerTask' /\ RunningIsCurrent' /\ ReadyQueueOf(state, ready)'
  BY ZenonT(60) DEF RunQueueConsistent, OneCpuPerTask, RunningIsCurrent, ReadyQueueOf
<1>2. UsedSliceIsPreempted' /\ ExitedHasSlice'
  BY DEF UsedSliceIsPreempted, ExitedHasSlice
<1> QED BY <1>1, <1>2 DEF RunQueueConsistent

-----------------------------------------------------------------------------
\* Every step of the run queue preserves the invariant.
LEMMA StepInv == RqInv /\ [RqNext]_rqVars => RqInv'
<1> SUFFICES ASSUME RqInv, [RqNext]_rqVars PROVE RqInv'
  BY SMTT(60)
<1>1. CASE UNCHANGED rqVars
  BY <1>1 DEF RqInv, RqTypeOK, rqVars, RunQueueConsistent, OneCpuPerTask, RunningIsCurrent,
       ReadyQueueOf, UsedSliceIsPreempted, ExitedHasSlice
<1>2. ASSUME NEW c \in CPUs, RqStep(c) PROVE RqInv'
  <2>1. ASSUME NEW t \in Tasks, spawn(c, t) PROVE RqInv'
    BY <2>1, SpawnInv
  <2>2. CASE yield_current(c)
    BY Zenon, <2>2, ReschedInv DEF yield_current
  <2>3. CASE preempt_resched(c)
    BY Zenon, <2>3, ReschedInv DEF preempt_resched
  <2>4. CASE block_current(c)
    BY <2>4, BlockInv
  <2>5. ASSUME NEW t \in Tasks, NEW resched \in BOOLEAN, unblock_task(c, t, resched) PROVE RqInv'
    BY <2>5, UnblockInv
  <2>6. CASE scheduler_timer_tick(c)
    BY <2>6, TickInv
  <2>7. CASE exit_current(c)
    BY <2>7, ExitInv
  <2>8. CASE exit_resched(c)
    BY <2>8, ExitReschedInv
  <2>9. CASE switch_done(c)
    BY <2>9, SwitchDoneInv
  <2> QED BY <1>2, <2>1, <2>2, <2>3, <2>4, <2>5, <2>6, <2>7, <2>8, <2>9 DEF RqStep
<1> QED BY <1>1, <1>2 DEF RqNext

\* The inductive invariant holds of every behaviour of the run queue.
THEOREM InvariantThm == RqSpec => []RqInv
<1> QED BY InitInv, StepInv, PTL DEF RqSpec

\* For any tasks, CPUs and either scheduler, the variables keep their types:
\* put_prev_task and task_tick keep a time slice within MAX_TIME_SLICE.
THEOREM TypeThm == RqSpec => []RqTypeOK
<1>1. RqInv => RqTypeOK
  BY DEF RqInv
<1> QED BY <1>1, InvariantThm, PTL

\* For any tasks and CPUs, a runnable task is on exactly one CPU or exactly
\* once in the ready queue: no order of yield, block, wake, preempt, spawn and
\* exit runs a task twice, queues it twice or loses it.
THEOREM ConsistentThm == RqSpec => []RunQueueConsistent
<1>1. RqInv => RunQueueConsistent
  BY DEF RqInv
<1> QED BY <1>1, InvariantThm, PTL

\* For any tasks and CPUs, a task whose time slice is used up is on a CPU
\* that is about to preempt it.
THEOREM SliceThm == RqSpec => []UsedSliceIsPreempted
<1>1. RqInv => UsedSliceIsPreempted
  BY SMTT(60) DEF RqInv
<1> QED BY <1>1, InvariantThm, PTL

\* For any tasks and CPUs, an exited task stays exited: no late unblock_task
\* or switch brings it back.
THEOREM ExitedStaysThm == RqSpec => ExitedStays
<1> DEFINE Stays == \A t \in Tasks : state[t] = "Exited" => state'[t] = "Exited"
<1>1. RqInv /\ [RqNext]_rqVars => [Stays]_rqVars
  <2> SUFFICES ASSUME RqInv, NEW c \in CPUs, RqStep(c), NEW t \in Tasks, state[t] = "Exited"
               PROVE  state'[t] = "Exited"
    BY DEF RqNext
  <2> USE TasksAssumption DEF RqInv, RqTypeOK
  <2>1. \A d \in CPUs : cur[d] # Idle /\ RqFree => cur[d] \in Tasks /\ state[cur[d]] = "Running"
    BY SMTT(60), CpusAssumption DEF RunQueueConsistent, RunningIsCurrent, RqFree
  <2>2. \A i \in 1..Len(ready) : ready[i] \in Tasks /\ state[ready[i]] = "Ready"
    BY SMTT(60) DEF RunQueueConsistent, ReadyQueueOf
  <2>3. ready # <<>> => Head(ready) # t
    BY <2>2
  <2>4. CASE yield_current(c) \/ preempt_resched(c)
    <3>1. PICK p \in BOOLEAN : RqFree /\ resched_running(c, p)
      BY Zenon, <2>4 DEF yield_current, preempt_resched
    <3>2. CASE cur[c] = Idle
      BY SMTT(60), <2>3, <3>1, <3>2 DEF resched_running, switch_to
    <3>3. CASE cur[c] # Idle
      <4> DEFINE rq == put_prev_task(ready, cur[c], p)
                 st == [state EXCEPT ![cur[c]] = "Ready"]
      <4>1. rq \in Seq(Tasks) /\ ReadyQueueOf(st, rq) /\ st \in [Tasks -> TaskState]
        BY ZenonT(60), <2>1, <3>1, <3>3, QueueAppend, QueuePushFront
           DEF put_prev_task, RunQueueConsistent, TaskState
      <4>2. rq # <<>> => st[Head(rq)] = "Ready"
        BY Zenon, <4>1, QueuePick
      <4>3. switch_to(c, st, rq) /\ st[t] = "Exited"
        BY <2>1, <3>1, <3>3 DEF resched_running
      <4> QED BY SMTT(60), <4>1, <4>2, <4>3 DEF switch_to
    <3> QED BY SMTT(60), <3>2, <3>3
  <2>5. CASE block_current(c) \/ exit_resched(c)
    BY <2>1, <2>3, <2>5 DEF block_current, exit_resched, switch_to
  <2>6. CASE exit_current(c) \/ switch_done(c) \/ scheduler_timer_tick(c)
    BY <2>1, <2>6 DEF exit_current, switch_done, scheduler_timer_tick
  <2>7. CASE \E u \in Tasks : spawn(c, u) \/ \E r \in BOOLEAN : unblock_task(c, u, r)
    BY <2>7 DEF spawn, unblock_task
  <2> QED BY <2>4, <2>5, <2>6, <2>7 DEF RqStep
<1>2. RqSpec => [][Stays]_rqVars
  BY <1>1, InvariantThm, PTL DEF RqSpec
<1> QED BY SMTT(60), <1>2 DEF ExitedStays
=============================================================================
