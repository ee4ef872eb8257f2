--------------------------- MODULE RuxTaskProofs ----------------------------
(***************************************************************************)
(* Waits, alarms and exits of ruxtask agree on who wakes whom, for every   *)
(* set of tasks and wait queues: every step keeps what RuxTaskWakeups states. *)
(***************************************************************************)
EXTENDS RuxTaskWakeups

\* The steps of a task's own code keep the invariant.
LEMMA TaskStepInv ==
    ASSUME TaskInv, NoLateAlarm, NEW c \in CPUs, NEW t \in Tasks, TaskStep(c, t)
    PROVE  WaitInv'
<1> USE DEF TaskInv, WaitInv
<1>0. /\ state[t] = "Running" /\ cur[c] = t /\ pc[t] = "run" /\ ~inWq[t] /\ ~inTl[t] /\ InTask(c)
      /\ \A d \in now..MaxTime : d \in Nat /\ d \in 0..MaxTime
  <2>1. At(c, t, "run")
    BY ZenonT(60) DEF TaskStep, Call, spawn_raw, drop_handle, join, yield_now, sleep_until, wait_meta,
           wait_timeout_alarm, wait_timeout_if, wait_timeout_until, notify_one, notify_all,
           notify_task, exit
  <2> QED
    BY SMTT(60), <2>1, AtFacts, Numbers
<1>a. CallTypeOK /\ WaitTypeOK /\ TimerTypeOK /\ GcTypeOK /\ now \in Nat /\ dl \in [Tasks -> Nat]
  BY Zenon, Numbers DEF TypeOK
<1>b. CallOk(t) /\ \A u \in Tasks : pc[u] = "dead" => state[u] = "Exited"
  BY ZenonT(60) DEF CallInv, CallOk
<1>1. ASSUME NEW u \in Tasks, spawn_raw(c, t, u) PROVE WaitInv'
  <2>1. KeepsStates /\ UNCHANGED <<cur, holder>> /\ pc[u] # "dead"
    BY Zenon, <1>1, <1>b DEF spawn_raw, spawn, KeepsStates, RqInv, RqTypeOK
  <2>2. GcInv'
    BY ZenonT(60), <1>1, <1>a, <2>1, GcFrame DEF spawn_raw, RunsLiving, callVars
  <2> QED
    BY SMTT(60), <1>1, <1>a, <2>1, <2>2, QuietStep DEF spawn_raw, timerVars
<1>2. ASSUME NEW u \in Tasks, drop_handle(c, t, u) PROVE WaitInv'
  BY ZenonT(60), <1>2, <1>0, <1>b, LocalStep DEF drop_handle, callVars, waitVars, timerVars, rqVars, CallOk
<1>3. ASSUME NEW u \in Tasks, join(c, t, u) PROVE WaitInv'
  <2>1. /\ pc'[t] = "join" /\ \A v \in Tasks \ {t} : pc'[v] = pc[v] /\ on'[v] = on[v] /\ dl'[v] = dl[v]
        /\ UNCHANGED <<rqVars, waitVars, timerVars, gcVars>>
    BY ZenonT(60), <1>3, <1>a DEF join, Goto, CallTypeOK
  <2>2. CallOk(t)'
    BY ZenonT(60), <1>0, <2>1 DEF CallOk, rqVars, waitVars, timerVars
  <2> QED
    BY ZenonT(60), <1>0, <2>1, <2>2, LocalStep DEF gcVars
<1>4. CASE yield_now(c, t)
  <2>1. KeepsStates /\ RunsLiving /\ UNCHANGED holder
    BY ZenonT(60), <1>4, ReschedEffect DEF yield_now, yield_current
  <2>2. GcInv'
    BY ZenonT(60), <1>4, <1>a, <2>1, GcFrame DEF yield_now, callVars, gcVars
  <2> QED
    BY SMTT(60), <1>4, <1>a, <2>1, <2>2, QuietStep DEF yield_now, timerVars
<1>5. ASSUME NEW d \in now..MaxTime, sleep_until(c, t, d) PROVE WaitInv'
  <2>1. /\ pc'[t] = "slept" /\ dl'[t] = d /\ \A v \in Tasks \ {t} : pc'[v] = pc[v] /\ dl'[v] = dl[v]
        /\ UNCHANGED <<on, waitVars, now, irq, irqTask, gcVars>> /\ block_current(c)
        /\ set_alarm_wakeup(t, d) /\ OneCpu
    BY ZenonT(60), <1>5, <1>a, AlarmOneCpu DEF sleep_until, Goto, CallTypeOK, Call, TimedCalls
  <2>2. inTl'[t] /\ \A v \in Tasks \ {t} : inTl'[v] = inTl[v]
    BY ZenonT(60), <2>1, <1>a DEF set_alarm_wakeup, TimerTypeOK
  <2>3. state'[t] = "Blocked"
    BY ZenonT(60), <1>0, <2>1, BlockEffect
  <2>4. CallOk(t)'
    BY ZenonT(60), <1>0, <2>1, <2>2, <2>3 DEF CallOk, waitVars
  <2>5. CallInv' /\ GcInv' /\ \A u \in Tasks : pc[u] = "dead" <=> pc'[u] = "dead"
    BY ZenonT(60), <1>0, <2>1, <2>2, <2>4, BlockStep DEF waitVars
  <2>6. TimerInv'
    BY ZenonT(60), <1>0, <1>a, <2>1, AlarmSet DEF TimedPcs
  <2> QED
    BY ZenonT(60), <2>1, <2>5, <2>6, QueueSame, JoinSame DEF waitVars
<1>6. ASSUME NEW q \in Queues, wait_meta(c, t, q) PROVE WaitInv'
  <2>1. /\ pc'[t] = "cancel_queue" /\ on'[t] = q
        /\ \A v \in Tasks \ {t} : pc'[v] = pc[v] /\ on'[v] = on[v]
        /\ UNCHANGED <<dl, timerVars, gcVars>> /\ block_current(c) /\ push_back(t, q)
    BY ZenonT(60), <1>6, <1>a DEF wait_meta, Goto, CallTypeOK
  <2>2. q \in WaitQueues /\ q \notin Tasks
    BY ZenonT(60), QueuesAssumption DEF WaitQueues
  <2> QED
    BY ZenonT(60), <1>0, <2>1, <2>2, WaitStep DEF WaitPcs
<1>7. ASSUME NEW q \in Queues, NEW d \in now..MaxTime,
             wait_timeout_alarm(c, t, q, d) \/ wait_timeout_until(c, t, q, d)
      PROVE  WaitInv'
  <2>1. /\ pc'[t] \in {"alarm_set", "until_time"} /\ on'[t] = q /\ dl'[t] = d
        /\ \A v \in Tasks \ {t} : pc'[v] = pc[v] /\ on'[v] = on[v] /\ dl'[v] = dl[v]
        /\ UNCHANGED <<rqVars, waitVars, now, irq, irqTask, gcVars>>
        /\ set_alarm_wakeup(t, d) /\ OneCpu
    BY ZenonT(60), <1>7, <1>a, AlarmOneCpu
       DEF wait_timeout_alarm, wait_timeout_until, Goto, CallTypeOK, Call, TimedCalls
  <2>2. inTl'[t] /\ \A v \in Tasks \ {t} : inTl'[v] = inTl[v]
    BY ZenonT(60), <2>1, <1>a DEF set_alarm_wakeup, TimerTypeOK
  <2>3. CallOk(t)'
    BY ZenonT(60), <1>0, <2>1, <2>2 DEF CallOk, waitVars, rqVars
  <2>4. CallInv'
    <3>1. \A v \in Tasks \ {t} : SameAt(v)
      BY ZenonT(60), <2>1, <2>2 DEF SameAt, waitVars, rqVars
    <3> QED
      BY SMTT(60), <1>a, <2>1, <2>3, <3>1, CallSteps
  <2>5. TimerInv'
    BY ZenonT(60), <1>0, <1>a, <2>1, AlarmSet DEF TimedPcs
  <2>6. \A u \in Tasks : pc[u] = "dead" <=> pc'[u] = "dead"
    BY ZenonT(60), <1>0, <2>1
  <2>7. GcInv'
    BY ZenonT(60), <1>a, <2>1, <2>6, GcFrame DEF RunsLiving, gcVars, rqVars
  <2>8. QueueInv' /\ JoinInv'
    BY ZenonT(60), <1>0, <2>1, <2>6, QueueSame, JoinSame DEF waitVars
  <2> QED
    BY ZenonT(60), <2>4, <2>5, <2>7, <2>8
<1>8. ASSUME NEW q \in Queues, NEW d \in now..MaxTime, wait_timeout_if(c, t, q, d) PROVE WaitInv'
  <2>1. /\ pc'[t] = "woken" /\ on'[t] = q /\ dl'[t] = d
        /\ \A v \in Tasks \ {t} : pc'[v] = pc[v] /\ on'[v] = on[v] /\ dl'[v] = dl[v]
        /\ UNCHANGED <<now, irq, irqTask, gcVars>> /\ block_current(c) /\ push_back(t, q)
        /\ set_alarm_wakeup(t, d) /\ OneCpu
    BY ZenonT(60), <1>8, <1>a, AlarmOneCpu DEF wait_timeout_if, Goto, CallTypeOK, Call, TimedCalls
  <2>2. /\ inTl'[t] /\ \A v \in Tasks \ {t} : inTl'[v] = inTl[v]
        /\ inWq'[t] /\ \A v \in Tasks \ {t} : inWq'[v] = inWq[v]
    BY ZenonT(60), <2>1, <1>a DEF set_alarm_wakeup, TimerTypeOK, push_back, WaitTypeOK
  <2>3. state'[t] = "Blocked"
    BY ZenonT(60), <1>0, <2>1, BlockEffect
  <2>4. CallOk(t)'
    BY ZenonT(60), <1>0, <2>1, <2>2, <2>3 DEF CallOk, WaitPcs
  <2>5. CallInv' /\ GcInv' /\ \A u \in Tasks : pc[u] = "dead" <=> pc'[u] = "dead"
    BY ZenonT(60), <1>0, <2>1, <2>2, <2>4, BlockStep
  <2>6. TimerInv'
    BY ZenonT(60), <1>0, <1>a, <2>1, AlarmSet DEF TimedPcs
  <2>7. q \in WaitQueues /\ q \notin Tasks
    BY ZenonT(60), QueuesAssumption DEF WaitQueues
  <2>8. QueueInv'
    BY ZenonT(60), <1>0, <1>a, <2>1, <2>7, PushQueue
  <2>9. JoinInv'
    BY ZenonT(60), <1>a, <2>1, <2>5, <2>7, JoinFrame DEF push_back
  <2> QED
    BY ZenonT(60), <2>5, <2>6, <2>8, <2>9
<1>9. ASSUME NEW q \in Queues, NEW r \in BOOLEAN, notify_one(c, t, q, r) PROVE WaitInv'
  <2>1. q \in WaitQueues /\ wq[q] # <<>>
    BY ZenonT(60), <1>9 DEF WaitQueues, notify_one
  <2>2. PICK h \in Tasks : Woken(h, q) /\ unblock_task(c, h, r)
    BY ZenonT(60), <1>9, <1>a, <2>1, NotifyEffect DEF notify_one
  <2> QED
    BY ZenonT(60), <1>9, <2>1, <2>2, WakeStep DEF notify_one
<1>10. ASSUME NEW q \in Queues, NEW r \in BOOLEAN, notify_all(c, t, q, r) PROVE WaitInv'
  <2>1. /\ pc'[t] = "notify_all"
        /\ \A v \in Tasks \ {t} : pc'[v] = pc[v] /\ on'[v] = on[v] /\ dl'[v] = dl[v]
        /\ UNCHANGED <<rqVars, waitVars, timerVars, gcVars>>
    BY ZenonT(60), <1>10, <1>a DEF notify_all, Goto, CallTypeOK
  <2>2. CallOk(t)'
    BY ZenonT(60), <1>0, <2>1 DEF CallOk, rqVars, waitVars, timerVars
  <2> QED
    BY ZenonT(60), <1>0, <2>1, <2>2, LocalStep DEF gcVars
<1>11. ASSUME NEW q \in Queues, NEW u \in Tasks, NEW r \in BOOLEAN, notify_task(c, t, q, u, r)
       PROVE WaitInv'
  <2>1. q \in WaitQueues /\ wq[q] \in Seq(Tasks) /\ Distinct(wq[q])
    BY ZenonT(60), <1>a DEF WaitQueues, WaitTypeOK, QueueInv
  <2>2. PICK i \in 1..Len(wq[q]) : wq[q][i] = u /\ wq' = [wq EXCEPT ![q] = remove(wq[q], i)]
    BY ZenonT(60), <1>11 DEF notify_task
  <2> DEFINE s == remove(wq[q], i)
  <2>3. /\ InQueue(wq[q], u) /\ s \in Seq(Tasks) /\ Distinct(s)
        /\ \A v : InQueue(s, v) <=> InQueue(wq[q], v) /\ v # u
    BY ZenonT(60), <2>1, <2>2, RemoveFacts
  <2>4. inWq[u] /\ on[u] = q /\ wq[q] # <<>>
    BY SMTT(60), <2>1, <2>3, EmptyFacts DEF QueueInv, Queued
  <2> HIDE DEF s
  <2>5. Woken(u, q)
    BY ZenonT(60), <1>11, <2>2, <2>3, <2>4 DEF Woken, notify_task, s
  <2> QED
    BY ZenonT(60), <1>11, <2>1, <2>5, WakeStep DEF notify_task
<1>12. CASE exit(c, t)
  <2>1. /\ pc'[t] = "exit" /\ \A v \in Tasks \ {t} : pc'[v] = pc[v]
        /\ UNCHANGED <<on, dl, waitVars, timerVars, gcVars, cur>> /\ holder = NoCpu
        /\ state'[t] = "Exited" /\ \A v \in Tasks \ {t} : state'[v] = state[v]
    BY ZenonT(60), <1>12, <1>a, <1>0 DEF exit, Goto, CallTypeOK, exit_current, RqFree, RqInv, RqTypeOK
  <2>2. CallOk(t)'
    BY ZenonT(60), <1>0, <2>1 DEF CallOk, waitVars, timerVars
  <2>3. \A v \in Tasks \ {t} : SameAt(v)
    BY ZenonT(60), <2>1 DEF SameAt, waitVars, timerVars
  <2>4. CallInv'
    BY SMTT(60), <1>a, <2>1, <2>2, <2>3, CallSteps DEF timerVars
  <2>5. \A u \in Tasks : pc[u] = "dead" <=> pc'[u] = "dead"
    BY ZenonT(60), <1>0, <2>1
  <2>6. TimerInv'
    <3>1. \A u \in Tasks : inTl[u] => dl'[u] = dl[u] /\ pc'[u] \in TimedPcs
      BY ZenonT(60), <1>0, <1>a, <2>1, TimedOnly
    <3>2. UNCHANGED <<inTl, timers, now, irq, irqTask>>
      BY ZenonT(60), <2>1 DEF timerVars
    <3> QED
      BY SMTT(60), <1>a, <3>1, <3>2, TimerFrame
  <2>7. GcInv'
    <3>1. \A d \in CPUs : leaving[d] = Idle
      BY ZenonT(60), <2>1, CpusAssumption DEF GcInv
    <3> QED
      BY ZenonT(60), <1>a, <2>1, <2>5, <3>1, GcFrame DEF RunsLiving, gcVars
  <2>8. QueueInv' /\ JoinInv'
    BY ZenonT(60), <2>1, <2>5, QueueSame, JoinSame DEF waitVars
  <2> QED
    BY Zenon, <2>4, <2>6, <2>7, <2>8
<1> HIDE DEF WaitInv, TaskInv
<1> QED
  BY ZenonT(60), <1>1, <1>2, <1>3, <1>4, <1>5, <1>6, <1>7, <1>8, <1>9, <1>10, <1>11, <1>12 DEF TaskStep

\* The steps of the kernel inside a call keep the invariant.
LEMMA KernelStepInv ==
    ASSUME TaskInv, NEW c \in CPUs, NEW t \in Tasks, KernelStep(c, t)
    PROVE  WaitInv'
<1> USE DEF TaskInv, WaitInv
<1>a. CallTypeOK /\ WaitTypeOK /\ TimerTypeOK /\ GcTypeOK /\ now \in Nat /\ dl \in [Tasks -> Nat]
  BY ZenonT(60), Numbers DEF TypeOK
<1>b. CallOk(t) /\ \A u \in Tasks : pc[u] = "dead" => state[u] = "Exited"
  BY ZenonT(60) DEF CallInv, CallOk
<1>c. inTl[t] => pc[t] \in TimedPcs
  BY ZenonT(60), <1>a, TimedOnly
<1>1. CASE sleep_return(c, t)
  <2>1. state[t] = "Running" /\ pc[t] = "slept"
    BY ZenonT(60), <1>1, AtFacts DEF sleep_return
  <2>2. ~inWq[t] /\ ~inTl[t]
    BY ZenonT(60), <1>b, <2>1 DEF CallOk, WaitPcs
  <2>3. /\ pc'[t] = "run" /\ \A v \in Tasks \ {t} : pc'[v] = pc[v] /\ on'[v] = on[v] /\ dl'[v] = dl[v]
        /\ UNCHANGED <<rqVars, waitVars, timerVars, gcVars>>
    BY ZenonT(60), <1>1, <1>a DEF sleep_return, Return, Goto, CallTypeOK
  <2>4. CallOk(t)'
    BY ZenonT(60), <2>1, <2>2, <2>3 DEF CallOk, rqVars, waitVars, timerVars
  <2> QED
    BY ZenonT(60), <2>1, <2>2, <2>3, <2>4, LocalStep DEF gcVars
<1>2. CASE join_wait_until(c, t)
  <2>1. state[t] = "Running" /\ pc[t] = "join" /\ cur[c] = t /\ on[t] \in WaitQueues
    BY ZenonT(60), <1>2, <1>a, AtFacts DEF join_wait_until, CallTypeOK
  <2>2. ~inWq[t] /\ ~inTl[t]
    BY ZenonT(60), <1>b, <1>c, <2>1 DEF CallOk, TimedPcs
  <2>3. CASE Goto(t, "cancel_queue") /\ UNCHANGED <<rqVars, waitVars>>
    <3>1. /\ pc'[t] = "cancel_queue"
          /\ \A v \in Tasks \ {t} : pc'[v] = pc[v] /\ on'[v] = on[v] /\ dl'[v] = dl[v]
          /\ UNCHANGED <<rqVars, waitVars, timerVars, gcVars>>
      BY ZenonT(60), <1>2, <1>a, <2>3 DEF join_wait_until, Goto, CallTypeOK
    <3>2. CallOk(t)'
      BY ZenonT(60), <2>1, <2>2, <3>1 DEF CallOk, rqVars, waitVars, timerVars
    <3> QED
      BY ZenonT(60), <2>1, <2>2, <3>1, <3>2, LocalStep DEF gcVars
  <2>4. CASE state[on[t]] # "Exited" /\ block_current(c) /\ push_back(t, on[t]) /\ UNCHANGED pc
    <3>1. on[t] \in Tasks => pc[on[t]] # "dead"
      BY ZenonT(60), <1>b, <2>4
    <3> QED
      BY ZenonT(60), <1>2, <2>1, <2>2, <2>4, <3>1, WaitStep DEF join_wait_until, WaitPcs
  <2> QED
    BY ZenonT(60), <1>2, <2>3, <2>4 DEF join_wait_until
<1>3. CASE wait_timeout_block(c, t)
  <2>1. state[t] = "Running" /\ pc[t] = "alarm_set" /\ cur[c] = t
    BY ZenonT(60), <1>3, AtFacts DEF wait_timeout_block
  <2>2. ~inWq[t] /\ on[t] \in Queues
    BY ZenonT(60), <1>b, <2>1 DEF CallOk, WaitPcs
  <2>3. on[t] \in WaitQueues /\ on[t] \notin Tasks
    BY ZenonT(60), <2>2, QueuesAssumption DEF WaitQueues
  <2>4. /\ pc'[t] = "woken" /\ \A v \in Tasks \ {t} : pc'[v] = pc[v]
        /\ UNCHANGED <<on, dl, timerVars, gcVars>> /\ block_current(c) /\ push_back(t, on[t])
    BY ZenonT(60), <1>3, <1>a DEF wait_timeout_block, Goto, CallTypeOK
  <2> QED
    BY ZenonT(60), <2>1, <2>2, <2>3, <2>4, WaitStep DEF WaitPcs, TimedPcs
<1>4. CASE wait_timeout_result(c, t)
  <2>1. state[t] = "Running" /\ pc[t] = "woken"
    BY ZenonT(60), <1>4, AtFacts DEF wait_timeout_result
  <2>2. /\ pc'[t] = "cancel_queue" /\ \A v \in Tasks \ {t} : pc'[v] = pc[v]
        /\ UNCHANGED <<on, dl, rqVars, waitVars, timerVars, gcVars>>
    BY ZenonT(60), <1>4, <1>a DEF wait_timeout_result, Goto, CallTypeOK
  <2>3. CallOk(t)'
    BY ZenonT(60), <2>1, <2>2 DEF CallOk, rqVars, waitVars, timerVars, WaitPcs
  <2> QED
    BY ZenonT(60), <2>1, <2>2, <2>3, LocalStep DEF gcVars, TimedPcs
<1>5. CASE wait_timeout_until_time(c, t)
  <2>1. state[t] = "Running" /\ pc[t] = "until_time"
    BY ZenonT(60), <1>5, AtFacts DEF wait_timeout_until_time
  <2>2. (inWq[t] => dl[t] <= now) /\ on[t] \in Queues /\ dl[t] \in Nat
    BY ZenonT(60), <1>a, <1>b, <2>1 DEF CallOk
  <2>3. /\ pc'[t] = (IF now < dl[t] THEN "until_lock" ELSE "cancel_queue")
        /\ \A v \in Tasks \ {t} : pc'[v] = pc[v]
        /\ UNCHANGED <<on, dl, rqVars, waitVars, timerVars, gcVars>>
    BY ZenonT(60), <1>5, <1>a DEF wait_timeout_until_time, Goto, CallTypeOK
  <2>4. pc'[t] \in {"until_lock", "cancel_queue"} /\ (inWq[t] => pc'[t] = "cancel_queue")
    BY <1>a, <2>2, <2>3
  <2>5. CallOk(t)'
    BY ZenonT(60), <2>1, <2>2, <2>3, <2>4 DEF CallOk, rqVars, waitVars, timerVars, WaitPcs
  <2> QED
    BY ZenonT(60), <2>1, <2>3, <2>4, <2>5, LocalStep DEF gcVars, TimedPcs
<1>6. CASE wait_timeout_until_lock(c, t)
  <2>1. state[t] = "Running" /\ pc[t] = "until_lock" /\ cur[c] = t
    BY ZenonT(60), <1>6, AtFacts DEF wait_timeout_until_lock
  <2>2. ~inWq[t] /\ on[t] \in Queues
    BY ZenonT(60), <1>b, <2>1 DEF CallOk, WaitPcs
  <2>3. on[t] \in WaitQueues /\ on[t] \notin Tasks
    BY Zenon, <2>2, QueuesAssumption DEF WaitQueues
  <2>4. CASE Goto(t, "cancel_queue") /\ UNCHANGED <<rqVars, waitVars>>
    <3>1. /\ pc'[t] = "cancel_queue" /\ \A v \in Tasks \ {t} : pc'[v] = pc[v]
          /\ UNCHANGED <<on, dl, rqVars, waitVars, timerVars, gcVars>>
      BY ZenonT(60), <1>6, <1>a, <2>4 DEF wait_timeout_until_lock, Goto, CallTypeOK
    <3>2. CallOk(t)'
      BY ZenonT(60), <2>1, <2>2, <3>1 DEF CallOk, rqVars, waitVars, timerVars
    <3> QED
      BY ZenonT(60), <2>1, <3>1, <3>2, LocalStep DEF gcVars, TimedPcs
  <2>5. CASE block_current(c) /\ push_back(t, on[t]) /\ Goto(t, "until_time")
    <3>1. /\ pc'[t] = "until_time" /\ \A v \in Tasks \ {t} : pc'[v] = pc[v]
          /\ UNCHANGED <<on, dl, timerVars, gcVars>>
      BY ZenonT(60), <1>6, <1>a, <2>5 DEF wait_timeout_until_lock, Goto, CallTypeOK
    <3> QED
      BY ZenonT(60), <2>1, <2>2, <2>3, <2>5, <3>1, WaitStep DEF WaitPcs, TimedPcs
  <2> QED
    BY ZenonT(60), <1>6, <2>4, <2>5 DEF wait_timeout_until_lock
<1>7. CASE cancel_events_queue(c, t)
  <2>1. state[t] = "Running" /\ pc[t] = "cancel_queue" /\ cur[c] = t /\ on[t] \in WaitQueues
    BY ZenonT(60), <1>7, <1>a, AtFacts DEF cancel_events_queue, CallTypeOK
  <2>2. /\ pc'[t] = "cancel_timer" /\ \A v \in Tasks \ {t} : pc'[v] = pc[v]
        /\ UNCHANGED <<on, dl, rqVars, timerVars, gcVars>>
    BY ZenonT(60), <1>7, <1>a DEF cancel_events_queue, Goto, CallTypeOK
  <2>3. CASE ~inWq[t]
    <3>1. UNCHANGED waitVars
      BY ZenonT(60), <1>7, <2>3 DEF cancel_events_queue
    <3>2. CallOk(t)'
      BY ZenonT(60), <2>1, <2>2, <2>3, <3>1 DEF CallOk, rqVars, waitVars, timerVars
    <3> QED
      BY ZenonT(60), <2>1, <2>2, <3>1, <3>2, LocalStep DEF gcVars, TimedPcs
  <2>4. CASE inWq[t]
    <3> DEFINE q == on[t]
               K == {i \in 1..Len(wq[q]) : wq[q][i] # t}
               s == retain(wq[q], K)
    <3>1. wq[q] \in Seq(Tasks) /\ Distinct(wq[q]) /\ InQueue(wq[q], t)
      BY ZenonT(60), <1>a, <2>1, <2>4 DEF WaitTypeOK, QueueInv, Queued
    <3>2. /\ s \in Seq(Tasks) /\ Distinct(s)
          /\ \A u : InQueue(s, u) <=> \E i \in 1..Len(wq[q]) : i \in K /\ wq[q][i] = u
      BY SMTT(60), <3>1, RetainQueue
    <3>3. \A u : InQueue(s, u) <=> InQueue(wq[q], u) /\ u # t
      BY ZenonT(60), <3>2 DEF InQueue
    <3>4. wq' = [wq EXCEPT ![q] = s] /\ inWq' = [inWq EXCEPT ![t] = FALSE]
      BY ZenonT(60), <1>7, <2>4 DEF cancel_events_queue
    <3>5. wq[q] # <<>>
      BY Zenon, <3>1, EmptyFacts
    <3> HIDE DEF s, K
    <3>6. Woken(t, q)
      BY ZenonT(60), <2>4, <3>2, <3>3, <3>4, <3>5 DEF Woken
    <3>7. QueueInv'
      BY ZenonT(60), <1>a, <2>1, <2>2, <3>6, TakeQueue
    <3>8. ~inWq'[t] /\ \A u \in Tasks \ {t} : inWq'[u] = inWq[u]
      BY ZenonT(60), <1>a, <3>4 DEF WaitTypeOK
    <3>9. CallInv'
      <4>1. CallOk(t)'
        BY ZenonT(60), <2>1, <2>2, <3>8 DEF CallOk, rqVars, timerVars
      <4>2. \A u \in Tasks \ {t} : SameAt(u)
        BY ZenonT(60), <2>2, <3>8 DEF SameAt, rqVars, timerVars
      <4> QED
        BY SMTT(60), <1>a, <2>2, <4>1, <4>2, CallSteps DEF timerVars
    <3>10. \A u \in Tasks : pc[u] = "dead" <=> pc'[u] = "dead"
      BY ZenonT(60), <2>1, <2>2
    <3>11. JoinInv'
      BY ZenonT(60), <1>a, <2>1, <3>4, <3>5, <3>10, JoinFrame
    <3>12. TimerInv'
      <4>1. \A u \in Tasks : inTl[u] => dl'[u] = dl[u] /\ pc'[u] \in TimedPcs
        BY ZenonT(60), <1>a, <2>2, TimedOnly DEF TimedPcs
      <4>2. UNCHANGED <<inTl, timers, now, irq, irqTask>>
        BY ZenonT(60), <2>2 DEF timerVars
      <4> QED
        BY SMTT(60), <1>a, <4>1, <4>2, TimerFrame
    <3>13. GcInv'
      BY ZenonT(60), <1>a, <2>2, <3>10, GcFrame DEF RunsLiving, gcVars, rqVars
    <3> QED
      BY ZenonT(60), <3>7, <3>9, <3>11, <3>12, <3>13
  <2> QED
    BY ZenonT(60), <2>3, <2>4
<1>8. CASE cancel_events_timer(c, t)
  <2>1. state[t] = "Running" /\ pc[t] = "cancel_timer" /\ InTask(c)
    BY ZenonT(60), <1>8, AtFacts DEF cancel_events_timer
  <2>2. ~inWq[t]
    BY ZenonT(60), <1>b, <2>1 DEF CallOk, WaitPcs
  <2>3. /\ pc'[t] \in {"run", "gc_start"}
        /\ \A v \in Tasks \ {t} : pc'[v] = pc[v] /\ on'[v] = on[v] /\ dl'[v] = dl[v]
        /\ UNCHANGED <<rqVars, waitVars, now, irq, irqTask, gcVars>>
    BY ZenonT(60), <1>8, <1>a DEF cancel_events_timer, Return, Goto, CallTypeOK
  <2>4. CASE ~inTl[t]
    <3>1. UNCHANGED timerVars
      BY ZenonT(60), <1>8, <2>3, <2>4 DEF cancel_events_timer, timerVars
    <3>2. CallOk(t)'
      BY ZenonT(60), <2>1, <2>2, <2>3 DEF CallOk, rqVars, waitVars
    <3> QED
      BY ZenonT(60), <2>1, <2>2, <2>3, <2>4, <3>1, <3>2, LocalStep DEF gcVars
  <2>5. CASE inTl[t]
    <3>1. cancel_alarm(t)
      BY ZenonT(60), <1>8, <2>5 DEF cancel_events_timer
    <3>2. TimerInv'
      BY ZenonT(60), <1>a, <2>1, <2>3, <3>1, AlarmCancel
    <3>3. CallInv'
      <4>1. CallOk(t)'
        BY Zenon, <2>1, <2>2, <2>3 DEF CallOk, rqVars, waitVars
      <4>2. \A u \in Tasks \ {t} : SameAt(u)
        BY ZenonT(60), <1>a, <2>3, <3>1 DEF SameAt, rqVars, waitVars, cancel_alarm, TimerTypeOK
      <4> QED
        BY SMTT(60), <1>a, <2>3, <4>1, <4>2, CallSteps
    <3>4. \A u \in Tasks : pc[u] = "dead" <=> pc'[u] = "dead"
      BY ZenonT(60), <2>1, <2>3
    <3>5. QueueInv' /\ JoinInv'
      BY ZenonT(60), <2>2, <2>3, <3>4, QueueSame, JoinSame DEF waitVars
    <3>6. GcInv'
      BY ZenonT(60), <1>a, <2>3, <3>4, GcFrame DEF RunsLiving, gcVars, rqVars
    <3> QED
      BY ZenonT(60), <3>2, <3>3, <3>5, <3>6
  <2> QED
    BY Zenon, <2>4, <2>5
<1>9. CASE notify_all_next(c, t)
  <2>1. state[t] = "Running" /\ pc[t] = "notify_all" /\ on[t] \in WaitQueues
    BY ZenonT(60), <1>9, <1>a, AtFacts DEF notify_all_next, CallTypeOK
  <2>2. ~inWq[t] /\ ~inTl[t]
    BY ZenonT(60), <1>b, <1>c, <2>1 DEF CallOk, WaitPcs, TimedPcs
  <2>3. CASE wq[on[t]] = <<>>
    <3>1. UNCHANGED <<rqVars, waitVars, timerVars, gcVars>> /\ Return(t, "run")
      BY ZenonT(60), <1>9, <2>3 DEF notify_all_next, notify_one_locked
    <3>2. pc'[t] = "run" /\ \A v \in Tasks \ {t} : pc'[v] = pc[v] /\ on'[v] = on[v] /\ dl'[v] = dl[v]
      BY ZenonT(60), <1>a, <3>1 DEF Return, Goto, CallTypeOK
    <3>3. CallOk(t)'
      BY ZenonT(60), <2>1, <2>2, <3>1, <3>2 DEF CallOk, rqVars, waitVars, timerVars
    <3> QED
      BY ZenonT(60), <2>1, <2>2, <3>1, <3>2, <3>3, LocalStep DEF gcVars
  <2>4. CASE wq[on[t]] # <<>>
    <3>1. PICK h \in Tasks : Woken(h, on[t]) /\ unblock_task(c, h, flag[t])
      BY ZenonT(60), <1>9, <1>a, <2>1, <2>4, NotifyEffect DEF notify_all_next
    <3> QED
      BY ZenonT(60), <1>9, <2>1, <2>4, <3>1, WakeStep DEF notify_all_next
  <2> QED
    BY ZenonT(60), <2>3, <2>4
<1>10. CASE notify_exit(c, t)
  <2>1. t \in WaitQueues /\ wq[t] # <<>>
    BY ZenonT(60), <1>10 DEF WaitQueues, notify_exit
  <2>2. PICK h \in Tasks : Woken(h, t) /\ unblock_task(c, h, FALSE)
    BY ZenonT(60), <1>10, <1>a, <2>1, NotifyEffect DEF notify_exit
  <2> QED
    BY ZenonT(60), <1>10, <2>1, <2>2, WakeStep DEF notify_exit
<1>11. CASE exit_to_gc(c, t)
  <2>1. /\ pc[t] = "exit" /\ wq[t] = <<>> /\ state[t] = "Exited" /\ cur[c] = t
        /\ GcQueue \in WaitQueues /\ GcQueue \notin Tasks
        /\ notify_one_locked(c, GcQueue, FALSE)
    BY ZenonT(60), <1>11, QueuesAssumption DEF exit_to_gc, Exiting, WaitQueues
  <2>2. /\ pc'[t] = "dead" /\ \A v \in Tasks \ {t} : pc'[v] = pc[v]
        /\ UNCHANGED <<on, dl, timerVars, handle, leaving, freed>> /\ exited' = Append(exited, t)
    BY ZenonT(60), <1>11, <1>a DEF exit_to_gc, Goto, CallTypeOK
  <2>3. ~inWq[t] /\ ~inTl[t]
    BY ZenonT(60), <1>b, <1>c, <2>1 DEF CallOk, WaitPcs, TimedPcs
  <2>4. /\ QueueInv' /\ UNCHANGED <<cur, holder>> /\ ~inWq'[t]
        /\ \A u \in Tasks : wq'[u] = wq[u]
        /\ state'[t] = "Exited"
        /\ \A u \in Tasks \ {t} : SameAt(u) \/ CallOk(u)'
    <3>1. CASE UNCHANGED <<rqVars, waitVars>>
      BY ZenonT(60), <2>2, <2>1, <2>3, <3>1, QueueSame DEF SameAt, rqVars, waitVars, timerVars
    <3>2. ASSUME NEW h \in Tasks, Woken(h, GcQueue), unblock_task(c, h, FALSE)
          PROVE  <2>4!:
      <4>1. /\ \A u \in Tasks : /\ state'[u] = "Blocked" <=> state[u] = "Blocked" /\ u # h
                                /\ state'[u] = "Exited" <=> state[u] = "Exited"
            /\ UNCHANGED <<cur, holder>>
        BY ZenonT(60), <3>2, UnblockEffect
      <4>2. inWq[h] /\ h # t /\ ~inWq'[h] /\ \A u \in Tasks \ {h} : inWq'[u] = inWq[u]
        BY ZenonT(60), <1>a, <2>3, <3>2 DEF Woken, WaitTypeOK
      <4>3. QueueInv'
        BY ZenonT(60), <1>a, <2>1, <2>2, <3>2, TakeQueue
      <4>4. \A u \in Tasks : wq'[u] = wq[u]
        BY ZenonT(60), <1>a, <2>1, <3>2 DEF Woken, WaitTypeOK, WaitQueues
      <4>5. CallOk(h)'
        BY ZenonT(60), <1>a, <2>2, <4>1, <4>2, WokenOk DEF CallInv
      <4>6. \A u \in Tasks \ {t, h} : SameAt(u)
        BY ZenonT(60), <2>2, <4>1, <4>2 DEF SameAt, timerVars
      <4>7. ~inWq'[t] /\ state'[t] = "Exited"
        BY ZenonT(60), <2>1, <2>3, <4>1, <4>2
      <4> QED
        BY ZenonT(60), <4>1, <4>3, <4>4, <4>5, <4>6, <4>7
    <3> QED
      BY ZenonT(60), <1>a, <2>1, <3>1, <3>2, NotifyEffect
  <2>5. CallInv'
    <3>1. CallOk(t)'
      BY ZenonT(60), <2>2, <2>4 DEF CallOk
    <3>2. \A u \in Tasks : SameAt(u) \/ CallOk(u)'
      BY ZenonT(60), <2>4, <3>1
    <3>3. now' = now
      BY ZenonT(60), <2>2 DEF timerVars
    <3> QED
      BY SMTT(60), <1>a, <3>2, <3>3, CallSteps
  <2>6. JoinInv'
    BY ZenonT(60), <2>1, <2>2, <2>4 DEF JoinInv
  <2>7. TimerInv'
    <3>1. \A u \in Tasks : inTl[u] => dl'[u] = dl[u] /\ pc'[u] \in TimedPcs
      BY ZenonT(60), <1>a, <2>2, <2>3, TimedOnly
    <3>2. UNCHANGED <<inTl, timers, now, irq, irqTask>>
      BY ZenonT(60), <2>2 DEF timerVars
    <3> QED
      BY <1>a, <3>1, <3>2, TimerFrame
  <2>8. GcInv'
    <3>1. \A i \in 1..Len(exited') : pc'[exited'[i]] = "dead"
      <4>1. exited \in Seq(Tasks) /\ Len(exited') = Len(exited) + 1 /\ exited'[Len(exited) + 1] = t
            /\ \A i \in 1..Len(exited) : exited'[i] = exited[i] /\ exited[i] \in Tasks
        BY <1>a, <2>2 DEF GcTypeOK
      <4>2. \A i \in 1..Len(exited) : pc'[exited[i]] = "dead"
        BY ZenonT(60), <2>2, <4>1 DEF GcInv
      <4> SUFFICES ASSUME NEW i \in 1..Len(exited') PROVE pc'[exited'[i]] = "dead"
        BY ZenonT(60)
      <4>3. CASE i = Len(exited) + 1
        BY Zenon, <2>2, <4>1, <4>3
      <4>4. CASE i # Len(exited) + 1
        <5>1. i \in 1..Len(exited)
          BY SMTT(60), <4>1, <4>4
        <5> QED
          BY Zenon, <4>1, <4>2, <5>1
      <4> QED
        BY ZenonT(60), <4>3, <4>4
    <3>2. \A d \in CPUs : leaving'[d] # Idle => holder' = d
      BY ZenonT(60), <2>2, <2>4 DEF GcInv
    <3>3. ASSUME OneCpu, NEW u \in freed
          PROVE  pc'[u] = "dead" /\ u \notin handle' /\ \A d \in CPUs : cur'[d] # u /\ leaving'[d] # u
      <4>1. u \in Tasks /\ pc[u] = "dead"
        BY ZenonT(60), <1>a, <3>3 DEF GcInv, GcTypeOK
      <4> QED
        BY ZenonT(60), <2>2, <2>4, <3>3, <4>1 DEF GcInv
    <3> QED
      BY ZenonT(60), <2>2, <3>1, <3>2, <3>3 DEF GcInv, OneCpu
  <2> QED
    BY ZenonT(60), <2>4, <2>5, <2>6, <2>7, <2>8
<1>12. CASE exit_switch(c, t)
  <2>1. /\ cur[c] = t /\ pc[t] = "dead" /\ exit_resched(c) /\ holder = c
        /\ leaving' = [leaving EXCEPT ![c] = t]
        /\ UNCHANGED <<callVars, waitVars, timerVars, exited, handle, freed>>
    BY ZenonT(60), <1>12 DEF exit_switch, exit_resched, Exiting
  <2>2. KeepsStates /\ RunsLiving /\ UNCHANGED holder
    BY ZenonT(60), <2>1, ExitSwitchEffect
  <2>3. leaving'[c] = t /\ \A d \in CPUs \ {c} : leaving'[d] = leaving[d]
    BY ZenonT(60), <1>a, <2>1 DEF GcTypeOK
  <2>4. \A d \in CPUs : leaving'[d] # Idle => holder' = d
    BY ZenonT(60), <2>1, <2>2, <2>3 DEF GcInv
  <2>5. ASSUME OneCpu, NEW u \in freed
        PROVE  pc'[u] = "dead" /\ u \notin handle' /\ \A d \in CPUs : cur'[d] # u /\ leaving'[d] # u
    <3>1. /\ u \in Tasks /\ pc[u] = "dead" /\ u \notin handle
          /\ \A d \in CPUs : cur[d] # u /\ leaving[d] # u
      BY ZenonT(60), <1>a, <2>5 DEF GcInv, GcTypeOK
    <3>2. state[u] = "Exited"
      BY ZenonT(60), <1>b, <3>1
    <3> QED
      BY ZenonT(60), <2>1, <2>2, <2>3, <3>1, <3>2, TasksAssumption DEF RunsLiving, callVars
  <2>6. GcInv'
    BY ZenonT(60), <2>1, <2>4, <2>5 DEF GcInv, OneCpu, callVars
  <2> QED
    BY SMTT(60), <1>a, <2>1, <2>2, <2>6, QuietStep DEF timerVars
<1> HIDE DEF WaitInv, TaskInv
<1> QED
  BY ZenonT(60), <1>1, <1>2, <1>3, <1>4, <1>5, <1>6, <1>7, <1>8, <1>9, <1>10, <1>11, <1>12 DEF KernelStep

\* The steps of the idle loop, preemption, the gc task and the end of a switch keep
\* the invariant.
LEMMA CpuStepInv ==
    ASSUME TaskInv, NEW c \in CPUs, CpuStep(c) PROVE WaitInv'
<1> USE DEF TaskInv, WaitInv
<1>a. CallTypeOK /\ WaitTypeOK /\ TimerTypeOK /\ GcTypeOK /\ now \in Nat /\ dl \in [Tasks -> Nat]
  BY ZenonT(60), Numbers DEF TypeOK
<1>b. Gc \in Tasks /\ CallOk(Gc) /\ \A u \in Tasks : pc[u] = "dead" => state[u] = "Exited"
  BY ZenonT(60), TasksAssumption DEF CallInv, CallOk
<1>1. CASE run_idle(c) \/ current_check_preempt_pending(c)
  <2>1. KeepsStates /\ RunsLiving /\ UNCHANGED holder
    BY ZenonT(60), <1>1, ReschedEffect DEF run_idle, yield_current, current_check_preempt_pending, preempt_resched
  <2>2. UNCHANGED <<callVars, waitVars, timerVars, gcVars>>
    BY ZenonT(60), <1>1 DEF run_idle, current_check_preempt_pending
  <2>3. GcInv'
    BY ZenonT(60), <1>a, <2>1, <2>2, GcFrame DEF callVars, gcVars
  <2> QED
    BY SMTT(60), <1>a, <2>1, <2>2, <2>3, QuietStep DEF timerVars
<1>2. CASE context_switched(c)
  <2>1. /\ holder = c /\ leaving' = [leaving EXCEPT ![c] = Idle]
        /\ UNCHANGED <<callVars, waitVars, timerVars, exited, handle, freed, cur, state>>
    BY ZenonT(60), <1>2 DEF context_switched, switch_done
  <2>2. leaving'[c] = Idle /\ \A d \in CPUs \ {c} : leaving'[d] = leaving[d]
    BY ZenonT(60), <1>a, <2>1 DEF GcTypeOK
  <2>3. \A d \in CPUs : leaving'[d] = Idle
    BY ZenonT(60), <2>1, <2>2 DEF GcInv
  <2>4. GcInv'
    BY ZenonT(60), <1>a, <2>1, <2>3, TasksAssumption DEF GcInv, OneCpu, callVars, GcTypeOK
  <2> QED
    BY SMTT(60), <1>a, <2>1, <2>4, QuietStep DEF timerVars, KeepsStates
<1>3. CASE gc_round(c)
  <2>1. state[Gc] = "Running" /\ pc[Gc] = "gc_start"
    BY ZenonT(60), <1>3, AtFacts DEF gc_round
  <2>2. ~inWq[Gc] /\ ~inTl[Gc]
    BY ZenonT(60), <1>a, <1>b, <2>1, TimedOnly DEF CallOk, WaitPcs, TimedPcs
  <2>3. /\ pc'[Gc] = "gc_scan" /\ \A v \in Tasks \ {Gc} : pc'[v] = pc[v]
        /\ UNCHANGED <<on, dl, rqVars, waitVars, timerVars, exited, handle, leaving, freed>>
    BY ZenonT(60), <1>3, <1>a, <1>b DEF gc_round, Goto, CallTypeOK
  <2>4. CallOk(Gc)'
    BY ZenonT(60), <2>1, <2>2, <2>3 DEF CallOk, rqVars, waitVars, timerVars
  <2> QED
    BY ZenonT(60), <1>b, <2>1, <2>2, <2>3, <2>4, LocalStep
<1>4. CASE gc_drop(c)
  <2> DEFINE g == Head(exited)
  <2>1. /\ InTask(c) /\ gcLeft > 0 /\ ~halted /\ holder # c
        /\ UNCHANGED <<rqVars, callVars, waitVars, timerVars, handle, leaving>>
    BY ZenonT(60), <1>4 DEF gc_drop, At, InTask
  <2>2. exited \in Seq(Tasks) /\ exited # <<>> /\ Len(exited) \in Nat /\ Len(exited) > 0
    BY SMTT(60), <1>a, <2>1 DEF GcTypeOK
  <2>3. /\ g = exited[1] /\ g \in Tasks /\ Tail(exited) \in Seq(Tasks)
        /\ Len(Tail(exited)) = Len(exited) - 1
        /\ \A i \in 1..(Len(exited) - 1) : Tail(exited)[i] = exited[i + 1]
    BY SMTT(60), <2>2
  <2>4. pc[g] = "dead" /\ \A i \in 1..Len(Tail(exited)) : pc[Tail(exited)[i]] = "dead"
    BY SMTT(60), <2>2, <2>3 DEF GcInv
  <2> HIDE DEF g
  <2>5. CASE Referenced(g) /\ exited' = Append(Tail(exited), g) /\ UNCHANGED freed
    <3> DEFINE n == Len(Tail(exited))
    <3>1. n \in Nat /\ Len(exited') = n + 1 /\ exited'[n + 1] = g
          /\ \A i \in 1..n : exited'[i] = Tail(exited)[i]
      BY SMTT(60), <2>2, <2>3, <2>5
    <3>2. ASSUME NEW i \in 1..Len(exited') PROVE pc[exited'[i]] = "dead"
      <4>1. CASE i = n + 1
        BY ZenonT(60), <2>4, <3>1, <4>1
      <4>2. CASE i # n + 1
        <5>1. i \in 1..n
          BY <3>1, <3>2, <4>2
        <5> QED
          BY ZenonT(60), <2>4, <3>1, <5>1
      <4> QED
        BY ZenonT(60), <4>1, <4>2
    <3>3. GcInv'
      BY ZenonT(60), <2>1, <2>5, <3>2 DEF GcInv, OneCpu, callVars, rqVars
    <3> QED
      BY <1>a, <2>1, <3>3, QuietStep DEF timerVars, rqVars, KeepsStates
  <2>6. CASE ~Referenced(g) /\ exited' = Tail(exited) /\ freed' = freed \cup {g}
    <3>1. g \notin handle /\ \A d \in CPUs : cur[d] # g
      BY ZenonT(60), <2>6 DEF Referenced
    <3>2. OneCpu => \A d \in CPUs : leaving[d] # g
      BY SMTT(60), <2>1, <2>3, TasksAssumption DEF OneCpu, GcInv
    <3>3. GcInv'
      BY ZenonT(60), <2>1, <2>4, <2>6, <3>1, <3>2 DEF GcInv, OneCpu, callVars, rqVars
    <3> QED
      BY <1>a, <2>1, <3>3, QuietStep DEF timerVars, rqVars, KeepsStates
  <2> QED
    BY ZenonT(60), <1>4, <2>5, <2>6 DEF gc_drop, g
<1>5. CASE gc_wait(c)
  <2>1. state[Gc] = "Running" /\ pc[Gc] = "gc_scan" /\ cur[c] = Gc
    BY ZenonT(60), <1>5, AtFacts DEF gc_wait
  <2>2. ~inWq[Gc] /\ ~inTl[Gc]
    BY ZenonT(60), <1>a, <1>b, <2>1, TimedOnly DEF CallOk, WaitPcs, TimedPcs
  <2>3. /\ pc'[Gc] = "cancel_queue" /\ on'[Gc] = GcQueue
        /\ \A v \in Tasks \ {Gc} : pc'[v] = pc[v] /\ on'[v] = on[v]
        /\ UNCHANGED <<dl, timerVars, gcVars>> /\ block_current(c) /\ push_back(Gc, GcQueue)
    BY ZenonT(60), <1>5, <1>a, <1>b DEF gc_wait, Goto, CallTypeOK
  <2>4. GcQueue \in WaitQueues /\ GcQueue \notin Tasks
    BY ZenonT(60), QueuesAssumption DEF WaitQueues
  <2> QED
    BY ZenonT(60), <1>b, <2>1, <2>2, <2>3, <2>4, WaitStep DEF WaitPcs
<1> HIDE DEF WaitInv, TaskInv
<1> QED
  BY ZenonT(60), <1>1, <1>2, <1>3, <1>4, <1>5 DEF CpuStep

\* The steps of the timer interrupt keep the invariant.
LEMMA IrqStepInv ==
    ASSUME TaskInv, NEW c \in CPUs, IrqStep(c) PROVE WaitInv'
<1> USE DEF TaskInv, WaitInv
<1>a. CallTypeOK /\ WaitTypeOK /\ TimerTypeOK /\ GcTypeOK /\ now \in Nat /\ dl \in [Tasks -> Nat]
  BY Zenon, Numbers DEF TypeOK
<1>1. CASE timer_irq(c) \/ timer_tick(c)
  <2>1. /\ UNCHANGED <<callVars, waitVars, inTl, timers, now, irqTask, gcVars, cur, state, holder>>
        /\ \A d \in CPUs : irq'[d] = "callback" <=> irq[d] = "callback"
    BY ZenonT(60), <1>1, <1>a DEF timer_irq, timer_tick, scheduler_timer_tick, rqVars, InTask, TimerTypeOK
  <2>2. GcInv'
    BY ZenonT(60), <1>a, <2>1, GcFrame DEF callVars, gcVars, RunsLiving
  <2> QED
    BY SMTT(60), <1>a, <2>1, <2>2, QuietStep DEF KeepsStates
<1>2. CASE check_events(c)
  <2>1. UNCHANGED <<rqVars, callVars, waitVars, inTl, now, gcVars>>
    BY ZenonT(60), <1>2 DEF check_events
  <2>2. GcInv'
    BY ZenonT(60), <1>a, <2>1, GcFrame DEF callVars, gcVars, rqVars, RunsLiving
  <2>3. CASE irq[c] = "check" /\ irq' = [irq EXCEPT ![c] = "tick"] /\ UNCHANGED <<timers, irqTask>>
    <3>1. \A d \in CPUs : irq'[d] = "callback" <=> irq[d] = "callback"
      BY ZenonT(60), <1>a, <2>3 DEF TimerTypeOK
    <3> QED
      BY SMTT(60), <1>a, <2>1, <2>2, <2>3, <3>1, QuietStep DEF rqVars, KeepsStates
  <2>4. ASSUME irq[c] = "check", NEW e \in Pending, e[2] <= now,
               timers' = [timers EXCEPT ![e] = @ - 1], irqTask' = [irqTask EXCEPT ![c] = e[1]],
               irq' = [irq EXCEPT ![c] = "callback"]
        PROVE  WaitInv'
    <3>1. TimerInv'
      BY ZenonT(60), <1>a, <2>1, <2>4, AlarmExpires DEF callVars
    <3>2. CallInv'
      BY SMTT(60), <1>a, <2>1, CallSteps DEF SameAt, rqVars, callVars, waitVars
    <3>3. QueueInv' /\ JoinInv'
      BY ZenonT(60), <2>1, QueueSame, JoinSame DEF waitVars, callVars
    <3> QED
      BY ZenonT(60), <2>2, <3>1, <3>2, <3>3
  <2> QED
    BY ZenonT(60), <1>2, <2>3, <2>4 DEF check_events
<1>3. CASE callback(c)
  <2>0. PICK h \in Tasks : h = irqTask[c]
    BY ZenonT(60), <1>3, <1>a DEF callback, TimerTypeOK
  <2>1. /\ irq[c] = "callback" /\ inTl' = [inTl EXCEPT ![h] = FALSE] /\ irq' = [irq EXCEPT ![c] = "check"]
        /\ UNCHANGED <<callVars, waitVars, timers, now, irqTask, gcVars>> /\ unblock_task(c, h, TRUE)
    BY ZenonT(60), <1>3, <2>0 DEF callback
  <2>2. h \in Tasks /\ pc[h] \in TimedPcs /\ dl[h] <= now
    BY ZenonT(60), <1>a, <2>0, <2>1 DEF TimerInv, TimerTypeOK
  <2>3. /\ \A u \in Tasks : /\ state'[u] = "Blocked" <=> state[u] = "Blocked" /\ u # h
                            /\ state'[u] = "Exited" <=> state[u] = "Exited"
        /\ UNCHANGED <<cur, holder>>
    BY ZenonT(60), <2>1, <2>2, UnblockEffect
  <2>4. ~inTl'[h] /\ \A u \in Tasks \ {h} : inTl'[u] = inTl[u]
    BY ZenonT(60), <1>a, <2>1, <2>2 DEF TimerTypeOK
  <2>5. CallInv'
    <3>1. CallOk(h)
      BY ZenonT(60), <2>2 DEF CallInv
    <3>2. CallOk(h)'
      <4>1. /\ pc'[h] = pc[h] /\ on'[h] = on[h] /\ dl'[h] = dl[h] /\ inWq'[h] = inWq[h] /\ now' = now
            /\ state'[h] # "Blocked" /\ (state'[h] = "Exited" <=> state[h] = "Exited")
        BY ZenonT(60), <2>1, <2>2, <2>3 DEF callVars, waitVars
      <4>2. pc[h] # "join"
        BY ZenonT(60), <2>2 DEF TimedPcs
      <4> QED
        BY ZenonT(60), <2>2, <2>4, <3>1, <4>1, <4>2 DEF CallOk
    <3>3. \A u \in Tasks \ {h} : SameAt(u)
      BY ZenonT(60), <2>1, <2>3, <2>4 DEF SameAt, callVars, waitVars
    <3>4. now' = now /\ \A u \in Tasks : SameAt(u) \/ CallOk(u)'
      BY ZenonT(60), <2>1, <3>2, <3>3
    <3> QED
      BY <1>a, <3>4, CallSteps
  <2>6. TimerInv'
    BY ZenonT(60), <1>a, <2>0, <2>1, AlarmDone DEF callVars
  <2>7. QueueInv' /\ JoinInv'
    BY ZenonT(60), <2>1, QueueSame, JoinSame DEF waitVars, callVars
  <2>8. GcInv'
    BY ZenonT(60), <1>a, <2>1, <2>3, GcFrame DEF callVars, gcVars, RunsLiving
  <2> QED
    BY ZenonT(60), <2>5, <2>6, <2>7, <2>8
<1> HIDE DEF WaitInv, TaskInv
<1> QED
  BY ZenonT(60), <1>1, <1>2, <1>3 DEF IrqStep

\* The invariant is inductive as long as no alarm can outlive its call.
LEMMA TaskInvStep == ASSUME NoLateAlarm PROVE TaskInv /\ [Next]_vars => TaskInv'
<1> SUFFICES ASSUME TaskInv, [Next]_vars PROVE TaskInv'
  BY ZenonT(60)
<1>1. TypeOK' /\ RqInv'
  BY ZenonT(60), TypeStep, RefinedStep, StepInv DEF TaskInv
<1>2. ASSUME NEW c \in CPUs, exit_main(c) PROVE WaitInv'
  <2>1. exited' = <<>> /\ UNCHANGED <<rqVars, callVars, waitVars, timerVars, handle, leaving, freed>>
    BY ZenonT(60), <1>2 DEF exit_main
  <2>2. \A i \in 1..Len(exited') : FALSE
    BY SMTT(60), <2>1
  <2>3. GcInv'
    BY ZenonT(60), <2>1, <2>2 DEF TaskInv, WaitInv, GcInv, OneCpu, rqVars, callVars
  <2> QED
    BY SMTT(60), <2>1, <2>3, Numbers, QuietStep DEF TaskInv, KeepsStates, rqVars, timerVars
<1>3. CASE clock
  <2>1. now' = now + 1 /\ UNCHANGED <<rqVars, callVars, waitVars, inTl, timers, irq, irqTask, gcVars>>
    BY ZenonT(60), <1>3 DEF clock
  <2>2. now' \in Nat /\ now <= now'
    BY SMTT(60), <2>1, Numbers DEF TaskInv
  <2>3. GcInv'
    BY ZenonT(60), <2>1 DEF TaskInv, WaitInv, GcInv, OneCpu, rqVars, callVars, gcVars
  <2> QED
    BY ZenonT(60), <1>1, <2>1, <2>2, <2>3, QuietStep DEF TaskInv, KeepsStates, rqVars
<1>4. CASE UNCHANGED vars
  <2>1. UNCHANGED <<rqVars, callVars, waitVars, timerVars, gcVars>>
    BY ZenonT(60), <1>4 DEF vars
  <2>2. GcInv'
    BY ZenonT(60), <2>1 DEF TaskInv, WaitInv, GcInv, OneCpu, rqVars, callVars, gcVars
  <2> QED
    BY <1>1, <2>1, <2>2, Numbers, QuietStep DEF TaskInv, KeepsStates, rqVars, timerVars
<1>5. ASSUME NEW c \in CPUs, NEW t \in Tasks, TaskStep(c, t) \/ KernelStep(c, t) PROVE WaitInv'
  BY ZenonT(60), <1>5, TaskStepInv, KernelStepInv
<1>6. ASSUME NEW c \in CPUs, CpuStep(c) \/ IrqStep(c) PROVE WaitInv'
  BY ZenonT(60), <1>6, CpuStepInv, IrqStepInv
<1> QED
  BY ZenonT(60), <1>1, <1>2, <1>3, <1>4, <1>5, <1>6 DEF Next, Terminated, TaskInv

\* The system starts with nobody waiting and no alarm set.
LEMMA TaskInvInit == Init => TaskInv
<1> SUFFICES ASSUME Init PROVE TaskInv
  BY ZenonT(60)
<1>1. RqInv /\ TypeOK
  BY ZenonT(60), InitInv, TypeInit DEF Init
<1>2. QueueInv
  BY ZenonT(60), EmptyFacts DEF Init, QueueInv, Queued
<1>3. CallInv
  BY ZenonT(60) DEF Init, RqInit, CallInv, CallOk
<1>4. JoinInv
  BY ZenonT(60) DEF Init, JoinInv, WaitQueues
<1>5. Pending = {} /\ \A c \in CPUs : irq[c] # "callback"
  BY DEF Init, Pending
<1>6. TimerInv
  BY ZenonT(60), <1>5 DEF Init, TimerInv, Alarms, InFlight
<1>7. GcInv
  <2>1. \A i \in 1..Len(exited) : FALSE
    BY SMTT(60) DEF Init
  <2> QED
    BY ZenonT(60), <2>1 DEF Init, GcInv
<1> QED
  BY ZenonT(60), <1>1, <1>2, <1>3, <1>4, <1>6, <1>7 DEF TaskInv, WaitInv

\* On any number of CPUs, as long as no call has a deadline, or on one CPU: the
\* flag in_wait_queue is true whatever order notifiers and waiters run in, and a
\* task that has left the processor for good has no joiner left in its queue.
THEOREM JoinersServedThm == ASSUME NoLateAlarm PROVE Spec => []JoinersServed
<1>1. TaskInv => JoinersServed
  <2> SUFFICES ASSUME TaskInv PROVE JoinersServed
    BY ZenonT(60)
  <2>1. WaitFlag
    BY ZenonT(60) DEF TaskInv, TypeOK, CallTypeOK, WaitInv, QueueInv, CallInv, CallOk, WaitFlag, WaitPcs
  <2>2. NoJoinerLeft
    BY ZenonT(60) DEF TaskInv, WaitInv, JoinInv, NoJoinerLeft
  <2> QED
    BY ZenonT(60), <2>1, <2>2 DEF JoinersServed
<1> QED
  BY <1>1, TaskInvInit, TaskInvStep, PTL DEF Spec

\* On one CPU, for any tasks, queues and calls: both flags are true, a task has one
\* alarm at most, every blocked task has somebody to wake it, a sleep is not cut
\* short, and gc_entry drops no task that is in use.
THEOREM NeverStrandedThm == ASSUME OneCpu PROVE Spec => []NeverStranded
<1>1. TaskInv => NeverStranded
  <2> SUFFICES ASSUME TaskInv PROVE NeverStranded
    BY Zenon
  <2> USE DEF TaskInv, WaitInv
  <2>1. WaitFlag
    BY Zenon DEF TypeOK, CallTypeOK, QueueInv, CallInv, CallOk, WaitFlag, WaitPcs
  <2>2. TimerFlag
    <3> SUFFICES ASSUME NEW t \in Tasks
                 PROVE  /\ inTl[t] <=> Alarms(t) # {} \/ InFlight(t)
                        /\ \A e, f \in Alarms(t) : e = f /\ timers[e] = 1
                        /\ pc[t] = "run" => Alarms(t) = {}
      BY ZenonT(60) DEF TimerFlag
    <3>1. inTl[t] <=> Alarms(t) # {} \/ InFlight(t)
      BY ZenonT(60) DEF TimerInv
    <3>2. ASSUME NEW e \in Alarms(t) PROVE e = <<t, dl[t]>> /\ timers[e] = 1
      <4>1. e \in Pending /\ e[1] = t
        BY ZenonT(60) DEF Alarms
      <4>2. e = <<e[1], e[2]>>
        BY <4>1 DEF Pending, Events
      <4>3. e[2] = dl[t] /\ timers[e] = 1
        BY ZenonT(60), <4>1 DEF TimerInv
      <4> QED
        BY ZenonT(60), <4>1, <4>2, <4>3
    <3>3. pc[t] = "run" => Alarms(t) = {}
      BY SMTT(60) DEF TimerInv, Alarms, TimedPcs
    <3> QED
      BY ZenonT(60), <3>1, <3>2, <3>3
  <2>3. BlockedHasWaker
    BY ZenonT(60) DEF TypeOK, CallTypeOK, QueueInv, CallInv, CallOk, TimerInv, BlockedHasWaker
  <2>4. SleepNotEarly
    BY Zenon DEF CallInv, CallOk, SleepNotEarly
  <2>5. FreedUnused
    <3> SUFFICES ASSUME NEW t \in freed PROVE ~Referenced(t) /\ \A c \in CPUs : leaving[c] # t
      BY ZenonT(60) DEF FreedUnused
    <3>1. /\ t \in Tasks /\ pc[t] = "dead" /\ t \notin handle
          /\ \A c \in CPUs : cur[c] # t /\ leaving[c] # t
      BY ZenonT(60) DEF TypeOK, GcTypeOK, GcInv
    <3>2. state[t] = "Exited" /\ ~inWq[t]
      BY ZenonT(60), <3>1 DEF CallInv, CallOk, WaitPcs
    <3>3. \A i \in 1..Len(ready) : ready[i] # t
      BY ZenonT(60), <3>2 DEF RqInv, RunQueueConsistent, ReadyQueueOf
    <3>4. \A q \in WaitQueues : ~InQueue(wq[q], t)
      BY ZenonT(60), <3>1, <3>2 DEF QueueInv, Queued
    <3>5. ~inTl[t]
      BY ZenonT(60), <3>1, TimedOnly DEF TypeOK, TimedPcs
    <3>6. Alarms(t) = {} /\ ~InFlight(t)
      BY ZenonT(60), <3>1, <3>5 DEF TimerInv
    <3> QED
      BY ZenonT(60), <3>1, <3>3, <3>4, <3>6 DEF Referenced
  <2> QED
    BY ZenonT(60), <2>1, <2>2, <2>3, <2>4, <2>5 DEF NeverStranded
<1>2. NoLateAlarm
  BY ZenonT(60) DEF NoLateAlarm
<1> QED
  BY <1>1, <1>2, TaskInvInit, TaskInvStep, PTL DEF Spec
=============================================================================
