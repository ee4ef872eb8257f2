--------------------------- MODULE RuxTaskWakeups ---------------------------
(***************************************************************************)
(* The state of ruxtask keeps its types, and its steps are steps of the run *)
(* queue underneath, for any CPUs, tasks, wait queues and calls. Then who   *)
(* wakes whom: what the wait queues, the alarms, the joiners and the gc    *)
(* task promise, and what the operations on them do to it.                 *)
(***************************************************************************)
EXTENDS RuxTask, RunQueueProofs

\* remove leaves a queue of tasks a queue of tasks.
LEMMA RemoveSeq ==
    ASSUME NEW S, NEW s \in Seq(S), NEW i \in 1..Len(s) PROVE remove(s, i) \in Seq(S)
  BY DEF remove

\* Where the tasks are keeps its type when it is left alone.
LEMMA CallSame == CallTypeOK /\ UNCHANGED callVars => CallTypeOK'
  BY Zenon DEF CallTypeOK, callVars

\* The wait queues keep their types when they are left alone.
LEMMA WaitSame == WaitTypeOK /\ UNCHANGED waitVars => WaitTypeOK'
  BY Zenon DEF WaitTypeOK, waitVars

\* The timer list keeps its type when it is left alone.
LEMMA TimerSame == TimerTypeOK /\ UNCHANGED timerVars => TimerTypeOK'
  BY Zenon DEF TimerTypeOK, timerVars

\* The lists of the gc task keep their types when they are left alone.
LEMMA GcSame == GcTypeOK /\ UNCHANGED gcVars => GcTypeOK'
  BY DEF GcTypeOK, gcVars

\* Moving on inside a call.
LEMMA GotoType ==
    ASSUME CallTypeOK, NEW t, NEW p \in PcValues, Goto(t, p) PROVE pc' \in [Tasks -> PcValues]
  BY Zenon DEF CallTypeOK, Goto

\* Returning from a call.
LEMMA ReturnType ==
    ASSUME CallTypeOK, NEW t, NEW p \in PcValues, Return(t, p) PROVE CallTypeOK'
<1>1. pc' \in [Tasks -> PcValues]
  BY Zenon, GotoType DEF Return
<1>2. GcQueue \in WaitQueues /\ 0 \in 0..MaxTime
  BY QueuesAssumption DEF WaitQueues
<1>3. on' \in [Tasks -> WaitQueues] /\ dl' \in [Tasks -> 0..MaxTime]
  BY ZenonT(60), <1>2 DEF CallTypeOK, Return
<1>4. flag' \in [Tasks -> BOOLEAN]
  BY Zenon DEF CallTypeOK, Return
<1> QED
  BY ZenonT(60), <1>1, <1>3, <1>4 DEF CallTypeOK

\* Queueing a task.
LEMMA PushType ==
    ASSUME WaitTypeOK, NEW t \in Tasks, NEW q \in WaitQueues, push_back(t, q) PROVE WaitTypeOK'
<1>1. wq[q] \in Seq(Tasks) /\ Append(wq[q], t) \in Seq(Tasks)
  BY DEF WaitTypeOK
<1> QED
  BY Zenon, <1>1 DEF WaitTypeOK, push_back

\* Waking the head of a queue.
LEMMA NotifyType ==
    ASSUME WaitTypeOK, NEW c, NEW r, NEW q \in WaitQueues, notify_one_locked(c, q, r)
    PROVE  WaitTypeOK'
<1>1. CASE wq[q] = <<>>
  BY Zenon, <1>1, WaitSame DEF notify_one_locked
<1>2. CASE wq[q] # <<>>
  <2>1. wq[q] \in Seq(Tasks) /\ Tail(wq[q]) \in Seq(Tasks)
    BY <1>2 DEF WaitTypeOK
  <2> QED
    BY Zenon, <1>2, <2>1 DEF WaitTypeOK, notify_one_locked
<1> QED
  BY Zenon, <1>1, <1>2

\* retain leaves a queue of tasks a queue of tasks.
LEMMA CancelWaitType ==
    ASSUME WaitTypeOK, CallTypeOK, NEW t \in Tasks, NEW c, cancel_events_queue(c, t)
    PROVE  WaitTypeOK'
<1>1. CASE inWq[t]
  <2> DEFINE K == {i \in 1..Len(wq[on[t]]) : wq[on[t]][i] # t}
  <2>1. wq[on[t]] \in Seq(Tasks) /\ retain(wq[on[t]], K) \in Seq(Tasks)
    BY RetainFacts DEF WaitTypeOK, CallTypeOK
  <2>2. wq' = [wq EXCEPT ![on[t]] = retain(wq[on[t]], K)] /\ inWq' = [inWq EXCEPT ![t] = FALSE]
    BY Zenon, <1>1 DEF cancel_events_queue
  <2> QED
    BY Zenon, <2>1, <2>2 DEF WaitTypeOK
<1>2. CASE ~inWq[t]
  BY Zenon, <1>2, WaitSame DEF cancel_events_queue
<1> QED
  BY Zenon, <1>1, <1>2

\* Setting an alarm.
LEMMA AlarmType ==
    ASSUME TimerTypeOK, NEW t \in Tasks, NEW d \in 0..MaxTime, set_alarm_wakeup(t, d),
           UNCHANGED <<now, irq, irqTask>>
    PROVE  TimerTypeOK'
<1>1. <<t, d>> \in Events
  BY Zenon DEF Events
<1>2. timers' \in [Events -> Nat]
  BY <1>1 DEF TimerTypeOK, set_alarm_wakeup
<1> QED
  BY Zenon, <1>2 DEF TimerTypeOK, set_alarm_wakeup

\* Taking an alarm out of TIMER_LIST.
LEMMA ExpireType ==
    ASSUME TimerTypeOK, NEW c \in CPUs, check_events(c) PROVE TimerTypeOK'
<1>1. ASSUME irq' = [irq EXCEPT ![c] = "tick"], UNCHANGED <<timers, irqTask>> PROVE TimerTypeOK'
  BY Zenon, <1>1 DEF TimerTypeOK, check_events
<1>2. ASSUME NEW e \in Pending, timers' = [timers EXCEPT ![e] = @ - 1],
             irqTask' = [irqTask EXCEPT ![c] = e[1]], irq' = [irq EXCEPT ![c] = "callback"]
      PROVE  TimerTypeOK'
  <2>1. timers' \in [Events -> Nat]
    BY <1>2 DEF TimerTypeOK, Pending
  <2>2. e[1] \in Tasks
    BY Zenon DEF Pending, Events
  <2> QED
    BY Zenon, <1>2, <2>1, <2>2 DEF TimerTypeOK, check_events
<1> QED
  BY Zenon, <1>1, <1>2 DEF check_events

\* Taking all alarms of a task out of TIMER_LIST.
LEMMA CancelType ==
    ASSUME TimerTypeOK, NEW t \in Tasks, cancel_alarm(t), UNCHANGED <<now, irq, irqTask>>
    PROVE  TimerTypeOK'
  BY Zenon DEF cancel_alarm, TimerTypeOK

\* Every step keeps the types.
LEMMA TypeStep == TypeOK /\ [Next]_vars => TypeOK'
<1> SUFFICES ASSUME TypeOK, [Next]_vars PROVE TypeOK'
  BY Zenon
<1> USE TasksAssumption, QueuesAssumption DEF TypeOK, PcValues
<1>0. \A d \in now..MaxTime : d \in 0..MaxTime
  BY DEF TimerTypeOK
<1>1. ASSUME NEW c \in CPUs, NEW t \in Tasks, NEW u \in Tasks, spawn_raw(c, t, u) PROVE TypeOK'
  BY Zenon, <1>1, CallSame, WaitSame, TimerSame
     DEF spawn_raw, GcTypeOK
<1>2. ASSUME NEW c \in CPUs, NEW t \in Tasks, NEW u \in Tasks, drop_handle(c, t, u) PROVE TypeOK'
  BY Zenon, <1>2, CallSame, WaitSame, TimerSame
     DEF drop_handle, GcTypeOK
<1>3. ASSUME NEW c \in CPUs, NEW t \in Tasks, NEW u \in Tasks, join(c, t, u) PROVE TypeOK'
  BY Zenon, <1>3, WaitSame, TimerSame, GcSame, GotoType
     DEF join, CallTypeOK, WaitQueues
<1>4. ASSUME NEW c \in CPUs, NEW t \in Tasks, yield_now(c, t) PROVE TypeOK'
  BY Zenon, <1>4, CallSame, WaitSame, TimerSame, GcSame
     DEF yield_now
<1>5. ASSUME NEW c \in CPUs, NEW t \in Tasks, NEW d \in now..MaxTime, sleep_until(c, t, d) PROVE TypeOK'
  BY ZenonT(60), <1>5, WaitSame, GcSame, GotoType, AlarmType, <1>0
     DEF sleep_until, CallTypeOK
<1>6. ASSUME NEW c \in CPUs, NEW t \in Tasks, NEW q \in Queues, wait_meta(c, t, q) PROVE TypeOK'
  BY ZenonT(60), <1>6, TimerSame, GcSame, GotoType, PushType
     DEF wait_meta, CallTypeOK, WaitQueues
<1>7. ASSUME NEW c \in CPUs, NEW t \in Tasks, NEW q \in Queues, NEW d \in now..MaxTime, wait_timeout_alarm(c, t, q, d) PROVE TypeOK'
  BY ZenonT(60), <1>7, WaitSame, GcSame, GotoType, AlarmType, <1>0
     DEF wait_timeout_alarm, CallTypeOK, WaitQueues
<1>8. ASSUME NEW c \in CPUs, NEW t \in Tasks, NEW q \in Queues, NEW d \in now..MaxTime, wait_timeout_if(c, t, q, d) PROVE TypeOK'
  BY ZenonT(60), <1>8, GcSame, GotoType, PushType, AlarmType, <1>0
     DEF wait_timeout_if, CallTypeOK, WaitQueues
<1>9. ASSUME NEW c \in CPUs, NEW t \in Tasks, NEW q \in Queues, NEW d \in now..MaxTime, wait_timeout_until(c, t, q, d) PROVE TypeOK'
  BY ZenonT(60), <1>9, WaitSame, GcSame, GotoType, AlarmType, <1>0
     DEF wait_timeout_until, CallTypeOK, WaitQueues
<1>10. ASSUME NEW c \in CPUs, NEW t \in Tasks, NEW q \in Queues, NEW r \in BOOLEAN, notify_one(c, t, q, r) PROVE TypeOK'
  BY ZenonT(60), <1>10, CallSame, TimerSame, GcSame, NotifyType
     DEF notify_one, WaitQueues
<1>11. ASSUME NEW c \in CPUs, NEW t \in Tasks, NEW q \in Queues, NEW r \in BOOLEAN, notify_all(c, t, q, r) PROVE TypeOK'
  BY ZenonT(60), <1>11, WaitSame, TimerSame, GcSame, GotoType
     DEF notify_all, CallTypeOK, WaitQueues
<1>12. ASSUME NEW c \in CPUs, NEW t \in Tasks, NEW q \in Queues, NEW r \in BOOLEAN, NEW u \in Tasks, notify_task(c, t, q, u, r) PROVE TypeOK'
  BY SMTT(60), <1>12, CallSame, TimerSame, GcSame, RemoveSeq
     DEF notify_task, WaitTypeOK, WaitQueues
<1>13. ASSUME NEW c \in CPUs, NEW t \in Tasks, exit(c, t) PROVE TypeOK'
  BY Zenon, <1>13, WaitSame, TimerSame, GcSame, GotoType
     DEF exit, CallTypeOK
<1>14. ASSUME NEW c \in CPUs, NEW t \in Tasks, sleep_return(c, t) PROVE TypeOK'
  BY Zenon, <1>14, WaitSame, TimerSame, GcSame, ReturnType
     DEF sleep_return
<1>15. ASSUME NEW c \in CPUs, NEW t \in Tasks, join_wait_until(c, t) PROVE TypeOK'
  BY Zenon, <1>15, TimerSame, GcSame, WaitSame, GotoType, PushType
     DEF join_wait_until, CallTypeOK
<1>16. ASSUME NEW c \in CPUs, NEW t \in Tasks, wait_timeout_block(c, t) PROVE TypeOK'
  BY Zenon, <1>16, TimerSame, GcSame, GotoType, PushType
     DEF wait_timeout_block, CallTypeOK
<1>17. ASSUME NEW c \in CPUs, NEW t \in Tasks, wait_timeout_result(c, t) PROVE TypeOK'
  BY Zenon, <1>17, WaitSame, TimerSame, GcSame, GotoType
     DEF wait_timeout_result, CallTypeOK, WaitTypeOK
<1>18. ASSUME NEW c \in CPUs, NEW t \in Tasks, wait_timeout_until_time(c, t) PROVE TypeOK'
  BY Zenon, <1>18, WaitSame, TimerSame, GcSame, GotoType
     DEF wait_timeout_until_time, CallTypeOK
<1>19. ASSUME NEW c \in CPUs, NEW t \in Tasks, wait_timeout_until_lock(c, t) PROVE TypeOK'
  BY Zenon, <1>19, TimerSame, GcSame, WaitSame, GotoType, PushType
     DEF wait_timeout_until_lock, CallTypeOK
<1>20. ASSUME NEW c \in CPUs, NEW t \in Tasks, cancel_events_queue(c, t) PROVE TypeOK'
  BY Zenon, <1>20, TimerSame, GcSame, GotoType, CancelWaitType
     DEF cancel_events_queue, CallTypeOK
<1>21. ASSUME NEW c \in CPUs, NEW t \in Tasks, cancel_events_timer(c, t) PROVE TypeOK'
  BY Zenon, <1>21, WaitSame, GcSame, TimerSame, CancelType, ReturnType
     DEF cancel_events_timer, timerVars
<1>22. ASSUME NEW c \in CPUs, NEW t \in Tasks, notify_all_next(c, t) PROVE TypeOK'
  <2>1. WaitTypeOK'
    BY ZenonT(60), <1>22, NotifyType DEF notify_all_next, CallTypeOK
  <2>2. CallTypeOK'
    BY ZenonT(60), <1>22, CallSame, ReturnType DEF notify_all_next
  <2> QED
    BY Zenon, <1>22, <2>1, <2>2, TimerSame, GcSame DEF notify_all_next
<1>23. ASSUME NEW c \in CPUs, NEW t \in Tasks, notify_exit(c, t) PROVE TypeOK'
  BY ZenonT(60), <1>23, CallSame, TimerSame, GcSame, NotifyType
     DEF notify_exit, WaitQueues
<1>24. ASSUME NEW c \in CPUs, NEW t \in Tasks, exit_to_gc(c, t) PROVE TypeOK'
  <2>1. WaitTypeOK'
    BY ZenonT(60), <1>24, NotifyType DEF exit_to_gc, WaitQueues
  <2>2. CallTypeOK'
    BY ZenonT(60), <1>24, GotoType DEF exit_to_gc, CallTypeOK
  <2>3. exited' \in Seq(Tasks) /\ Len(exited') = Len(exited) + 1
    BY SMTT(60), <1>24 DEF exit_to_gc, GcTypeOK
  <2>4. GcTypeOK'
    BY SMTT(60), <1>24, <2>3 DEF exit_to_gc, GcTypeOK
  <2> QED
    BY ZenonT(60), <1>24, <2>1, <2>2, <2>4, TimerSame DEF exit_to_gc
<1>25. ASSUME NEW c \in CPUs, NEW t \in Tasks, exit_switch(c, t) PROVE TypeOK'
  BY ZenonT(60), <1>25, CallSame, WaitSame, TimerSame
     DEF exit_switch, GcTypeOK
<1>26. ASSUME NEW c \in CPUs, run_idle(c) PROVE TypeOK'
  BY ZenonT(60), <1>26, CallSame, WaitSame, TimerSame, GcSame
     DEF run_idle
<1>27. ASSUME NEW c \in CPUs, current_check_preempt_pending(c) PROVE TypeOK'
  BY ZenonT(60), <1>27, CallSame, WaitSame, TimerSame, GcSame
     DEF current_check_preempt_pending
<1>28. ASSUME NEW c \in CPUs, context_switched(c) PROVE TypeOK'
  BY ZenonT(60), <1>28, CallSame, WaitSame, TimerSame
     DEF context_switched, GcTypeOK
<1>29. ASSUME NEW c \in CPUs, gc_round(c) PROVE TypeOK'
  BY SMTT(60), <1>29, WaitSame, TimerSame, GotoType
     DEF gc_round, CallTypeOK, GcTypeOK
<1>30. ASSUME NEW c \in CPUs, gc_drop(c) PROVE TypeOK'
  BY SMTT(60), <1>30, CallSame, WaitSame, TimerSame
     DEF gc_drop, At, InTask, GcTypeOK
<1>31. ASSUME NEW c \in CPUs, gc_wait(c) PROVE TypeOK'
  BY Zenon, <1>31, TimerSame, GcSame, GotoType, PushType
     DEF gc_wait, CallTypeOK, WaitQueues
<1>32. ASSUME NEW c \in CPUs, timer_irq(c) PROVE TypeOK'
  BY Zenon, <1>32, CallSame, WaitSame, GcSame
     DEF timer_irq, TimerTypeOK
<1>33. ASSUME NEW c \in CPUs, check_events(c) PROVE TypeOK'
  BY ZenonT(60), <1>33, CallSame, WaitSame, GcSame, ExpireType
     DEF check_events
<1>34. ASSUME NEW c \in CPUs, callback(c) PROVE TypeOK'
  BY ZenonT(60), <1>34, CallSame, WaitSame, GcSame
     DEF callback, TimerTypeOK
<1>35. ASSUME NEW c \in CPUs, timer_tick(c) PROVE TypeOK'
  BY ZenonT(60), <1>35, CallSame, WaitSame, GcSame
     DEF timer_tick, TimerTypeOK
<1>36. ASSUME NEW c \in CPUs, exit_main(c) PROVE TypeOK'
  BY SMTT(60), <1>36, CallSame, WaitSame, TimerSame
     DEF exit_main, GcTypeOK
<1>37. CASE clock
  BY SMTT(60), <1>37, CallSame, WaitSame, GcSame DEF clock, TimerTypeOK
<1>38. CASE UNCHANGED vars
  BY ZenonT(60), <1>38, CallSame, WaitSame, TimerSame, GcSame DEF vars
<1> HIDE DEF TypeOK
<1>39. ASSUME NEW c \in CPUs, NEW t \in Tasks, TaskStep(c, t) PROVE TypeOK'
  BY ZenonT(60), <1>39, <1>1, <1>2, <1>3, <1>4, <1>5, <1>6, <1>7, <1>8, <1>9, <1>10, <1>11, <1>12, <1>13 DEF TaskStep
<1>40. ASSUME NEW c \in CPUs, NEW t \in Tasks, KernelStep(c, t) PROVE TypeOK'
  BY ZenonT(60), <1>40, <1>14, <1>15, <1>16, <1>17, <1>18, <1>19, <1>20, <1>21, <1>22, <1>23, <1>24, <1>25 DEF KernelStep
<1>41. ASSUME NEW c \in CPUs, CpuStep(c) PROVE TypeOK'
  BY ZenonT(60), <1>41, <1>26, <1>27, <1>28, <1>29, <1>30, <1>31 DEF CpuStep
<1>42. ASSUME NEW c \in CPUs, IrqStep(c) PROVE TypeOK'
  BY ZenonT(60), <1>42, <1>32, <1>33, <1>34, <1>35 DEF IrqStep
<1> QED
  BY Zenon, <1>36, <1>37, <1>38, <1>39, <1>40, <1>41, <1>42 DEF Next, Terminated

\* Waking the head of a wait queue is unblock_task, or nothing.
LEMMA NotifyRefines ==
    ASSUME WaitTypeOK, NEW c \in CPUs, NEW q \in WaitQueues, NEW r \in BOOLEAN,
           notify_one_locked(c, q, r)
    PROVE  [RqNext]_rqVars
<1>1. CASE wq[q] = <<>>
  BY ZenonT(60), <1>1 DEF notify_one_locked
<1>2. CASE wq[q] # <<>>
  <2>1. Head(wq[q]) \in Tasks
    BY SMTT(60), <1>2 DEF WaitTypeOK
  <2> QED
    BY ZenonT(60), <1>2, <2>1 DEF notify_one_locked, RqNext, RqStep
<1> QED
  BY ZenonT(60), <1>1, <1>2

\* Every step is a step of the run queue or leaves it alone.
LEMMA RefinedStep == TypeOK /\ [Next]_vars => [RqNext]_rqVars
<1> SUFFICES ASSUME TypeOK, [Next]_vars PROVE [RqNext]_rqVars
  BY Zenon
<1> USE DEF TypeOK
<1>1. ASSUME NEW c \in CPUs, NEW t \in Tasks, NEW u \in Tasks, spawn_raw(c, t, u) PROVE [RqNext]_rqVars
  BY Zenon, <1>1 DEF RqNext, RqStep, spawn_raw
<1>2. ASSUME NEW c \in CPUs, NEW t \in Tasks, NEW u \in Tasks, drop_handle(c, t, u) PROVE [RqNext]_rqVars
  BY Zenon, <1>2 DEF drop_handle
<1>3. ASSUME NEW c \in CPUs, NEW t \in Tasks, NEW u \in Tasks, join(c, t, u) PROVE [RqNext]_rqVars
  BY Zenon, <1>3 DEF join
<1>4. ASSUME NEW c \in CPUs, NEW t \in Tasks, yield_now(c, t) PROVE [RqNext]_rqVars
  BY Zenon, <1>4 DEF RqNext, RqStep, yield_now
<1>5. ASSUME NEW c \in CPUs, NEW t \in Tasks, NEW d \in now..MaxTime, sleep_until(c, t, d) PROVE [RqNext]_rqVars
  BY Zenon, <1>5 DEF RqNext, RqStep, sleep_until
<1>6. ASSUME NEW c \in CPUs, NEW t \in Tasks, NEW q \in Queues, wait_meta(c, t, q) PROVE [RqNext]_rqVars
  BY Zenon, <1>6 DEF RqNext, RqStep, wait_meta
<1>7. ASSUME NEW c \in CPUs, NEW t \in Tasks, NEW q \in Queues, NEW d \in now..MaxTime, wait_timeout_alarm(c, t, q, d) PROVE [RqNext]_rqVars
  BY Zenon, <1>7 DEF wait_timeout_alarm
<1>8. ASSUME NEW c \in CPUs, NEW t \in Tasks, NEW q \in Queues, NEW d \in now..MaxTime, wait_timeout_if(c, t, q, d) PROVE [RqNext]_rqVars
  BY Zenon, <1>8 DEF RqNext, RqStep, wait_timeout_if
<1>9. ASSUME NEW c \in CPUs, NEW t \in Tasks, NEW q \in Queues, NEW d \in now..MaxTime, wait_timeout_until(c, t, q, d) PROVE [RqNext]_rqVars
  BY Zenon, <1>9 DEF wait_timeout_until
<1>10. ASSUME NEW c \in CPUs, NEW t \in Tasks, NEW q \in Queues, NEW r \in BOOLEAN, notify_one(c, t, q, r) PROVE [RqNext]_rqVars
  BY Zenon, <1>10, NotifyRefines DEF notify_one, WaitQueues
<1>11. ASSUME NEW c \in CPUs, NEW t \in Tasks, NEW q \in Queues, NEW r \in BOOLEAN, notify_all(c, t, q, r) PROVE [RqNext]_rqVars
  BY Zenon, <1>11 DEF notify_all
<1>12. ASSUME NEW c \in CPUs, NEW t \in Tasks, NEW q \in Queues, NEW r \in BOOLEAN, NEW u \in Tasks, notify_task(c, t, q, u, r) PROVE [RqNext]_rqVars
  BY Zenon, <1>12 DEF RqNext, RqStep, notify_task
<1>13. ASSUME NEW c \in CPUs, NEW t \in Tasks, exit(c, t) PROVE [RqNext]_rqVars
  BY Zenon, <1>13 DEF RqNext, RqStep, exit
<1>14. ASSUME NEW c \in CPUs, NEW t \in Tasks, sleep_return(c, t) PROVE [RqNext]_rqVars
  BY Zenon, <1>14 DEF sleep_return
<1>15. ASSUME NEW c \in CPUs, NEW t \in Tasks, join_wait_until(c, t) PROVE [RqNext]_rqVars
  BY ZenonT(60), <1>15 DEF RqNext, RqStep, join_wait_until
<1>16. ASSUME NEW c \in CPUs, NEW t \in Tasks, wait_timeout_block(c, t) PROVE [RqNext]_rqVars
  BY ZenonT(60), <1>16 DEF RqNext, RqStep, wait_timeout_block
<1>17. ASSUME NEW c \in CPUs, NEW t \in Tasks, wait_timeout_result(c, t) PROVE [RqNext]_rqVars
  BY ZenonT(60), <1>17 DEF wait_timeout_result
<1>18. ASSUME NEW c \in CPUs, NEW t \in Tasks, wait_timeout_until_time(c, t) PROVE [RqNext]_rqVars
  BY ZenonT(60), <1>18 DEF wait_timeout_until_time
<1>19. ASSUME NEW c \in CPUs, NEW t \in Tasks, wait_timeout_until_lock(c, t) PROVE [RqNext]_rqVars
  BY ZenonT(60), <1>19 DEF RqNext, RqStep, wait_timeout_until_lock
<1>20. ASSUME NEW c \in CPUs, NEW t \in Tasks, cancel_events_queue(c, t) PROVE [RqNext]_rqVars
  BY ZenonT(60), <1>20 DEF cancel_events_queue
<1>21. ASSUME NEW c \in CPUs, NEW t \in Tasks, cancel_events_timer(c, t) PROVE [RqNext]_rqVars
  BY ZenonT(60), <1>21 DEF cancel_events_timer
<1>22. ASSUME NEW c \in CPUs, NEW t \in Tasks, notify_all_next(c, t) PROVE [RqNext]_rqVars
  BY ZenonT(60), <1>22, NotifyRefines DEF notify_all_next, CallTypeOK
<1>23. ASSUME NEW c \in CPUs, NEW t \in Tasks, notify_exit(c, t) PROVE [RqNext]_rqVars
  BY ZenonT(60), <1>23, NotifyRefines DEF notify_exit, WaitQueues
<1>24. ASSUME NEW c \in CPUs, NEW t \in Tasks, exit_to_gc(c, t) PROVE [RqNext]_rqVars
  BY ZenonT(60), <1>24, NotifyRefines DEF exit_to_gc, WaitQueues
<1>25. ASSUME NEW c \in CPUs, NEW t \in Tasks, exit_switch(c, t) PROVE [RqNext]_rqVars
  BY ZenonT(60), <1>25 DEF RqNext, RqStep, exit_switch
<1>26. ASSUME NEW c \in CPUs, run_idle(c) PROVE [RqNext]_rqVars
  BY ZenonT(60), <1>26 DEF RqNext, RqStep, run_idle
<1>27. ASSUME NEW c \in CPUs, current_check_preempt_pending(c) PROVE [RqNext]_rqVars
  BY ZenonT(60), <1>27 DEF RqNext, RqStep, current_check_preempt_pending
<1>28. ASSUME NEW c \in CPUs, context_switched(c) PROVE [RqNext]_rqVars
  BY ZenonT(60), <1>28 DEF RqNext, RqStep, context_switched
<1>29. ASSUME NEW c \in CPUs, gc_round(c) PROVE [RqNext]_rqVars
  BY ZenonT(60), <1>29 DEF gc_round
<1>30. ASSUME NEW c \in CPUs, gc_drop(c) PROVE [RqNext]_rqVars
  BY ZenonT(60), <1>30 DEF gc_drop
<1>31. ASSUME NEW c \in CPUs, gc_wait(c) PROVE [RqNext]_rqVars
  BY ZenonT(60), <1>31 DEF RqNext, RqStep, gc_wait
<1>32. ASSUME NEW c \in CPUs, timer_irq(c) PROVE [RqNext]_rqVars
  BY ZenonT(60), <1>32 DEF timer_irq
<1>33. ASSUME NEW c \in CPUs, check_events(c) PROVE [RqNext]_rqVars
  BY ZenonT(60), <1>33 DEF check_events
<1>34. ASSUME NEW c \in CPUs, callback(c) PROVE [RqNext]_rqVars
  BY ZenonT(60), <1>34 DEF RqNext, RqStep, callback, TimerTypeOK
<1>35. ASSUME NEW c \in CPUs, timer_tick(c) PROVE [RqNext]_rqVars
  BY ZenonT(60), <1>35 DEF RqNext, RqStep, timer_tick
<1>36. ASSUME NEW c \in CPUs, exit_main(c) PROVE [RqNext]_rqVars
  BY ZenonT(60), <1>36 DEF exit_main
<1>37. CASE clock
  BY ZenonT(60), <1>37 DEF clock
<1>38. CASE UNCHANGED vars
  BY ZenonT(60), <1>38 DEF vars
<1> HIDE DEF TypeOK
<1>39. ASSUME NEW c \in CPUs, NEW t \in Tasks, TaskStep(c, t) PROVE [RqNext]_rqVars
  BY ZenonT(60), <1>39, <1>1, <1>2, <1>3, <1>4, <1>5, <1>6, <1>7, <1>8, <1>9, <1>10, <1>11, <1>12, <1>13 DEF TaskStep
<1>40. ASSUME NEW c \in CPUs, NEW t \in Tasks, KernelStep(c, t) PROVE [RqNext]_rqVars
  BY ZenonT(60), <1>40, <1>14, <1>15, <1>16, <1>17, <1>18, <1>19, <1>20, <1>21, <1>22, <1>23, <1>24, <1>25 DEF KernelStep
<1>41. ASSUME NEW c \in CPUs, CpuStep(c) PROVE [RqNext]_rqVars
  BY ZenonT(60), <1>41, <1>26, <1>27, <1>28, <1>29, <1>30, <1>31 DEF CpuStep
<1>42. ASSUME NEW c \in CPUs, IrqStep(c) PROVE [RqNext]_rqVars
  BY ZenonT(60), <1>42, <1>32, <1>33, <1>34, <1>35 DEF IrqStep
<1> QED
  BY Zenon, <1>36, <1>37, <1>38, <1>39, <1>40, <1>41, <1>42 DEF Next, Terminated

\* The system starts with the types it keeps.
LEMMA TypeInit == Init => TypeOK
<1> SUFFICES ASSUME Init PROVE TypeOK
  BY ZenonT(60)
<1> USE TasksAssumption, QueuesAssumption DEF Init
<1>1. CallTypeOK
  BY SMTT(60) DEF CallTypeOK, PcValues, WaitQueues
<1>2. WaitTypeOK
  BY DEF WaitTypeOK
<1>3. TimerTypeOK
  BY SMTT(60) DEF TimerTypeOK
<1>4. GcTypeOK
  <2>1. exited \in Seq(Tasks) /\ Len(exited) = 0
    BY SMTT(60)
  <2>2. gcLeft \in Nat /\ gcLeft <= Len(exited)
    BY <2>1
  <2> QED
    BY Zenon, <2>1, <2>2 DEF GcTypeOK
<1> QED
  BY ZenonT(60), <1>1, <1>2, <1>3, <1>4 DEF TypeOK

\* The variables keep their types, on any CPUs and whatever the tasks call: in
\* particular gc_entry never takes a task from an empty EXITED_TASKS.
THEOREM TaskTypeThm == Spec => []TypeOK
  BY TypeInit, TypeStep, PTL DEF Spec

\* Tasks, wait queues, timers and the gc task use the run queue as RunQueue says,
\* on any CPUs and whatever the tasks call.
THEOREM RunQueueRefinedThm == Spec => RunQueueRefined
<1>1. Init => RqInit
  BY ZenonT(60) DEF Init
<1> QED
  BY <1>1, RefinedStep, TaskTypeThm, PTL DEF Spec, RunQueueRefined, RqSpec

\* So a task that waits, sleeps, is notified, joined or reclaimed is still on one
\* CPU or once in the ready queue while it is runnable.
THEOREM TasksConsistentThm == Spec => []RunQueueConsistent
  BY RunQueueRefinedThm, ConsistentThm, PTL DEF RunQueueRefined

-----------------------------------------------------------------------------
(* What the operations of the run queue do to the states that matter here. *)

-----------------------------------------------------------------------------

\* Without a second CPU, or without alarms, no expired event is carried past the
\* end of the call it was set for.
OneCpu == CPUs = {BootCpu}

TimedCalls == {"sleep", "wait_timeout", "wait_timeout_if", "wait_timeout_until"}

NoLateAlarm == OneCpu \/ Calls \cap TimedCalls = {}

\* Where a task can be in a wait queue, and where it can have an alarm.
WaitPcs == {"join", "cancel_queue", "woken", "until_time"}

TimedPcs == {"alarm_set", "slept", "woken", "until_time", "until_lock",
             "cancel_queue", "cancel_timer"}

\* A task is in one queue at most, the one of its call, once, and knows it.
QueueInv ==
    /\ \A q \in WaitQueues : Distinct(wq[q])
    /\ \A q \in WaitQueues, t \in Tasks : Queued(t, q) => inWq[t] /\ on[t] = q
    /\ \A t \in Tasks : inWq[t] => Queued(t, on[t])

\* What is true of a task between two steps: one that runs again inside a loop has
\* left the queue, or its time is up; a blocked one has somebody to wake it; an
\* exited one is past its last call.
CallOk(t) ==
    /\ inWq[t] => pc[t] \in WaitPcs
    /\ inWq[t] /\ pc[t] = "join" => state[t] = "Blocked"
    /\ inWq[t] /\ pc[t] = "until_time" => state[t] = "Blocked" \/ dl[t] <= now
    /\ pc[t] \in {"alarm_set", "until_time", "until_lock"} => on[t] \in Queues
    /\ state[t] = "Blocked" => inWq[t] \/ inTl[t]
    /\ pc[t] = "slept" /\ state[t] # "Blocked" => dl[t] <= now /\ ~inTl[t]
    /\ state[t] = "Exited" <=> pc[t] \in {"exit", "dead"}

CallInv == \A t \in Tasks : CallOk(t)

\* Nobody waits for a task that has woken its joiners.
JoinInv == \A t \in Tasks : pc[t] = "dead" => wq[t] = <<>>

\* A task has one alarm at most, the one of its call, in TIMER_LIST or on its way
\* to the callback, and knows it.
TimerInv ==
    /\ OneCpu \/ (Pending = {} /\ \A c \in CPUs : irq[c] # "callback")
    /\ \A t \in Tasks : inTl[t] <=> Alarms(t) # {} \/ InFlight(t)
    /\ \A e \in Pending :
          /\ timers[e] = 1 /\ e[2] = dl[e[1]]
          /\ pc[e[1]] \in TimedPcs
          /\ ~InFlight(e[1])
    /\ \A c \in CPUs : irq[c] = "callback" =>
          /\ pc[irqTask[c]] \in TimedPcs
          /\ dl[irqTask[c]] <= now

\* gc_entry only gets tasks that are done, and one that it dropped is not used.
GcInv ==
    /\ \A i \in 1..Len(exited) : pc[exited[i]] = "dead"
    /\ \A c \in CPUs : leaving[c] # Idle => holder = c
    /\ OneCpu => \A t \in freed :
          /\ pc[t] = "dead" /\ t \notin handle
          /\ \A c \in CPUs : cur[c] # t /\ leaving[c] # t

\* The inductive invariant.
WaitInv == QueueInv /\ CallInv /\ JoinInv /\ TimerInv /\ GcInv

TaskInv == RqInv /\ TypeOK /\ WaitInv

-----------------------------------------------------------------------------
(* TIMER_LIST.                                                             *)

\* One more event in TIMER_LIST.
LEMMA MoreEvents ==
    ASSUME timers \in [Events -> Nat], NEW e \in Events, timers' = [timers EXCEPT ![e] = @ + 1]
    PROVE  /\ timers' \in [Events -> Nat]
           /\ Pending' = Pending \cup {e}
           /\ \A f \in Pending \ {e} : timers'[f] = timers[f]
           /\ e \notin Pending => timers'[e] = 1
<1>1. timers' \in [Events -> Nat]
  OBVIOUS
<1>2. timers'[e] = timers[e] + 1 /\ \A f \in Events \ {e} : timers'[f] = timers[f]
  BY Zenon
<1> QED
  BY SMTT(60), <1>1, <1>2 DEF Pending

\* One event less in TIMER_LIST.
LEMMA LessEvents ==
    ASSUME timers \in [Events -> Nat], NEW e \in Pending, timers' = [timers EXCEPT ![e] = @ - 1]
    PROVE  /\ timers' \in [Events -> Nat]
           /\ Pending' \subseteq Pending
           /\ timers[e] = 1 => Pending' = Pending \ {e}
           /\ \A f \in Pending \ {e} : timers'[f] = timers[f]
<1>1. e \in Events /\ timers[e] > 0
  BY Zenon DEF Pending
<1>2. timers' \in [Events -> Nat]
  BY <1>1
<1>3. timers'[e] = timers[e] - 1 /\ \A f \in Events \ {e} : timers'[f] = timers[f]
  BY Zenon, <1>1
<1> QED
  BY <1>1, <1>2, <1>3 DEF Pending

\* The tasks blocked, and exited, are the same as before.
KeepsStates ==
    \A u \in Tasks : /\ state'[u] = "Blocked" <=> state[u] = "Blocked"
                     /\ state'[u] = "Exited" <=> state[u] = "Exited"

\* A CPU switches to a task that is not exited, or does not switch.
RunsLiving ==
    \A d \in CPUs : \/ cur'[d] = cur[d] \/ cur'[d] = Idle
                    \/ cur'[d] \in Tasks /\ state[cur'[d]] # "Exited"

\* switch_to runs a task that was ready.
LEMMA SwitchEffect ==
    ASSUME RqTypeOK, NEW c \in CPUs, NEW st \in [Tasks -> TaskState], NEW rq \in Seq(Tasks),
           ReadyQueueOf(st, rq), switch_to(c, st, rq)
    PROVE  /\ \A u \in Tasks : /\ state'[u] = "Blocked" <=> st[u] = "Blocked"
                               /\ state'[u] = "Exited" <=> st[u] = "Exited"
           /\ \A d \in CPUs : \/ cur'[d] = cur[d] \/ cur'[d] = Idle
                              \/ cur'[d] \in Tasks /\ st[cur'[d]] = "Ready"
<1>1. CASE rq = <<>>
  BY ZenonT(60), <1>1 DEF switch_to, RqTypeOK
<1>2. CASE rq # <<>>
  <2>1. Head(rq) \in Tasks /\ st[Head(rq)] = "Ready"
    BY ZenonT(60), <1>2, QueuePick
  <2> QED
    BY ZenonT(60), <1>2, <2>1 DEF switch_to, RqTypeOK
<1> QED
  BY ZenonT(60), <1>1, <1>2

\* yield_current and preempt_resched block nobody.
LEMMA ReschedEffect ==
    ASSUME RqInv, NEW c \in CPUs, NEW preempt \in BOOLEAN, RqFree, resched_running(c, preempt)
    PROVE  KeepsStates /\ RunsLiving
<1> USE DEF RqInv, RqTypeOK
<1>1. CASE cur[c] = Idle
  BY SMTT(60), <1>1, SwitchEffect DEF resched_running, KeepsStates, RunsLiving, RunQueueConsistent
<1>2. CASE cur[c] # Idle
  <2> DEFINE t == cur[c]
             st == [state EXCEPT ![t] = "Ready"]
             rq == put_prev_task(ready, t, preempt)
  <2>1. t \in Tasks /\ state[t] = "Running"
    BY ZenonT(60), <1>2, CpusAssumption DEF RunQueueConsistent, RunningIsCurrent, RqFree
  <2>2. rq \in Seq(Tasks) /\ ReadyQueueOf(st, rq) /\ st \in [Tasks -> TaskState]
    BY Zenon, <2>1, QueueAppend, QueuePushFront DEF put_prev_task, RunQueueConsistent, TaskState
  <2>3. switch_to(c, st, rq)
    BY Zenon, <1>2 DEF resched_running
  <2>4. \A u \in Tasks : /\ st[u] = "Blocked" <=> state[u] = "Blocked"
                         /\ st[u] = "Exited" <=> state[u] = "Exited"
    BY Zenon, <2>1
  <2> HIDE DEF st, rq
  <2> QED
    BY ZenonT(60), <2>2, <2>3, <2>4, SwitchEffect DEF KeepsStates, RunsLiving
<1> QED
  BY ZenonT(60), <1>1, <1>2

\* The switch away from an exited task.
LEMMA ExitSwitchEffect ==
    ASSUME RqInv, NEW c \in CPUs, exit_resched(c)
    PROVE  KeepsStates /\ RunsLiving /\ UNCHANGED holder /\ cur'[c] # cur[c]
<1>1. KeepsStates /\ RunsLiving /\ UNCHANGED holder
  BY ZenonT(60), SwitchEffect DEF exit_resched, KeepsStates, RunsLiving, RqInv, RqTypeOK, RunQueueConsistent
<1>2. CASE ready = <<>>
  BY Zenon, <1>1, <1>2 DEF exit_resched, switch_to, Exiting, RqInv, RqTypeOK
<1>3. CASE ready # <<>>
  <2>1. Head(ready) \in Tasks /\ state[Head(ready)] = "Ready"
    BY ZenonT(60), <1>3, QueuePick DEF RqInv, RqTypeOK, RunQueueConsistent
  <2> QED
    BY ZenonT(60), <1>1, <1>3, <2>1 DEF exit_resched, switch_to, Exiting, RqInv, RqTypeOK
<1> QED
  BY Zenon, <1>2, <1>3

\* block_current blocks the current task.
LEMMA BlockEffect ==
    ASSUME RqInv, NEW c \in CPUs, NEW t \in Tasks, cur[c] = t, block_current(c)
    PROVE  /\ state[t] = "Running"
           /\ \A u \in Tasks : /\ state'[u] = "Blocked" <=> state[u] = "Blocked" \/ u = t
                               /\ state'[u] = "Exited" <=> state[u] = "Exited"
           /\ RunsLiving /\ UNCHANGED holder
<1> USE DEF RqInv, RqTypeOK
<1> DEFINE st == [state EXCEPT ![t] = "Blocked"]
<1>1. state[t] = "Running"
  BY ZenonT(60), CpusAssumption, TasksAssumption DEF RunQueueConsistent, RunningIsCurrent, RqFree, block_current
<1>2. st \in [Tasks -> TaskState] /\ ReadyQueueOf(st, ready)
  BY ZenonT(60), <1>1, QueueOther DEF RunQueueConsistent, TaskState
<1>3. switch_to(c, st, ready) /\ UNCHANGED holder
  BY ZenonT(60) DEF block_current
<1>4. \A u \in Tasks : /\ st[u] = "Blocked" <=> state[u] = "Blocked" \/ u = t
                       /\ st[u] = "Exited" <=> state[u] = "Exited"
                       /\ st[u] = "Ready" => state[u] # "Exited"
  BY ZenonT(60), <1>1
<1> HIDE DEF st
<1> QED
  BY ZenonT(60), <1>1, <1>2, <1>3, <1>4, SwitchEffect DEF RunsLiving

\* unblock_task makes a task that was blocked ready.
LEMMA UnblockEffect ==
    ASSUME RqInv, NEW c \in CPUs, NEW h \in Tasks, NEW r, unblock_task(c, h, r)
    PROVE  /\ \A u \in Tasks : /\ state'[u] = "Blocked" <=> state[u] = "Blocked" /\ u # h
                               /\ state'[u] = "Exited" <=> state[u] = "Exited"
           /\ UNCHANGED <<cur, holder>>
  BY ZenonT(60) DEF unblock_task, RqInv, RqTypeOK

-----------------------------------------------------------------------------
(* What keeps each part of the invariant.                                  *)

\* A task whose call, flags and blocking a step leaves alone.
SameAt(u) ==
    /\ pc'[u] = pc[u] /\ on'[u] = on[u] /\ dl'[u] = dl[u]
    /\ inWq'[u] = inWq[u] /\ inTl'[u] = inTl[u]
    /\ state'[u] = "Blocked" <=> state[u] = "Blocked"
    /\ state'[u] = "Exited" <=> state[u] = "Exited"

\* Task h is taken out of queue q, which the step leaves as r, and made ready.
Woken(h, q) ==
    /\ inWq[h] /\ on[h] = q /\ wq[q] # <<>>
    /\ inWq' = [inWq EXCEPT ![h] = FALSE]
    /\ \E r \in Seq(Tasks) :
          /\ wq' = [wq EXCEPT ![q] = r]
          /\ Distinct(r)
          /\ \A u \in Tasks : InQueue(r, u) <=> InQueue(wq[q], u) /\ u # h

\* A step that touches no queue, nor the call of a queued task.
LEMMA QueueSame ==
    ASSUME QueueInv, UNCHANGED waitVars, \A u \in Tasks : inWq[u] => on'[u] = on[u]
    PROVE  QueueInv'
  BY ZenonT(60) DEF QueueInv, Queued, waitVars

\* Queueing the task that calls.
LEMMA PushQueue ==
    ASSUME CallTypeOK, WaitTypeOK, QueueInv, NEW t \in Tasks, NEW q \in WaitQueues, push_back(t, q),
           ~inWq[t], on'[t] = q, \A u \in Tasks \ {t} : on'[u] = on[u]
    PROVE  QueueInv'
<1>1. wq[q] \in Seq(Tasks) /\ Distinct(wq[q]) /\ ~InQueue(wq[q], t)
  BY ZenonT(60) DEF QueueInv, Queued, WaitTypeOK
<1> DEFINE r == Append(wq[q], t)
<1>2. Distinct(r) /\ \A u : InQueue(r, u) <=> InQueue(wq[q], u) \/ u = t
  BY ZenonT(60), <1>1, PushFacts
<1>3. /\ wq'[q] = r /\ \A p \in WaitQueues \ {q} : wq'[p] = wq[p]
      /\ inWq'[t] /\ \A u \in Tasks \ {t} : inWq'[u] = inWq[u]
  BY ZenonT(60) DEF push_back, WaitTypeOK
<1> HIDE DEF r
<1>4. \A p \in WaitQueues : Distinct(wq'[p])
  BY ZenonT(60), <1>2, <1>3 DEF QueueInv
<1>5. \A p \in WaitQueues, u \in Tasks : InQueue(wq'[p], u) => inWq'[u] /\ on'[u] = p
  BY SMTT(60), <1>2, <1>3 DEF QueueInv, Queued
<1>6. \A u \in Tasks : inWq'[u] => InQueue(wq'[on'[u]], u)
  <2> SUFFICES ASSUME NEW u \in Tasks, inWq'[u] PROVE InQueue(wq'[on'[u]], u)
    BY Zenon
  <2>1. CASE u = t
    BY Zenon, <2>1, <1>2, <1>3
  <2>2. CASE u # t
    <3>1. inWq[u] /\ InQueue(wq[on[u]], u) /\ on[u] \in WaitQueues
      BY Zenon, <2>2, <1>3 DEF QueueInv, Queued, CallTypeOK
    <3> QED
      BY ZenonT(60), <2>2, <3>1, <1>2, <1>3
  <2> QED
    BY Zenon, <2>1, <2>2
<1> QED
  BY ZenonT(60), <1>4, <1>5, <1>6 DEF QueueInv, Queued

\* Taking a task out of the queue it is in.
LEMMA TakeQueue ==
    ASSUME CallTypeOK, WaitTypeOK, QueueInv, NEW h \in Tasks, NEW q \in WaitQueues, Woken(h, q),
           \A u \in Tasks : inWq[u] => on'[u] = on[u]
    PROVE  QueueInv'
<1>1. PICK r \in Seq(Tasks) :
          /\ wq' = [wq EXCEPT ![q] = r]
          /\ Distinct(r)
          /\ \A u \in Tasks : InQueue(r, u) <=> InQueue(wq[q], u) /\ u # h
  BY Zenon DEF Woken
<1>2. /\ wq'[q] = r /\ \A p \in WaitQueues \ {q} : wq'[p] = wq[p]
      /\ ~inWq'[h] /\ \A u \in Tasks \ {h} : inWq'[u] = inWq[u]
  BY ZenonT(60), <1>1 DEF Woken, WaitTypeOK
<1>3. \A p \in WaitQueues : Distinct(wq'[p])
  BY ZenonT(60), <1>1, <1>2 DEF QueueInv
<1>4. \A p \in WaitQueues, u \in Tasks : InQueue(wq'[p], u) => inWq'[u] /\ on'[u] = p
  <2> SUFFICES ASSUME NEW p \in WaitQueues, NEW u \in Tasks, InQueue(wq'[p], u)
               PROVE  inWq'[u] /\ on'[u] = p
    BY ZenonT(60)
  <2>1. InQueue(wq[p], u) /\ (p = q => u # h)
    BY ZenonT(60), <1>1, <1>2
  <2>2. inWq[u] /\ on[u] = p
    BY ZenonT(60), <2>1 DEF QueueInv, Queued
  <2> QED
    BY Zenon, <2>1, <2>2, <1>2 DEF Woken
<1>5. \A u \in Tasks : inWq'[u] => InQueue(wq'[on'[u]], u)
  <2> SUFFICES ASSUME NEW u \in Tasks, inWq'[u] PROVE InQueue(wq'[on'[u]], u)
    BY Zenon
  <2>1. u # h /\ inWq[u] /\ on'[u] = on[u] /\ on[u] \in WaitQueues
    BY Zenon, <1>2 DEF CallTypeOK
  <2>2. InQueue(wq[on[u]], u)
    BY Zenon, <2>1 DEF QueueInv, Queued
  <2> QED
    BY SMTT(60), <2>1, <2>2, <1>1, <1>2
<1> QED
  BY Zenon, <1>3, <1>4, <1>5 DEF QueueInv, Queued

\* notify_one_locked wakes the head of the queue, or finds it empty.
LEMMA NotifyEffect ==
    ASSUME WaitTypeOK, QueueInv, NEW c \in CPUs, NEW q \in WaitQueues, NEW r,
           notify_one_locked(c, q, r)
    PROVE  \/ wq[q] = <<>> /\ UNCHANGED <<rqVars, waitVars>>
           \/ \E h \in Tasks : Woken(h, q) /\ unblock_task(c, h, r)
<1>1. CASE wq[q] = <<>>
  BY Zenon, <1>1 DEF notify_one_locked
<1>2. CASE wq[q] # <<>>
  <2> DEFINE h == Head(wq[q])
  <2>1. wq[q] \in Seq(Tasks) /\ Distinct(wq[q])
    BY Zenon DEF WaitTypeOK, QueueInv
  <2>2. /\ h \in Tasks /\ InQueue(wq[q], h) /\ Tail(wq[q]) \in Seq(Tasks) /\ Distinct(Tail(wq[q]))
        /\ \A u : InQueue(Tail(wq[q]), u) <=> InQueue(wq[q], u) /\ u # h
    BY Zenon, <1>2, <2>1, PopFacts
  <2>3. inWq[h] /\ on[h] = q
    BY Zenon, <2>2 DEF QueueInv, Queued
  <2>4. /\ wq' = [wq EXCEPT ![q] = Tail(wq[q])] /\ inWq' = [inWq EXCEPT ![h] = FALSE]
        /\ unblock_task(c, h, r)
    BY Zenon, <1>2 DEF notify_one_locked
  <2> HIDE DEF h
  <2> QED
    BY Zenon, <1>2, <2>2, <2>3, <2>4 DEF Woken
<1> QED
  BY Zenon, <1>1, <1>2

\* Each task is left alone, or is all right afterwards.
LEMMA CallSteps ==
    ASSUME CallInv, now \in Nat, now' \in Nat, now <= now', dl \in [Tasks -> Nat],
           \A u \in Tasks : SameAt(u) \/ CallOk(u)'
    PROVE  CallInv'
<1> SUFFICES ASSUME NEW u \in Tasks, SameAt(u) PROVE CallOk(u)'
  BY ZenonT(60) DEF CallInv
<1>1. CallOk(u) /\ dl[u] \in Nat
  BY ZenonT(60) DEF CallInv
<1> QED
  BY SMTT(60), <1>1 DEF SameAt, CallOk

\* A woken task is all right.
LEMMA WokenOk ==
    ASSUME NEW h \in Tasks, CallOk(h), WaitTypeOK, inWq[h], ~inWq'[h], state'[h] # "Blocked",
           pc'[h] = pc[h], on'[h] = on[h], state'[h] = "Exited" <=> state[h] = "Exited"
    PROVE  CallOk(h)'
  BY ZenonT(60) DEF CallOk, WaitPcs

\* No task that is done gets joiners.
LEMMA JoinSame ==
    ASSUME JoinInv, \A u \in Tasks : pc'[u] = "dead" => pc[u] = "dead" /\ wq'[u] = wq[u]
    PROVE  JoinInv'
  BY ZenonT(60) DEF JoinInv

\* A step that changes no queue, or only one that is not empty, or not that of
\* such a task.
LEMMA JoinFrame ==
    ASSUME JoinInv, WaitTypeOK, NEW q \in WaitQueues, NEW r, wq' = [wq EXCEPT ![q] = r],
           q \in Tasks => wq[q] # <<>> \/ pc[q] # "dead",
           \A u \in Tasks : pc'[u] = "dead" => pc[u] = "dead"
    PROVE  JoinInv'
<1> SUFFICES ASSUME NEW u \in Tasks, pc'[u] = "dead" PROVE wq'[u] = <<>>
  BY ZenonT(60) DEF JoinInv
<1>1. wq[u] = <<>> /\ pc[u] = "dead"
  BY ZenonT(60) DEF JoinInv
<1>2. u # q /\ u \in WaitQueues
  BY ZenonT(60), <1>1 DEF WaitQueues
<1> QED
  BY ZenonT(60), <1>1, <1>2 DEF WaitTypeOK

\* A task with an alarm is inside a call that set it.
LEMMA TimedOnly ==
    ASSUME TimerInv, TimerTypeOK, NEW t \in Tasks, inTl[t] PROVE pc[t] \in TimedPcs
  BY DEF TimerInv, Alarms, InFlight

\* While a task runs no expired alarm is on its way.
LEMMA NoFlight ==
    ASSUME TimerInv, NEW c \in CPUs, InTask(c) PROVE \A d \in CPUs : irq[d] # "callback"
  BY SMTT(60) DEF TimerInv, OneCpu, InTask

\* A step that changes no alarm, nor the call of a task that has one.
LEMMA TimerFrame ==
    ASSUME TimerInv, TimerTypeOK, UNCHANGED <<inTl, timers, irqTask>>, now' \in Nat, now <= now',
           \A d \in CPUs : irq'[d] = "callback" <=> irq[d] = "callback",
           \A u \in Tasks : inTl[u] => dl'[u] = dl[u] /\ pc'[u] \in TimedPcs,
           dl \in [Tasks -> Nat]
    PROVE  TimerInv'
<1>0. Pending' = Pending
  BY ZenonT(60) DEF Pending
<1>1. \A u \in Tasks : (InFlight(u)' <=> InFlight(u)) /\ (Alarms(u)' = Alarms(u))
  BY ZenonT(60), <1>0 DEF InFlight, Alarms
<1>2. OneCpu \/ (Pending' = {} /\ \A d \in CPUs : irq'[d] # "callback")
  BY ZenonT(60), <1>0 DEF TimerInv
<1>3. \A u \in Tasks : inTl'[u] <=> Alarms(u)' # {} \/ InFlight(u)'
  BY ZenonT(60), <1>1 DEF TimerInv
<1>4. ASSUME NEW e \in Pending'
      PROVE  timers'[e] = 1 /\ e[2] = dl'[e[1]] /\ pc'[e[1]] \in TimedPcs /\ ~InFlight(e[1])'
  <2>1. e \in Pending /\ e[1] \in Tasks
    BY ZenonT(60) DEF Pending, Events
  <2>2. inTl[e[1]]
    BY ZenonT(60), <2>1 DEF TimerInv, Alarms
  <2> QED
    BY ZenonT(60), <1>1, <2>1, <2>2 DEF TimerInv
<1>5. ASSUME NEW d \in CPUs, irq'[d] = "callback"
      PROVE  pc'[irqTask'[d]] \in TimedPcs /\ dl'[irqTask'[d]] <= now'
  <2>1. irq[d] = "callback" /\ irqTask[d] \in Tasks
    BY Zenon, <1>5 DEF TimerTypeOK
  <2>2. inTl[irqTask[d]] /\ dl[irqTask[d]] <= now
    BY Zenon, <2>1 DEF TimerInv, InFlight
  <2>3. dl[irqTask[d]] \in Nat /\ now \in Nat
    BY SMTT(60), <2>1 DEF TimerTypeOK
  <2> QED
    BY SMTT(60), <2>1, <2>2, <2>3
<1> QED
  BY Zenon, <1>2, <1>3, <1>4, <1>5 DEF TimerInv, OneCpu

\* A call sets its alarm.
LEMMA AlarmSet ==
    ASSUME TimerInv, TimerTypeOK, OneCpu, NEW c \in CPUs, InTask(c), NEW t \in Tasks,
           NEW d \in 0..MaxTime, pc[t] = "run", set_alarm_wakeup(t, d), UNCHANGED <<now, irq, irqTask>>,
           dl'[t] = d, pc'[t] \in TimedPcs, \A u \in Tasks \ {t} : dl'[u] = dl[u] /\ pc'[u] = pc[u]
    PROVE  TimerInv'
<1> DEFINE f == <<t, d>>
<1>1. \A b \in CPUs : irq'[b] # "callback"
  BY Zenon, NoFlight
<1>2. ~inTl[t]
  BY ZenonT(60), TimedOnly DEF TimedPcs
<1>3. f \notin Pending /\ \A e \in Pending : e[1] \in Tasks \ {t}
  BY ZenonT(60), <1>2 DEF TimerInv, Alarms, Pending, Events
<1>4. /\ Pending' = Pending \cup {f}
      /\ \A e \in Pending : timers'[e] = timers[e]
      /\ timers'[f] = 1
  <2>1. f \in Events /\ timers \in [Events -> Nat] /\ timers' = [timers EXCEPT ![f] = @ + 1]
    BY ZenonT(60) DEF TimerTypeOK, set_alarm_wakeup, Events
  <2> HIDE DEF f
  <2> QED
    BY ZenonT(60), <1>3, <2>1, MoreEvents
<1>5. inTl'[t] /\ \A u \in Tasks \ {t} : inTl'[u] = inTl[u]
  BY ZenonT(60) DEF set_alarm_wakeup, TimerTypeOK
<1>6. Alarms(t)' # {} /\ \A u \in Tasks \ {t} : Alarms(u)' = Alarms(u)
  BY SMTT(60), <1>4 DEF Alarms
<1>7. \A u \in Tasks : ~InFlight(u) /\ ~InFlight(u)'
  BY Zenon, <1>1 DEF InFlight
<1>8. \A u \in Tasks : inTl'[u] <=> Alarms(u)' # {} \/ InFlight(u)'
  BY SMTT(60), <1>5, <1>6, <1>7 DEF TimerInv
<1>9. \A e \in Pending' :
         timers'[e] = 1 /\ e[2] = dl'[e[1]] /\ pc'[e[1]] \in TimedPcs /\ ~InFlight(e[1])'
  BY SMTT(60), <1>3, <1>4, <1>7 DEF TimerInv
<1> QED
  BY Zenon, <1>1, <1>8, <1>9 DEF TimerInv, OneCpu

\* cancel_events takes the alarm back.
LEMMA AlarmCancel ==
    ASSUME TimerInv, TimerTypeOK, NEW c \in CPUs, InTask(c), NEW t \in Tasks, cancel_alarm(t),
           UNCHANGED <<now, irq, irqTask>>, \A u \in Tasks \ {t} : dl'[u] = dl[u] /\ pc'[u] = pc[u]
    PROVE  TimerInv'
<1>1. \A b \in CPUs : irq'[b] # "callback"
  BY Zenon, NoFlight
<1>2. /\ Pending' = Pending \ Alarms(t)
      /\ \A e \in Pending' : timers'[e] = timers[e]
  BY DEF cancel_alarm, TimerTypeOK, Pending, Alarms
<1>3. ~inTl'[t] /\ \A u \in Tasks \ {t} : inTl'[u] = inTl[u]
  BY Zenon DEF cancel_alarm, TimerTypeOK
<1>4. Alarms(t)' = {} /\ \A u \in Tasks \ {t} : Alarms(u)' = Alarms(u)
  BY Zenon, <1>2 DEF Alarms
<1>5. \A u \in Tasks : ~InFlight(u) /\ ~InFlight(u)'
  BY Zenon, <1>1 DEF InFlight
<1>6. \A u \in Tasks : inTl'[u] <=> Alarms(u)' # {} \/ InFlight(u)'
  BY SMTT(60), <1>3, <1>4, <1>5 DEF TimerInv
<1>7. \A e \in Pending' : e \in Pending /\ e[1] \in Tasks \ {t}
  BY Zenon, <1>2 DEF Alarms, Pending, Events
<1>8. \A e \in Pending' :
         timers'[e] = 1 /\ e[2] = dl'[e[1]] /\ pc'[e[1]] \in TimedPcs /\ ~InFlight(e[1])'
  BY ZenonT(60), <1>2, <1>5, <1>7 DEF TimerInv
<1>9. OneCpu \/ Pending' = {}
  BY ZenonT(60), <1>2 DEF TimerInv
<1> QED
  BY Zenon, <1>1, <1>6, <1>8, <1>9 DEF TimerInv, OneCpu

\* check_events takes the alarm that is due out of TIMER_LIST.
LEMMA AlarmExpires ==
    ASSUME TimerInv, TimerTypeOK, NEW c \in CPUs, irq[c] = "check", NEW e \in Pending,
           e[2] <= now, timers' = [timers EXCEPT ![e] = @ - 1], irqTask' = [irqTask EXCEPT ![c] = e[1]],
           irq' = [irq EXCEPT ![c] = "callback"], UNCHANGED <<inTl, now, pc, dl>>
    PROVE  TimerInv'
<1> DEFINE h == e[1]
<1>1. h \in Tasks /\ e = <<h, e[2]>> /\ timers[e] = 1 /\ e[2] = dl[h] /\ pc[h] \in TimedPcs
  BY SMTT(60) DEF TimerInv, Pending, Events
<1>2. /\ Pending' = Pending \ {e}
      /\ \A f \in Pending' : timers'[f] = timers[f]
  <2>1. timers \in [Events -> Nat] /\ timers[e] = 1
    BY ZenonT(60), <1>1 DEF TimerTypeOK
  <2> HIDE DEF h
  <2> QED
    BY ZenonT(60), <2>1, LessEvents
<1>3. \A f \in Pending' : f \in Pending /\ f[1] \in Tasks \ {h}
  <2> SUFFICES ASSUME NEW f \in Pending, f # e, f[1] = h PROVE FALSE
    BY ZenonT(60), <1>2 DEF Pending, Events
  <2>1. f = <<h, f[2]>> /\ f[2] = dl[h]
    BY SMTT(60) DEF TimerInv, Pending, Events
  <2> QED
    BY ZenonT(60), <1>1, <2>1
<1>4. /\ irq'[c] = "callback" /\ irqTask'[c] = h
      /\ \A d \in CPUs \ {c} : irq'[d] = irq[d] /\ irqTask'[d] = irqTask[d]
  BY Zenon DEF TimerTypeOK
<1>5. InFlight(h)' /\ \A u \in Tasks \ {h} : InFlight(u)' <=> InFlight(u)
  BY ZenonT(60), <1>4 DEF InFlight
<1>6. \A u \in Tasks \ {h} : Alarms(u)' = Alarms(u)
  BY ZenonT(60), <1>2, <1>3 DEF Alarms
<1>7. inTl[h]
  BY ZenonT(60), <1>1 DEF TimerInv, Alarms
<1> HIDE DEF h
<1>8. \A u \in Tasks : inTl'[u] <=> Alarms(u)' # {} \/ InFlight(u)'
  BY ZenonT(60), <1>5, <1>6, <1>7 DEF TimerInv
<1>9. \A f \in Pending' :
         timers'[f] = 1 /\ f[2] = dl'[f[1]] /\ pc'[f[1]] \in TimedPcs /\ ~InFlight(f[1])'
  BY ZenonT(60), <1>2, <1>3, <1>5 DEF TimerInv
<1>10. \A d \in CPUs : irq'[d] = "callback" => pc'[irqTask'[d]] \in TimedPcs /\ dl'[irqTask'[d]] <= now'
  BY ZenonT(60), <1>1, <1>4 DEF TimerInv
<1>11. OneCpu
  BY Zenon DEF TimerInv
<1> QED
  BY Zenon, <1>8, <1>9, <1>10, <1>11 DEF TimerInv, OneCpu

\* The callback clears the flag of the task it wakes.
LEMMA AlarmDone ==
    ASSUME TimerInv, TimerTypeOK, NEW c \in CPUs, irq[c] = "callback",
           inTl' = [inTl EXCEPT ![irqTask[c]] = FALSE], irq' = [irq EXCEPT ![c] = "check"],
           UNCHANGED <<timers, now, irqTask, pc, dl>>
    PROVE  TimerInv'
<1> DEFINE h == irqTask[c]
<1>1. h \in Tasks /\ InFlight(h) /\ OneCpu
  BY Zenon DEF TimerInv, TimerTypeOK, InFlight
<1>2. CPUs = {c}
  BY Zenon, <1>1 DEF OneCpu
<1>3. ~inTl'[h] /\ \A u \in Tasks \ {h} : inTl'[u] = inTl[u]
  BY Zenon, <1>1 DEF TimerTypeOK
<1>4. irq'[c] = "check"
  BY Zenon DEF TimerTypeOK
<1>5. \A u \in Tasks : ~InFlight(u)'
  BY Zenon, <1>2, <1>4 DEF InFlight
<1>6. \A u \in Tasks \ {h} : ~InFlight(u)
  BY ZenonT(60), <1>2 DEF InFlight
<1>7. \A u \in Tasks : Alarms(u)' = Alarms(u)
  BY ZenonT(60) DEF Alarms, Pending
<1>8. Alarms(h) = {}
  BY ZenonT(60), <1>1 DEF TimerInv, Alarms
<1> HIDE DEF h
<1>9. ASSUME NEW u \in Tasks PROVE inTl'[u] <=> Alarms(u)' # {} \/ InFlight(u)'
  <2>1. CASE u = h
    BY ZenonT(60), <2>1, <1>3, <1>5, <1>7, <1>8
  <2>2. CASE u # h
    <3>1. inTl[u] <=> Alarms(u) # {} \/ InFlight(u)
      BY ZenonT(60) DEF TimerInv
    <3> QED
      BY ZenonT(60), <2>2, <3>1, <1>3, <1>5, <1>6, <1>7
  <2> QED
    BY ZenonT(60), <2>1, <2>2
<1>10. \A f \in Pending' :
         timers'[f] = 1 /\ f[2] = dl'[f[1]] /\ pc'[f[1]] \in TimedPcs /\ ~InFlight(f[1])'
  BY ZenonT(60), <1>5 DEF TimerInv, Pending, Events
<1>11. \A d \in CPUs : irq'[d] # "callback"
  BY ZenonT(60), <1>2, <1>4
<1> QED
  BY Zenon, <1>1, <1>9, <1>10, <1>11 DEF TimerInv, OneCpu

\* A step that keeps EXITED_TASKS, gives nobody a task that is done, and after
\* which no CPU runs one.
LEMMA GcFrame ==
    ASSUME GcInv, CallInv, GcTypeOK, UNCHANGED <<exited, leaving, freed>>, RunsLiving,
           \A u \in handle' \ handle : pc[u] # "dead",
           UNCHANGED holder \/ \A d \in CPUs : leaving[d] = Idle,
           \A u \in Tasks : pc[u] = "dead" => pc'[u] = "dead"
    PROVE  GcInv'
<1>1. \A i \in 1..Len(exited') : pc'[exited'[i]] = "dead"
  BY SMTT(60) DEF GcInv, GcTypeOK
<1>2. \A d \in CPUs : leaving'[d] # Idle => holder' = d
  BY Zenon DEF GcInv
<1>3. ASSUME OneCpu, NEW u \in freed
      PROVE  pc'[u] = "dead" /\ u \notin handle' /\ \A d \in CPUs : cur'[d] # u /\ leaving'[d] # u
  <2>1. u \in Tasks /\ pc[u] = "dead" /\ u \notin handle /\ \A d \in CPUs : cur[d] # u /\ leaving[d] # u
    BY Zenon, <1>3 DEF GcInv, GcTypeOK
  <2>2. state[u] = "Exited"
    BY Zenon, <2>1 DEF CallInv, CallOk
  <2> QED
    BY Zenon, <2>1, <2>2, TasksAssumption DEF RunsLiving
<1> QED
  BY ZenonT(60), <1>1, <1>2, <1>3 DEF GcInv, OneCpu

\* The task that runs is Running; in its own code it is in no queue and has no
\* alarm.
LEMMA AtFacts ==
    ASSUME TaskInv, NEW c \in CPUs, NEW t, NEW p, At(c, t, p)
    PROVE  /\ t \in Tasks /\ cur[c] = t /\ state[t] = "Running" /\ pc[t] = p /\ InTask(c)
           /\ pc[t] = "run" => ~inWq[t] /\ ~inTl[t]
<1>1. t \in Tasks /\ cur[c] = t /\ pc[t] = p /\ InTask(c) /\ holder # c
  BY Zenon DEF At, InTask
<1>2. state[t] = "Running"
  BY Zenon, <1>1, TasksAssumption DEF TaskInv, RqInv, RunQueueConsistent, RunningIsCurrent
<1>3. pc[t] = "run" => ~inWq[t]
  BY Zenon, <1>1 DEF TaskInv, WaitInv, CallInv, CallOk, WaitPcs
<1>4. pc[t] = "run" => ~inTl[t]
  BY Zenon, <1>1, TimedOnly DEF TaskInv, WaitInv, TypeOK, TimedPcs
<1> QED
  BY Zenon, <1>1, <1>2, <1>3, <1>4

\* Only a call with a deadline sets an alarm, and only on a single CPU.
LEMMA AlarmOneCpu == NoLateAlarm /\ Calls \cap TimedCalls # {} => OneCpu
  BY ZenonT(60) DEF NoLateAlarm

\* Facts about the clock and the deadlines that the parts share.
LEMMA Numbers == ASSUME TypeOK PROVE now \in Nat /\ dl \in [Tasks -> Nat] /\ MaxTime \in Nat
<1>1. MaxTime \in Nat /\ now \in Nat
  BY SMTT(60), QueuesAssumption DEF TypeOK, TimerTypeOK
<1>2. dl \in [Tasks -> Nat]
  BY SMTT(60) DEF TypeOK, CallTypeOK
<1> QED
  BY ZenonT(60), <1>1, <1>2

\* A step of the run queue and the interrupt handler only.
LEMMA QuietStep ==
    ASSUME TaskInv, UNCHANGED <<callVars, waitVars>>, KeepsStates, UNCHANGED <<inTl, timers, irqTask>>,
           now' \in Nat, now <= now', \A d \in CPUs : irq'[d] = "callback" <=> irq[d] = "callback", GcInv'
    PROVE  WaitInv'
<1> USE DEF TaskInv, WaitInv, callVars, waitVars
<1>1. QueueInv'
  BY ZenonT(60), QueueSame
<1>2. CallInv'
  BY ZenonT(60), Numbers, CallSteps DEF SameAt, KeepsStates
<1>3. JoinInv'
  BY ZenonT(60), JoinSame
<1>4. TimerInv'
  <2>1. \A u \in Tasks : inTl[u] => dl'[u] = dl[u] /\ pc'[u] \in TimedPcs
    BY ZenonT(60), TimedOnly DEF TypeOK
  <2> QED
    BY ZenonT(60), <2>1, Numbers, TimerFrame, SMTT(60) DEF TypeOK
<1> QED
  BY Zenon, <1>1, <1>2, <1>3, <1>4

\* A running task goes on inside its call.
LEMMA LocalStep ==
    ASSUME TaskInv, NEW t \in Tasks, state[t] = "Running", UNCHANGED <<rqVars, waitVars, timerVars>>,
           UNCHANGED <<exited, leaving, freed>>, handle' \subseteq handle,
           \A u \in Tasks \ {t} : pc'[u] = pc[u] /\ on'[u] = on[u] /\ dl'[u] = dl[u],
           pc'[t] # "dead", inWq[t] => on'[t] = on[t],
           inTl[t] => dl'[t] = dl[t] /\ pc'[t] \in TimedPcs, CallOk(t)'
    PROVE  WaitInv'
<1> USE DEF TaskInv, WaitInv, waitVars, timerVars, rqVars
<1>1. QueueInv'
  BY ZenonT(60), QueueSame
<1>2. CallInv'
  <2>1. \A u \in Tasks \ {t} : SameAt(u)
    BY ZenonT(60) DEF SameAt
  <2> QED
    BY SMTT(60), <2>1, Numbers, CallSteps
<1>3. JoinInv'
  BY ZenonT(60), JoinSame
<1>4. TimerInv'
  <2>1. \A u \in Tasks : inTl[u] => dl'[u] = dl[u] /\ pc'[u] \in TimedPcs
    BY ZenonT(60), TimedOnly DEF TypeOK
  <2> QED
    BY <2>1, Numbers, TimerFrame, SMTT(60) DEF TypeOK
<1>5. GcInv'
  <2>1. pc[t] # "dead"
    BY ZenonT(60) DEF CallInv, CallOk
  <2>2. \A u \in Tasks : pc[u] = "dead" => pc'[u] = "dead"
    BY ZenonT(60), <2>1
  <2> QED
    BY ZenonT(60), <2>2, GcFrame DEF TypeOK, RunsLiving
<1> QED
  BY ZenonT(60), <1>1, <1>2, <1>3, <1>4, <1>5

\* A running task blocks.
LEMMA BlockStep ==
    ASSUME TaskInv, NEW c \in CPUs, NEW t \in Tasks, cur[c] = t, block_current(c),
           UNCHANGED <<gcVars, now>>,
           \A u \in Tasks \ {t} : /\ pc'[u] = pc[u] /\ on'[u] = on[u] /\ dl'[u] = dl[u]
                                  /\ inWq'[u] = inWq[u] /\ inTl'[u] = inTl[u],
           pc'[t] # "dead", CallOk(t)'
    PROVE  CallInv' /\ GcInv' /\ \A u \in Tasks : pc[u] = "dead" <=> pc'[u] = "dead"
<1> USE DEF TaskInv, WaitInv
<1>1. /\ state[t] = "Running" /\ RunsLiving /\ UNCHANGED holder
      /\ \A u \in Tasks : /\ state'[u] = "Blocked" <=> state[u] = "Blocked" \/ u = t
                          /\ state'[u] = "Exited" <=> state[u] = "Exited"
  BY ZenonT(60), BlockEffect
<1>2. CallInv'
  <2>1. \A u \in Tasks \ {t} : SameAt(u)
    BY ZenonT(60), <1>1 DEF SameAt
  <2> QED
    BY SMTT(60), <2>1, Numbers, CallSteps
<1>3. \A u \in Tasks : pc[u] = "dead" <=> pc'[u] = "dead"
  <2>1. pc[t] # "dead"
    BY Zenon, <1>1 DEF CallInv, CallOk
  <2> QED
    BY Zenon, <2>1
<1>4. GcInv'
  BY Zenon, <1>1, <1>3, GcFrame DEF TypeOK, gcVars
<1> QED
  BY ZenonT(60), <1>2, <1>3, <1>4

\* The running task blocks in queue q, with the alarm it has.
LEMMA WaitStep ==
    ASSUME TaskInv, NEW c \in CPUs, NEW t \in Tasks, cur[c] = t, block_current(c), ~inWq[t],
           NEW q \in WaitQueues, push_back(t, q), q \in Tasks => pc[q] # "dead",
           UNCHANGED <<gcVars, timerVars, dl>>,
           \A u \in Tasks \ {t} : pc'[u] = pc[u] /\ on'[u] = on[u],
           on'[t] = q, pc'[t] \in WaitPcs, inTl[t] => pc'[t] \in TimedPcs,
           pc'[t] \in {"alarm_set", "until_time", "until_lock"} => q \in Queues
    PROVE  WaitInv'
<1> USE DEF TaskInv, WaitInv
<1>1. inWq'[t] /\ \A u \in Tasks \ {t} : inWq'[u] = inWq[u]
  BY Zenon DEF push_back, TypeOK, WaitTypeOK
<1>2. state'[t] = "Blocked"
  BY ZenonT(60), BlockEffect
<1>3. CallOk(t)'
  BY ZenonT(60), <1>1, <1>2 DEF CallOk, WaitPcs
<1>4. CallInv' /\ GcInv' /\ \A u \in Tasks : pc[u] = "dead" <=> pc'[u] = "dead"
  <2>1. pc'[t] # "dead"
    BY ZenonT(60) DEF WaitPcs
  <2> QED
    BY ZenonT(60), <1>1, <1>3, <2>1, BlockStep DEF timerVars
<1>5. QueueInv'
  BY ZenonT(60), PushQueue DEF TypeOK
<1>6. JoinInv'
  BY ZenonT(60), <1>4, JoinFrame DEF push_back, TypeOK
<1>7. TimerInv'
  <2>1. \A u \in Tasks : inTl[u] => dl'[u] = dl[u] /\ pc'[u] \in TimedPcs
    BY Zenon, TimedOnly DEF TypeOK
  <2> QED
    BY <2>1, Numbers, TimerFrame, SMTT(60) DEF TypeOK, timerVars
<1> QED
  BY Zenon, <1>4, <1>5, <1>6, <1>7

\* A task is woken from a queue.
LEMMA WakeStep ==
    ASSUME TaskInv, NEW c \in CPUs, NEW h \in Tasks, NEW q \in WaitQueues, NEW r,
           Woken(h, q), unblock_task(c, h, r), UNCHANGED <<callVars, timerVars>>, UNCHANGED gcVars
    PROVE  WaitInv'
<1> USE DEF TaskInv, WaitInv, callVars, timerVars
<1>1. /\ \A u \in Tasks : /\ state'[u] = "Blocked" <=> state[u] = "Blocked" /\ u # h
                          /\ state'[u] = "Exited" <=> state[u] = "Exited"
      /\ UNCHANGED <<cur, holder>>
  BY Zenon, UnblockEffect
<1>2. inWq[h] /\ ~inWq'[h] /\ \A u \in Tasks \ {h} : inWq'[u] = inWq[u]
  BY Zenon DEF Woken, TypeOK, WaitTypeOK
<1>3. QueueInv'
  BY Zenon, TakeQueue DEF TypeOK
<1>4. CallInv'
  <2>1. CallOk(h)'
    BY Zenon, <1>1, <1>2, WokenOk DEF CallInv, TypeOK
  <2>2. \A u \in Tasks \ {h} : SameAt(u)
    BY ZenonT(60), <1>1, <1>2 DEF SameAt
  <2> QED
    BY <2>1, <2>2, Numbers, CallSteps
<1>5. JoinInv'
  BY ZenonT(60), JoinFrame DEF Woken, TypeOK
<1>6. TimerInv'
  <2>1. \A u \in Tasks : inTl[u] => dl'[u] = dl[u] /\ pc'[u] \in TimedPcs
    BY ZenonT(60), TimedOnly DEF TypeOK
  <2> QED
    BY <2>1, Numbers, TimerFrame, SMTT(60) DEF TypeOK
<1>7. GcInv'
  BY ZenonT(60), <1>1, GcFrame DEF TypeOK, RunsLiving, gcVars
<1> QED
  BY Zenon, <1>3, <1>4, <1>5, <1>6, <1>7
=============================================================================
