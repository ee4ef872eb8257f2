--------------------------- MODULE PthreadProofs ---------------------------
(***************************************************************************)
(* The mutex, the condition variable, the futexes and the thread table:    *)
(* for every set of threads, every bitset width and every program of       *)
(* Pthread, nobody's wake-up is lost and the queues hold those who sleep.  *)
(***************************************************************************)
EXTENDS Pthread, FiniteSetTheorems, TLAPS

\* The inductive invariant: the properties need each other and nothing else.
MutexInv ==
    /\ MutexTypeOK
    /\ MutualExclusion
    /\ QueueIsBlocked
    /\ NoLostWakeup

-----------------------------------------------------------------------------
\* What push_back does to the positions of the queue.
LEMMA AppendFacts ==
    ASSUME NEW S, NEW s \in Seq(S), NEW x \in S
    PROVE  /\ Append(s, x) \in Seq(S)
           /\ Len(Append(s, x)) = Len(s) + 1
           /\ Append(s, x)[Len(s) + 1] = x
           /\ \A i \in 1..Len(s) : Append(s, x)[i] = s[i]
           /\ Append(s, x) # <<>>
  OBVIOUS

\* What pop_front does to the positions of the queue.
LEMMA TailFacts ==
    ASSUME NEW S, NEW s \in Seq(S), s # <<>>
    PROVE  /\ Len(s) \in Nat \ {0}
           /\ Head(s) \in S
           /\ Head(s) = s[1]
           /\ Tail(s) \in Seq(S)
           /\ Len(Tail(s)) = Len(s) - 1
           /\ \A i \in 1..Len(Tail(s)) : Tail(s)[i] = s[i + 1]
  OBVIOUS

\* The mutex starts free, with nobody waiting.
LEMMA MutexInitInv == MutexInit => MutexInv
  <1> SUFFICES ASSUME MutexInit PROVE MutexInv
    BY Zenon
  <1>1. MutexTypeOK
    BY DEF MutexInit, MutexTypeOK, MpcValues
  <1>2. MutualExclusion
    BY Zenon, NoneAssumption DEF MutexInit, MutualExclusion
  <1>3. QueueIsBlocked
    BY DEF MutexInit, QueueIsBlocked, InMq
  <1>4. NoLostWakeup
    BY Zenon DEF MutexInit, NoLostWakeup
  <1> QED
    BY ZenonT(60), <1>1, <1>2, <1>3, <1>4 DEF MutexInv

\* Steps that change neither the queue nor who is blocked keep the queue right.
LEMMA QueueKept ==
    ASSUME QueueIsBlocked, mq' = mq,
           \A t \in Threads : (mpc'[t] = "blocked") <=> (mpc[t] = "blocked"),
           MutexTypeOK
    PROVE  QueueIsBlocked'
  BY DEF QueueIsBlocked, InMq, MutexTypeOK

\* A thread that is not blocked is not in the queue: when wait_until ends, its
\* cancel_events leaves the queue alone.
LEMMA CancelKeepsQueue ==
    ASSUME MutexInv, NEW t \in Threads, wait_until_end(t)
    PROVE  mq' = mq
  <1>1. mpc[t] = "cancel"
    BY ZenonT(60) DEF wait_until_end
  <1>2. ~InMq(t)
    BY ZenonT(60), <1>1 DEF MutexInv, QueueIsBlocked, InMq
  <1> QED
    BY Zenon, <1>2 DEF wait_until_end

\* Entering lock.
LEMMA LockInv ==
    ASSUME MutexInv, NEW t \in Threads, lock(t)
    PROVE  MutexInv'
  <1> USE DEF MutexInv
  <1>1. MutexTypeOK'
    BY ZenonT(60) DEF lock, Mgoto, MutexTypeOK, MpcValues
  <1>2. MutualExclusion'
    BY ZenonT(60), NoneAssumption DEF lock, Mgoto, MutexTypeOK, MpcValues, MutualExclusion
  <1>3. QueueIsBlocked'
    BY ZenonT(60), QueueKept DEF lock, Mgoto, MutexTypeOK, MpcValues
  <1>4. NoLostWakeup'
    BY ZenonT(60) DEF lock, Mgoto, MutexTypeOK, MpcValues, NoLostWakeup, Locking
  <1> QED
    BY ZenonT(60), <1>1, <1>2, <1>3, <1>4

\* compare_exchange_weak in lock, whether it succeeds or fails.
LEMMA CasInv ==
    ASSUME MutexInv, NEW t \in Threads, lock_cas(t)
    PROVE  MutexInv'
  <1> USE DEF MutexInv
  <1>1. MutexTypeOK'
    BY ZenonT(60) DEF lock_cas, Mgoto, MutexTypeOK, MpcValues
  <1>2. MutualExclusion'
    BY ZenonT(60), NoneAssumption DEF lock_cas, Mgoto, MutexTypeOK, MpcValues, MutualExclusion
  <1>3. QueueIsBlocked'
    BY ZenonT(60), QueueKept DEF lock_cas, Mgoto, MutexTypeOK, MpcValues
  <1>4. NoLostWakeup'
    BY ZenonT(60), NoneAssumption
       DEF lock_cas, Mgoto, MutexTypeOK, MpcValues, NoLostWakeup, Locking
  <1> QED
    BY Zenon, <1>1, <1>2, <1>3, <1>4

\* A successful try_lock.
LEMMA TryLockInv ==
    ASSUME MutexInv, NEW t \in Threads, try_lock(t)
    PROVE  MutexInv'
  <1> USE DEF MutexInv
  <1>1. MutexTypeOK'
    BY ZenonT(60) DEF try_lock, Mgoto, MutexTypeOK, MpcValues
  <1>2. MutualExclusion'
    BY ZenonT(60), NoneAssumption DEF try_lock, Mgoto, MutexTypeOK, MpcValues, MutualExclusion
  <1>3. QueueIsBlocked'
    BY ZenonT(60), QueueKept DEF try_lock, Mgoto, MutexTypeOK, MpcValues
  <1>4. NoLostWakeup'
    BY ZenonT(60) DEF try_lock, Mgoto, MutexTypeOK, MpcValues, NoLostWakeup, Locking
  <1> QED
    BY Zenon, <1>1, <1>2, <1>3, <1>4

\* The store of force_unlock: the releaser itself is the one about to notify.
LEMMA UnlockInv ==
    ASSUME MutexInv, NEW t \in Threads, force_unlock(t)
    PROVE  MutexInv'
  <1> USE DEF MutexInv
  <1>1. MutexTypeOK'
    BY ZenonT(60) DEF force_unlock, Mgoto, MutexTypeOK, MpcValues
  <1>2. MutualExclusion'
    BY ZenonT(60), NoneAssumption DEF force_unlock, Mgoto, MutexTypeOK, MpcValues, MutualExclusion
  <1>3. QueueIsBlocked'
    BY ZenonT(60), QueueKept DEF force_unlock, Mgoto, MutexTypeOK, MpcValues
  <1>4. NoLostWakeup'
    BY ZenonT(60) DEF force_unlock, Mgoto, MutexTypeOK, MpcValues, NoLostWakeup, Locking
  <1> QED
    BY Zenon, <1>1, <1>2, <1>3, <1>4

\* The end of wait_until: the thread tries again.
LEMMA WaitEndInv ==
    ASSUME MutexInv, NEW t \in Threads, wait_until_end(t)
    PROVE  MutexInv'
  <1> USE DEF MutexInv
  <1>0. mq' = mq
    BY ZenonT(60), CancelKeepsQueue
  <1>1. MutexTypeOK'
    BY ZenonT(60), <1>0 DEF wait_until_end, Mgoto, MutexTypeOK, MpcValues
  <1>2. MutualExclusion'
    BY ZenonT(60), NoneAssumption DEF wait_until_end, Mgoto, MutexTypeOK, MpcValues, MutualExclusion
  <1>3. QueueIsBlocked'
    BY ZenonT(60), <1>0, QueueKept DEF wait_until_end, Mgoto, MutexTypeOK, MpcValues
  <1>4. NoLostWakeup'
    BY ZenonT(60), <1>0 DEF wait_until_end, Mgoto, MutexTypeOK, MpcValues, NoLostWakeup, Locking
  <1> QED
    BY Zenon, <1>1, <1>2, <1>3, <1>4

\* A round of wait_until: a thread that blocks found the mutex taken in the same
\* critical section.
LEMMA WaitInv ==
    ASSUME MutexInv, NEW t \in Threads, wait_until(t)
    PROVE  MutexInv'
  <1> USE DEF MutexInv
  <1>1. CASE owner = None
    <2>1. mq' = mq /\ owner' = owner /\ mpc[t] = "wait"
          /\ mpc' = [mpc EXCEPT ![t] = "cancel"]
      BY ZenonT(60), <1>1 DEF wait_until, Mgoto
    <2>2. MutexTypeOK' /\ MutualExclusion'
      BY ZenonT(60), <2>1, NoneAssumption DEF MutexTypeOK, MpcValues, MutualExclusion
    <2>3. QueueIsBlocked'
      BY ZenonT(60), <2>1, QueueKept DEF MutexTypeOK
    <2>4. NoLostWakeup'
      BY ZenonT(60), <2>1 DEF NoLostWakeup, Locking, MutexTypeOK
    <2> QED
      BY ZenonT(60), <2>2, <2>3, <2>4
  <1>2. CASE owner # None
    <2>1. /\ mq' = Append(mq, t) /\ owner' = owner /\ mpc[t] = "wait"
          /\ mpc' = [mpc EXCEPT ![t] = "blocked"]
      BY ZenonT(60), <1>2 DEF wait_until, Mgoto
    <2>2. mq \in Seq(Threads) /\ mpc \in [Threads -> MpcValues]
      BY ZenonT(60) DEF MutexTypeOK
    <2>3. /\ mq' \in Seq(Threads)
          /\ Len(mq') = Len(mq) + 1
          /\ mq'[Len(mq) + 1] = t
          /\ \A i \in 1..Len(mq) : mq'[i] = mq[i]
      BY SMTT(60), <2>1, <2>2, AppendFacts
    <2>4. MutexTypeOK' /\ MutualExclusion'
      BY ZenonT(60), <2>1, <2>3, NoneAssumption DEF MutexTypeOK, MpcValues, MutualExclusion
    <2>5. ~InMq(t)
      BY Zenon, <2>1 DEF QueueIsBlocked, InMq
    <2>6. QueueIsBlocked'
      <3>1. \A i \in 1..Len(mq) : mq[i] \in Threads
        BY SMTT(60), <2>2
      <3>2. \A i \in 1..Len(mq') : mpc'[mq'[i]] = "blocked"
        BY SMTT(60), <2>1, <2>2, <2>3, <3>1 DEF QueueIsBlocked
      <3>3. \A i, j \in 1..Len(mq') : mq'[i] = mq'[j] => i = j
        BY SMTT(60), <2>2, <2>3, <2>5 DEF QueueIsBlocked, InMq
      <3>4. \A u \in Threads : mpc'[u] = "blocked" => \E i \in 1..Len(mq') : mq'[i] = u
        BY <2>1, <2>2, <2>3 DEF QueueIsBlocked, InMq
      <3> QED
        BY Zenon, <3>2, <3>3, <3>4 DEF QueueIsBlocked, InMq
    <2>7. NoLostWakeup'
      BY Zenon, <1>2, <2>1 DEF NoLostWakeup
    <2> QED
      BY Zenon, <2>4, <2>6, <2>7
  <1> QED
    BY ZenonT(60), <1>1, <1>2

\* notify_one of force_unlock: the thread it takes from the queue is awake.
LEMMA NotifyInv ==
    ASSUME MutexInv, NEW t \in Threads, force_unlock_notify(t)
    PROVE  MutexInv'
  <1> USE DEF MutexInv
  <1>1. CASE mq = <<>>
    <2>1. /\ mq' = mq /\ owner' = owner /\ mpc[t] = "notify"
          /\ mpc' = [mpc EXCEPT ![t] = "out"]
      BY ZenonT(60), <1>1 DEF force_unlock_notify, Mgoto
    <2>2. MutexTypeOK' /\ MutualExclusion'
      BY ZenonT(60), <2>1 DEF MutexTypeOK, MpcValues, MutualExclusion
    <2>3. QueueIsBlocked'
      BY ZenonT(60), <2>1, QueueKept DEF MutexTypeOK
    <2>4. NoLostWakeup'
      BY ZenonT(60), <1>1, <2>1 DEF NoLostWakeup
    <2> QED
      BY Zenon, <2>2, <2>3, <2>4
  <1>2. CASE mq # <<>>
    <2> DEFINE h == Head(mq)
    <2>1. /\ mq' = Tail(mq) /\ owner' = owner /\ mpc[t] = "notify"
          /\ mpc' = [mpc EXCEPT ![t] = "out", ![h] = "wait"]
      BY ZenonT(60), <1>2 DEF force_unlock_notify
    <2>2. mq \in Seq(Threads) /\ mpc \in [Threads -> MpcValues]
      BY Zenon DEF MutexTypeOK
    <2>3. /\ Len(mq) \in Nat \ {0} /\ h \in Threads /\ h = mq[1]
          /\ mq' \in Seq(Threads) /\ Len(mq') = Len(mq) - 1
          /\ \A i \in 1..Len(mq') : mq'[i] = mq[i + 1]
      BY ZenonT(60), <1>2, <2>1, <2>2, TailFacts
    <2> HIDE DEF h
    <2>4. mpc[h] = "blocked" /\ h # t
      BY SMTT(60), <2>1, <2>3 DEF QueueIsBlocked
    <2>5. \A u \in Threads : mpc'[u] = IF u = h THEN "wait" ELSE IF u = t THEN "out" ELSE mpc[u]
      BY ZenonT(60), <2>1, <2>2, <2>3, <2>4
    <2>6. MutexTypeOK' /\ MutualExclusion'
      BY ZenonT(60), <2>1, <2>2, <2>3, <2>4, <2>5 DEF MutexTypeOK, MpcValues, MutualExclusion
    <2>7. QueueIsBlocked'
      <3>1. \A i \in 1..Len(mq) : mq[i] \in Threads
        BY <2>2
      <3>2. \A i \in 1..Len(mq') : i + 1 \in 1..Len(mq) /\ i + 1 # 1
        BY SMTT(60), <2>3
      <3>3. \A i \in 1..Len(mq') : mq'[i] \in Threads /\ mq'[i] # h /\ mpc[mq'[i]] = "blocked"
        <4>1. ASSUME NEW i \in 1..Len(mq') PROVE mq'[i] \in Threads /\ mq'[i] # h /\ mpc[mq'[i]] = "blocked"
          <5>1. mq'[i] = mq[i + 1] /\ i + 1 \in 1..Len(mq) /\ i + 1 # 1
            BY ZenonT(60), <2>3, <3>2
          <5> QED
            BY <2>2, <2>3, <3>1, <5>1 DEF QueueIsBlocked
        <4> QED
          BY Zenon, <4>1
      <3>4. \A i \in 1..Len(mq') : mpc'[mq'[i]] = "blocked"
        BY Zenon, <2>1, <2>5, <3>3
      <3>5. \A i, j \in 1..Len(mq') : mq'[i] = mq'[j] => i = j
        BY <2>3, <3>2 DEF QueueIsBlocked
      <3>6. ASSUME NEW u \in Threads, mpc'[u] = "blocked"
            PROVE  \E i \in 1..Len(mq') : mq'[i] = u
        <4>1. u # h /\ mpc[u] = "blocked"
          BY ZenonT(60), <2>5, <3>6
        <4>2. PICK i \in 1..Len(mq) : mq[i] = u
          BY ZenonT(60), <4>1 DEF QueueIsBlocked, InMq
        <4>3. i # 1
          BY ZenonT(60), <2>3, <4>1, <4>2
        <4>4. i - 1 \in 1..Len(mq') /\ mq'[i - 1] = mq[i]
          BY <2>3, <4>3
        <4> QED
          BY Zenon, <4>2, <4>4
      <3> QED
        BY ZenonT(60), <3>4, <3>5, <3>6 DEF QueueIsBlocked, InMq
    <2>8. NoLostWakeup'
      BY ZenonT(60), <2>3, <2>5 DEF NoLostWakeup, Locking
    <2> QED
      BY Zenon, <2>6, <2>7, <2>8
  <1> QED
    BY ZenonT(60), <1>1, <1>2

-----------------------------------------------------------------------------
\* Every step of the mutex preserves the invariant.
LEMMA MutexStepInv == MutexInv /\ [MutexNext]_mutexVars => MutexInv'
  <1> SUFFICES ASSUME MutexInv, [MutexNext]_mutexVars PROVE MutexInv'
    BY ZenonT(60)
  <1>1. ASSUME NEW t \in Threads, MutexStep(t) PROVE MutexInv'
    <2>1. CASE lock(t)
      BY ZenonT(60), <2>1, LockInv
    <2>2. CASE try_lock(t)
      BY Zenon, <2>2, TryLockInv
    <2>3. CASE force_unlock(t)
      BY Zenon, <2>3, UnlockInv
    <2>4. CASE lock_cas(t)
      BY Zenon, <2>4, CasInv
    <2>5. CASE wait_until(t)
      BY Zenon, <2>5, WaitInv
    <2>6. CASE wait_until_end(t)
      BY Zenon, <2>6, WaitEndInv
    <2>7. CASE force_unlock_notify(t)
      BY Zenon, <2>7, NotifyInv
    <2> QED
      BY ZenonT(60), <1>1, <2>1, <2>2, <2>3, <2>4, <2>5, <2>6, <2>7 DEF MutexStep, InCall
  <1>2. CASE UNCHANGED mutexVars
    BY SMTT(60), <1>2 DEF mutexVars, MutexInv, MutexTypeOK, MutualExclusion, QueueIsBlocked,
                InMq, NoLostWakeup
  <1> QED
    BY ZenonT(60), <1>1, <1>2 DEF MutexNext

\* The invariant holds in every state of every execution of the mutex.
THEOREM MutexInvThm == MutexSpec => []MutexInv
  BY MutexInitInv, MutexStepInv, PTL DEF MutexSpec

-----------------------------------------------------------------------------
(* The mutex inside the program.                                           *)

\* Whatever a thread does, the mutex takes a step of its own or none.
LEMMA MutexStepOfNext == [Next]_vars => [MutexNext]_mutexVars
  <1> SUFFICES ASSUME [Next]_vars PROVE [MutexNext]_mutexVars
    BY ZenonT(60)
  <1>1. ASSUME NEW t \in Threads, LifeStep(t) PROVE UNCHANGED mutexVars
    BY ZenonT(60), <1>1 DEF LifeStep
  <1>2. ASSUME NEW t \in Threads, FutexUse(t) PROVE UNCHANGED mutexVars
    BY ZenonT(60), <1>2 DEF FutexUse
  <1>3. ASSUME NEW t \in Threads, CondStep(t) PROVE MutexStep(t) \/ UNCHANGED mutexVars
    <2>1. CASE UserMutex(t)
      BY ZenonT(60), <2>1 DEF UserMutex, MutexStep
    <2>2. CASE cond_wait(t)
      BY ZenonT(60), <2>2 DEF cond_wait, MutexStep
    <2>3. CASE set_A(t) \/ cond_timeout(t)
      BY ZenonT(60), <2>3 DEF set_A, cond_timeout
    <2>4. CASE InCall(t) /\ UNCHANGED condVars
      BY ZenonT(60), <2>4 DEF MutexStep
    <2>5. CASE cond_cancel(t)
      BY ZenonT(60), <2>5 DEF cond_cancel, MutexStep
    <2>6. CASE cond_block(t) \/ cond_return(t) \/ cond_signal(t) \/ cond_broadcast(t)
      BY ZenonT(60), <2>6 DEF cond_block, cond_return, cond_signal, cond_broadcast
    <2> QED
      BY ZenonT(60), <1>3, <2>1, <2>2, <2>3, <2>4, <2>5, <2>6 DEF CondStep, CondCall
  <1>4. CASE Next
    BY ZenonT(60), <1>1, <1>2, <1>3, <1>4 DEF Next, CondUse, MutexNext
  <1>5. CASE UNCHANGED vars
    BY ZenonT(60), <1>5 DEF vars
  <1> QED
    BY ZenonT(60), <1>4, <1>5

-----------------------------------------------------------------------------
(* The condition variable.                                                 *)

CondInv ==
    /\ A \in 0..1
    /\ cq \in Seq(Threads)
    /\ cpc \in [Threads -> CpcValues]
    /\ NoStaleWaiter

\* Where a thread is that may be in the queue.
Listed == {"blocked", "timed_blocked", "expired"}

\* A statement about the positions of a queue, as one about who is in it.
LEMMA AtPositions ==
    ASSUME NEW S, NEW q \in Seq(S), NEW f, NEW L
    PROVE  (\A i \in 1..Len(q) : f[q[i]] \in L) <=> (\A u \in S : InQueue(q, u) => f[u] \in L)
  <1>1. \A i \in 1..Len(q) : q[i] \in S
    OBVIOUS
  <1> QED
    BY ZenonT(60), <1>1 DEF InQueue

\* Who is in the queue of the condition variable.
LEMMA CondQueue ==
    ASSUME CondInv
    PROVE  /\ \A u \in Threads : InQueue(cq, u) => cpc[u] \in Listed
           /\ \A u \in Threads : cpc[u] \in {"blocked", "timed_blocked"} => InQueue(cq, u)
  <1>1. cq \in Seq(Threads)
    BY ZenonT(60) DEF CondInv
  <1>2. \A i \in 1..Len(cq) : cpc[cq[i]] \in Listed
    BY ZenonT(60) DEF CondInv, NoStaleWaiter, Listed
  <1>3. \A u \in Threads : InQueue(cq, u) => cpc[u] \in Listed
    BY Zenon, <1>1, <1>2, AtPositions
  <1> QED
    BY ZenonT(60), <1>3 DEF CondInv, NoStaleWaiter

\* Steps that leave the queue alone, and by which nobody comes to be blocked.
LEMMA CondFrame ==
    ASSUME CondInv, A' \in 0..1, cq' = cq, cpc' \in [Threads -> CpcValues],
           \A u \in Threads : cpc[u] \in Listed => cpc'[u] \in Listed,
           \A u \in Threads : cpc'[u] \in {"blocked", "timed_blocked"} => cpc'[u] = cpc[u]
    PROVE  CondInv'
  <1>1. cq \in Seq(Threads)
    BY ZenonT(60) DEF CondInv
  <1>2. \A u \in Threads : InQueue(cq, u) => cpc[u] \in Listed
    BY ZenonT(60), CondQueue
  <1>3. \A u \in Threads : InQueue(cq, u) => cpc'[u] \in Listed
    BY ZenonT(60), <1>2
  <1>4. \A i \in 1..Len(cq) : cpc'[cq[i]] \in Listed
    BY Zenon, <1>1, <1>3, AtPositions
  <1> QED
    BY ZenonT(60), <1>1, <1>4 DEF CondInv, NoStaleWaiter, Listed

\* A notify takes the first waiter from the queue.
LEMMA CondPop ==
    ASSUME CondInv, cq # <<>>, A' = A, cq' = Tail(cq), NEW t \in Threads,
           cpc[t] \in {"notify", "notify_all"},
           \E p \in {"none", "notify_all"} :
               cpc' = [cpc EXCEPT ![t] = p, ![Head(cq)] = Woken(Head(cq))]
    PROVE  CondInv'
  <1>1. cq \in Seq(Threads) /\ Distinct(cq) /\ cpc \in [Threads -> CpcValues] /\ A \in 0..1
    BY ZenonT(60) DEF CondInv, NoStaleWaiter
  <1>p. PICK p \in {"none", "notify_all"} :
               cpc' = [cpc EXCEPT ![t] = p, ![Head(cq)] = Woken(Head(cq))]
    BY ZenonT(60)
  <1>2. PICK h : h = Head(cq)
    BY ZenonT(60)
  <1>3. /\ h \in Threads /\ InQueue(cq, h) /\ cq' \in Seq(Threads) /\ Distinct(cq')
        /\ \A u : InQueue(cq', u) <=> InQueue(cq, u) /\ u # h
    BY ZenonT(60), <1>1, <1>2, PopFacts
  <1>4. /\ \A u \in Threads : InQueue(cq, u) => cpc[u] \in Listed
        /\ \A u \in Threads : cpc[u] \in {"blocked", "timed_blocked"} => InQueue(cq, u)
    BY ZenonT(60), CondQueue
  <1>5. h # t
    BY ZenonT(60), <1>3, <1>4 DEF Listed
  <1>6. Woken(h) \in {"expired", "woken"}
    BY ZenonT(60) DEF Woken
  <1>7. /\ cpc' \in [Threads -> CpcValues] /\ cpc'[h] \in {"expired", "woken"} /\ cpc'[t] = p
        /\ \A u \in Threads \ {h, t} : cpc'[u] = cpc[u]
    BY ZenonT(60), <1>p, <1>1, <1>2, <1>3, <1>5, <1>6 DEF CpcValues
  <1>8. \A u \in Threads : InQueue(cq', u) => cpc'[u] \in Listed
    BY ZenonT(60), <1>3, <1>4, <1>7 DEF Listed
  <1>9. \A u \in Threads : cpc'[u] \in {"blocked", "timed_blocked"} => InQueue(cq', u)
    BY ZenonT(60), <1>3, <1>4, <1>7
  <1>10. NoStaleWaiter'
    <2>1. \A i \in 1..Len(cq') : cpc'[cq'[i]] \in Listed
      <3>1. cq' \in Seq(Threads)
        BY ZenonT(60), <1>3
      <3> QED
        BY Zenon, <3>1, <1>8, AtPositions
    <2> QED
      BY ZenonT(60), <1>3, <1>9, <2>1 DEF NoStaleWaiter, Listed
  <1> QED
    BY Zenon, <1>1, <1>3, <1>7, <1>10 DEF CondInv

\* Every step of a thread keeps the queue of the condition variable right.
LEMMA CondStepInv ==
    ASSUME CondInv, NEW t \in Threads, CondStep(t)
    PROVE  CondInv'
  <1>0. cq \in Seq(Threads) /\ Distinct(cq) /\ cpc \in [Threads -> CpcValues] /\ A \in 0..1
    BY ZenonT(60) DEF CondInv, NoStaleWaiter
  <1>a. /\ \A u \in Threads : InQueue(cq, u) => cpc[u] \in Listed
        /\ \A u \in Threads : cpc[u] \in {"blocked", "timed_blocked"} => InQueue(cq, u)
    BY ZenonT(60), CondQueue
  <1>b. ASSUME cq' \in Seq(Threads), Distinct(cq'), cpc' \in [Threads -> CpcValues], A' = A,
               \A u \in Threads : InQueue(cq', u) => cpc'[u] \in Listed,
               \A u \in Threads : cpc'[u] \in {"blocked", "timed_blocked"} => InQueue(cq', u)
        PROVE  CondInv'
    <2>1. \A i \in 1..Len(cq') : cpc'[cq'[i]] \in Listed
      BY Zenon, <1>b, AtPositions
    <2> QED
      BY ZenonT(60), <1>0, <1>b, <2>1 DEF CondInv, NoStaleWaiter, Listed
  <1>1. CASE UserMutex(t) \/ (InCall(t) /\ UNCHANGED condVars)
    <2>1. A' = A /\ cq' = cq /\ cpc' = cpc
      BY ZenonT(60), <1>1 DEF UserMutex, condVars
    <2> QED
      BY ZenonT(60), <2>1, <1>0, CondFrame
  <1>2. CASE cond_wait(t)
    <2>1. /\ A' = A /\ cq' = cq /\ cpc[t] = "none"
          /\ \E p \in {"unlock", "timed_unlock"} : cpc' = [cpc EXCEPT ![t] = p]
      BY ZenonT(60), <1>2 DEF cond_wait, Cgoto, AtUser
    <2> QED
      BY ZenonT(60), <2>1, <1>0, CondFrame DEF CpcValues, Listed
  <1>3. CASE set_A(t)
    <2>1. /\ A' = 1 /\ cq' = cq /\ cpc[t] = "none"
          /\ \E p \in {"notify", "notify_all"} : cpc' = [cpc EXCEPT ![t] = p]
      BY Zenon, <1>3 DEF set_A, Cgoto, AtUser
    <2>2. A' \in 0..1
      BY SMTT(60), <2>1
    <2> QED
      BY ZenonT(60), <2>1, <2>2, <1>0, CondFrame DEF CpcValues, Listed
  <1>4. CASE cond_timeout(t)
    BY ZenonT(60), <1>4, <1>0, CondFrame DEF cond_timeout, Cgoto, CpcValues, Listed
  <1>5. CASE cond_return(t)
    BY ZenonT(60), <1>5, <1>0, CondFrame DEF cond_return, Cgoto, CpcValues, Listed
  <1>6. CASE cond_block(t)
    <2>1. /\ A' = A /\ cq' = Append(cq, t) /\ cpc[t] \in {"unlock", "timed_unlock"}
          /\ cpc' \in [Threads -> CpcValues] /\ cpc'[t] \in {"blocked", "timed_blocked"}
          /\ \A u \in Threads \ {t} : cpc'[u] = cpc[u]
      BY ZenonT(60), <1>6, <1>0 DEF cond_block, Cgoto, CpcValues
    <2>2. ~InQueue(cq, t)
      BY ZenonT(60), <2>1, <1>a DEF Listed
    <2>3. /\ cq' \in Seq(Threads) /\ Distinct(cq')
          /\ \A u : InQueue(cq', u) <=> InQueue(cq, u) \/ u = t
      BY ZenonT(60), <2>1, <2>2, <1>0, PushFacts
    <2> QED
      BY ZenonT(60), <2>1, <2>3, <1>a, <1>b DEF Listed
  <1>7. CASE cond_cancel(t)
    <2>1. /\ A' = A /\ cq' = Without(cq, t) /\ cpc[t] \in {"expired", "woken"}
          /\ cpc' \in [Threads -> CpcValues] /\ cpc'[t] = "relock"
          /\ \A u \in Threads \ {t} : cpc'[u] = cpc[u]
      BY ZenonT(60), <1>7, <1>0 DEF cond_cancel, Cgoto, CpcValues
    <2>2. /\ cq' \in Seq(Threads) /\ Distinct(cq')
          /\ \A u : InQueue(cq', u) <=> InQueue(cq, u) /\ u # t
      <3> DEFINE K == {i \in 1..Len(cq) : cq[i] # t}
      <3>1. cq' = retain(cq, K)
        BY ZenonT(60), <2>1 DEF Without
      <3> HIDE DEF K
      <3>2. /\ cq' \in Seq(Threads) /\ Distinct(cq')
            /\ \A u : InQueue(cq', u) <=> \E i \in 1..Len(cq) : i \in K /\ cq[i] = u
        BY <3>1, <1>0, RetainQueue
      <3> QED
        BY ZenonT(60), <3>2 DEF K, InQueue
    <2> QED
      BY ZenonT(60), <2>1, <2>2, <1>a, <1>b
  <1>8. CASE cond_signal(t)
    <2>1. CASE cq = <<>>
      BY ZenonT(60), <1>8, <2>1, <1>0, CondFrame DEF cond_signal, Cgoto, CpcValues, Listed
    <2>2. CASE cq # <<>>
      <3>1. /\ cpc[t] = "notify" /\ A' = A /\ cq' = Tail(cq)
            /\ cpc' = [cpc EXCEPT ![t] = "none", ![Head(cq)] = Woken(Head(cq))]
        BY ZenonT(60), <1>8, <2>2 DEF cond_signal
      <3>2. cpc[t] \in {"notify", "notify_all"}
        BY ZenonT(60), <3>1
      <3>3. \E p \in {"none", "notify_all"} :
               cpc' = [cpc EXCEPT ![t] = p, ![Head(cq)] = Woken(Head(cq))]
        BY Zenon, <3>1
      <3> QED
        BY Zenon, <2>2, <3>1, <3>2, <3>3, CondPop
    <2> QED
      BY Zenon, <2>1, <2>2
  <1>9. CASE cond_broadcast(t)
    <2>1. CASE cq = <<>>
      BY ZenonT(60), <1>9, <2>1, <1>0, CondFrame DEF cond_broadcast, Cgoto, CpcValues, Listed
    <2>2. CASE cq # <<>>
      <3>1. /\ cpc[t] = "notify_all" /\ A' = A /\ cq' = Tail(cq)
            /\ cpc' = [cpc EXCEPT ![Head(cq)] = Woken(Head(cq))]
        BY ZenonT(60), <1>9, <2>2 DEF cond_broadcast
      <3>2. [cpc EXCEPT ![t] = "notify_all"] = cpc
        BY ZenonT(60), <3>1, <1>0
      <3>3. cpc' = [cpc EXCEPT ![t] = "notify_all", ![Head(cq)] = Woken(Head(cq))]
        BY ZenonT(60), <3>1, <3>2
      <3>4. cpc[t] \in {"notify", "notify_all"}
        BY ZenonT(60), <3>1
      <3>5. \E p \in {"none", "notify_all"} :
               cpc' = [cpc EXCEPT ![t] = p, ![Head(cq)] = Woken(Head(cq))]
        BY Zenon, <3>3
      <3> QED
        BY Zenon, <2>2, <3>1, <3>4, <3>5, CondPop
    <2> QED
      BY Zenon, <2>1, <2>2
  <1> QED
    BY ZenonT(60), <1>1, <1>2, <1>3, <1>4, <1>5, <1>6, <1>7, <1>8, <1>9 DEF CondStep, CondCall

-----------------------------------------------------------------------------
(* The futexes.                                                            *)

\* The lock is awaited and woken with every bit, the event awaited with one.
KeyOk(p, k) ==
    /\ p \in {"wait", "blocked", "timed_blocked", "expired", "retry"} =>
          \/ k.addr = "lock" /\ k.bits = Bits
          \/ k.addr = "event" /\ \E b \in Bits : k.bits = {b}
    /\ p \in {"locking", "wake"} => k.addr = "lock" /\ k.bits = Bits
    /\ p = "wake_bits" => k.addr = "event"

KeyInv == \A t \in Threads : KeyOk(fpc[t], key[t])

\* The lock's word is 0 exactly when nobody owns it.
OwnInv ==
    /\ word["lock"] # 0 <=> \E t \in Threads : fpc[t] = "own"
    /\ \A t, u \in Threads : fpc[t] = "own" /\ fpc[u] = "own" => t = u

FutexInv ==
    /\ FutexTypeOK
    /\ BucketMatches
    /\ KeyInv
    /\ OwnInv
    /\ NoLostFutexWake
    /\ NoLostBitsetWake

Entry == [task : Threads, key : FutexKey]

\* A step of thread t that takes it to p, with key k.
Only(t, p, k) ==
    /\ fpc' \in [Threads -> FpcValues]
    /\ key' \in [Threads -> FutexKey]
    /\ fpc'[t] = p
    /\ key'[t] = k
    /\ \A u \in Threads \ {t} : fpc'[u] = fpc[u] /\ key'[u] = key[u]

\* Such a step, from the assignments.
LEMMA OnlyFacts ==
    ASSUME FutexTypeOK, NEW t \in Threads, NEW p \in FpcValues, NEW k \in FutexKey,
           fpc' = [fpc EXCEPT ![t] = p],
           key' = [key EXCEPT ![t] = k]
    PROVE  Only(t, p, k)
  BY ZenonT(60) DEF Only, FutexTypeOK

\* Such a step, when the key is left alone.
LEMMA OnlyGoes ==
    ASSUME FutexTypeOK, NEW t \in Threads, NEW p \in FpcValues,
           fpc' = [fpc EXCEPT ![t] = p],
           key' = key
    PROVE  Only(t, p, key[t])
  BY ZenonT(60) DEF Only, FutexTypeOK

\* The keys a program uses.
LEMMA Keys ==
    /\ NoKey \in FutexKey
    /\ [addr |-> "lock", bits |-> MatchAny] \in FutexKey
    /\ [addr |-> "event", bits |-> Bits] \in FutexKey
    /\ \A b \in Bits : [addr |-> "event", bits |-> {b}] \in FutexKey
    /\ NoKey.addr = "lock"
  BY ZenonT(60) DEF NoKey, FutexKey, Words, MatchAny

\* The bucket, when it is left alone and nobody blocks.
LEMMA BucketFrame ==
    ASSUME FutexTypeOK, BucketMatches, NEW t \in Threads, NEW p, NEW k, Only(t, p, k), bucket' = bucket,
           p \notin {"blocked", "timed_blocked"},
           Blocked(t) \/ fpc[t] = "expired" => p = "expired" /\ k = key[t]
    PROVE  BucketMatches'
  <1>1. \A i \in 1..Len(bucket) : bucket[i].task \in Threads
    <2>1. bucket \in Seq(Entry)
      BY ZenonT(60) DEF FutexTypeOK, Entry
    <2>2. \A i \in 1..Len(bucket) : bucket[i] \in Entry
      BY SMTT(60), <2>1
    <2> QED
      BY ZenonT(60), <2>2 DEF Entry
  <1>2. \A u \in Threads : Blocked(u)' => Blocked(u)
    BY ZenonT(60) DEF Only, Blocked
  <1>3. \A u \in Threads : Blocked(u) \/ fpc[u] = "expired" =>
            (Blocked(u)' \/ fpc'[u] = "expired") /\ key'[u] = key[u]
    BY ZenonT(60) DEF Only, Blocked
  <1>4. ASSUME NEW i \in 1..Len(bucket)
        PROVE  /\ Blocked(bucket[i].task)' \/ fpc'[bucket[i].task] = "expired"
               /\ bucket[i].key = key'[bucket[i].task]
    <2>1. /\ Blocked(bucket[i].task) \/ fpc[bucket[i].task] = "expired"
          /\ bucket[i].key = key[bucket[i].task]
      BY ZenonT(60) DEF BucketMatches
    <2>2. PICK u \in Threads : u = bucket[i].task
      BY ZenonT(60), <1>1
    <2>3. (Blocked(u)' \/ fpc'[u] = "expired") /\ bucket[i].key = key'[u]
      BY Zenon, <1>3, <2>1, <2>2
    <2> QED
      BY ZenonT(60), <2>2, <2>3 DEF Blocked
  <1>5. \A u \in Threads : Blocked(u)' => \E i \in 1..Len(bucket) : bucket[i].task = u
    BY Zenon, <1>2 DEF BucketMatches
  <1>6. \A i, j \in 1..Len(bucket) : bucket[i].task = bucket[j].task => i = j
    BY Zenon DEF BucketMatches
  <1> QED
    BY ZenonT(60), <1>4, <1>5, <1>6 DEF BucketMatches, Blocked

\* The keys stay right.
LEMMA KeyFrame ==
    ASSUME KeyInv, NEW t \in Threads, NEW p, NEW k, Only(t, p, k), KeyOk(p, k)
    PROVE  KeyInv'
  <1>1. ASSUME NEW u \in Threads PROVE KeyOk(fpc'[u], key'[u])
    <2>1. CASE u = t
      BY ZenonT(60), <2>1 DEF Only
    <2>2. CASE u # t
      BY ZenonT(60), <2>2 DEF Only, KeyInv
    <2> QED
      BY ZenonT(60), <2>1, <2>2
  <1> QED
    BY ZenonT(60), <1>1 DEF KeyInv

\* The owner of the lock stays the same.
LEMMA OwnFrame ==
    ASSUME OwnInv, NEW t \in Threads, NEW p, NEW k, Only(t, p, k),
           word'["lock"] = word["lock"], fpc[t] # "own", p # "own"
    PROVE  OwnInv'
  BY ZenonT(60) DEF OwnInv, Only

\* Somebody is still to wake the sleepers of the lock.
LEMMA WakeFrame ==
    ASSUME NoLostFutexWake, NEW t \in Threads, NEW p, NEW k, Only(t, p, k),
           word'["lock"] = word["lock"], fpc[t] # "own", fpc[t] # "wake",
           fpc[t] \in {"locking", "wait", "retry", "expired"} => key[t].addr # "lock",
           p \in {"blocked", "timed_blocked"} => k.addr # "lock"
    PROVE  NoLostFutexWake'
  BY ZenonT(60) DEF NoLostFutexWake, Only, Blocked

\* The thread itself is the one that is to look at the lock again.
LEMMA WakeSelf ==
    ASSUME NEW t \in Threads, NEW p, NEW k, Only(t, p, k), k.addr = "lock",
           p \in {"locking", "wait", "retry", "expired", "wake"}
    PROVE  NoLostFutexWake'
  BY ZenonT(60) DEF NoLostFutexWake, Only

\* Somebody is still to wake the sleepers of the event.
LEMMA BitsetFrame ==
    ASSUME NoLostBitsetWake, NEW t \in Threads, NEW p, NEW k, Only(t, p, k),
           word'["event"] = word["event"], fpc[t] # "wake_bits",
           p \in {"blocked", "timed_blocked"} /\ k.addr = "event" => word["event"] # 1
    PROVE  NoLostBitsetWake'
  BY DEF NoLostBitsetWake, Only, Blocked

\* The two words are apart.
LEMMA WordFacts ==
    ASSUME FutexTypeOK, NEW w \in Words, NEW n \in 0..2, word' = [word EXCEPT ![w] = n]
    PROVE  /\ word' \in [Words -> 0..2]
           /\ word'[w] = n
           /\ \A v \in Words \ {w} : word'[v] = word[v]
  BY Zenon DEF FutexTypeOK

-----------------------------------------------------------------------------
\* Taking the lock, or getting ready to wait for it.
LEMMA FutexLockInv ==
    ASSUME FutexInv, NEW t \in Threads, futex_lock(t)
    PROVE  FutexInv'
  <1> USE DEF FutexInv
  <1>0. fpc[t] \in {"none", "locking"} /\ bucket' = bucket /\ "lock" \in Words /\ "event" \in Words \ {"lock"}
    BY Zenon DEF futex_lock, Words
  <1>1. CASE word["lock"] = 0
    <2>1. PICK n \in {1, 2} : /\ word' = [word EXCEPT !["lock"] = n]
                              /\ fpc[t] = "locking" => n = 2
      BY ZenonT(60), <1>1 DEF futex_lock
    <2>2. Only(t, "own", NoKey)
      BY ZenonT(60), <1>1, OnlyFacts, Keys DEF futex_lock, Fgoto, FpcValues
    <2>a. n \in 0..2
      BY SMTT(60)
    <2>3. word' \in [Words -> 0..2] /\ word'["lock"] = n /\ word'["event"] = word["event"]
      BY ZenonT(60), <1>0, <2>1, <2>a, WordFacts
    <2>4. FutexTypeOK'
      BY ZenonT(60), <1>0, <2>2, <2>3 DEF FutexTypeOK, Only
    <2>5. BucketMatches'
      BY ZenonT(60), <1>0, <2>2, BucketFrame DEF Blocked
    <2>6. KeyInv'
      BY ZenonT(60), <2>2, KeyFrame DEF KeyOk
    <2>7. OwnInv'
      BY SMTT(60), <1>1, <2>2, <2>3 DEF OwnInv, Only
    <2>8. NoLostFutexWake'
      <3>1. CASE fpc[t] = "locking"
        BY ZenonT(60), <2>1, <2>2, <2>3, <3>1 DEF NoLostFutexWake, Only
      <3>2. CASE fpc[t] = "none"
        BY SMTT(60), <1>1, <2>2, <3>2 DEF NoLostFutexWake, Only, Blocked
      <3> QED
        BY Zenon, <1>0, <3>1, <3>2
    <2>9. NoLostBitsetWake'
      BY Zenon, <1>0, <2>2, <2>3, BitsetFrame
    <2> QED
      BY ZenonT(60), <2>4, <2>5, <2>6, <2>7, <2>8, <2>9
  <1>2. CASE word["lock"] # 0
    <2> DEFINE k == [addr |-> "lock", bits |-> MatchAny]
    <2>1. Only(t, "wait", k) /\ k.addr = "lock" /\ k.bits = Bits
      BY ZenonT(60), <1>2, OnlyFacts, Keys DEF futex_lock, Fgoto, FpcValues, MatchAny
    <2>2. word' \in [Words -> 0..2] /\ word'["lock"] = 2 /\ word'["event"] = word["event"]
      BY SMTT(60), <1>0, <1>2, WordFacts DEF futex_lock
    <2> HIDE DEF k
    <2>4. FutexTypeOK'
      BY Zenon, <1>0, <2>1, <2>2 DEF FutexTypeOK, Only
    <2>5. BucketMatches'
      BY ZenonT(60), <1>0, <2>1, BucketFrame DEF Blocked
    <2>6. KeyInv'
      BY ZenonT(60), <2>1, KeyFrame DEF KeyOk
    <2>7. OwnInv'
      BY SMTT(60), <1>0, <1>2, <2>1, <2>2 DEF OwnInv, Only
    <2>8. NoLostFutexWake'
      BY ZenonT(60), <2>1, WakeSelf
    <2>9. NoLostBitsetWake'
      BY ZenonT(60), <1>0, <2>1, <2>2, BitsetFrame
    <2> QED
      BY ZenonT(60), <2>4, <2>5, <2>6, <2>7, <2>8, <2>9
  <1> QED
    BY Zenon, <1>1, <1>2

\* Releasing the lock: with waiters, the releaser is on its way to wake one.
LEMMA FutexUnlockInv ==
    ASSUME FutexInv, NEW t \in Threads, futex_unlock(t)
    PROVE  FutexInv'
  <1> USE DEF FutexInv
  <1>0. /\ fpc[t] = "own" /\ bucket' = bucket
        /\ word' \in [Words -> 0..2] /\ word'["lock"] = 0 /\ word'["event"] = word["event"]
    BY SMTT(60), WordFacts DEF futex_unlock, Words
  <1>1. PICK p, k : /\ Only(t, p, k)
                    /\ \/ p = "wake" /\ k.addr = "lock" /\ k.bits = Bits
                       \/ p = "none" /\ word["lock"] = 1
    <2>1. CASE word["lock"] = 2
      <3> DEFINE k == [addr |-> "lock", bits |-> MatchAny]
      <3>1. Only(t, "wake", k) /\ k.addr = "lock" /\ k.bits = Bits
        BY SMTT(60), <2>1, OnlyFacts, Keys DEF futex_unlock, Fgoto, FpcValues, MatchAny
      <3> QED
        BY ZenonT(60), <3>1
    <2>2. CASE word["lock"] = 1
      <3>1. Only(t, "none", key[t])
        BY SMTT(60), <2>2, OnlyGoes DEF futex_unlock, Fgoto, FpcValues
      <3> QED
        BY Zenon, <2>2, <3>1
    <2> QED
      BY ZenonT(60), <2>1, <2>2 DEF futex_unlock
  <1>4. FutexTypeOK'
    BY Zenon, <1>0, <1>1 DEF FutexTypeOK, Only
  <1>5. BucketMatches'
    BY ZenonT(60), <1>0, <1>1, BucketFrame DEF Blocked
  <1>6. KeyInv'
    BY ZenonT(60), <1>1, KeyFrame DEF KeyOk
  <1>7. OwnInv'
    BY SMTT(60), <1>0, <1>1 DEF OwnInv, Only
  <1>8. NoLostFutexWake'
    <2>1. CASE p = "wake"
      BY ZenonT(60), <1>1, <2>1, WakeSelf
    <2>2. CASE p = "none" /\ word["lock"] = 1
      BY SMTT(60), <1>0, <1>1, <2>2 DEF NoLostFutexWake, Only, Blocked
    <2> QED
      BY Zenon, <1>1, <2>1, <2>2
  <1>9. NoLostBitsetWake'
    BY Zenon, <1>0, <1>1, BitsetFrame
  <1> QED
    BY Zenon, <1>4, <1>5, <1>6, <1>7, <1>8, <1>9

\* Getting ready to wait for the event.
LEMMA EventWaitInv ==
    ASSUME FutexInv, NEW t \in Threads, event_wait(t)
    PROVE  FutexInv'
  <1> USE DEF FutexInv
  <1>0. fpc[t] = "none" /\ bucket' = bucket /\ word' = word
    BY ZenonT(60) DEF event_wait
  <1>1. PICK b \in Bits : Only(t, "wait", [addr |-> "event", bits |-> {b}])
    BY ZenonT(60), OnlyFacts, Keys DEF event_wait, Fgoto, FpcValues
  <1> DEFINE k == [addr |-> "event", bits |-> {b}]
  <1>2. Only(t, "wait", k) /\ k.addr = "event" /\ k.bits = {b}
    BY ZenonT(60), <1>1
  <1> HIDE DEF k
  <1>4. FutexTypeOK'
    BY ZenonT(60), <1>0, <1>2 DEF FutexTypeOK, Only
  <1>5. BucketMatches'
    BY ZenonT(60), <1>0, <1>2, BucketFrame DEF Blocked
  <1>6. KeyInv'
    BY ZenonT(60), <1>2, KeyFrame DEF KeyOk
  <1>7. OwnInv'
    BY ZenonT(60), <1>0, <1>2, OwnFrame
  <1>8. NoLostFutexWake'
    BY ZenonT(60), <1>0, <1>2, WakeFrame
  <1>9. NoLostBitsetWake'
    BY ZenonT(60), <1>0, <1>2, BitsetFrame
  <1> QED
    BY Zenon, <1>4, <1>5, <1>6, <1>7, <1>8, <1>9

\* Setting the event: every sleeper has its bit in the wake-up to come.
LEMMA EventSetInv ==
    ASSUME FutexInv, NEW t \in Threads, event_set(t)
    PROVE  FutexInv'
  <1> USE DEF FutexInv
  <1>0. /\ fpc[t] = "none" /\ bucket' = bucket
        /\ word' \in [Words -> 0..2] /\ word'["event"] = 1 /\ word'["lock"] = word["lock"]
    BY SMTT(60), WordFacts DEF event_set, Words
  <1> DEFINE k == [addr |-> "event", bits |-> Bits]
  <1>2. Only(t, "wake_bits", k) /\ k.addr = "event" /\ k.bits = Bits
    BY ZenonT(60), OnlyFacts, Keys DEF event_set, Fgoto, FpcValues
  <1> HIDE DEF k
  <1>4. FutexTypeOK'
    BY Zenon, <1>0, <1>2 DEF FutexTypeOK, Only
  <1>5. BucketMatches'
    BY ZenonT(60), <1>0, <1>2, BucketFrame DEF Blocked
  <1>6. KeyInv'
    BY Zenon, <1>2, KeyFrame DEF KeyOk
  <1>7. OwnInv'
    BY Zenon, <1>0, <1>2, OwnFrame
  <1>8. NoLostFutexWake'
    BY Zenon, <1>0, <1>2, WakeFrame
  <1>9. NoLostBitsetWake'
    <2>1. \A u \in Threads : key'[u].bits \subseteq Bits
      BY Zenon, <1>4 DEF FutexTypeOK, FutexKey
    <2>2. fpc'[t] = "wake_bits" /\ key'[t].bits = Bits
      BY Zenon, <1>2 DEF Only
    <2> QED
      BY Zenon, <2>1, <2>2 DEF NoLostBitsetWake
  <1> QED
    BY Zenon, <1>4, <1>5, <1>6, <1>7, <1>8, <1>9

\* What is done after a wait.
LEMMA FutexRetryInv ==
    ASSUME FutexInv, NEW t \in Threads, futex_retry(t)
    PROVE  FutexInv'
  <1> USE DEF FutexInv
  <1>0. fpc[t] = "retry" /\ bucket' = bucket /\ word' = word
    BY Zenon DEF futex_retry
  <1>a. KeyOk("retry", key[t])
    BY Zenon, <1>0 DEF KeyInv
  <1>1. PICK p, k : /\ Only(t, p, k)
                    /\ \/ p = "locking" /\ k = key[t] /\ key[t].addr = "lock"
                       \/ p = "wait" /\ k = key[t] /\ key[t].addr = "event"
                       \/ p = "none" /\ key[t].addr = "event"
    BY ZenonT(60), OnlyGoes, OnlyFacts, Keys DEF futex_retry, Fgoto, FpcValues
  <1>4. FutexTypeOK'
    BY Zenon, <1>0, <1>1 DEF FutexTypeOK, Only
  <1>5. BucketMatches'
    BY ZenonT(60), <1>0, <1>1, BucketFrame DEF Blocked
  <1>6. KeyInv'
    BY ZenonT(60), <1>1, <1>a, KeyFrame DEF KeyOk
  <1>7. OwnInv'
    BY ZenonT(60), <1>0, <1>1, OwnFrame
  <1>8. NoLostFutexWake'
    <2>1. CASE p = "locking"
      BY ZenonT(60), <1>1, <2>1, WakeSelf
    <2>2. CASE p # "locking"
      <3>1. key[t].addr = "event" /\ p \in {"wait", "none"}
        BY ZenonT(60), <1>1, <2>2
      <3> QED
        BY ZenonT(60), <1>0, <1>1, <3>1, WakeFrame
    <2> QED
      BY ZenonT(60), <2>1, <2>2
  <1>9. NoLostBitsetWake'
    BY ZenonT(60), <1>0, <1>1, BitsetFrame
  <1> QED
    BY Zenon, <1>4, <1>5, <1>6, <1>7, <1>8, <1>9

\* The alarm of a timed wait.
LEMMA FutexTimeoutInv ==
    ASSUME FutexInv, NEW t \in Threads, futex_timeout(t)
    PROVE  FutexInv'
  <1> USE DEF FutexInv
  <1>0. fpc[t] = "timed_blocked" /\ bucket' = bucket /\ word' = word
    BY ZenonT(60) DEF futex_timeout
  <1>a. KeyOk("timed_blocked", key[t])
    BY ZenonT(60), <1>0 DEF KeyInv
  <1>1. Only(t, "expired", key[t])
    BY ZenonT(60), OnlyGoes DEF futex_timeout, Fgoto, FpcValues
  <1>4. FutexTypeOK'
    BY ZenonT(60), <1>0, <1>1 DEF FutexTypeOK, Only
  <1>5. BucketMatches'
    BY SMTT(60), <1>0, <1>1, BucketFrame DEF Blocked
  <1>6. KeyInv'
    BY ZenonT(60), <1>1, <1>a, KeyFrame DEF KeyOk
  <1>7. OwnInv'
    BY ZenonT(60), <1>0, <1>1, OwnFrame
  <1>8. NoLostFutexWake'
    <2>1. CASE key[t].addr = "lock"
      BY ZenonT(60), <1>1, <2>1, WakeSelf
    <2>2. CASE key[t].addr # "lock"
      BY ZenonT(60), <1>0, <1>1, <2>2, WakeFrame
    <2> QED
      BY ZenonT(60), <2>1, <2>2
  <1>9. NoLostBitsetWake'
    BY ZenonT(60), <1>0, <1>1, BitsetFrame
  <1> QED
    BY Zenon, <1>4, <1>5, <1>6, <1>7, <1>8, <1>9

-----------------------------------------------------------------------------
(* The bucket.                                                             *)

\* No two entries of a bucket are of one task.
OneEach(s) == \A i, j \in 1..Len(s) : s[i].task = s[j].task => i = j

\* What push_back of an entry does.
LEMMA EntryPushed ==
    ASSUME NEW s \in Seq(Entry), NEW e \in Entry, OneEach(s),
           \A i \in 1..Len(s) : s[i].task # e.task
    PROVE  /\ Append(s, e) \in Seq(Entry)
           /\ OneEach(Append(s, e))
           /\ \A i \in 1..Len(Append(s, e)) : Append(s, e)[i] = e \/ \E j \in 1..Len(s) : Append(s, e)[i] = s[j]
           /\ \A j \in 1..Len(s) : \E i \in 1..Len(Append(s, e)) : Append(s, e)[i] = s[j]
           /\ \E i \in 1..Len(Append(s, e)) : Append(s, e)[i] = e
  <1> DEFINE r == Append(s, e)
  <1>1. /\ r \in Seq(Entry) /\ Len(s) \in Nat /\ Len(r) = Len(s) + 1 /\ r[Len(s) + 1] = e
        /\ \A i \in 1..Len(s) : r[i] = s[i]
    BY SMTT(60)
  <1> HIDE DEF r
  <1>2. \A i \in 1..Len(r) : i = Len(s) + 1 \/ i \in 1..Len(s)
    BY <1>1
  <1>3. 1..Len(s) \subseteq 1..Len(r) /\ Len(s) + 1 \in 1..Len(r)
    BY SMTT(60), <1>1
  <1>4. OneEach(r)
    BY ZenonT(60), <1>1, <1>2 DEF OneEach
  <1>5. \A i \in 1..Len(r) : r[i] = e \/ \E j \in 1..Len(s) : r[i] = s[j]
    BY ZenonT(60), <1>1, <1>2
  <1>6. \A j \in 1..Len(s) : \E i \in 1..Len(r) : r[i] = s[j]
    BY ZenonT(60), <1>1, <1>3
  <1> QED
    BY ZenonT(60), <1>1, <1>3, <1>4, <1>5, <1>6 DEF r

\* What retain of the entries at the positions K does.
LEMMA EntriesKept ==
    ASSUME NEW s \in Seq(Entry), NEW K, OneEach(s)
    PROVE  /\ retain(s, K) \in Seq(Entry)
           /\ OneEach(retain(s, K))
           /\ \A i \in 1..Len(retain(s, K)) : \E j \in 1..Len(s) : j \in K /\ retain(s, K)[i] = s[j]
           /\ \A j \in 1..Len(s) : j \in K => \E i \in 1..Len(retain(s, K)) : retain(s, K)[i] = s[j]
  <1> DEFINE r == retain(s, K)
  <1>1. r \in Seq(Entry) /\ Len(r) \in Nat /\ Len(s) \in Nat
    BY RetainFacts
  <1>2. PICK p : Lists(p, K, Len(s), Len(r)) /\ \A k \in 1..Len(r) : r[k] = s[p[k]]
    BY SMTT(60), RetainFacts
  <1> HIDE DEF r
  <1>3. \A k \in 1..Len(r) : p[k] \in K /\ p[k] \in 1..Len(s) /\ p[k] \in Nat
    BY <1>2 DEF Lists
  <1>4. \A j, k \in 1..Len(r) : p[j] = p[k] => j = k
    <2>1. \A j, k \in 1..Len(r) : j < k => p[j] < p[k]
      BY ZenonT(60), <1>2 DEF Lists
    <2> QED
      BY SMTT(60), <1>1, <1>3, <2>1
  <1>5. OneEach(r)
    BY SMTT(60), <1>2, <1>3, <1>4 DEF OneEach
  <1>6. \A i \in 1..Len(r) : \E j \in 1..Len(s) : j \in K /\ r[i] = s[j]
    BY Zenon, <1>2, <1>3
  <1>7. ASSUME NEW j \in 1..Len(s), j \in K PROVE \E i \in 1..Len(r) : r[i] = s[j]
    <2>1. PICK i \in 1..Len(r) : p[i] = j
      BY Zenon, <1>2, <1>7 DEF Lists
    <2> QED
      BY Zenon, <1>2, <2>1
  <1> QED
    BY ZenonT(60), <1>1, <1>5, <1>6, <1>7 DEF r

\* The bucket and the threads, as far as the entries are concerned.
LEMMA BucketFacts ==
    ASSUME FutexInv
    PROVE  /\ bucket \in Seq(Entry) /\ OneEach(bucket)
           /\ \A i \in 1..Len(bucket) :
                 /\ bucket[i].task \in Threads
                 /\ fpc[bucket[i].task] \in Listed
                 /\ bucket[i].key = key[bucket[i].task]
           /\ \A u \in Threads : Blocked(u) => \E i \in 1..Len(bucket) : bucket[i].task = u
  <1>1. bucket \in Seq(Entry)
    BY Zenon DEF FutexInv, FutexTypeOK, Entry
  <1>2. \A i \in 1..Len(bucket) : bucket[i].task \in Threads
    <2>1. \A i \in 1..Len(bucket) : bucket[i] \in Entry
      BY SMTT(60), <1>1
    <2> QED
      BY Zenon, <2>1 DEF Entry
  <1> QED
    BY Zenon, <1>1, <1>2 DEF FutexInv, BucketMatches, OneEach, Listed, Blocked

\* A thread outside a wait has no entry.
LEMMA NoEntry ==
    ASSUME FutexInv, NEW t \in Threads, ~Blocked(t), fpc[t] # "expired"
    PROVE  \A i \in 1..Len(bucket) : bucket[i].task # t
  BY Zenon, BucketFacts DEF Listed, Blocked

\* futex_wait: the word is compared and the task queued in one critical section.
LEMMA FutexWaitInv ==
    ASSUME FutexInv, NEW t \in Threads, futex_wait(t)
    PROVE  FutexInv'
  <1>0. fpc[t] = "wait" /\ word' = word /\ key' = key
    BY Zenon DEF futex_wait
  <1>a. /\ FutexTypeOK /\ BucketMatches /\ KeyInv /\ OwnInv /\ NoLostFutexWake /\ NoLostBitsetWake
        /\ key[t] \in FutexKey
    BY Zenon DEF FutexInv, FutexTypeOK
  <1>k. KeyOk("wait", key[t])
    BY ZenonT(60), <1>0, <1>a DEF KeyInv
  <1>1. CASE word[key[t].addr] # Expected(key[t])
    <2>0. bucket' = bucket
      BY ZenonT(60), <1>1 DEF futex_wait
    <2>1. Only(t, "retry", key[t])
      BY ZenonT(60), <1>1, <1>0, <1>a, OnlyGoes DEF futex_wait, Fgoto, FpcValues
    <2>4. FutexTypeOK'
      BY ZenonT(60), <1>0, <1>a, <2>0, <2>1 DEF FutexTypeOK, Only
    <2>5. BucketMatches'
      BY <1>0, <1>a, <2>0, <2>1, BucketFrame DEF Blocked
    <2>6. KeyInv'
      BY ZenonT(60), <2>1, <1>k, <1>a, KeyFrame DEF KeyOk
    <2>7. OwnInv'
      BY ZenonT(60), <1>0, <1>a, <2>1, OwnFrame
    <2>8. NoLostFutexWake'
      <3>1. CASE key[t].addr = "lock"
        BY ZenonT(60), <2>1, <3>1, WakeSelf
      <3>2. CASE key[t].addr # "lock"
        BY ZenonT(60), <1>0, <1>a, <2>1, <3>2, WakeFrame
      <3> QED
        BY ZenonT(60), <3>1, <3>2
    <2>9. NoLostBitsetWake'
      BY ZenonT(60), <1>0, <1>a, <2>1, BitsetFrame
    <2> QED
      BY Zenon, <2>4, <2>5, <2>6, <2>7, <2>8, <2>9 DEF FutexInv
  <1>2. CASE word[key[t].addr] = Expected(key[t])
    <2> DEFINE e == [task |-> t, key |-> key[t]]
    <2>0. bucket' = Append(bucket, e)
      BY ZenonT(60), <1>2 DEF futex_wait
    <2>1. PICK p \in {"blocked", "timed_blocked"} : Only(t, p, key[t])
      BY ZenonT(60), <1>2, <1>0, <1>a, OnlyGoes DEF futex_wait, Fgoto, FpcValues
    <2>2. e \in Entry /\ e.task = t /\ e.key = key[t]
      BY ZenonT(60), <1>a DEF Entry
    <2>3. ~Blocked(t) /\ \A i \in 1..Len(bucket) : bucket[i].task # e.task
      BY ZenonT(60), <1>0, <2>2, NoEntry DEF Blocked
    <2> HIDE DEF e
    <2>b. /\ bucket \in Seq(Entry) /\ OneEach(bucket)
          /\ \A i \in 1..Len(bucket) :
                 /\ bucket[i].task \in Threads
                 /\ fpc[bucket[i].task] \in Listed
                 /\ bucket[i].key = key[bucket[i].task]
          /\ \A u \in Threads : Blocked(u) => \E i \in 1..Len(bucket) : bucket[i].task = u
      BY ZenonT(60), BucketFacts
    <2>c. /\ bucket' \in Seq(Entry) /\ OneEach(bucket')
          /\ \A i \in 1..Len(bucket') : bucket'[i] = e \/ \E j \in 1..Len(bucket) : bucket'[i] = bucket[j]
          /\ \A j \in 1..Len(bucket) : \E i \in 1..Len(bucket') : bucket'[i] = bucket[j]
          /\ \E i \in 1..Len(bucket') : bucket'[i] = e
      <3>1. bucket \in Seq(Entry) /\ OneEach(bucket) /\ e \in Entry
        BY ZenonT(60), <2>2, <2>b
      <3>2. /\ Append(bucket, e) \in Seq(Entry) /\ OneEach(Append(bucket, e))
            /\ \A i \in 1..Len(Append(bucket, e)) : \/ Append(bucket, e)[i] = e
                                                   \/ \E j \in 1..Len(bucket) : Append(bucket, e)[i] = bucket[j]
            /\ \A j \in 1..Len(bucket) : \E i \in 1..Len(Append(bucket, e)) : Append(bucket, e)[i] = bucket[j]
            /\ \E i \in 1..Len(Append(bucket, e)) : Append(bucket, e)[i] = e
        BY ZenonT(60), <2>3, <3>1, EntryPushed
      <3> QED
        BY Zenon, <2>0, <3>2
    <2>4. FutexTypeOK'
      <3>1. bucket' \in Seq([task : Threads, key : FutexKey])
        BY Zenon, <2>c DEF Entry
      <3> QED
        BY Zenon, <1>0, <1>a, <2>1, <3>1 DEF FutexTypeOK, Only
    <2>5. BucketMatches'
      <3>1. ASSUME NEW i \in 1..Len(bucket')
            PROVE  /\ fpc'[bucket'[i].task] \in Listed
                   /\ bucket'[i].key = key'[bucket'[i].task]
        <4>1. CASE bucket'[i] = e
          <5>1. fpc'[t] \in Listed /\ key'[t] = e.key
            BY ZenonT(60), <2>1, <2>2 DEF Only, Listed
          <5> QED
            BY ZenonT(60), <2>2, <4>1, <5>1
        <4>2. ASSUME NEW j \in 1..Len(bucket), bucket'[i] = bucket[j]
              PROVE  /\ fpc'[bucket'[i].task] \in Listed
                     /\ bucket'[i].key = key'[bucket'[i].task]
          <5>1. PICK u \in Threads : u = bucket[j].task
            BY ZenonT(60), <2>b
          <5>2. u # t /\ fpc[u] \in Listed /\ bucket[j].key = key[u]
            BY Zenon, <2>b, <2>2, <2>3, <5>1
          <5>3. fpc'[u] = fpc[u] /\ key'[u] = key[u]
            BY ZenonT(60), <2>1, <5>2 DEF Only
          <5> QED
            BY ZenonT(60), <4>2, <5>1, <5>2, <5>3
        <4> QED
          BY ZenonT(60), <2>c, <4>1, <4>2
      <3>2. ASSUME NEW u \in Threads, Blocked(u)' PROVE \E i \in 1..Len(bucket') : bucket'[i].task = u
        <4>1. CASE u = t
          BY ZenonT(60), <2>2, <2>c, <4>1
        <4>2. CASE u # t
          <5>1. Blocked(u)
            BY ZenonT(60), <2>1, <3>2, <4>2 DEF Only, Blocked
          <5>2. PICK j \in 1..Len(bucket) : bucket[j].task = u
            BY ZenonT(60), <2>b, <5>1
          <5>3. PICK i \in 1..Len(bucket') : bucket'[i] = bucket[j]
            BY ZenonT(60), <2>c
          <5> QED
            BY ZenonT(60), <5>2, <5>3
        <4> QED
          BY ZenonT(60), <4>1, <4>2
      <3> QED
        BY ZenonT(60), <2>c, <3>1, <3>2 DEF BucketMatches, OneEach, Blocked, Listed
    <2>6. KeyInv'
      BY ZenonT(60), <2>1, <1>k, <1>a, KeyFrame DEF KeyOk
    <2>7. OwnInv'
      BY ZenonT(60), <1>0, <1>a, <2>1, OwnFrame
    <2>8. NoLostFutexWake'
      <3>1. CASE key[t].addr = "lock"
        <4>1. word["lock"] = 2
          BY ZenonT(60), <1>2, <3>1 DEF Expected
        <4>2. PICK u \in Threads : fpc[u] = "own"
          BY SMTT(60), <1>a, <4>1 DEF OwnInv
        <4>3. fpc'[u] = "own"
          BY ZenonT(60), <1>0, <2>1, <4>2 DEF Only
        <4> QED
          BY ZenonT(60), <1>0, <4>1, <4>3 DEF NoLostFutexWake
      <3>2. CASE key[t].addr # "lock"
        BY ZenonT(60), <1>0, <1>a, <2>1, <3>2, WakeFrame
      <3> QED
        BY ZenonT(60), <3>1, <3>2
    <2>9. NoLostBitsetWake'
      <3>1. key[t].addr = "event" => word["event"] # 1
        BY <1>2 DEF Expected
      <3> QED
        BY ZenonT(60), <1>0, <1>a, <2>1, <3>1, BitsetFrame
    <2> QED
      BY ZenonT(60), <2>4, <2>5, <2>6, <2>7, <2>8, <2>9 DEF FutexInv
  <1> QED
    BY Zenon, <1>1, <1>2

\* cancel_events after an expired wait.
LEMMA FutexWaitEndInv ==
    ASSUME FutexInv, NEW t \in Threads, futex_wait_end(t)
    PROVE  FutexInv'
  <1>0. fpc[t] = "expired" /\ word' = word /\ key' = key
    BY ZenonT(60) DEF futex_wait_end
  <1>a. /\ FutexTypeOK /\ BucketMatches /\ KeyInv /\ OwnInv /\ NoLostFutexWake /\ NoLostBitsetWake
        /\ key[t] \in FutexKey
    BY Zenon DEF FutexInv, FutexTypeOK
  <1>k. KeyOk("expired", key[t])
    BY ZenonT(60), <1>0, <1>a DEF KeyInv
  <1>1. Only(t, "retry", key[t])
    BY ZenonT(60), <1>0, <1>a, OnlyGoes DEF futex_wait_end, Fgoto, FpcValues
  <1>b. /\ bucket \in Seq(Entry) /\ OneEach(bucket)
        /\ \A i \in 1..Len(bucket) :
               /\ bucket[i].task \in Threads
               /\ fpc[bucket[i].task] \in Listed
               /\ bucket[i].key = key[bucket[i].task]
        /\ \A u \in Threads : Blocked(u) => \E i \in 1..Len(bucket) : bucket[i].task = u
    BY ZenonT(60), BucketFacts
  <1> DEFINE K == {i \in 1..Len(bucket) : bucket[i].task # t}
  <1>2. bucket' = retain(bucket, K)
    BY ZenonT(60) DEF futex_wait_end
  <1>3. \A i \in 1..Len(bucket) : i \in K <=> bucket[i].task # t
    BY ZenonT(60)
  <1> HIDE DEF K
  <1>c. /\ bucket' \in Seq(Entry) /\ OneEach(bucket')
        /\ \A i \in 1..Len(bucket') : \E j \in 1..Len(bucket) : j \in K /\ bucket'[i] = bucket[j]
        /\ \A j \in 1..Len(bucket) : j \in K => \E i \in 1..Len(bucket') : bucket'[i] = bucket[j]
    <2>1. bucket \in Seq(Entry) /\ OneEach(bucket)
      BY ZenonT(60), <1>b
    <2>2. /\ retain(bucket, K) \in Seq(Entry)
          /\ OneEach(retain(bucket, K))
          /\ \A i \in 1..Len(retain(bucket, K)) : \E j \in 1..Len(bucket) : j \in K /\ retain(bucket, K)[i] = bucket[j]
          /\ \A j \in 1..Len(bucket) : j \in K => \E i \in 1..Len(retain(bucket, K)) : retain(bucket, K)[i] = bucket[j]
      BY SMTT(60), <2>1, EntriesKept
    <2> QED
      BY Zenon, <1>2, <2>2
  <1>4. FutexTypeOK'
    <2>1. bucket' \in Seq([task : Threads, key : FutexKey])
      BY Zenon, <1>c DEF Entry
    <2> QED
      BY Zenon, <1>0, <1>a, <1>1, <2>1 DEF FutexTypeOK, Only
  <1>5. BucketMatches'
    <2>1. ASSUME NEW i \in 1..Len(bucket')
          PROVE  /\ fpc'[bucket'[i].task] \in Listed
                 /\ bucket'[i].key = key'[bucket'[i].task]
      <3>1. PICK j \in 1..Len(bucket) : j \in K /\ bucket'[i] = bucket[j]
        BY Zenon, <1>c
      <3>2. PICK u \in Threads : u = bucket[j].task
        BY Zenon, <1>b
      <3>3. u # t /\ fpc[u] \in Listed /\ bucket[j].key = key[u]
        BY Zenon, <1>b, <1>3, <3>1, <3>2
      <3>4. fpc'[u] = fpc[u] /\ key'[u] = key[u]
        BY Zenon, <1>1, <3>3 DEF Only
      <3> QED
        BY Zenon, <3>1, <3>2, <3>3, <3>4
    <2>2. ASSUME NEW u \in Threads, Blocked(u)' PROVE \E i \in 1..Len(bucket') : bucket'[i].task = u
      <3>1. u # t /\ Blocked(u)
        BY Zenon, <1>1, <2>2 DEF Only, Blocked
      <3>2. PICK j \in 1..Len(bucket) : bucket[j].task = u
        BY Zenon, <1>b, <3>1
      <3>3. PICK i \in 1..Len(bucket') : bucket'[i] = bucket[j]
        BY Zenon, <1>c, <1>3, <3>1, <3>2
      <3> QED
        BY Zenon, <3>2, <3>3
    <2> QED
      BY Zenon, <1>c, <2>1, <2>2 DEF BucketMatches, OneEach, Blocked, Listed
  <1>6. KeyInv'
    BY Zenon, <1>1, <1>k, <1>a, KeyFrame DEF KeyOk
  <1>7. OwnInv'
    BY ZenonT(60), <1>0, <1>a, <1>1, OwnFrame
  <1>8. NoLostFutexWake'
    <2>1. CASE key[t].addr = "lock"
      BY Zenon, <1>1, <2>1, WakeSelf
    <2>2. CASE key[t].addr # "lock"
      BY ZenonT(60), <1>0, <1>a, <1>1, <2>2, WakeFrame
    <2> QED
      BY Zenon, <2>1, <2>2
  <1>9. NoLostBitsetWake'
    BY ZenonT(60), <1>0, <1>a, <1>1, BitsetFrame
  <1> QED
    BY Zenon, <1>4, <1>5, <1>6, <1>7, <1>8, <1>9 DEF FutexInv

\* What notify_task_if does: it wakes threads it selects, and a thread that is
\* still blocked afterwards has its entry, which retain did not drop.
LEMMA NotifyTasks ==
    ASSUME FutexInv, NEW t \in Threads, NEW k, NEW n, NEW next,
           ~Blocked(t), fpc[t] # "expired",
           next \in {"none", "wake_bits"},
           notify_task_if(t, k, n, next),
           key' \in [Threads -> FutexKey],
           \A u \in Threads \ {t} : key'[u] = key[u]
    PROVE  /\ bucket' \in Seq(Entry)
           /\ fpc' \in [Threads -> FpcValues]
           /\ fpc'[t] = next
           /\ \A u \in Threads \ {t} :
                 \/ fpc'[u] = fpc[u]
                 \/ /\ Blocked(u) /\ fpc'[u] = "retry"
                    /\ key[u].addr = k.addr
           /\ \A u \in Threads : Blocked(u)' =>
                 /\ u # t /\ Blocked(u) /\ fpc'[u] = fpc[u]
                 /\ \A i \in 1..Len(bucket) : bucket[i].task = u => ~Removed(k, n, i)
           /\ BucketMatches'
  <1> DEFINE gone == {i \in 1..Len(bucket) : Removed(k, n, i)}
             K == 1..Len(bucket) \ gone
             Hit(u) == \E i \in gone : bucket[i].task = u
  <1>b. /\ bucket \in Seq(Entry) /\ OneEach(bucket)
        /\ \A i \in 1..Len(bucket) :
               /\ bucket[i].task \in Threads
               /\ fpc[bucket[i].task] \in Listed
               /\ bucket[i].key = key[bucket[i].task]
        /\ \A u \in Threads : Blocked(u) => \E i \in 1..Len(bucket) : bucket[i].task = u
    BY ZenonT(60), BucketFacts
  <1>1. /\ bucket' = retain(bucket, K)
        /\ fpc' = [u \in Threads |-> IF u = t THEN next
                                     ELSE IF Blocked(u) /\ Hit(u) THEN "retry" ELSE fpc[u]]
    BY ZenonT(60) DEF notify_task_if
  <1>2. \A i \in 1..Len(bucket) : (i \in gone <=> Removed(k, n, i)) /\ (i \in K <=> ~Removed(k, n, i))
    BY ZenonT(60)
  <1>3. \A u \in Threads : Hit(u) <=> \E i \in 1..Len(bucket) : Removed(k, n, i) /\ bucket[i].task = u
    BY ZenonT(60)
  <1> HIDE DEF gone, K, Hit
  <1>c. /\ bucket' \in Seq(Entry) /\ OneEach(bucket')
        /\ \A i \in 1..Len(bucket') : \E j \in 1..Len(bucket) : j \in K /\ bucket'[i] = bucket[j]
        /\ \A j \in 1..Len(bucket) : j \in K => \E i \in 1..Len(bucket') : bucket'[i] = bucket[j]
    <2>1. bucket \in Seq(Entry) /\ OneEach(bucket)
      BY ZenonT(60), <1>b
    <2>2. /\ retain(bucket, K) \in Seq(Entry)
          /\ OneEach(retain(bucket, K))
          /\ \A i \in 1..Len(retain(bucket, K)) : \E j \in 1..Len(bucket) : j \in K /\ retain(bucket, K)[i] = bucket[j]
          /\ \A j \in 1..Len(bucket) : j \in K => \E i \in 1..Len(retain(bucket, K)) : retain(bucket, K)[i] = bucket[j]
      BY SMTT(60), <2>1, EntriesKept
    <2> QED
      BY Zenon, <1>1, <2>2
  <1>4. /\ fpc'[t] = next
        /\ \A u \in Threads \ {t} : fpc'[u] = IF Blocked(u) /\ Hit(u) THEN "retry" ELSE fpc[u]
    BY Zenon, <1>1
  <1>5. fpc' \in [Threads -> FpcValues]
    <2>1. \A u \in Threads : fpc[u] \in FpcValues
      BY Zenon DEF FutexInv, FutexTypeOK
    <2>2. next \in FpcValues /\ "retry" \in FpcValues
      BY Zenon DEF FpcValues
    <2> QED
      BY Zenon, <1>1, <2>1, <2>2
  <1>6. ASSUME NEW u \in Threads, Blocked(u), Hit(u) PROVE key[u].addr = k.addr
    <2>1. PICK i \in 1..Len(bucket) : Removed(k, n, i) /\ bucket[i].task = u
      BY Zenon, <1>3, <1>6
    <2>2. Selected(k, bucket[i])
      BY Zenon, <1>6, <2>1 DEF Removed
    <2> QED
      BY Zenon, <1>b, <2>1, <2>2 DEF Selected
  <1>7. ASSUME NEW u \in Threads, Blocked(u)'
        PROVE  u # t /\ Blocked(u) /\ ~Hit(u) /\ fpc'[u] = fpc[u]
    <2>1. u # t
      BY Zenon, <1>4, <1>7 DEF Blocked
    <2>2. ~(Blocked(u) /\ Hit(u))
      BY Zenon, <1>4, <1>7, <2>1 DEF Blocked
    <2> QED
      BY Zenon, <1>4, <1>7, <2>1, <2>2 DEF Blocked
  <1>8. BucketMatches'
    <2>1. ASSUME NEW i \in 1..Len(bucket')
          PROVE  /\ fpc'[bucket'[i].task] \in Listed
                 /\ bucket'[i].key = key'[bucket'[i].task]
      <3>1. PICK j \in 1..Len(bucket) : j \in K /\ bucket'[i] = bucket[j]
        BY Zenon, <1>c
      <3>2. PICK u \in Threads : u = bucket[j].task
        BY ZenonT(60), <1>b
      <3>3. ~Removed(k, n, j) /\ fpc[u] \in Listed /\ bucket[j].key = key[u]
        BY Zenon, <1>b, <1>2, <3>1, <3>2
      <3>4. u # t
        BY ZenonT(60), <3>3 DEF Listed, Blocked
      <3>5. ~Hit(u)
        BY SMTT(60), <1>3, <1>b, <3>2, <3>3 DEF OneEach
      <3>6. fpc'[u] = fpc[u] /\ key'[u] = key[u]
        BY Zenon, <1>4, <3>4, <3>5
      <3> QED
        BY Zenon, <3>1, <3>2, <3>3, <3>6
    <2>2. ASSUME NEW u \in Threads, Blocked(u)' PROVE \E i \in 1..Len(bucket') : bucket'[i].task = u
      <3>1. Blocked(u) /\ ~Hit(u)
        BY Zenon, <1>7, <2>2
      <3>2. PICK j \in 1..Len(bucket) : bucket[j].task = u
        BY Zenon, <1>b, <3>1
      <3>3. j \in K
        BY Zenon, <1>2, <1>3, <3>1, <3>2
      <3>4. PICK i \in 1..Len(bucket') : bucket'[i] = bucket[j]
        BY Zenon, <1>c, <3>3
      <3> QED
        BY Zenon, <3>2, <3>4
    <2> QED
      BY Zenon, <1>c, <2>1, <2>2 DEF BucketMatches, OneEach, Blocked, Listed
  <1>9. \A u \in Threads \ {t} : fpc'[u] = fpc[u] \/ (Blocked(u) /\ fpc'[u] = "retry" /\ key[u].addr = k.addr)
    BY Zenon, <1>4, <1>6
  <1>10. \A u \in Threads : Blocked(u)' =>
            /\ u # t /\ Blocked(u) /\ fpc'[u] = fpc[u]
            /\ \A i \in 1..Len(bucket) : bucket[i].task = u => ~Removed(k, n, i)
    BY Zenon, <1>3, <1>7
  <1> QED
    BY ZenonT(60), <1>c, <1>4, <1>5, <1>8, <1>9, <1>10

\* What a wake-up leaves right whomever it wakes.
LEMMA WakeKeeps ==
    ASSUME FutexInv, NEW t \in Threads, NEW next,
           fpc[t] \in {"wake", "wake_bits"}, next \in {"none", "wake_bits"}, word' = word,
           bucket' \in Seq(Entry), fpc' \in [Threads -> FpcValues], key' \in [Threads -> FutexKey],
           fpc'[t] = next, next = "wake_bits" => key'[t].addr = "event",
           \A u \in Threads \ {t} : key'[u] = key[u],
           \A u \in Threads \ {t} :
                 \/ fpc'[u] = fpc[u]
                 \/ Blocked(u) /\ fpc'[u] = "retry"
    PROVE  FutexTypeOK' /\ KeyInv' /\ OwnInv'
  <1>1. FutexTypeOK'
    <2>1. bucket' \in Seq([task : Threads, key : FutexKey])
      BY Zenon DEF Entry
    <2> QED
      BY Zenon, <2>1 DEF FutexInv, FutexTypeOK
  <1>2. ASSUME NEW u \in Threads PROVE KeyOk(fpc'[u], key'[u])
    <2>1. CASE u = t
      BY Zenon, <2>1 DEF KeyOk
    <2>2. CASE u # t /\ fpc'[u] = fpc[u]
      BY Zenon, <2>2 DEF FutexInv, KeyInv
    <2>3. CASE u # t /\ Blocked(u) /\ fpc'[u] = "retry"
      <3>1. KeyOk(fpc[u], key[u])
        BY ZenonT(60) DEF FutexInv, KeyInv
      <3> QED
        BY ZenonT(60), <2>3, <3>1 DEF KeyOk, Blocked
    <2> QED
      BY Zenon, <2>1, <2>2, <2>3
  <1>3. \A u \in Threads : fpc'[u] = "own" <=> fpc[u] = "own"
    BY ZenonT(60) DEF Blocked
  <1>4. OwnInv'
    BY ZenonT(60), <1>3 DEF OwnInv, FutexInv
  <1> QED
    BY Zenon, <1>1, <1>2, <1>4 DEF KeyInv

\* futex_wake: when threads sleep on the lock, the first of them is woken.
LEMMA FutexWakeInv ==
    ASSUME FutexInv, NEW t \in Threads, futex_wake(t)
    PROVE  FutexInv'
  <1>0. /\ fpc[t] = "wake" /\ word' = word /\ ~Blocked(t)
        /\ key' = [key EXCEPT ![t] = NoKey]
        /\ notify_task_if(t, key[t], 1, "none")
    BY ZenonT(60) DEF futex_wake, Blocked
  <1>a. /\ key \in [Threads -> FutexKey] /\ BucketMatches /\ NoLostFutexWake /\ NoLostBitsetWake
        /\ key[t].addr = "lock" /\ key[t].bits = Bits
    BY ZenonT(60), <1>0 DEF FutexInv, FutexTypeOK, KeyInv, KeyOk
  <1>1. key' \in [Threads -> FutexKey] /\ \A u \in Threads \ {t} : key'[u] = key[u]
    BY ZenonT(60), <1>0, <1>a, Keys
  <1>2. /\ bucket' \in Seq(Entry)
        /\ fpc' \in [Threads -> FpcValues]
        /\ fpc'[t] = "none"
        /\ \A u \in Threads \ {t} :
              \/ fpc'[u] = fpc[u]
              \/ Blocked(u) /\ fpc'[u] = "retry" /\ key[u].addr = key[t].addr
        /\ \A u \in Threads : Blocked(u)' =>
              /\ u # t /\ Blocked(u) /\ fpc'[u] = fpc[u]
              /\ \A i \in 1..Len(bucket) : bucket[i].task = u => ~Removed(key[t], 1, i)
        /\ BucketMatches'
    <2>1. fpc[t] # "expired" /\ "none" \in {"none", "wake_bits"}
      BY ZenonT(60), <1>0
    <2> QED
      BY Zenon, <1>0, <1>1, <2>1, NotifyTasks
  <1>3. FutexTypeOK' /\ KeyInv' /\ OwnInv'
    <2>1. /\ fpc[t] \in {"wake", "wake_bits"} /\ "none" \in {"none", "wake_bits"}
          /\ "none" = "wake_bits" => key'[t].addr = "event"
      BY Zenon, <1>0
    <2> QED
      BY <1>0, <1>1, <1>2, <2>1, WakeKeeps
  <1>4. NoLostFutexWake'
    <2> SUFFICES ASSUME NEW u \in Threads, Blocked(u)', key'[u].addr = "lock"
                 PROVE  \E v \in Threads : key'[v].addr = "lock" /\ fpc'[v] = "retry"
      BY Zenon DEF NoLostFutexWake
    <2>1. Blocked(u) /\ u # t /\ key[u].addr = "lock"
      BY Zenon, <1>1, <1>2
    <2>2. key[u].bits = Bits
      BY Zenon, <2>1 DEF FutexInv, KeyInv, KeyOk, Blocked
    <2>b. /\ \A i \in 1..Len(bucket) : bucket[i].task \in Threads /\ bucket[i].key = key[bucket[i].task]
          /\ \A v \in Threads : Blocked(v) => \E i \in 1..Len(bucket) : bucket[i].task = v
      BY Zenon, BucketFacts
    <2>3. PICK i \in 1..Len(bucket) : bucket[i].task = u
      BY Zenon, <2>1, <2>b
    <2>4. Selected(key[t], bucket[i])
      BY Zenon, <1>a, <2>1, <2>2, <2>3, <2>b, BitsAssumption DEF Selected
    <2> DEFINE T == {j \in 1..Len(bucket) : Selected(key[t], bucket[j])}
    <2>5. T \subseteq Nat /\ T # {}
      BY SMTT(60), <2>4
    <2>6. PICK x \in T : \A y \in T : ~(y < x)
      <3>1. PICK x \in T : \A y \in T : <<y, x>> \notin OpToRel(<, Nat)
        BY ZenonT(60), <2>5, WFMin, NatLessThanWellFounded
      <3> QED
        BY ZenonT(60), <2>5, <3>1 DEF OpToRel
    <2>7. x \in 1..Len(bucket) /\ Selected(key[t], bucket[x])
          /\ {j \in 1..(x - 1) : Selected(key[t], bucket[j])} = {}
      <3>1. x \in 1..Len(bucket) /\ Selected(key[t], bucket[x])
        BY ZenonT(60)
      <3>2. ASSUME NEW j \in 1..(x - 1), Selected(key[t], bucket[j]) PROVE FALSE
        <4>1. Len(bucket) \in Nat
          BY SMTT(60), <2>3 DEF FutexInv, FutexTypeOK
        <4>2. j \in 1..Len(bucket) /\ j < x
          BY SMTT(60), <3>1, <4>1
        <4> QED
          BY ZenonT(60), <2>6, <3>2, <4>2
      <3> QED
        BY Zenon, <3>1, <3>2
    <2> HIDE DEF T
    <2>8. Removed(key[t], 1, x)
      <3>1. Cardinality({j \in 1..(x - 1) : Selected(key[t], bucket[j])}) = 0
        BY ZenonT(60), <2>7, FS_EmptySet
      <3> QED
        BY <2>7, <3>1 DEF Removed
    <2>9. PICK v \in Threads : v = bucket[x].task
      BY ZenonT(60), <2>7, <2>b
    <2>10. Blocked(v) /\ key[v].addr = "lock"
      BY ZenonT(60), <1>a, <2>7, <2>9, <2>b DEF Selected
    <2>11. v # t /\ ~Blocked(v)'
      BY ZenonT(60), <1>0, <1>2, <2>7, <2>8, <2>9, <2>10
    <2>12. fpc'[v] = "retry"
      BY ZenonT(60), <1>2, <2>10, <2>11 DEF Blocked
    <2>13. key'[v].addr = "lock"
      BY ZenonT(60), <1>1, <2>10, <2>11
    <2> QED
      BY Zenon, <2>12, <2>13
  <1>5. NoLostBitsetWake'
    <2> SUFFICES ASSUME word["event"] = 1, NEW u \in Threads, Blocked(u)', key'[u].addr = "event"
                 PROVE  \E v \in Threads : fpc'[v] = "wake_bits" /\ key'[u].bits \subseteq key'[v].bits
      BY ZenonT(60), <1>0 DEF NoLostBitsetWake
    <2>1. u # t /\ Blocked(u) /\ key'[u] = key[u]
      BY ZenonT(60), <1>1, <1>2
    <2>2. PICK v \in Threads : fpc[v] = "wake_bits" /\ key[u].bits \subseteq key[v].bits
      BY ZenonT(60), <1>a, <2>1 DEF NoLostBitsetWake
    <2>3. v # t /\ ~Blocked(v)
      BY ZenonT(60), <1>0, <2>2 DEF Blocked
    <2>4. fpc'[v] = fpc[v] /\ key'[v] = key[v]
      BY ZenonT(60), <1>1, <1>2, <2>3
    <2> QED
      BY ZenonT(60), <2>1, <2>2, <2>4
  <1> QED
    BY ZenonT(60), <1>2, <1>3, <1>4, <1>5 DEF FutexInv

\* futex_wake_bitset of one bit: nobody who waits for the bit stays asleep.
LEMMA FutexWakeBitsetInv ==
    ASSUME FutexInv, NEW t \in Threads, futex_wake_bitset(t)
    PROVE  FutexInv'
  <1>0. fpc[t] = "wake_bits" /\ word' = word /\ ~Blocked(t) /\ fpc[t] # "expired"
    BY ZenonT(60) DEF futex_wake_bitset, Blocked
  <1>a. /\ key \in [Threads -> FutexKey] /\ key[t] \in FutexKey
        /\ BucketMatches /\ NoLostFutexWake /\ NoLostBitsetWake
        /\ key[t].addr = "event"
    BY ZenonT(60), <1>0 DEF FutexInv, FutexTypeOK, KeyInv, KeyOk
  <1>1. PICK b \in key[t].bits :
            /\ notify_task_if(t, [key[t] EXCEPT !.bits = {b}], Len(bucket),
                              IF key[t].bits = {b} THEN "none" ELSE "wake_bits")
            /\ key' = [key EXCEPT ![t] = IF key[t].bits = {b} THEN NoKey
                                        ELSE [key[t] EXCEPT !.bits = @ \ {b}]]
    BY ZenonT(60) DEF futex_wake_bitset
  <1> DEFINE k == [key[t] EXCEPT !.bits = {b}]
             next == IF key[t].bits = {b} THEN "none" ELSE "wake_bits"
  <1>2. k.addr = "event" /\ k.bits = {b}
    BY ZenonT(60), <1>a DEF FutexKey
  <1>3. /\ next \in {"none", "wake_bits"}
        /\ next = "none" <=> key[t].bits = {b}
    BY ZenonT(60)
  <1>4. /\ key' \in [Threads -> FutexKey]
        /\ \A u \in Threads \ {t} : key'[u] = key[u]
        /\ key[t].bits # {b} => key'[t].addr = "event" /\ key'[t].bits = key[t].bits \ {b}
    <2> DEFINE q == IF key[t].bits = {b} THEN NoKey ELSE [key[t] EXCEPT !.bits = @ \ {b}]
    <2>1. key' = [key EXCEPT ![t] = q]
      BY ZenonT(60), <1>1
    <2>2. q \in FutexKey
      BY ZenonT(60), <1>a, Keys DEF FutexKey
    <2>3. key[t].bits # {b} => q.addr = "event" /\ q.bits = key[t].bits \ {b}
      BY ZenonT(60), <1>a DEF FutexKey
    <2> HIDE DEF q
    <2> QED
      BY ZenonT(60), <1>a, <2>1, <2>2, <2>3
  <1>5. notify_task_if(t, k, Len(bucket), next)
    BY ZenonT(60), <1>1
  <1> HIDE DEF k, next
  <1>6. /\ bucket' \in Seq(Entry)
        /\ fpc' \in [Threads -> FpcValues]
        /\ fpc'[t] = next
        /\ \A u \in Threads \ {t} :
              \/ fpc'[u] = fpc[u]
              \/ Blocked(u) /\ fpc'[u] = "retry" /\ key[u].addr = k.addr
        /\ \A u \in Threads : Blocked(u)' =>
              /\ u # t /\ Blocked(u) /\ fpc'[u] = fpc[u]
              /\ \A i \in 1..Len(bucket) : bucket[i].task = u => ~Removed(k, Len(bucket), i)
        /\ BucketMatches'
    BY Zenon, <1>0, <1>3, <1>4, <1>5, NotifyTasks
  <1>7. FutexTypeOK' /\ KeyInv' /\ OwnInv'
    <2>1. /\ fpc[t] \in {"wake", "wake_bits"}
          /\ next = "wake_bits" => key'[t].addr = "event"
      BY Zenon, <1>0, <1>3, <1>4
    <2> QED
      BY SMTT(60), <1>0, <1>3, <1>4, <1>6, <2>1, WakeKeeps
  <1>8. NoLostFutexWake'
    <2> SUFFICES ASSUME NEW u \in Threads, Blocked(u)', key'[u].addr = "lock"
                 PROVE  \/ word["lock"] = 2 /\ \E v \in Threads : fpc'[v] = "own"
                        \/ \E v \in Threads : fpc'[v] = "wake"
                        \/ \E v \in Threads : /\ key'[v].addr = "lock"
                                              /\ fpc'[v] \in {"locking", "wait", "retry", "expired"}
      BY Zenon, <1>0 DEF NoLostFutexWake
    <2>1. Blocked(u) /\ key[u].addr = "lock"
      BY Zenon, <1>4, <1>6
    <2>2. \/ word["lock"] = 2 /\ \E v \in Threads : fpc[v] = "own"
          \/ \E v \in Threads : fpc[v] = "wake"
          \/ \E v \in Threads : /\ key[v].addr = "lock"
                                /\ fpc[v] \in {"locking", "wait", "retry", "expired"}
      BY Zenon, <1>a, <2>1 DEF NoLostFutexWake
    <2>3. \A v \in Threads : ~Blocked(v) /\ v # t => fpc'[v] = fpc[v] /\ key'[v] = key[v]
      BY Zenon, <1>4, <1>6
    <2>4. \A v \in Threads : fpc[v] \in {"own", "wake", "locking", "wait", "retry", "expired"} =>
              fpc'[v] = fpc[v] /\ key'[v] = key[v]
      BY Zenon, <1>0, <2>3 DEF Blocked
    <2> QED
      BY Zenon, <2>2, <2>4
  <1>9. NoLostBitsetWake'
    <2> SUFFICES ASSUME word["event"] = 1, NEW u \in Threads, Blocked(u)', key'[u].addr = "event"
                 PROVE  \E v \in Threads : fpc'[v] = "wake_bits" /\ key'[u].bits \subseteq key'[v].bits
      BY Zenon, <1>0 DEF NoLostBitsetWake
    <2>1. u # t /\ Blocked(u) /\ key'[u] = key[u] /\ key[u].addr = "event"
      BY Zenon, <1>4, <1>6
    <2>2. PICK v \in Threads : fpc[v] = "wake_bits" /\ key[u].bits \subseteq key[v].bits
      BY ZenonT(60), <1>a, <2>1 DEF NoLostBitsetWake
    <2>3. CASE v # t
      <3>1. fpc'[v] = fpc[v] /\ key'[v] = key[v]
        BY ZenonT(60), <1>4, <1>6, <2>2, <2>3 DEF Blocked
      <3> QED
        BY ZenonT(60), <2>1, <2>2, <3>1
    <2>4. CASE v = t
      <3>1. PICK c \in Bits : key[u].bits = {c}
        BY ZenonT(60), <2>1 DEF FutexInv, KeyInv, KeyOk, Blocked
      <3>b. /\ \A i \in 1..Len(bucket) : bucket[i].task \in Threads /\ bucket[i].key = key[bucket[i].task]
            /\ \A w \in Threads : Blocked(w) => \E i \in 1..Len(bucket) : bucket[i].task = w
        BY ZenonT(60), BucketFacts
      <3>2. PICK i \in 1..Len(bucket) : bucket[i].task = u
        BY ZenonT(60), <2>1, <3>b
      <3>3. ~Removed(k, Len(bucket), i)
        BY ZenonT(60), <1>6, <3>2
      <3>4. Cardinality({j \in 1..(i - 1) : Selected(k, bucket[j])}) < Len(bucket)
        <4>1. Len(bucket) \in Nat /\ i \in Nat /\ i - 1 \in Nat /\ i - 1 < Len(bucket)
          BY SMTT(60) DEF FutexInv, FutexTypeOK
        <4>2. IsFiniteSet(1..(i - 1)) /\ Cardinality(1..(i - 1)) = i - 1
          BY SMTT(60), <4>1, FS_Interval
        <4> DEFINE J == {j \in 1..(i - 1) : Selected(k, bucket[j])}
        <4>3. J \subseteq 1..(i - 1)
          BY ZenonT(60)
        <4> HIDE DEF J
        <4>4. Cardinality(J) \in Nat /\ Cardinality(J) <= Cardinality(1..(i - 1))
          BY ZenonT(60), <4>2, <4>3, FS_Subset, FS_CardinalityType
        <4>5. Cardinality(J) < Len(bucket)
          BY <4>1, <4>2, <4>4
        <4> QED
          BY ZenonT(60), <4>5 DEF J
      <3>5. ~Selected(k, bucket[i])
        BY ZenonT(60), <3>3, <3>4 DEF Removed
      <3>6. c # b
        BY ZenonT(60), <1>2, <2>1, <3>1, <3>2, <3>5, <3>b DEF Selected
      <3>7. key[t].bits # {b} /\ key[u].bits \subseteq key[t].bits \ {b}
        BY SMTT(60), <2>2, <2>4, <3>1, <3>6
      <3>8. fpc'[t] = "wake_bits" /\ key'[t].bits = key[t].bits \ {b}
        BY Zenon, <1>3, <1>4, <1>6, <3>7
      <3> QED
        BY ZenonT(60), <2>1, <3>7, <3>8
    <2> QED
      BY Zenon, <2>3, <2>4
  <1> QED
    BY ZenonT(60), <1>6, <1>7, <1>8, <1>9 DEF FutexInv

\* Every step on a futex keeps the invariant of the futexes.
LEMMA FutexStepInv ==
    ASSUME FutexInv, NEW t \in Threads, FutexStep(t)
    PROVE  FutexInv'
  <1>1. CASE futex_lock(t)
    BY ZenonT(60), <1>1, FutexLockInv
  <1>2. CASE futex_unlock(t)
    BY ZenonT(60), <1>2, FutexUnlockInv
  <1>3. CASE event_wait(t)
    BY Zenon, <1>3, EventWaitInv
  <1>4. CASE event_set(t)
    BY Zenon, <1>4, EventSetInv
  <1>5. CASE futex_timeout(t)
    BY Zenon, <1>5, FutexTimeoutInv
  <1>6. CASE futex_retry(t)
    BY Zenon, <1>6, FutexRetryInv
  <1>7. CASE futex_wait(t)
    BY Zenon, <1>7, FutexWaitInv
  <1>8. CASE futex_wait_end(t)
    BY Zenon, <1>8, FutexWaitEndInv
  <1>9. CASE futex_wake(t)
    BY Zenon, <1>9, FutexWakeInv
  <1>10. CASE futex_wake_bitset(t)
    BY Zenon, <1>10, FutexWakeBitsetInv
  <1> QED
    BY ZenonT(60), <1>1, <1>2, <1>3, <1>4, <1>5, <1>6, <1>7, <1>8, <1>9, <1>10
       DEF FutexStep, FutexUser, FutexCall

-----------------------------------------------------------------------------
(* The table of threads.                                                   *)

\* A thread that is not born has no box, and nobody is about to insert one.
LifeInv ==
    /\ life \in [Threads -> {"unborn", "running", "exited"}]
    /\ table \subseteq Threads
    /\ box \in [Threads -> {"none", "live", "taken", "freed"}]
    /\ call \in {"none", "create", "join"} \X Threads
    /\ panicked \in BOOLEAN
    /\ TableIsLive
    /\ \A u \in Threads : life[u] = "unborn" => box[u] = "none" /\ call # <<"create", u>>

\* create, join, exit and the look-ups keep the table and the boxes right.
LEMMA LifeStepInv ==
    ASSUME LifeInv, NEW t \in Threads, LifeStep(t)
    PROVE  LifeInv'
  <1> USE MainAssumption DEF LifeInv
  <1>m. Main \in Threads /\ NoCall \in {"none", "create", "join"} \X Threads
    BY ZenonT(60) DEF NoCall
  <1>1. CASE create(t)
    <2>1. /\ life[t] = "unborn" /\ life' = [life EXCEPT ![t] = "running"]
          /\ call' = <<"create", t>> /\ table' = table /\ box' = box /\ panicked' = panicked
      BY ZenonT(60), <1>1 DEF create
    <2>2. \A u \in Threads : life'[u] = IF u = t THEN "running" ELSE life[u]
      BY ZenonT(60), <2>1
    <2>3. life' \in [Threads -> {"unborn", "running", "exited"}]
          /\ call' \in {"none", "create", "join"} \X Threads
      BY ZenonT(60), <2>1
    <2>4. TableIsLive'
      BY ZenonT(60), <2>1, <2>2 DEF TableIsLive
    <2>5. \A u \in Threads : life'[u] = "unborn" => box'[u] = "none" /\ call' # <<"create", u>>
      BY ZenonT(60), <2>1, <2>2
    <2> QED
      BY ZenonT(60), <2>1, <2>3, <2>4, <2>5
  <1>2. CASE create_insert(t)
    <2>1. /\ call = <<"create", t>> /\ box' = [box EXCEPT ![t] = "live"] /\ table' = table \cup {t}
          /\ call' = NoCall /\ life' = life /\ panicked' = panicked
      BY ZenonT(60), <1>2 DEF create_insert
    <2>2. \A u \in Threads : box'[u] = IF u = t THEN "live" ELSE box[u]
      BY ZenonT(60), <2>1
    <2>3. box' \in [Threads -> {"none", "live", "taken", "freed"}] /\ table' \subseteq Threads
      BY ZenonT(60), <2>1
    <2>4. TableIsLive'
      BY ZenonT(60), <2>1, <2>2 DEF TableIsLive
    <2>5. \A u \in Threads : life'[u] = "unborn" => box'[u] = "none" /\ call' # <<"create", u>>
      BY ZenonT(60), <2>1, <2>2 DEF NoCall
    <2> QED
      BY ZenonT(60), <1>m, <2>1, <2>3, <2>4, <2>5
  <1>3. CASE UNCHANGED <<life, table, box, call>> /\ panicked' \in BOOLEAN
    BY ZenonT(60), <1>3 DEF TableIsLive
  <1>4. CASE life[t] # "unborn" /\ life' = [life EXCEPT ![t] = "exited"] /\ UNCHANGED <<table, box, call, panicked>>
    <2>1. \A u \in Threads : life'[u] = IF u = t THEN "exited" ELSE life[u]
      BY ZenonT(60), <1>4
    <2>2. life' \in [Threads -> {"unborn", "running", "exited"}]
      BY ZenonT(60), <1>4
    <2>3. TableIsLive'
      BY ZenonT(60), <1>4, <2>1 DEF TableIsLive
    <2> QED
      BY ZenonT(60), <1>4, <2>1, <2>2, <2>3
  <1>5. CASE join(t)
    <2>1. CASE UNCHANGED <<box, call>>
      BY ZenonT(60), <1>5, <2>1, <1>3 DEF join
    <2>2. CASE t # Main /\ box' = [box EXCEPT ![t] = "taken"] /\ call' = <<"join", t>>
      <3>1. box[t] = "live" /\ life' = life /\ table' = table /\ panicked' = panicked
        BY ZenonT(60), <1>5 DEF join
      <3>2. \A u \in Threads : box'[u] = IF u = t THEN "taken" ELSE box[u]
        BY ZenonT(60), <2>2
      <3>3. box' \in [Threads -> {"none", "live", "taken", "freed"}]
            /\ call' \in {"none", "create", "join"} \X Threads
        BY ZenonT(60), <2>2
      <3>4. TableIsLive'
        BY <3>1, <3>2 DEF TableIsLive
      <3>5. \A u \in Threads : life'[u] = "unborn" => box'[u] = "none" /\ call' # <<"create", u>>
        BY ZenonT(60), <2>2, <3>1, <3>2
      <3> QED
        BY ZenonT(60), <3>1, <3>3, <3>4, <3>5
    <2> QED
      BY ZenonT(60), <1>5, <2>1, <2>2 DEF join
  <1>6. CASE join_return(t)
    <2>1. /\ call = <<"join", t>> /\ life[t] = "exited" /\ table' = table \ {t}
          /\ box' = [box EXCEPT ![t] = "freed"] /\ call' = NoCall /\ life' = life /\ panicked' = panicked
      BY Zenon, <1>6 DEF join_return
    <2>2. \A u \in Threads : box'[u] = IF u = t THEN "freed" ELSE box[u]
      BY Zenon, <2>1
    <2>3. box' \in [Threads -> {"none", "live", "taken", "freed"}] /\ table' \subseteq Threads
      BY Zenon, <2>1
    <2>4. TableIsLive'
      BY ZenonT(60), <2>1, <2>2 DEF TableIsLive
    <2>5. \A u \in Threads : life'[u] = "unborn" => box'[u] = "none" /\ call' # <<"create", u>>
      BY ZenonT(60), <2>1, <2>2 DEF NoCall
    <2> QED
      BY Zenon, <1>m, <2>1, <2>3, <2>4, <2>5
  <1>7. CASE sys_pthread_self(t)
    BY ZenonT(60), <1>7, <1>3 DEF sys_pthread_self, current_fails, lifeVars
  <1>8. CASE exit_current(t)
    BY ZenonT(60), <1>8, <1>3, <1>4 DEF exit_current, current_fails, Free
  <1>9. CASE start_routine_returns(t)
    BY ZenonT(60), <1>9, <1>4 DEF start_routine_returns, Free
  <1> QED
    BY ZenonT(60), <1>1, <1>2, <1>5, <1>6, <1>7, <1>8, <1>9 DEF LifeStep

-----------------------------------------------------------------------------
(* The threads together.                                                   *)

\* The inductive invariant: one per object the threads share, and none of them
\* needs another.
ThreadInv == MutexInv /\ CondInv /\ FutexInv /\ LifeInv

\* A program starts with Main alone.
LEMMA ThreadInit == Init => ThreadInv
  <1> SUFFICES ASSUME Init PROVE ThreadInv
    BY Zenon
  <1>1. MutexInv
    BY ZenonT(60), MutexInitInv DEF Init
  <1>2. CondInv
    BY EmptyFacts DEF Init, CondInit, CondInv, CpcValues, NoStaleWaiter
  <1>3. FutexInv
    <2>1. /\ word = [w \in Words |-> 0] /\ bucket = <<>>
          /\ fpc = [t \in Threads |-> "none"] /\ key = [t \in Threads |-> NoKey]
      BY ZenonT(60) DEF Init, FutexInit
    <2>2. \A t \in Threads : fpc[t] = "none" /\ key[t] = NoKey
      BY ZenonT(60), <2>1
    <2>3. word["lock"] = 0 /\ word["event"] = 0
      BY ZenonT(60), <2>1 DEF Words
    <2>4. FutexTypeOK
      <3>1. word \in [Words -> 0..2]
        BY SMTT(60), <2>1
      <3>2. bucket \in Seq([task : Threads, key : FutexKey])
        BY <2>1
      <3>3. fpc \in [Threads -> FpcValues] /\ key \in [Threads -> FutexKey]
        BY ZenonT(60), <2>1, Keys DEF FpcValues
      <3> QED
        BY ZenonT(60), <3>1, <3>2, <3>3 DEF FutexTypeOK
    <2>5. BucketMatches
      BY <2>1, <2>2 DEF BucketMatches, Blocked
    <2>6. KeyInv
      BY ZenonT(60), <2>2 DEF KeyInv, KeyOk
    <2>7. OwnInv /\ NoLostFutexWake /\ NoLostBitsetWake
      BY Zenon, <2>2, <2>3 DEF OwnInv, NoLostFutexWake, NoLostBitsetWake, Blocked
    <2> QED
      BY ZenonT(60), <2>4, <2>5, <2>6, <2>7 DEF FutexInv
  <1>4. LifeInv
    BY ZenonT(60), MainAssumption DEF Init, LifeInv, TableIsLive, NoCall
  <1> QED
    BY ZenonT(60), <1>1, <1>2, <1>3, <1>4 DEF ThreadInv

\* Every step of a thread preserves the invariant.
LEMMA ThreadStep == ThreadInv /\ [Next]_vars => ThreadInv'
  <1> SUFFICES ASSUME ThreadInv, [Next]_vars PROVE ThreadInv'
    BY Zenon
  <1>0. MutexInv /\ CondInv /\ FutexInv /\ LifeInv
    BY Zenon DEF ThreadInv
  <1>1. MutexInv'
    BY Zenon, <1>0, MutexStepOfNext, MutexStepInv
  <1>c. ASSUME UNCHANGED condVars PROVE CondInv'
    BY Zenon, <1>0, <1>c DEF CondInv, condVars, NoStaleWaiter
  <1>f. ASSUME UNCHANGED futexVars PROVE FutexInv'
    BY SMTT(60), <1>0, <1>f DEF FutexInv, futexVars, FutexTypeOK, BucketMatches, KeyInv, OwnInv,
                      NoLostFutexWake, NoLostBitsetWake, Blocked
  <1>l. ASSUME UNCHANGED lifeVars PROVE LifeInv'
    BY ZenonT(60), <1>0, <1>l DEF LifeInv, lifeVars, TableIsLive
  <1>2. ASSUME NEW t \in Threads, LifeStep(t) PROVE ThreadInv'
    <2>1. UNCHANGED condVars /\ UNCHANGED futexVars
      BY ZenonT(60), <1>2 DEF LifeStep
    <2> QED
      BY ZenonT(60), <1>0, <1>1, <1>2, <2>1, <1>c, <1>f, LifeStepInv DEF ThreadInv
  <1>3. ASSUME NEW t \in Threads, CondUse(t) PROVE ThreadInv'
    <2>1. CondStep(t) /\ UNCHANGED futexVars /\ UNCHANGED lifeVars
      BY ZenonT(60), <1>3 DEF CondUse
    <2> QED
      BY ZenonT(60), <1>0, <1>1, <2>1, <1>f, <1>l, CondStepInv DEF ThreadInv
  <1>4. ASSUME NEW t \in Threads, FutexUse(t) PROVE ThreadInv'
    <2>1. FutexStep(t) /\ UNCHANGED condVars /\ UNCHANGED lifeVars
      BY ZenonT(60), <1>4 DEF FutexUse
    <2> QED
      BY ZenonT(60), <1>0, <1>1, <2>1, <1>c, <1>l, FutexStepInv DEF ThreadInv
  <1>5. CASE UNCHANGED vars
    <2>1. UNCHANGED condVars /\ UNCHANGED futexVars /\ UNCHANGED lifeVars
      BY ZenonT(60), <1>5 DEF vars
    <2> QED
      BY ZenonT(60), <1>1, <2>1, <1>c, <1>f, <1>l DEF ThreadInv
  <1> QED
    BY Zenon, <1>2, <1>3, <1>4, <1>5 DEF Next

\* The invariant holds in every state of every execution of the program.
THEOREM ThreadInvThm == Spec => []ThreadInv
  BY ThreadInit, ThreadStep, PTL DEF Spec

\* The mutex inside the program behaves as its own specification says, whatever
\* pthread_cond_wait, the futexes and the life of the threads do around it.
THEOREM MutexImplementedThm == Spec => MutexImplemented
  <1>1. Init => MutexInit
    BY Zenon DEF Init
  <1> QED
    BY <1>1, MutexStepOfNext, PTL DEF Spec, MutexImplemented, MutexSpec

\* At most one thread is inside the mutex, and owner_id names it.
THEOREM MutualExclusionThm == Spec => []MutualExclusion
  <1>1. ThreadInv => MutualExclusion
    BY ZenonT(60) DEF ThreadInv, MutexInv
  <1> QED
    BY <1>1, ThreadInvThm, PTL

\* force_unlock, which wakes a single thread after it has cleared owner_id, never
\* leaves a free mutex to threads that are all asleep.
THEOREM NoLostWakeupThm == Spec => []NoLostWakeup
  <1>1. ThreadInv => NoLostWakeup
    BY ZenonT(60) DEF ThreadInv, MutexInv
  <1> QED
    BY <1>1, ThreadInvThm, PTL

\* The three kinds of wait queue hold those that sleep there and no others, and a
\* wake-up on a futex is never lost, though other words share its bucket.
THEOREM QueuesAgreeThm == Spec => []QueuesAgree
  <1>1. ThreadInv => QueuesAgree
    <2> SUFFICES ASSUME ThreadInv PROVE QueuesAgree
      BY ZenonT(60)
    <2>1. MutexTypeOK /\ QueueIsBlocked
      BY ZenonT(60) DEF ThreadInv, MutexInv
    <2>2. A \in 0..1 /\ cq \in Seq(Threads) /\ cpc \in [Threads -> CpcValues] /\ NoStaleWaiter
      BY ZenonT(60) DEF ThreadInv, CondInv
    <2>3. FutexTypeOK /\ BucketMatches /\ NoLostFutexWake /\ NoLostBitsetWake
      BY ZenonT(60) DEF ThreadInv, FutexInv
    <2>4. /\ life \in [Threads -> {"unborn", "running", "exited"}]
          /\ table \subseteq Threads
          /\ box \in [Threads -> {"none", "live", "taken", "freed"}]
          /\ call \in {"none", "create", "join"} \X Threads
          /\ panicked \in BOOLEAN
      BY ZenonT(60) DEF ThreadInv, LifeInv
    <2>5. TypeOK
      BY ZenonT(60), <2>1, <2>2, <2>3, <2>4 DEF TypeOK, CondTypeOK
    <2> QED
      BY ZenonT(60), <2>1, <2>2, <2>3, <2>5 DEF QueuesAgree
  <1> QED
    BY <1>1, ThreadInvThm, PTL

\* The box a running or listed thread is found through has not been dropped.
THEOREM TableIsLiveThm == Spec => []TableIsLive
  <1>1. ThreadInv => TableIsLive
    BY Zenon DEF ThreadInv, LifeInv
  <1> QED
    BY <1>1, ThreadInvThm, PTL
=============================================================================
