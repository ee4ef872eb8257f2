------------------------------- MODULE Condvar -------------------------------
(***************************************************************************)
(* The condition variable of ruxos_posix_api, over the mutex of axsync,    *)
(* used the way apps/c/pthread/basic uses it: a thread sets A and signals  *)
(* with the mutex held, others wait while A is 0.                          *)
(***************************************************************************)
EXTENDS Mutex, VecDeque

VARIABLES
    A,          \* the flag of the program, guarded by the mutex
    cq,         \* the queue of Condvar.wq
    cpc         \* where a thread is in a call on the condition variable

condVars == <<A, cq, cpc>>

CpcValues == {"none", "unlock", "timed_unlock", "blocked", "timed_blocked",
              "expired", "woken", "relock", "notify", "notify_all"}

Cgoto(t, p) == cpc' = [cpc EXCEPT ![t] = p]

Without(q, t) == retain(q, {i \in 1..Len(q) : q[i] # t})

\* The program's next step is not inside a call.
AtUser(t) == cpc[t] = "none" /\ mpc[t] \in {"out", "held"}

-----------------------------------------------------------------------------
mut_cond_wait(t) ==
    /\ AtUser(t)
    /\ t \in Waiters
    /\ A = 0
    /\ mpc[t] = "held"
    /\ owner' = None
    /\ Mgoto(t, "out")
    /\ \E p \in {"unlock", "timed_unlock"} : Cgoto(t, p)
    /\ UNCHANGED <<A, cq, mq>>

\* wait and timedwait: first the mutex is unlocked ...
cond_wait(t) ==
    /\ AtUser(t)
    /\ t \in Waiters
    /\ A = 0
    /\ force_unlock(t)
    /\ \E p \in {"unlock", "timed_unlock"} : Cgoto(t, p)
    /\ UNCHANGED <<A, cq>>

\* ... then, in a second critical section, the thread is queued.
cond_block(t) ==
    /\ mpc[t] = "out"
    /\ \/ cpc[t] = "unlock" /\ Cgoto(t, "blocked")
       \/ cpc[t] = "timed_unlock" /\ Cgoto(t, "timed_blocked")
    /\ cq' = Append(cq, t)
    /\ UNCHANGED <<A, mutexVars>>

\* The alarm of timedwait wakes the thread and leaves it queued.
cond_timeout(t) ==
    /\ cpc[t] = "timed_blocked"
    /\ Cgoto(t, "expired")
    /\ UNCHANGED <<A, cq, mutexVars>>

mut_cond_cancel(t) ==
    /\ cpc[t] \in {"expired", "woken"}
    /\ lock(t)
    /\ Cgoto(t, "relock")
    /\ UNCHANGED <<A, cq>>

\* cancel_events; then the mutex is locked again.
cond_cancel(t) ==
    /\ cpc[t] \in {"expired", "woken"}
    /\ cq' = Without(cq, t)
    /\ lock(t)
    /\ Cgoto(t, "relock")
    /\ UNCHANGED A

cond_return(t) ==
    /\ cpc[t] = "relock" /\ mpc[t] = "held"
    /\ Cgoto(t, "none")
    /\ UNCHANGED <<A, cq, mutexVars>>

\* A = 1; the signal or the broadcast follows.
set_A(t) ==
    /\ AtUser(t) /\ mpc[t] = "held"
    /\ t \notin Waiters
    /\ A' = 1
    /\ \E p \in {"notify", "notify_all"} : Cgoto(t, p)
    /\ UNCHANGED <<cq, mutexVars>>

mut_Woken(u) == IF cpc[u] = "expired" THEN "expired" ELSE "ready"

\* unblock_task leaves alone a thread that is not blocked.
Woken(u) == IF cpc[u] = "expired" THEN "expired" ELSE "woken"

cond_signal(t) ==
    /\ cpc[t] = "notify"
    /\ \/ cq = <<>> /\ Cgoto(t, "none") /\ UNCHANGED cq
       \/ /\ cq # <<>>
          /\ cpc' = [cpc EXCEPT ![t] = "none", ![Head(cq)] = Woken(Head(cq))]
          /\ cq' = Tail(cq)
    /\ UNCHANGED <<A, mutexVars>>

\* One round of notify_all; RUN_QUEUE is released between two rounds.
cond_broadcast(t) ==
    /\ cpc[t] = "notify_all"
    /\ \/ cq = <<>> /\ Cgoto(t, "none") /\ UNCHANGED cq
       \/ /\ cq # <<>>
          /\ cpc' = [cpc EXCEPT ![Head(cq)] = Woken(Head(cq))]
          /\ cq' = Tail(cq)
    /\ UNCHANGED <<A, mutexVars>>

-----------------------------------------------------------------------------
CondInit == A = 0 /\ cq = <<>> /\ cpc = [t \in Threads |-> "none"]

\* The calls on the mutex the program makes.
UserMutex(t) ==
    /\ AtUser(t)
    /\ lock(t) \/ try_lock(t) \/ force_unlock(t)
    /\ UNCHANGED condVars

CondCall(t) ==
    \/ InCall(t) /\ UNCHANGED condVars
    \/ cond_block(t)
    \/ cond_cancel(t)
    \/ cond_return(t)
    \/ cond_signal(t)
    \/ cond_broadcast(t)

CondStep(t) ==
    \/ UserMutex(t)
    \/ cond_wait(t)
    \/ set_A(t)
    \/ cond_timeout(t)
    \/ CondCall(t)

-----------------------------------------------------------------------------
(* Properties.                                                             *)

\* The variables of the condition variable have their types.
CondTypeOK ==
    /\ MutexTypeOK
    /\ A \in 0..1
    /\ cq \in Seq(Threads)
    /\ cpc \in [Threads -> CpcValues]

\* A thread is in the queue of the condition variable, once, only while it is
\* blocked there or has not yet cancelled an expired wait: a thread that has left
\* pthread_cond_wait or pthread_cond_timedwait can not use up a later signal.
NoStaleWaiter ==
    /\ \A i \in 1..Len(cq) : cpc[cq[i]] \in {"blocked", "timed_blocked", "expired"}
    /\ Distinct(cq)
    /\ \A t \in Threads : cpc[t] \in {"blocked", "timed_blocked"} => InQueue(cq, t)

\* What test_condvar relies on: `first' sets A and signals under the mutex, so
\* that `second', which found A to be 0 under the mutex, is woken.  While A is 1,
\* a thread blocked in pthread_cond_wait has a signal coming.
SignalNotLost ==
    A = 1 /\ (\E t \in Threads : cpc[t] = "blocked") =>
        \E t \in Threads : cpc[t] \in {"notify", "notify_all"}
=============================================================================
