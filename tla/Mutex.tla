-------------------------------- MODULE Mutex --------------------------------
(***************************************************************************)
(* The sleeping mutex of modules/axsync, built on a wait queue of ruxtask. *)
(*                                                                         *)
(* A step is one access to owner_id, or what WaitQueue does under          *)
(* RUN_QUEUE.  A thread that is not blocked may take its next step at any  *)
(* time, which covers preemption on one CPU and several CPUs.              *)
(***************************************************************************)
EXTENDS Naturals, Sequences

CONSTANTS
    Threads,   \* the threads of a program
    Waiters,   \* those that wait for what the others announce
    None

ASSUME WaitersAssumption == Waiters \subseteq Threads

ASSUME NoneAssumption == None \notin Threads

VARIABLES
    owner,      \* owner_id; None is 0
    mq,         \* the queue of wq
    mpc         \* where a thread is in a call; "out" and "held" are outside

mutexVars == <<owner, mq, mpc>>

MpcValues == {"out", "try", "wait", "blocked", "cancel", "held", "notify"}

Locking == {"try", "wait", "blocked", "cancel"}

Mgoto(t, p) == mpc' = [mpc EXCEPT ![t] = p]

InMq(t) == \E i \in 1..Len(mq) : mq[i] = t

-----------------------------------------------------------------------------
lock(t) ==
    /\ mpc[t] = "out"
    /\ Mgoto(t, "try")
    /\ UNCHANGED <<owner, mq>>

mut_lock_cas(t) ==
    /\ mpc[t] = "try"
    /\ Mgoto(t, IF owner = None THEN "held" ELSE "wait")
    /\ owner' = t
    /\ UNCHANGED mq

\* compare_exchange_weak may fail although owner_id is 0.
lock_cas(t) ==
    /\ mpc[t] = "try"
    /\ \/ /\ owner = None
          /\ owner' = t
          /\ Mgoto(t, "held")
       \/ /\ Mgoto(t, "wait")
          /\ UNCHANGED owner
    /\ UNCHANGED mq

mut_wait_until(t) ==
    /\ mpc[t] = "wait"
    /\ Mgoto(t, "blocked")
    /\ mq' = Append(mq, t)
    /\ UNCHANGED owner

\* One round of wait_until(!is_locked) under RUN_QUEUE.
wait_until(t) ==
    /\ mpc[t] = "wait"
    /\ \/ /\ owner = None
          /\ Mgoto(t, "cancel")
          /\ UNCHANGED mq
       \/ /\ owner # None
          /\ Mgoto(t, "blocked")
          /\ mq' = Append(mq, t)
    /\ UNCHANGED owner

\* cancel_events, at the end of wait_until.
wait_until_end(t) ==
    /\ mpc[t] = "cancel"
    /\ mq' = IF InMq(t) THEN SelectSeq(mq, LAMBDA u : u # t) ELSE mq
    /\ Mgoto(t, "try")
    /\ UNCHANGED owner

try_lock(t) ==
    /\ mpc[t] = "out"
    /\ owner = None
    /\ owner' = t
    /\ Mgoto(t, "held")
    /\ UNCHANGED mq

force_unlock(t) ==
    /\ mpc[t] = "held"
    /\ owner' = None
    /\ Mgoto(t, "notify")
    /\ UNCHANGED mq

mut_force_unlock_notify(t) ==
    /\ mpc[t] = "notify"
    /\ Mgoto(t, "out")
    /\ mq' = IF mq = <<>> THEN mq ELSE Tail(mq)
    /\ UNCHANGED owner

\* notify_one
force_unlock_notify(t) ==
    /\ mpc[t] = "notify"
    /\ \/ /\ mq = <<>>
          /\ Mgoto(t, "out")
          /\ UNCHANGED mq
       \/ /\ mq # <<>>
          /\ mpc' = [mpc EXCEPT ![t] = "out", ![Head(mq)] = "wait"]
          /\ mq' = Tail(mq)
    /\ UNCHANGED owner

-----------------------------------------------------------------------------
MutexInit ==
    /\ owner = None
    /\ mq = <<>>
    /\ mpc = [t \in Threads |-> "out"]

\* What a thread does inside a call.
InCall(t) ==
    \/ lock_cas(t)
    \/ wait_until(t)
    \/ wait_until_end(t)
    \/ force_unlock_notify(t)

MutexStep(t) == lock(t) \/ try_lock(t) \/ force_unlock(t) \/ InCall(t)

MutexNext == \E t \in Threads : MutexStep(t)

MutexSpec == MutexInit /\ [][MutexNext]_mutexVars

-----------------------------------------------------------------------------
(* Properties.                                                             *)

\* The variables of the mutex have their types.
MutexTypeOK ==
    /\ owner \in Threads \cup {None}
    /\ mq \in Seq(Threads)
    /\ mpc \in [Threads -> MpcValues]

\* owner_id names exactly the thread that may touch the data: no two threads
\* hold the guard, whatever the order of lock, try_lock and force_unlock, and a
\* thread never releases a mutex it does not own (the assertion in force_unlock).
MutualExclusion == \A t \in Threads : mpc[t] = "held" <=> owner = t

\* The wait queue holds exactly the blocked threads, each once, so cancel_events
\* never finds the thread it is called for in the queue.
QueueIsBlocked ==
    /\ \A i \in 1..Len(mq) : mpc[mq[i]] = "blocked"
    /\ \A i, j \in 1..Len(mq) : mq[i] = mq[j] => i = j
    /\ \A t \in Threads : mpc[t] = "blocked" => InMq(t)

\* No wake-up is lost: while the mutex is free and threads wait for it, some
\* thread is about to notify one of them or to take it itself.
NoLostWakeup ==
    owner = None /\ mq # <<>> =>
        \E t \in Threads : mpc[t] \in (Locking \ {"blocked"}) \cup {"notify"}
=============================================================================
