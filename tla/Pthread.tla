------------------------------- MODULE Pthread -------------------------------
(***************************************************************************)
(* The threads of ruxos_posix_api (without the musl feature): their table  *)
(* TID_TO_PTHREAD and the Pthread boxes it points to, together with the    *)
(* mutex, the condition variable and the futexes the threads use.          *)
(***************************************************************************)
EXTENDS Condvar, Futex

CONSTANT Main

ASSUME MainAssumption == Main \in Threads \ Waiters

VARIABLES
    life,       \* "unborn", "running" or "exited", as a task
    table,      \* the threads that TID_TO_PTHREAD knows
    box,        \* the Pthread box: "none", "live", "taken" by join, "freed"
    call,       \* the call of Main on a thread: <<name, thread>>
    panicked

lifeVars == <<life, table, box, call, panicked>>

vars == <<mutexVars, condVars, futexVars, lifeVars>>

NoCall == <<"none", Main>>

\* The thread runs, and not inside a call.
Free(t) == /\ ~panicked
           /\ life[t] = "running"
           /\ cpc[t] = "none" /\ mpc[t] = "out" /\ fpc[t] = "none"
           /\ t = Main => call = NoCall

-----------------------------------------------------------------------------
\* Pthread::create: the task is spawned, and may run, ...
create(u) ==
    /\ Free(Main)
    /\ life[u] = "unborn"
    /\ life' = [life EXCEPT ![u] = "running"]
    /\ call' = <<"create", u>>
    /\ UNCHANGED <<table, box, panicked>>

\* ... before its box is put into the table.
create_insert(u) ==
    /\ call = <<"create", u>>
    /\ box' = [box EXCEPT ![u] = "live"]
    /\ table' = table \cup {u}
    /\ call' = NoCall
    /\ UNCHANGED <<life, panicked>>

\* expect() on a thread that is not in the table.
current_fails(t) ==
    /\ t \notin table
    /\ panicked' = TRUE
    /\ UNCHANGED <<life, table, box, call>>

sys_pthread_self(t) ==
    /\ Free(t)
    /\ \/ current_fails(t)
       \/ t \in table /\ UNCHANGED lifeVars

\* exit_current stores the result through the table; the task's exit ends the
\* wait of a joiner.
exit_current(t) ==
    /\ Free(t) /\ t # Main
    /\ \/ current_fails(t)
       \/ /\ t \in table
          /\ life' = [life EXCEPT ![t] = "exited"]
          /\ UNCHANGED <<table, box, call, panicked>>

\* The start routine returns: the result is stored without the table.
start_routine_returns(t) ==
    /\ Free(t) /\ t # Main
    /\ life' = [life EXCEPT ![t] = "exited"]
    /\ UNCHANGED <<table, box, call, panicked>>

\* Joining oneself is EDEADLK; else the box now belongs to the call.
join(u) ==
    /\ Free(Main)
    /\ box[u] = "live"
    /\ \/ u = Main /\ UNCHANGED <<box, call>>
       \/ /\ u # Main
          /\ box' = [box EXCEPT ![u] = "taken"]
          /\ call' = <<"join", u>>
    /\ UNCHANGED <<life, table, panicked>>

mut_join_return(u) ==
    /\ call = <<"join", u>>
    /\ table' = table \ {u}
    /\ box' = [box EXCEPT ![u] = "freed"]
    /\ call' = NoCall
    /\ UNCHANGED <<life, panicked>>

join_return(u) ==
    /\ call = <<"join", u>>
    /\ life[u] = "exited"
    /\ table' = table \ {u}
    /\ box' = [box EXCEPT ![u] = "freed"]
    /\ call' = NoCall
    /\ UNCHANGED <<life, panicked>>

-----------------------------------------------------------------------------
Init ==
    /\ MutexInit
    /\ CondInit
    /\ FutexInit
    /\ life = [t \in Threads |-> IF t = Main THEN "running" ELSE "unborn"]
    /\ table = {Main}
    /\ box = [t \in Threads |-> IF t = Main THEN "live" ELSE "none"]
    /\ call = NoCall
    /\ panicked = FALSE

LifeStep(t) ==
    /\ \/ create(t)
       \/ create_insert(t)
       \/ sys_pthread_self(t)
       \/ exit_current(t)
       \/ start_routine_returns(t)
       \/ join(t)
       \/ join_return(t)
    /\ UNCHANGED <<mutexVars, condVars, futexVars>>

CondUse(t) ==
    /\ life[t] = "running" /\ fpc[t] = "none" /\ (t = Main => call = NoCall)
    /\ CondStep(t)
    /\ UNCHANGED <<futexVars, lifeVars>>

FutexUse(t) ==
    /\ life[t] = "running" /\ mpc[t] = "out" /\ cpc[t] = "none" 
    /\ t = Main => call = NoCall
    /\ FutexStep(t)
    /\ UNCHANGED <<mutexVars, condVars, lifeVars>>

Next == ~panicked /\ \E t \in Threads : LifeStep(t) \/ CondUse(t) \/ FutexUse(t)

Spec == Init /\ [][Next]_vars

\* A thread the scheduler keeps running goes on with the call it is in, and a
\* compare_exchange_weak that is repeated on a free mutex succeeds in the end.
Fairness ==
    \A t \in Threads :
        /\ WF_vars(~panicked /\ CondUse(t) /\ CondCall(t))
        /\ SF_vars(~panicked /\ CondUse(t) /\ lock_cas(t) /\ owner' = t)

FairSpec == Spec /\ Fairness

-----------------------------------------------------------------------------
(* Properties.                                                             *)

\* The variables of the thread table have their types.
TypeOK ==
    /\ CondTypeOK
    /\ FutexTypeOK
    /\ life \in [Threads -> {"unborn", "running", "exited"}]
    /\ table \subseteq Threads
    /\ box \in [Threads -> {"none", "live", "taken", "freed"}]
    /\ call \in {"none", "create", "join"} \X Threads
    /\ panicked \in BOOLEAN

\* The box that TID_TO_PTHREAD leads a thread to is still allocated: as long as a
\* thread runs or is in the table, join has not dropped its Pthread, so that
\* pthread_self, pthread_exit and a second lookup never follow a stale pointer.
TableIsLive ==
    /\ \A t \in table : box[t] \in {"live", "taken"}
    /\ \A t \in Threads : life[t] = "running" => box[t] # "freed"

\* The queues of the mutex, of the condition variable and of the futexes hold the
\* threads that sleep there and no others, so that a notify, a signal or a wake
\* goes to somebody who still wants it, and no futex waiter whose word has
\* changed sleeps on.
QueuesAgree == TypeOK /\ QueueIsBlocked /\ NoStaleWaiter /\ BucketMatches /\ NoLostFutexWake /\ NoLostBitsetWake

\* However pthread_cond_wait and the program combine lock, try_lock and
\* force_unlock, the mutex goes through the steps of its own specification, so
\* that what holds of Mutex holds of the mutex here.
MutexImplemented == MutexSpec

\* As long as threads are in pthread_mutex_lock, the mutex is taken again and
\* again: a release is never followed by everybody sleeping.
LockProgress ==
    (\E t \in Threads : mpc[t] \in Locking) ~> (owner # None \/ panicked)

\* A thread finds itself in the table at any time, as sys_pthread_self says
\* (``Returns the `pthread` struct of current thread'').
SelfFound == ~panicked
=============================================================================
