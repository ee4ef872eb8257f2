-------------------------------- MODULE Futex --------------------------------
(***************************************************************************)
(* The futex of modules/ruxfutex.  Two words whose addresses hash to the   *)
(* same bucket are used at once: "lock", a lock in the manner of a libc    *)
(* (0 free, 1 taken, 2 taken and waited for), and "event", which threads   *)
(* await with a bitset of their own until it is set.  The threads are      *)
(* those that use the mutex.                                               *)
(***************************************************************************)
EXTENDS FiniteSets, Mutex, VecDeque

CONSTANT Bits

ASSUME BitsAssumption == Bits # {}

VARIABLES
    word,       \* the two futex words
    bucket,     \* the wait queue: tasks with their FutexKey
    fpc,        \* where a thread is
    key         \* the FutexKey of a thread's call

futexVars == <<word, bucket, fpc, key>>

Words == {"lock", "event"}

FutexKey == [addr : Words, bits : SUBSET Bits]

NoKey == [addr |-> "lock", bits |-> {}]

\* FUTEX_BITSET_MATCH_ANY
MatchAny == Bits

FpcValues == {"none", "locking", "wait", "blocked", "timed_blocked", "expired",
              "own", "wake", "wake_bits", "retry"}

Fgoto(t, p) == fpc' = [fpc EXCEPT ![t] = p]

-----------------------------------------------------------------------------
(* The program (external): what it does with the words.                    *)

\* A free lock is taken; else the word is set to 2 and awaited.
futex_lock(t) ==
    /\ fpc[t] \in {"none", "locking"}
    /\ \/ /\ word["lock"] = 0
          /\ word' = [word EXCEPT !["lock"] = IF fpc[t] = "none" THEN 1 ELSE 2]
          /\ Fgoto(t, "own")
          /\ key' = [key EXCEPT ![t] = NoKey]
       \/ /\ word["lock"] # 0
          /\ word' = [word EXCEPT !["lock"] = 2]
          /\ Fgoto(t, "wait")
          /\ key' = [key EXCEPT ![t] = [addr |-> "lock", bits |-> MatchAny]]
    /\ UNCHANGED bucket

futex_unlock(t) ==
    /\ fpc[t] = "own"
    /\ word' = [word EXCEPT !["lock"] = 0]
    /\ \/ /\ word["lock"] = 2
          /\ Fgoto(t, "wake")
          /\ key' = [key EXCEPT ![t] = [addr |-> "lock", bits |-> MatchAny]]
       \/ /\ word["lock"] = 1
          /\ Fgoto(t, "none")
          /\ UNCHANGED key
    /\ UNCHANGED bucket

event_wait(t) ==
    /\ fpc[t] = "none"
    /\ t \in Waiters
    /\ word["event"] = 0
    /\ \E b \in Bits : key' = [key EXCEPT ![t] = [addr |-> "event", bits |-> {b}]]
    /\ Fgoto(t, "wait")
    /\ UNCHANGED <<word, bucket>>

\* Sets the event; the waiters are then woken, one bit after the other.
event_set(t) ==
    /\ fpc[t] = "none"
    /\ t \notin Waiters
    /\ word' = [word EXCEPT !["event"] = 1]
    /\ Fgoto(t, "wake_bits")
    /\ key' = [key EXCEPT ![t] = [addr |-> "event", bits |-> Bits]]
    /\ UNCHANGED bucket

\* A wait that ended is tried again, unless the event has happened.
futex_retry(t) ==
    /\ fpc[t] = "retry"
    /\ \/ key[t].addr = "lock" /\ Fgoto(t, "locking") /\ UNCHANGED key
       \/ /\ key[t].addr = "event" /\ word["event"] = 0
          /\ Fgoto(t, "wait")
          /\ UNCHANGED key
       \/ /\ key[t].addr = "event" /\ word["event"] = 1
          /\ Fgoto(t, "none")
          /\ key' = [key EXCEPT ![t] = NoKey]
    /\ UNCHANGED <<word, bucket>>

-----------------------------------------------------------------------------
\* The value a waiter expects to find.
Expected(k) == IF k.addr = "lock" THEN 2 ELSE 0

mut_futex_wait(t) ==
    /\ fpc[t] = "wait"
    /\ \E p \in {"blocked", "timed_blocked"} : Fgoto(t, p)
    /\ bucket' = Append(bucket, [task |-> t, key |-> key[t]])
    /\ UNCHANGED <<word, key>>

\* futex_wait and futex_wait_bitset, with a timeout or without: the value is
\* compared and the task queued in one critical section.
futex_wait(t) ==
    /\ fpc[t] = "wait"
    /\ \/ /\ word[key[t].addr] # Expected(key[t])
          /\ Fgoto(t, "retry")
          /\ UNCHANGED bucket
       \/ /\ word[key[t].addr] = Expected(key[t])
          /\ \E p \in {"blocked", "timed_blocked"} : Fgoto(t, p)
          /\ bucket' = Append(bucket, [task |-> t, key |-> key[t]])
    /\ UNCHANGED <<word, key>>

futex_timeout(t) ==
    /\ fpc[t] = "timed_blocked"
    /\ Fgoto(t, "expired")
    /\ UNCHANGED <<word, bucket, key>>

mut_futex_wait_end(t) ==
    /\ fpc[t] = "expired"
    /\ Fgoto(t, "retry")
    /\ UNCHANGED <<word, bucket, key>>

\* cancel_events; the call returns 0 whether it timed out or not.
futex_wait_end(t) ==
    /\ fpc[t] = "expired"
    /\ bucket' = retain(bucket, {i \in 1..Len(bucket) : bucket[i].task # t})
    /\ Fgoto(t, "retry")
    /\ UNCHANGED <<word, key>>

Blocked(t) == fpc[t] \in {"blocked", "timed_blocked"}

\* The entries a wake of max_count tasks with key k would wake.
Selected(k, e) == /\ Blocked(e.task)
                  /\ e.key.addr = k.addr
                  /\ e.key.bits \cap k.bits # {}

mut_Removed(k, max_count, i) ==
    \/ ~Blocked(bucket[i].task)
    \/ Selected(k, bucket[i]) /\ i <= max_count

\* Whether retain drops the i-th entry: it does so, without counting it, when
\* the task is not blocked, and else for the first max_count selected ones.
Removed(k, max_count, i) ==
    \/ ~Blocked(bucket[i].task)
    \/ /\ Selected(k, bucket[i])
       /\ Cardinality({j \in 1..(i - 1) : Selected(k, bucket[j])}) < max_count

\* notify_task_if: the tasks dropped from the bucket are unblocked.
notify_task_if(t, k, max_count, next) ==
    LET gone == {i \in 1..Len(bucket) : Removed(k, max_count, i)}
    IN  /\ bucket' = retain(bucket, 1..Len(bucket) \ gone)
        /\ fpc' = [u \in Threads |->
                      IF u = t THEN next
                      ELSE IF Blocked(u) /\ \E i \in gone : bucket[i].task = u
                      THEN "retry"
                      ELSE fpc[u]]

\* futex_wake of one waiter, and futex_wake_bitset of all.
futex_wake(t) ==
    /\ fpc[t] = "wake"
    /\ notify_task_if(t, key[t], 1, "none")
    /\ key' = [key EXCEPT ![t] = NoKey]
    /\ UNCHANGED word

futex_wake_bitset(t) ==
    /\ fpc[t] = "wake_bits"
    /\ \E b \in key[t].bits :
          /\ notify_task_if(t, [key[t] EXCEPT !.bits = {b}], Len(bucket),
                            IF key[t].bits = {b} THEN "none" ELSE "wake_bits")
          /\ key' = [key EXCEPT ![t] = IF key[t].bits = {b} THEN NoKey
                                      ELSE [key[t] EXCEPT !.bits = @ \ {b}]]
    /\ UNCHANGED word

-----------------------------------------------------------------------------
FutexInit ==
    /\ word = [w \in Words |-> 0]
    /\ bucket = <<>>
    /\ fpc = [t \in Threads |-> "none"]
    /\ key = [t \in Threads |-> NoKey]

\* The steps of a thread that has begun something on a futex.
FutexCall(t) ==
    \/ fpc[t] = "locking" /\ futex_lock(t)
    \/ futex_retry(t)
    \/ futex_wait(t)
    \/ futex_wait_end(t)
    \/ futex_wake(t)
    \/ futex_wake_bitset(t)

\* What the program begins.
FutexUser(t) ==
    \/ fpc[t] = "none" /\ futex_lock(t)
    \/ futex_unlock(t)
    \/ event_wait(t)
    \/ event_set(t)

FutexStep(t) == FutexUser(t) \/ futex_timeout(t) \/ FutexCall(t)

-----------------------------------------------------------------------------
(* Properties.                                                             *)

\* The variables of the futexes have their types.
FutexTypeOK ==
    /\ word \in [Words -> 0..2]
    /\ bucket \in Seq([task : Threads, key : FutexKey])
    /\ fpc \in [Threads -> FpcValues]
    /\ key \in [Threads -> FutexKey]

\* The bucket has one entry for each blocked thread, under its key, and besides
\* these only entries of expired waits.
BucketMatches ==
    /\ \A i \in 1..Len(bucket) :
          LET e == bucket[i]
          IN  /\ Blocked(e.task) \/ fpc[e.task] = "expired"
              /\ e.key = key[e.task]
    /\ \A i, j \in 1..Len(bucket) : bucket[i].task = bucket[j].task => i = j
    /\ \A t \in Threads : Blocked(t) => \E i \in 1..Len(bucket) : bucket[i].task = t

\* A lock built on futex_wait and futex_wake loses no wake-up although other
\* words share its bucket and some of the waits expire: while threads sleep on
\* the lock, its owner will see that it must wake one, or a waker is on its way,
\* or an awake thread is about to take it.
NoLostFutexWake ==
    (\E t \in Threads : Blocked(t) /\ key[t].addr = "lock") =>
        \/ word["lock"] = 2 /\ \E t \in Threads : fpc[t] = "own"
        \/ \E t \in Threads : fpc[t] = "wake"
        \/ \E t \in Threads : /\ key[t].addr = "lock"
                               /\ fpc[t] \in {"locking", "wait", "retry", "expired"}

\* futex_wake_bitset reaches everyone it should: a thread that still sleeps on
\* the event after it was set has its bit in a wake-up that is yet to come.
NoLostBitsetWake ==
    word["event"] = 1 =>
        \A t \in Threads : Blocked(t) /\ key[t].addr = "event" =>
            \E u \in Threads : fpc[u] = "wake_bits" /\ key[t].bits \subseteq key[u].bits
=============================================================================
