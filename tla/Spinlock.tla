------------------------------ MODULE Spinlock ------------------------------
(***************************************************************************)
(* The spin locks of crates/spinlock, with the guards of kernel_guard that *)
(* they take first: NoPreempt keeps the running thread on its CPU,         *)
(* NoPreemptIrqSave also masks interrupts there and remembers whether they  *)
(* were, and NoOp does nothing, so a SpinRaw is to be taken under one of    *)
(* the others. With the feature "smp" the lock is a flag that a CPU swaps   *)
(* in a loop; without it there is no flag, and the guard is the lock.       *)
(*                                                                         *)
(* A context is a thread, or the interrupt handler on top of its stack. The *)
(* count of preemption guards and the interrupt mask belong to the thread:  *)
(* a switch takes them along. RUN_QUEUE is not one of the locks here: the   *)
(* thread that leaves a CPU takes it and the one that comes gives it back   *)
(* (a new one by force_unlock, which has no other use); switch_to is the    *)
(* whole exchange.                                                         *)
(***************************************************************************)
EXTENDS Integers, Sequences, FiniteSets

CONSTANTS
  SpCpus,          \* the CPUs
  SpThreads,       \* the threads
  SpStart,         \* the thread each CPU starts with
  SpSmp,           \* the feature "smp"
  SpinNoIrq,       \* the locks, by the type they were declared with
  SpinNoPreempt,
  SpinRaw,
  NoLock,
  SpTries          \* bound on the calls of try_lock that fail

SpLocks == SpinNoIrq \cup SpinNoPreempt \cup SpinRaw

ASSUME SpAssumption ==
  /\ SpSmp \in BOOLEAN
  /\ \A c, d \in SpCpus : ~SpSmp => c = d
  /\ SpStart \in [SpCpus -> SpThreads]
  /\ \A c, d \in SpCpus : SpStart[c] = SpStart[d] => c = d
  /\ SpinNoIrq \cap SpinNoPreempt = {}
  /\ SpinRaw \cap (SpinNoIrq \cup SpinNoPreempt) = {}
  /\ NoLock \notin SpLocks
  /\ SpTries \in Nat

VARIABLES
  sp_on,           \* the thread a CPU runs
  preempt,         \* how often preemption was disabled on a thread
  masked,          \* whether interrupts are masked where a thread runs
  in_irq,          \* whether a handler is on top of a thread: "no", "handler", or "leaving"
  flag,            \* the AtomicBool of a lock
  wanted,          \* the lock a context is about to take, after its guard
  try,             \* whether it gives up when it cannot
  saved,           \* the mask the guard of that call found
  guards,          \* the locks a context holds by a guard, the last taken last
  raws,            \* the raw locks it holds
  failed           \* how often try_lock failed on a thread

sp_vars == <<sp_on, preempt, masked, in_irq, flag, wanted, try, saved, guards, raws, failed>>

Contexts == SpThreads \X {"thread", "irq"}
Thread(t) == <<t, "thread">>
Handler(t) == <<t, "irq">>
Guard == [lock : SpinNoIrq \cup SpinNoPreempt, irq_state : BOOLEAN]

\* What a CPU executes.
Running(t) == \E c \in DOMAIN sp_on : sp_on[c] = t
Executing(x) ==
  /\ Running(x[1])
  /\ in_irq[x[1]] = IF x[2] = "irq" THEN "handler" ELSE "no"

\* The locks a context holds.
SpHeld(x) == {guards[x][i].lock : i \in 1 .. Len(guards[x])} \cup raws[x]

SpInit ==
  /\ sp_on = SpStart
  /\ preempt = [t \in SpThreads |-> 0]
  /\ masked = [t \in SpThreads |-> FALSE]
  /\ in_irq = [t \in SpThreads |-> "no"]
  /\ flag = [l \in SpLocks |-> FALSE]
  /\ wanted = [x \in Contexts |-> NoLock]
  /\ try = [x \in Contexts |-> FALSE]
  /\ saved = [x \in Contexts |-> FALSE]
  /\ guards = [x \in Contexts |-> <<>>]
  /\ raws = [x \in Contexts |-> {}]
  /\ failed = [t \in SpThreads |-> 0]

\* lock() and try_lock() start with G::acquire(). A context does not take a lock it
\* holds; a handler takes locks that are safe in one, and a raw lock is taken with
\* preemption and interrupts off, as its documentation asks.
\* Mutant: the guard of every lock is NoPreempt.
mut_acquire(x, l, tries) ==
  /\ Executing(x) /\ wanted[x] = NoLock /\ l \notin SpHeld(x)
  /\ x[2] = "irq" => l \notin SpinNoPreempt
  /\ l \in SpinRaw => preempt[x[1]] > 0 /\ masked[x[1]]
  /\ wanted' = [wanted EXCEPT ![x] = l]
  /\ try' = [try EXCEPT ![x] = tries]
  /\ saved' = [saved EXCEPT ![x] = masked[x[1]]]
  /\ preempt' = IF l \in SpinRaw THEN preempt ELSE [preempt EXCEPT ![x[1]] = @ + 1]
  /\ UNCHANGED <<sp_on, masked, in_irq, flag, guards, raws, failed>>
acquire(x, l, tries) ==
  /\ Executing(x) /\ wanted[x] = NoLock /\ l \notin SpHeld(x)
  /\ x[2] = "irq" => l \notin SpinNoPreempt
  /\ l \in SpinRaw => preempt[x[1]] > 0 /\ masked[x[1]]
  /\ wanted' = [wanted EXCEPT ![x] = l]
  /\ try' = [try EXCEPT ![x] = tries]
  /\ saved' = [saved EXCEPT ![x] = masked[x[1]]]
  /\ preempt' = IF l \in SpinRaw THEN preempt ELSE [preempt EXCEPT ![x[1]] = @ + 1]
  /\ masked' = IF l \in SpinNoIrq THEN [masked EXCEPT ![x[1]] = TRUE] ELSE masked
  /\ UNCHANGED <<sp_on, in_irq, flag, guards, raws, failed>>

\* The call returns; its locals are gone.
Returned(x) ==
  /\ wanted' = [wanted EXCEPT ![x] = NoLock]
  /\ try' = [try EXCEPT ![x] = FALSE]
  /\ saved' = [saved EXCEPT ![x] = FALSE]

\* The swap that succeeds: in a loop in lock(), once in try_lock(), and not needed
\* without "smp".
take(x) ==
  /\ Executing(x) /\ wanted[x] # NoLock
  /\ SpSmp => ~flag[wanted[x]]
  /\ flag' = IF SpSmp THEN [flag EXCEPT ![wanted[x]] = TRUE] ELSE flag
  /\ IF wanted[x] \in SpinRaw
     THEN raws' = [raws EXCEPT ![x] = @ \cup {wanted[x]}] /\ UNCHANGED guards
     ELSE guards' = [guards EXCEPT ![x] = Append(@, [lock |-> wanted[x], irq_state |-> saved[x]])] /\ UNCHANGED raws
  /\ Returned(x)
  /\ UNCHANGED <<sp_on, preempt, masked, in_irq, failed>>

\* The swap of try_lock() that fails. G::release() is not called: the guard stays.
try_fails(x) ==
  /\ Executing(x) /\ wanted[x] # NoLock /\ try[x]
  /\ SpSmp /\ flag[wanted[x]]
  /\ failed[x[1]] < SpTries
  /\ Returned(x)
  /\ failed' = IF wanted[x] \in SpinRaw THEN failed ELSE [failed EXCEPT ![x[1]] = @ + 1]
  /\ UNCHANGED <<sp_on, preempt, masked, in_irq, flag, guards, raws>>

\* drop of the guard taken last: the flag, then G::release(irq_state). Raw locks go
\* before the guard they were taken under.
release(x) ==
  LET g == guards[x][Len(guards[x])]
  IN /\ Executing(x) /\ wanted[x] = NoLock /\ guards[x] # <<>> /\ raws[x] = {}
     /\ flag' = [flag EXCEPT ![g.lock] = FALSE]
     /\ masked' = IF g.lock \in SpinNoIrq THEN [masked EXCEPT ![x[1]] = g.irq_state] ELSE masked
     /\ preempt' = [preempt EXCEPT ![x[1]] = @ - 1]
     /\ guards' = [guards EXCEPT ![x] = SubSeq(@, 1, Len(@) - 1)]
     /\ UNCHANGED <<sp_on, in_irq, wanted, try, saved, raws, failed>>
release_raw(x, l) ==
  /\ Executing(x) /\ wanted[x] = NoLock /\ l \in raws[x]
  /\ flag' = [flag EXCEPT ![l] = FALSE]
  /\ raws' = [raws EXCEPT ![x] = @ \ {l}]
  /\ UNCHANGED <<sp_on, preempt, masked, in_irq, wanted, try, saved, guards, failed>>

\* An interrupt: the CPU masks further ones, and handle_irq holds NoPreempt while the
\* handler runs. Preemption is enabled again, and the thread may lose the CPU, before
\* the CPU unmasks.
handle_irq(c) ==
  LET t == sp_on[c]
  IN /\ ~masked[t] /\ in_irq[t] = "no"
     /\ in_irq' = [in_irq EXCEPT ![t] = "handler"]
     /\ masked' = [masked EXCEPT ![t] = TRUE]
     /\ preempt' = [preempt EXCEPT ![t] = @ + 1]
     /\ UNCHANGED <<sp_on, flag, wanted, try, saved, guards, raws, failed>>
irq_handled(c) ==
  LET t == sp_on[c]
  IN /\ in_irq[t] = "handler" /\ wanted[Handler(t)] = NoLock /\ SpHeld(Handler(t)) = {}
     /\ in_irq' = [in_irq EXCEPT ![t] = "leaving"]
     /\ preempt' = [preempt EXCEPT ![t] = @ - 1]
     /\ UNCHANGED <<sp_on, masked, flag, wanted, try, saved, guards, raws, failed>>
irq_return(c) ==
  LET t == sp_on[c]
  IN /\ in_irq[t] = "leaving"
     /\ in_irq' = [in_irq EXCEPT ![t] = "no"]
     /\ masked' = [masked EXCEPT ![t] = FALSE]
     /\ UNCHANGED <<sp_on, preempt, flag, wanted, try, saved, guards, raws, failed>>

\* A CPU turns to a thread that none runs, under the lock of RUN_QUEUE. The one it
\* leaves can be preempted, or gives up the CPU: it has no guard other than that of
\* RUN_QUEUE then, which block_current asserts.
switch_to(c, t) ==
  /\ preempt[sp_on[c]] = 0 /\ ~Running(t)
  /\ sp_on' = [sp_on EXCEPT ![c] = t]
  /\ UNCHANGED <<preempt, masked, in_irq, flag, wanted, try, saved, guards, raws, failed>>

SpNext ==
  \/ \E x \in Contexts :
       \/ \E l \in SpLocks, tries \in BOOLEAN : acquire(x, l, tries)
       \/ take(x)
       \/ try_fails(x)
       \/ release(x)
       \/ \E l \in SpLocks : release_raw(x, l)
  \/ \E c \in SpCpus :
       \/ handle_irq(c)
       \/ irq_handled(c)
       \/ irq_return(c)
       \/ \E t \in SpThreads : switch_to(c, t)
SpSpec == SpInit /\ [][SpNext]_sp_vars

\* A lock has one holder, on every CPU and on one CPU without a flag alike, and a
\* holder is never off its CPU: a thread that holds a lock is not switched out, and
\* no interrupt handler runs on top of one that holds a SpinNoIrq or a raw lock, so
\* whoever spins for one of these spins for a context that executes.
LocksExclude ==
  \A x \in Contexts : \A l \in SpHeld(x) :
    /\ \A y \in Contexts : l \in SpHeld(y) => x = y
    /\ Running(x[1])
    /\ l \notin SpinNoPreempt => Executing(x)

\* How often a context has preemption disabled, by the locks it holds and the one it
\* is about to take, and whether it needs interrupts masked.
Pending(x) == IF wanted[x] \in SpinNoIrq \cup SpinNoPreempt THEN 1 ELSE 0
Disables(x) == Len(guards[x]) + Pending(x)
HandlerGuard(t) == IF in_irq[t] = "handler" THEN 1 ELSE 0
NoIrqAt(x, i) == guards[x][i].lock \in SpinNoIrq
HoldsNoIrq(x) == \E i \in 1 .. Len(guards[x]) : NoIrqAt(x, i)
Masking(x) == HoldsNoIrq(x) \/ raws[x] # {} \/ wanted[x] \in SpinNoIrq \cup SpinRaw
SpIdle(x) == guards[x] = <<>> /\ raws[x] = {} /\ wanted[x] = NoLock

SpTypeOK ==
  /\ sp_on \in [SpCpus -> SpThreads]
  /\ preempt \in [SpThreads -> Nat]
  /\ masked \in [SpThreads -> BOOLEAN]
  /\ in_irq \in [SpThreads -> {"no", "handler", "leaving"}]
  /\ flag \in [SpLocks -> BOOLEAN]
  /\ wanted \in [Contexts -> SpLocks \cup {NoLock}]
  /\ try \in [Contexts -> BOOLEAN]
  /\ saved \in [Contexts -> BOOLEAN]
  /\ guards \in [Contexts -> Seq(Guard)]
  /\ raws \in [Contexts -> SUBSET SpinRaw]
  /\ failed \in [SpThreads -> Nat]

\* What each step relies on. The count of a thread is what its two contexts disabled,
\* the guard of a running handler and the guards that failed tries left. Interrupts
\* stay masked while a context needs it, because a guard nested in another restores a
\* mask that was already set; and then no handler is on top of the thread. A thread
\* with preemption disabled runs.
Depth(t) ==
  /\ preempt[t] = Disables(Thread(t)) + Disables(Handler(t)) + HandlerGuard(t) + failed[t]
  /\ preempt[t] > 0 => Running(t)
Masks(x) ==
  /\ Masking(x) => masked[x[1]]
  /\ \A i, j \in 1 .. Len(guards[x]) : i < j /\ NoIrqAt(x, i) /\ NoIrqAt(x, j) => guards[x][j].irq_state
  /\ HoldsNoIrq(x) /\ wanted[x] \in SpinNoIrq => saved[x]
  /\ raws[x] # {} \/ wanted[x] \in SpinRaw => preempt[x[1]] > 0
Handlers(t) ==
  /\ in_irq[t] # "no" => masked[t] /\ ~Masking(Thread(t))
  /\ in_irq[t] # "handler" => SpIdle(Handler(t))
  /\ \A i \in 1 .. Len(guards[Handler(t)]) : NoIrqAt(Handler(t), i) /\ guards[Handler(t)][i].irq_state
  /\ wanted[Handler(t)] \notin SpinNoPreempt
  /\ wanted[Handler(t)] # NoLock => saved[Handler(t)]
Distinct(q) == \A i, j \in 1 .. Len(q) : q[i].lock = q[j].lock => i = j
Owners ==
  /\ \A x \in Contexts : wanted[x] \notin SpHeld(x)
  /\ \A x \in Contexts : Distinct(guards[x])
  /\ SpSmp => \A x \in Contexts : \A l \in SpHeld(x) : flag[l] /\ \A y \in Contexts : l \in SpHeld(y) => x = y
SpInv ==
  /\ SpTypeOK
  /\ \A c, d \in SpCpus : sp_on[c] = sp_on[d] => c = d
  /\ \A t \in SpThreads : Depth(t) /\ Handlers(t)
  /\ \A x \in Contexts : Masks(x)
  /\ Owners
=============================================================================
