--------------------------- MODULE SpinlockProofs ---------------------------
(***************************************************************************)
(* The spin locks exclude, for every number of CPUs, threads and locks,    *)
(* with the feature "smp" and without it.                                  *)
(***************************************************************************)
EXTENDS Spinlock, SequenceTheorems, TLAPS

USE DEF SpLocks

\* A context is a thread or the handler on top of one.
LEMMA ContextFacts ==
  /\ \A x \in Contexts : x[1] \in SpThreads /\ (x = Thread(x[1]) \/ x = Handler(x[1]))
  /\ \A t \in SpThreads :
       /\ Thread(t) \in Contexts /\ Thread(t)[1] = t /\ Thread(t)[2] = "thread"
       /\ Handler(t) \in Contexts /\ Handler(t)[1] = t /\ Handler(t)[2] = "irq"
       /\ Thread(t) # Handler(t)
BY DEF Contexts, Thread, Handler

\* Counts that are not all zero have a positive sum.
LEMMA SumPositive ==
  ASSUME NEW m \in Nat, NEW n \in Nat, NEW h \in {0, 1}, NEW f \in Nat, m > 0 \/ n > 0
  PROVE  m + n + h + f > 0
OBVIOUS

\* The types of what a context holds and of what a thread counts.
LEMMA GuardFacts ==
  ASSUME SpTypeOK, NEW x \in Contexts
  PROVE  /\ guards[x] \in Seq(Guard) /\ Len(guards[x]) \in Nat /\ raws[x] \subseteq SpinRaw
         /\ \A i \in 1 .. Len(guards[x]) :
              guards[x][i] \in Guard /\ guards[x][i].lock \in SpinNoIrq \cup SpinNoPreempt
         /\ Disables(x) \in Nat /\ Disables(x) >= Len(guards[x])
<1>1. guards[x] \in Seq(Guard) /\ raws[x] \subseteq SpinRaw
  BY Zenon DEF SpTypeOK
<1>2. \A i \in 1 .. Len(guards[x]) : guards[x][i] \in Guard
  BY <1>1
<1> QED
  <2>1. \A i \in 1 .. Len(guards[x]) : guards[x][i].lock \in SpinNoIrq \cup SpinNoPreempt
    BY Zenon, <1>2 DEF Guard
  <2>2. Len(guards[x]) \in Nat
    BY <1>1
  <2>3. Pending(x) \in {0, 1}
    BY Zenon DEF Pending
  <2> QED
    BY <1>1, <1>2, <2>1, <2>2, <2>3 DEF Disables

\* The invariant holds before any call: nothing is held and nothing is masked.
LEMMA SpInitInv == ASSUME SpInit PROVE SpInv
<1> USE SpAssumption DEF SpAssumption
<1>1. SpTypeOK
  BY DEF SpInit, SpTypeOK
<1>2. ASSUME NEW t \in SpThreads PROVE Depth(t) /\ Handlers(t)
  <2>1. SpIdle(Thread(t)) /\ SpIdle(Handler(t))
    BY Zenon, ContextFacts DEF SpInit, SpIdle
  <2>2. Depth(t)
    <3>1. preempt[t] = 0 /\ failed[t] = 0 /\ in_irq[t] = "no"
      BY Zenon DEF SpInit
    <3>2. Disables(Thread(t)) = 0 /\ Disables(Handler(t)) = 0
      BY <2>1 DEF Disables, Pending, SpIdle
    <3> QED
      BY <3>1, <3>2 DEF Depth, HandlerGuard
  <2> QED
    <3>1. in_irq[t] = "no" /\ wanted[Handler(t)] = NoLock /\ Len(guards[Handler(t)]) = 0
      BY Zenon, <2>1 DEF SpInit, SpIdle
    <3>2. Handlers(t)
      BY <2>1, <3>1 DEF Handlers
    <3> QED
      BY Zenon, <2>2, <3>2
<1>3. ASSUME NEW x \in Contexts PROVE Masks(x)
  <2>1. SpIdle(x)
    BY Zenon DEF SpInit, SpIdle
  <2> QED
    BY <2>1 DEF Masks, Masking, HoldsNoIrq, SpIdle
<1>4. Owners
  <2>1. ASSUME NEW x \in Contexts PROVE SpHeld(x) = {} /\ Distinct(guards[x])
    <3>1. guards[x] = <<>> /\ raws[x] = {}
      BY Zenon DEF SpInit
    <3>2. 1 .. Len(guards[x]) = {}
      BY SMT, <3>1
    <3> QED
      BY Zenon, <3>1, <3>2 DEF SpHeld, Distinct
  <2> QED
    BY Zenon, <2>1 DEF Owners
<1> QED
  BY Zenon, <1>1, <1>2, <1>3, <1>4 DEF SpInv, SpInit

\* A context that holds a lock has preemption disabled, so its thread runs.
LEMMA HolderRuns ==
  ASSUME SpInv, NEW x \in Contexts, SpHeld(x) # {}
  PROVE  Running(x[1])
<1> USE SpAssumption DEF SpAssumption
<1>1. x[1] \in SpThreads /\ Depth(x[1]) /\ Masks(x)
  BY Zenon, ContextFacts DEF SpInv
<1>2. CASE raws[x] # {}
  BY Zenon, <1>1, <1>2 DEF Masks, Depth
<1>3. CASE raws[x] = {}
  <2>1. guards[x] \in Seq(Guard) /\ Len(guards[x]) > 0
    BY <1>3 DEF SpHeld, SpInv, SpTypeOK
  <2>2. preempt[x[1]] > 0
    <3>0. PICK t \in SpThreads : t = x[1]
      BY Zenon, <1>1
    <3>1. failed[t] \in Nat /\ SpTypeOK
      BY Zenon, <1>1 DEF SpInv, SpTypeOK
    <3>2. Disables(Thread(t)) \in Nat /\ Disables(Handler(t)) \in Nat
      BY Zenon, <3>1, ContextFacts, GuardFacts
    <3>3. Disables(Thread(t)) > 0 \/ Disables(Handler(t)) > 0
      <4>1. Len(guards[x]) \in Nat /\ Disables(x) \in Nat /\ Disables(x) >= Len(guards[x])
        BY Zenon, <3>1, GuardFacts
      <4>2. Disables(x) > 0
        BY SMT, <2>1, <4>1
      <4> QED
        BY Zenon, <3>0, <4>2, ContextFacts
    <3>4. HandlerGuard(t) \in {0, 1}
      BY Zenon DEF HandlerGuard
    <3>5. preempt[t] = Disables(Thread(t)) + Disables(Handler(t)) + HandlerGuard(t) + failed[t]
      BY Zenon, <1>1, <3>0 DEF Depth
    <3>6. preempt[t] > 0
      BY <3>1, <3>2, <3>3, <3>4, <3>5, SumPositive
    <3> QED
      BY Zenon, <3>0, <3>6
  <2> QED
    BY Zenon, <1>1, <2>2 DEF Depth
<1> QED
  BY Zenon, <1>2, <1>3

\* A lock without "smp" has one holder because the other contexts do not execute: the
\* holder's thread is the one the CPU runs, and its handler takes none of its locks.
LEMMA ExcludesOnOneCpu ==
  ASSUME SpInv, ~SpSmp, NEW x \in Contexts, NEW y \in Contexts, NEW l \in SpHeld(x), l \in SpHeld(y)
  PROVE  x = y
<1> USE SpAssumption DEF SpAssumption
<1>1. x[1] = y[1]
  <2>1. Running(x[1]) /\ Running(y[1])
    BY Zenon, HolderRuns
  <2>2. DOMAIN sp_on = SpCpus
    BY Zenon DEF SpInv, SpTypeOK
  <2> QED
    BY Zenon, <2>1, <2>2 DEF Running
<1>2. ASSUME NEW t \in SpThreads, l \in SpHeld(Thread(t)), l \in SpHeld(Handler(t)) PROVE FALSE
  <2>1. ~SpIdle(Handler(t)) /\ Handlers(t)
    BY <1>2 DEF SpIdle, SpHeld, SpInv
  <2>2. ~Masking(Thread(t))
    BY Zenon, <2>1 DEF Handlers
  <2>3. l \notin SpinNoIrq
    BY ZenonT(60), <1>2, <2>2 DEF Masking, HoldsNoIrq, NoIrqAt, SpHeld
  <2>4. raws[Thread(t)] = {} /\ raws[Handler(t)] \subseteq SpinRaw
    BY ZenonT(60), <2>2, ContextFacts DEF Masking, SpInv, SpTypeOK
  <2>5. PICK i \in 1 .. Len(guards[Thread(t)]) : l = guards[Thread(t)][i].lock
    BY Zenon, <1>2, <2>4 DEF SpHeld
  <2>6. l \notin SpinRaw
    BY ZenonT(60), <2>5, ContextFacts, GuardFacts DEF SpInv
  <2>7. PICK j \in 1 .. Len(guards[Handler(t)]) : l = guards[Handler(t)][j].lock
    BY Zenon, <1>2, <2>4, <2>6 DEF SpHeld
  <2> QED
    BY Zenon, <2>1, <2>3, <2>7 DEF Handlers, NoIrqAt
<1> QED
  BY <1>1, <1>2, ContextFacts

\* The invariant gives the property.
LEMMA SpInvExcludes == ASSUME SpInv PROVE LocksExclude
<1> SUFFICES ASSUME NEW x \in Contexts, NEW l \in SpHeld(x)
             PROVE  /\ \A y \in Contexts : l \in SpHeld(y) => x = y
                    /\ Running(x[1])
                    /\ l \notin SpinNoPreempt => Executing(x)
  BY Zenon DEF LocksExclude
<1> USE SpAssumption DEF SpAssumption
<1>1. \A y \in Contexts : l \in SpHeld(y) => x = y
  <2>1. CASE SpSmp
    BY Zenon, <2>1 DEF SpInv, Owners
  <2> QED
    BY Zenon, <2>1, ExcludesOnOneCpu
<1>2. Running(x[1])
  BY Zenon, HolderRuns
<1>3. ASSUME l \notin SpinNoPreempt PROVE Executing(x)
  <2>1. x[1] \in SpThreads /\ Handlers(x[1])
    BY Zenon, ContextFacts DEF SpInv
  <2>2. CASE x = Handler(x[1])
    <3>1. ~SpIdle(x)
      BY DEF SpIdle, SpHeld
    <3> QED
      BY ZenonT(60), <1>2, <2>1, <2>2, <3>1, ContextFacts DEF Handlers, Executing
  <2>3. CASE x = Thread(x[1])
    <3>1. Masking(x)
      <4>1. CASE l \in raws[x]
        BY Zenon, <4>1 DEF Masking
      <4>2. CASE l \notin raws[x]
        <5>1. PICK i \in 1 .. Len(guards[x]) : l = guards[x][i].lock
          BY Zenon, <4>2 DEF SpHeld
        <5>2. l \in SpinNoIrq
          BY Zenon, <1>3, <5>1, GuardFacts DEF SpInv
        <5> QED
          BY Zenon, <5>1, <5>2 DEF Masking, HoldsNoIrq, NoIrqAt
      <4> QED
        BY Zenon, <4>1, <4>2
    <3> QED
      BY ZenonT(60), <1>2, <2>1, <2>3, <3>1, ContextFacts DEF Handlers, Executing
  <2> QED
    BY Zenon, <2>1, <2>2, <2>3, ContextFacts
<1> QED
  BY Zenon, <1>1, <1>2, <1>3

\* A step of context x: it touches nothing of another thread, and of the other context
\* of its own thread only what belongs to the thread.
Kept(x) ==
  /\ sp_on' = sp_on
  /\ \A y \in Contexts \ {x} :
       guards'[y] = guards[y] /\ raws'[y] = raws[y] /\ wanted'[y] = wanted[y] /\ saved'[y] = saved[y]
  /\ \A s \in SpThreads \ {x[1]} :
       preempt'[s] = preempt[s] /\ masked'[s] = masked[s] /\ in_irq'[s] = in_irq[s] /\ failed'[s] = failed[s]

\* So the invariant is to be shown of the thread, its two contexts and the owners.
LEMMA ContextStep ==
  ASSUME SpInv, NEW x \in Contexts, Kept(x), SpTypeOK', Owners',
         Depth(x[1])', Handlers(x[1])', Masks(Thread(x[1]))', Masks(Handler(x[1]))'
  PROVE  SpInv'
<1>1. ASSUME NEW s \in SpThreads, s # x[1] PROVE Depth(s)' /\ Handlers(s)'
  <2>1. Depth(s) /\ Handlers(s) /\ Thread(s) \in Contexts \ {x} /\ Handler(s) \in Contexts \ {x}
    BY ZenonT(60), <1>1, ContextFacts DEF SpInv
  <2>2. Depth(s)'
    BY ZenonT(60), <1>1, <2>1 DEF Depth, Kept, Disables, Pending, HandlerGuard, Running
  <2>3. Handlers(s)'
    BY ZenonT(60), <1>1, <2>1 DEF Handlers, Kept, Masking, HoldsNoIrq, NoIrqAt, SpIdle
  <2> QED
    BY Zenon, <2>2, <2>3
<1>2. ASSUME NEW y \in Contexts, y[1] # x[1] PROVE Masks(y)'
  <2>1. Masks(y) /\ y \in Contexts \ {x} /\ y[1] \in SpThreads \ {x[1]}
    BY Zenon, <1>2, ContextFacts DEF SpInv
  <2> QED
    BY ZenonT(60), <2>1 DEF Masks, Kept, Masking, HoldsNoIrq, NoIrqAt
<1>3. \A c, d \in SpCpus : (sp_on[c] = sp_on[d])' => c = d
  BY Zenon DEF SpInv, Kept
<1> QED
  BY <1>1, <1>2, <1>3, ContextFacts DEF SpInv

\* The facts a step of context x of thread t starts from.
Around(x, t) ==
  /\ t = x[1] /\ SpTypeOK /\ Owners /\ Depth(t) /\ Handlers(t) /\ Masks(x)
  /\ Masks(Thread(t)) /\ Masks(Handler(t))
  /\ Thread(t) \in Contexts /\ Thread(t)[1] = t /\ Thread(t)[2] = "thread"
  /\ Handler(t) \in Contexts /\ Handler(t)[1] = t /\ Handler(t)[2] = "irq"
  /\ Thread(t) # Handler(t) /\ (x = Thread(t) \/ x = Handler(t))
  /\ preempt[t] \in Nat /\ failed[t] \in Nat /\ HandlerGuard(t) \in {0, 1}
  /\ Disables(Thread(t)) \in Nat /\ Disables(Handler(t)) \in Nat

\* They hold in every step.
LEMMA AroundContext ==
  ASSUME SpInv, NEW x \in Contexts, NEW t \in SpThreads, t = x[1]
  PROVE  Around(x, t)
<1>1. SpTypeOK /\ Owners /\ Depth(t) /\ Handlers(t) /\ Masks(x)
  BY Zenon DEF SpInv
<1>2. /\ Thread(t) \in Contexts /\ Thread(t)[1] = t /\ Thread(t)[2] = "thread"
      /\ Handler(t) \in Contexts /\ Handler(t)[1] = t /\ Handler(t)[2] = "irq"
      /\ Thread(t) # Handler(t) /\ (x = Thread(t) \/ x = Handler(t))
  BY Zenon, ContextFacts
<1>3. preempt[t] \in Nat /\ failed[t] \in Nat
  BY Zenon, <1>1 DEF SpTypeOK
<1>4. HandlerGuard(t) \in {0, 1}
  BY Zenon DEF HandlerGuard
<1>5. Disables(Thread(t)) \in Nat /\ Disables(Handler(t)) \in Nat
  BY Zenon, <1>1, <1>2, GuardFacts
<1>6. Masks(Thread(t)) /\ Masks(Handler(t))
  BY Zenon, <1>2 DEF SpInv
<1> QED
  BY Zenon, <1>1, <1>2, <1>3, <1>4, <1>5, <1>6 DEF Around

\* What a context holds is its guards and its raw locks.
LEMMA SameHeld ==
  ASSUME NEW x \in Contexts, guards'[x] = guards[x], raws'[x] = raws[x] PROVE SpHeld(x)' = SpHeld(x)
BY Zenon DEF SpHeld

\* Owners stay apart in a step that leaves the locks alone.
LEMMA SameOwners ==
  ASSUME Owners, guards' = guards, flag' = flag, \A x \in Contexts : SpHeld(x)' = SpHeld(x),
         \A x \in Contexts : wanted'[x] \notin SpHeld(x)'
  PROVE  Owners'
<1>1. \A x \in Contexts : Distinct(guards'[x])
  BY Zenon DEF Owners
<1>2. ASSUME SpSmp, NEW x \in Contexts, NEW l \in SpHeld(x)'
      PROVE  flag'[l] /\ \A y \in Contexts : l \in SpHeld(y)' => x = y
  <2>1. l \in SpHeld(x)
    BY Zenon, <1>2
  <2>2. flag[l] /\ \A y \in Contexts : l \in SpHeld(y) => x = y
    BY Zenon, <1>2, <2>1 DEF Owners
  <2> QED
    BY Zenon, <2>2
<1> QED
  BY Zenon, <1>1, <1>2 DEF Owners

\* A call starts: preemption goes off, and interrupts for a SpinNoIrq.
LEMMA AcquireStep ==
  ASSUME SpInv, NEW x \in Contexts, NEW l \in SpLocks, NEW tries \in BOOLEAN, acquire(x, l, tries)
  PROVE  SpInv'
<1> USE SpAssumption DEF SpAssumption
<1>1. PICK t \in SpThreads : t = x[1]
  BY Zenon, ContextFacts
<1>2. Around(x, t)
  BY Zenon, <1>1, AroundContext
<1>3. SpTypeOK'
  <2>1. preempt[t] + 1 \in Nat
    BY SMT, <1>2 DEF Around
  <2>2. preempt' \in [SpThreads -> Nat] /\ masked' \in [SpThreads -> BOOLEAN]
    BY ZenonT(60), <1>2, <2>1 DEF Around, acquire, SpTypeOK
  <2>3. saved' \in [Contexts -> BOOLEAN] /\ wanted' \in [Contexts -> SpLocks \cup {NoLock}]
    BY ZenonT(60), <1>1, <1>2 DEF Around, acquire, SpTypeOK
  <2> QED
    BY ZenonT(60), <1>2, <2>2, <2>3 DEF Around, acquire, SpTypeOK
<1>4. Kept(x)
  BY ZenonT(60), <1>2 DEF Around, acquire, Kept, SpTypeOK
<1>5. Owners'
  <2>1. /\ wanted'[x] = l /\ l \notin SpHeld(x) /\ guards' = guards /\ raws' = raws /\ flag' = flag
        /\ \A y \in Contexts : y # x => wanted'[y] = wanted[y]
    BY Zenon, <1>2 DEF Around, acquire, SpTypeOK
  <2>2. \A y \in Contexts : SpHeld(y)' = SpHeld(y)
    BY Zenon, <2>1, SameHeld
  <2>3. \A y \in Contexts : wanted[y] \notin SpHeld(y)
    BY Zenon, <1>2 DEF Around, Owners
  <2>4. \A y \in Contexts : wanted'[y] \notin SpHeld(y)'
    BY Zenon, <2>1, <2>2, <2>3
  <2> QED
    BY Zenon, <1>2, <2>1, <2>2, <2>4, SameOwners DEF Around
<1>6. Depth(t)'
  <2>1. guards' = guards /\ in_irq' = in_irq /\ failed' = failed /\ sp_on' = sp_on /\ Running(t)
    BY Zenon, <1>2 DEF Around, acquire, Executing
  <2>2. \A y \in Contexts : y # x => Disables(y)' = Disables(y)
    BY Zenon, <1>2, <1>4, <2>1 DEF Kept, Disables, Pending
  <2>3. CASE l \in SpinRaw
    <3>1. Disables(x)' = Disables(x) /\ preempt' = preempt
      BY ZenonT(60), <1>2, <2>3 DEF Around, acquire, Disables, Pending, SpTypeOK
    <3> QED
      BY ZenonT(60), <1>2, <2>1, <2>2, <3>1 DEF Around, Depth, HandlerGuard, Running
  <2>4. CASE l \notin SpinRaw
    <3>1. Disables(x)' = Disables(x) + 1 /\ preempt'[t] = preempt[t] + 1
      <4>1. wanted[x] = NoLock /\ wanted'[x] = l
        BY ZenonT(60), <1>2 DEF Around, acquire, SpTypeOK
      <4>2. Len(guards[x]) \in Nat
        BY Zenon, <1>2, GuardFacts DEF Around
      <4>3. preempt'[t] = preempt[t] + 1
        BY Zenon, <1>2, <2>4 DEF Around, acquire, SpTypeOK
      <4>4. Pending(x) = 0 /\ Pending(x)' = 1
        BY Zenon, <2>4, <4>1, SpAssumption DEF Pending, SpAssumption
      <4> QED
        BY <2>1, <4>2, <4>3, <4>4 DEF Disables
    <3>2. preempt'[t] = Disables(Thread(t))' + Disables(Handler(t))' + HandlerGuard(t) + failed[t]
      BY SMTT(60), <1>2, <2>2, <3>1 DEF Around, Depth
    <3> QED
      BY Zenon, <1>2, <2>1, <3>2 DEF Around, Depth, HandlerGuard, Running
  <2> QED
    BY Zenon, <2>3, <2>4
<1>7. Handlers(t)'
  BY ZenonT(60), <1>2 DEF Around, acquire, Handlers, Executing, Masking, HoldsNoIrq, NoIrqAt, SpIdle, SpTypeOK
<1>8. Masks(x)'
  <2>1. /\ wanted[x] = NoLock /\ wanted'[x] = l /\ saved'[x] = masked[t] /\ guards' = guards /\ raws' = raws
        /\ masked[t] => masked'[t]
        /\ l \in SpinNoIrq => masked'[t]
        /\ l \in SpinRaw => masked[t] /\ preempt[t] > 0 /\ preempt' = preempt
    BY ZenonT(60), <1>1, <1>2 DEF Around, acquire, SpTypeOK
  <2>2. preempt[t] > 0 => preempt'[t] > 0
    <3>1. preempt'[t] = preempt[t] \/ preempt'[t] = preempt[t] + 1
      BY Zenon, <1>1, <1>2 DEF Around, acquire, SpTypeOK
    <3> QED
      BY SMT, <1>2, <3>1 DEF Around
  <2>3. HoldsNoIrq(x)' = HoldsNoIrq(x) /\ (HoldsNoIrq(x) \/ raws[x] # {} => masked[t])
    BY ZenonT(60), <1>1, <1>2, <2>1 DEF Around, Masks, Masking, HoldsNoIrq, NoIrqAt
  <2>4. raws[x] # {} => preempt[t] > 0
    BY Zenon, <1>1, <1>2 DEF Around, Masks
  <2>5. \A i, j \in 1 .. Len(guards[x]) : i < j /\ NoIrqAt(x, i)' /\ NoIrqAt(x, j)' => guards[x][j].irq_state
    BY ZenonT(60), <1>2, <2>1 DEF Around, Masks, NoIrqAt
  <2> QED
    BY ZenonT(60), <1>1, <2>1, <2>2, <2>3, <2>4, <2>5 DEF Masks, Masking
<1>9. ASSUME NEW y \in Contexts, y # x, y[1] = t, Masks(y) PROVE Masks(y)'
  <2>1. /\ guards'[y] = guards[y] /\ raws'[y] = raws[y] /\ wanted'[y] = wanted[y] /\ saved'[y] = saved[y]
        /\ masked[t] => masked'[t]
    BY Zenon, <1>2, <1>9 DEF Around, acquire, SpTypeOK
  <2>2. preempt[t] > 0 => preempt'[t] > 0
    <3>1. preempt'[t] = preempt[t] \/ preempt'[t] = preempt[t] + 1
      BY Zenon, <1>2 DEF Around, acquire, SpTypeOK
    <3>2. preempt[t] \in Nat
      BY Zenon, <1>2 DEF Around
    <3> QED
      BY SMT, <3>1, <3>2
  <2> QED
    BY ZenonT(60), <1>9, <2>1, <2>2 DEF Masks, Masking, HoldsNoIrq, NoIrqAt
<1> QED
  <2>1. Masks(Thread(t))' /\ Masks(Handler(t))'
    BY Zenon, <1>2, <1>8, <1>9 DEF Around
  <2> QED
    BY Zenon, <1>1, <1>3, <1>4, <1>5, <1>6, <1>7, <2>1, ContextStep

\* A sequence with one more at its end, or without its last.
LEMMA PushPop ==
  ASSUME NEW S, NEW q \in Seq(S)
  PROVE  /\ \A e \in S :
              /\ Append(q, e) \in Seq(S) /\ Len(Append(q, e)) = Len(q) + 1
              /\ \A i \in 1 .. Len(q) : Append(q, e)[i] = q[i]
              /\ Append(q, e)[Len(q) + 1] = e
         /\ q # <<>> =>
              LET r == SubSeq(q, 1, Len(q) - 1)
              IN /\ r \in Seq(S) /\ Len(r) = Len(q) - 1 /\ Len(q) \in Nat \ {0}
                 /\ \A i \in 1 .. Len(r) : r[i] = q[i]
<1>1. ASSUME q # <<>>
      PROVE  LET r == SubSeq(q, 1, Len(q) - 1)
             IN /\ r \in Seq(S) /\ Len(r) = Len(q) - 1 /\ Len(q) \in Nat \ {0}
                /\ \A i \in 1 .. Len(r) : r[i] = q[i]
  <2>1. Len(q) \in Nat \ {0}
    BY <1>1
  <2>2. PICK n \in Nat : n = Len(q) - 1
    BY <2>1
  <2>3. SubSeq(q, 1, n) \in Seq(S) /\ Len(SubSeq(q, 1, n)) = n
    <3>1. \A i \in 1 .. n : q[i] \in S
      BY <2>2
    <3>2. SubSeq(q, 1, n) \in Seq(S) /\ Len(SubSeq(q, 1, n)) = IF 1 <= n THEN n - 1 + 1 ELSE 0
      BY <3>1, SubSeqProperties
    <3> QED
      BY <3>2
  <2>4. \A i \in 1 .. Len(q) - 1 : SubSeq(q, 1, Len(q) - 1)[i] = q[i]
    BY <2>1
  <2> QED
    BY Zenon, <2>1, <2>2, <2>3, <2>4
<1>2. ASSUME NEW e \in S
      PROVE  /\ Append(q, e) \in Seq(S) /\ Len(Append(q, e)) = Len(q) + 1
             /\ \A i \in 1 .. Len(q) : Append(q, e)[i] = q[i]
             /\ Append(q, e)[Len(q) + 1] = e
  BY AppendProperties
<1> QED
  BY Zenon, <1>1, <1>2

\* A context holds locks only.
LEMMA HeldLocks == ASSUME SpTypeOK, NEW x \in Contexts PROVE SpHeld(x) \subseteq SpLocks
BY ZenonT(60), GuardFacts DEF SpHeld

\* A context without locks and without a call needs no mask.
LEMMA IdleMasksNot == ASSUME NEW x \in Contexts, SpIdle(x) PROVE ~Masking(x)
<1>1. 1 .. Len(guards[x]) = {}
  BY SMT DEF SpIdle
<1>2. NoLock \notin SpinNoIrq \cup SpinRaw
  BY Zenon, SpAssumption DEF SpAssumption
<1> QED
  BY Zenon, <1>1, <1>2 DEF SpIdle, Masking, HoldsNoIrq

\* Owners stay apart when a context gets a lock nobody holds.
LEMMA GainedLock ==
  ASSUME SpInv, NEW x \in Contexts, NEW l \in SpLocks, l = wanted[x], take(x), Kept(x),
         SpHeld(x)' = SpHeld(x) \cup {l}, \A y \in Contexts : y # x => SpHeld(y)' = SpHeld(y),
         Distinct(guards'[x])
  PROVE  Owners'
<1>1. Owners /\ SpTypeOK
  BY Zenon DEF SpInv
<1>2. wanted'[x] = NoLock /\ NoLock \notin SpHeld(x)'
  BY Zenon, <1>1, HeldLocks, SpAssumption DEF take, Returned, SpTypeOK, SpAssumption
<1>3. \A y \in Contexts : wanted'[y] \notin SpHeld(y)'
  <2>1. ASSUME NEW y \in Contexts, y # x PROVE wanted'[y] \notin SpHeld(y)'
    <3>1. wanted'[y] = wanted[y] /\ wanted[y] \notin SpHeld(y) /\ SpHeld(y)' = SpHeld(y)
      BY Zenon, <1>1, <2>1 DEF Kept, Owners
    <3> QED
      BY Zenon, <3>1
  <2> QED
    BY Zenon, <1>2, <2>1
<1>4. \A y \in Contexts : Distinct(guards'[y])
  <2>1. ASSUME NEW y \in Contexts, y # x PROVE Distinct(guards'[y])
    <3>1. guards'[y] = guards[y] /\ Distinct(guards[y])
      BY Zenon, <1>1, <2>1 DEF Kept, Owners
    <3> QED
      BY Zenon, <3>1
  <2> QED
    BY Zenon, <2>1
<1>5. ASSUME SpSmp, NEW y \in Contexts, NEW m, m \in SpHeld(y)'
      PROVE  flag'[m] /\ \A z \in Contexts : m \in SpHeld(z)' => y = z
  <2>1. flag' = [flag EXCEPT ![l] = TRUE] /\ ~flag[l]
    BY Zenon, <1>5 DEF take
  <2>2. \A z \in Contexts : l \notin SpHeld(z)
    BY ZenonT(60), <1>1, <1>5, <2>1 DEF Owners
  <2>3. \A z \in Contexts : SpHeld(z) \subseteq SpLocks
    BY ZenonT(60), <1>1, HeldLocks
  <2>4. CASE m = l
    BY ZenonT(60), <1>1, <1>5, <2>1, <2>2, <2>4 DEF SpTypeOK
  <2>5. CASE m # l
    <3>1. \A z \in Contexts : m \in SpHeld(z)' => m \in SpHeld(z)
      BY Zenon, <2>5
    <3> QED
      BY Zenon, <1>1, <1>5, <2>1, <2>3, <2>5, <3>1 DEF Owners, SpTypeOK
  <2> QED
    BY Zenon, <2>4, <2>5
<1> QED
  BY Zenon, <1>3, <1>4, <1>5 DEF Owners

\* A call gets its lock: what was pending is held, under the guard of the call.
LEMMA TakeStep ==
  ASSUME SpInv, NEW x \in Contexts, take(x)
  PROVE  SpInv'
<1>1. PICK t \in SpThreads : t = x[1]
  BY Zenon, ContextFacts
<1>2. Around(x, t)
  BY Zenon, <1>1, AroundContext
<1>3. PICK l \in SpLocks : l = wanted[x]
  BY ZenonT(60), <1>2 DEF Around, take, SpTypeOK
<1>4. wanted'[x] = NoLock /\ sp_on' = sp_on /\ preempt' = preempt /\ masked' = masked /\ in_irq' = in_irq
      /\ failed' = failed /\ l \notin SpHeld(x)
  BY ZenonT(60), <1>2, <1>3 DEF Around, take, Returned, SpTypeOK, Owners
<1>5. CASE l \in SpinRaw
  <2>1. raws' = [raws EXCEPT ![x] = @ \cup {l}] /\ guards' = guards
    BY Zenon, <1>3, <1>5 DEF take
  <2>2. SpTypeOK'
    BY ZenonT(60), <1>2, <1>3, <1>5, <2>1 DEF Around, take, Returned, SpTypeOK
  <2>3. Kept(x)
    BY ZenonT(60), <1>2, <2>1 DEF Around, take, Returned, Kept, SpTypeOK
  <2>4. Owners'
    <3>1. SpHeld(x)' = SpHeld(x) \cup {l} /\ \A y \in Contexts : y # x => SpHeld(y)' = SpHeld(y)
      BY <1>2, <2>1 DEF Around, SpTypeOK, SpHeld
    <3>2. Distinct(guards'[x])
      BY Zenon, <1>2, <2>1 DEF Around, Owners, Distinct
    <3> QED
      BY ZenonT(60), <1>3, <2>3, <3>1, <3>2, GainedLock
  <2>5. Depth(t)'
    <3>1. \A y \in Contexts : Disables(y)' = Disables(y)
      BY Zenon, <1>2, <1>3, <1>4, <1>5, <2>1, <2>3, SpAssumption DEF Kept, Disables, Pending, SpAssumption
    <3> QED
      BY ZenonT(60), <1>2, <1>4, <3>1 DEF Around, Depth, HandlerGuard, Running
  <2>6. Handlers(t)'
    BY ZenonT(60), <1>2, <1>3, <1>4, <2>1, SpAssumption
    DEF Around, take, Returned, Handlers, Executing, Masking, HoldsNoIrq, NoIrqAt, SpIdle, SpTypeOK, SpAssumption
  <2>7. Masks(x)'
    BY ZenonT(60), <1>2, <1>3, <1>4, <1>5, <2>1, SpAssumption
    DEF Around, Masks, Masking, HoldsNoIrq, NoIrqAt, SpTypeOK, SpAssumption
  <2>8. ASSUME NEW y \in Contexts, y # x, y[1] = t, Masks(y) PROVE Masks(y)'
    BY ZenonT(60), <1>2, <1>4, <2>1, <2>3, <2>8 DEF Kept, Masks, Masking, HoldsNoIrq, NoIrqAt
  <2> QED
    <3>1. Masks(Thread(t))' /\ Masks(Handler(t))'
      BY Zenon, <1>2, <2>7, <2>8 DEF Around
    <3> QED
      BY Zenon, <1>1, <2>2, <2>3, <2>4, <2>5, <2>6, <3>1, ContextStep
<1>6. CASE l \notin SpinRaw
  <2> DEFINE g == [lock |-> l, irq_state |-> saved[x]]
  <2>0. guards[x] \in Seq(Guard) /\ g \in Guard /\ Len(guards[x]) \in Nat
    BY ZenonT(60), <1>2, <1>3, <1>6, GuardFacts DEF Around, SpTypeOK, Guard
  <2>1. guards' = [guards EXCEPT ![x] = Append(@, g)] /\ raws' = raws
    BY Zenon, <1>3, <1>6 DEF take
  <2>a. guards'[x] = Append(guards[x], g) /\ \A y \in Contexts : y # x => guards'[y] = guards[y]
    BY Zenon, <1>2, <2>1 DEF Around, SpTypeOK
  <2>b. /\ guards'[x] \in Seq(Guard) /\ Len(guards'[x]) = Len(guards[x]) + 1
        /\ \A i \in 1 .. Len(guards[x]) : guards'[x][i] = guards[x][i]
        /\ guards'[x][Len(guards[x]) + 1] = g
    BY <2>0, <2>a, PushPop
  <2>c. \A i \in 1 .. Len(guards'[x]) :
          \/ i \in 1 .. Len(guards[x]) /\ guards'[x][i] = guards[x][i]
          \/ i = Len(guards[x]) + 1 /\ guards'[x][i] = g
    BY SMTT(60), <2>0, <2>b
  <2>2. SpTypeOK'
    BY Zenon, <1>2, <1>3, <2>1, <2>a, <2>b DEF Around, take, Returned, SpTypeOK
  <2>3. Kept(x)
    BY ZenonT(60), <1>2, <2>1, <2>a DEF Around, take, Returned, Kept, SpTypeOK
  <2>4. Owners'
    <3>1. SpHeld(x)' = SpHeld(x) \cup {l}
      <4>1. ASSUME NEW m \in SpHeld(x) \cup {l} PROVE m \in SpHeld(x)'
        <5>1. CASE m = l
          BY <2>0, <2>b, <5>1 DEF SpHeld
        <5>2. CASE m # l
          <6>1. CASE m \in raws[x]
            BY Zenon, <2>1, <6>1 DEF SpHeld
          <6>2. CASE m \notin raws[x]
            <7>1. PICK i \in 1 .. Len(guards[x]) : m = guards[x][i].lock
              BY Zenon, <4>1, <5>2, <6>2 DEF SpHeld
            <7>2. i \in 1 .. Len(guards'[x]) /\ m = guards'[x][i].lock
              BY SMTT(60), <2>0, <2>b, <7>1
            <7> QED
              BY Zenon, <7>2 DEF SpHeld
          <6> QED
            BY Zenon, <6>1, <6>2
        <5> QED
          BY Zenon, <5>1, <5>2
      <4>2. ASSUME NEW m \in SpHeld(x)' PROVE m \in SpHeld(x) \cup {l}
        BY <2>1, <2>c, <4>2 DEF SpHeld
      <4> QED
        BY Zenon, <4>1, <4>2
    <3>2. \A y \in Contexts : y # x => SpHeld(y)' = SpHeld(y)
      BY ZenonT(60), <2>1, <2>a DEF SpHeld
    <3>3. ASSUME NEW i \in 1 .. Len(guards'[x]), NEW j \in 1 .. Len(guards'[x]),
                 guards'[x][i].lock = guards'[x][j].lock
          PROVE  i = j
      <4>1. \A k \in 1 .. Len(guards[x]) : guards[x][k].lock # l
        BY Zenon, <1>4 DEF SpHeld
      <4>2. CASE i \in 1 .. Len(guards[x]) /\ guards'[x][i] = guards[x][i]
        <5>1. j \in 1 .. Len(guards[x]) /\ guards'[x][j] = guards[x][j]
          BY SMTT(60), <2>c, <3>3, <4>1, <4>2
        <5>2. Distinct(guards[x])
          BY Zenon, <1>2 DEF Around, Owners
        <5> QED
          BY Zenon, <3>3, <4>2, <5>1, <5>2 DEF Distinct
      <4>3. CASE i = Len(guards[x]) + 1 /\ guards'[x][i] = g
        BY SMTT(60), <2>c, <3>3, <4>1, <4>3
      <4> QED
        BY Zenon, <2>c, <4>2, <4>3
    <3> QED
      <4>1. Distinct(guards'[x])
        BY Zenon, <3>3 DEF Distinct
      <4> QED
        BY Zenon, <1>3, <2>3, <3>1, <3>2, <4>1, GainedLock
  <2>5. Depth(t)'
    <3>1. Pending(x) = 1 /\ Pending(x)' = 0
      BY Zenon, <1>3, <1>4, <1>6, SpAssumption DEF Pending, SpAssumption
    <3>2. Disables(x)' = Disables(x)
      BY SMTT(60), <2>0, <2>b, <3>1 DEF Disables
    <3>3. \A y \in Contexts : y # x => Disables(y)' = Disables(y)
      BY Zenon, <2>3 DEF Kept, Disables, Pending
    <3> QED
      BY ZenonT(60), <1>2, <1>4, <3>2, <3>3 DEF Around, Depth, HandlerGuard, Running
  <2>6. Handlers(t)'
    <3>1. CASE x = Handler(t)
      <4>1. l \in SpinNoIrq /\ saved[x]
        BY ZenonT(60), <1>2, <1>3, <1>6, <3>1 DEF Around, Handlers, take
      <4>2. in_irq[t] = "handler" /\ wanted'[x] \notin SpinNoPreempt
        BY ZenonT(60), <1>2, <1>4, <3>1, SpAssumption DEF Around, take, Executing, SpAssumption
      <4>3. Masking(Thread(t))' = Masking(Thread(t))
        BY ZenonT(60), <1>2, <2>3, <3>1 DEF Around, Kept, Masking, HoldsNoIrq, NoIrqAt
      <4>4. \A i \in 1 .. Len(guards'[x]) : guards'[x][i].lock \in SpinNoIrq /\ guards'[x][i].irq_state
        <5>1. \A i \in 1 .. Len(guards[x]) : guards[x][i].lock \in SpinNoIrq /\ guards[x][i].irq_state
          BY Zenon, <1>2, <3>1 DEF Around, Handlers, NoIrqAt
        <5> QED
          BY SMTT(60), <2>c, <4>1, <5>1
      <4> QED
        BY ZenonT(60), <1>2, <1>4, <3>1, <4>2, <4>3, <4>4 DEF Around, Handlers, NoIrqAt
    <3>2. CASE x = Thread(t)
      <4>1. in_irq[t] = "no"
        BY Zenon, <1>2, <3>2 DEF Around, take, Executing
      <4> QED
        BY ZenonT(60), <1>2, <1>4, <2>3, <3>2, <4>1 DEF Around, Handlers, Kept, SpIdle, NoIrqAt
    <3> QED
      BY Zenon, <1>2, <3>1, <3>2 DEF Around
  <2>7. Masks(x)'
    <3>1. Masking(x)' => Masking(x)
      BY <1>3, <1>4, <2>1, <2>c, SpAssumption DEF Masking, HoldsNoIrq, NoIrqAt, SpAssumption
    <3>2. ASSUME NEW i \in 1 .. Len(guards'[x]), NEW j \in 1 .. Len(guards'[x]), i < j,
                 NoIrqAt(x, i)', NoIrqAt(x, j)'
          PROVE  guards'[x][j].irq_state
      <4>1. i \in 1 .. Len(guards[x]) /\ NoIrqAt(x, i)
        BY SMTT(60), <2>0, <2>b, <2>c, <3>2 DEF NoIrqAt
      <4>2. CASE j \in 1 .. Len(guards[x])
        BY ZenonT(60), <1>2, <2>b, <3>2, <4>1, <4>2 DEF Around, Masks, NoIrqAt
      <4>3. CASE j \notin 1 .. Len(guards[x])
        <5>1. guards'[x][j] = g /\ l \in SpinNoIrq
          <6>1. guards'[x][j] = g /\ guards'[x][j].lock \in SpinNoIrq
            BY Zenon, <2>c, <3>2, <4>3 DEF NoIrqAt
          <6>2. g.lock = l
            BY Zenon
          <6> QED
            BY Zenon, <6>1, <6>2
        <5>2. HoldsNoIrq(x)
          BY Zenon, <4>1 DEF HoldsNoIrq
        <5>3. saved[x]
          BY Zenon, <1>2, <1>3, <5>1, <5>2 DEF Around, Masks
        <5>4. g.irq_state = saved[x]
          BY Zenon
        <5> QED
          BY Zenon, <5>1, <5>3, <5>4
      <4> QED
        BY Zenon, <4>2, <4>3
    <3> QED
      BY ZenonT(60), <1>2, <1>4, <2>1, <3>1, <3>2, SpAssumption DEF Around, Masks, SpAssumption
  <2>8. ASSUME NEW y \in Contexts, y # x, y[1] = t, Masks(y) PROVE Masks(y)'
    BY ZenonT(60), <1>2, <1>4, <2>1, <2>3, <2>8 DEF Kept, Masks, Masking, HoldsNoIrq, NoIrqAt
  <2> QED
    <3>1. Masks(Thread(t))' /\ Masks(Handler(t))'
      BY Zenon, <1>2, <2>7, <2>8 DEF Around
    <3> QED
      BY Zenon, <1>1, <2>2, <2>3, <2>4, <2>5, <2>6, <3>1, ContextStep
<1> QED
  BY Zenon, <1>5, <1>6

\* A try that fails leaves its guard: the thread keeps one count more.
LEMMA TryFailsStep ==
  ASSUME SpInv, NEW x \in Contexts, try_fails(x)
  PROVE  SpInv'
<1>1. PICK t \in SpThreads : t = x[1]
  BY Zenon, ContextFacts
<1>2. Around(x, t)
  BY Zenon, <1>1, AroundContext
<1>3. wanted'[x] = NoLock /\ sp_on' = sp_on /\ preempt' = preempt /\ masked' = masked /\ in_irq' = in_irq
      /\ guards' = guards /\ raws' = raws /\ flag' = flag
  BY Zenon, <1>2 DEF Around, try_fails, Returned, SpTypeOK
<1>4. SpTypeOK'
  <2>1. failed[t] + 1 \in Nat
    BY SMT, <1>2 DEF Around
  <2>2. failed' \in [SpThreads -> Nat]
    BY ZenonT(60), <1>2, <2>1 DEF Around, try_fails, SpTypeOK
  <2> QED
    BY ZenonT(60), <1>2, <2>2 DEF Around, try_fails, Returned, SpTypeOK
<1>5. Kept(x)
  BY ZenonT(60), <1>2 DEF Around, try_fails, Returned, Kept, SpTypeOK
<1>6. Owners'
  <2>1. \A y \in Contexts : SpHeld(y)' = SpHeld(y) /\ NoLock \notin SpHeld(y)
    <3>1. \A y \in Contexts : SpHeld(y)' = SpHeld(y)
      BY Zenon, <1>3 DEF SpHeld
    <3>2. NoLock \notin SpLocks
      BY Zenon, SpAssumption DEF SpAssumption
    <3> QED
      BY Zenon, <1>2, <3>1, <3>2, HeldLocks DEF Around
  <2>2. \A y \in Contexts : wanted'[y] \notin SpHeld(y)'
    <3>1. ASSUME NEW y \in Contexts, y # x PROVE wanted'[y] = wanted[y] /\ wanted[y] \notin SpHeld(y)
      BY Zenon, <1>2, <1>5, <3>1 DEF Around, Owners, Kept
    <3> QED
      BY Zenon, <1>3, <2>1, <3>1
  <2> QED
    BY Zenon, <1>2, <1>3, <2>1, <2>2, SameOwners DEF Around
<1>7. Depth(t)'
  <2>1. \A y \in Contexts : y # x => Disables(y)' = Disables(y)
    BY Zenon, <1>3, <1>5 DEF Kept, Disables, Pending
  <2>2. Len(guards[x]) \in Nat /\ Pending(x)' = 0
    BY Zenon, <1>2, <1>3, GuardFacts, SpAssumption DEF Around, Pending, SpAssumption
  <2>3. CASE wanted[x] \in SpinRaw
    <3>1. failed' = failed /\ Pending(x) = 0
      BY Zenon, <2>3, SpAssumption DEF try_fails, Pending, SpAssumption
    <3> QED
      BY ZenonT(60), <1>2, <1>3, <2>1, <2>2, <3>1 DEF Around, Depth, Disables, HandlerGuard, Running
  <2>4. CASE wanted[x] \notin SpinRaw
    <3>1. failed'[t] = failed[t] + 1 /\ Pending(x) = 1
      BY Zenon, <1>1, <1>2, <2>4 DEF Around, try_fails, Pending, SpTypeOK
    <3>2. Disables(x) = Disables(x)' + 1 /\ Disables(x)' \in Nat
      BY SMTT(60), <1>3, <2>2, <3>1 DEF Disables
    <3>3. preempt[t] = Disables(Thread(t))' + Disables(Handler(t))' + HandlerGuard(t) + failed'[t]
      BY SMTT(60), <1>2, <2>1, <3>1, <3>2 DEF Around, Depth
    <3> QED
      BY Zenon, <1>2, <1>3, <3>3 DEF Around, Depth, HandlerGuard, Running
  <2> QED
    BY Zenon, <2>3, <2>4
<1>8. Handlers(t)'
  <2>1. Masking(Thread(t))' => Masking(Thread(t))
    BY ZenonT(60), <1>2, <1>3, <1>5, SpAssumption DEF Around, Kept, Masking, HoldsNoIrq, NoIrqAt, SpAssumption
  <2>2. SpIdle(Handler(t)) => SpIdle(Handler(t))'
    BY ZenonT(60), <1>2, <1>3, <1>5 DEF Around, Kept, SpIdle
  <2>3. /\ \/ wanted'[Handler(t)] = NoLock
           \/ wanted'[Handler(t)] = wanted[Handler(t)] /\ saved'[Handler(t)] = saved[Handler(t)]
        /\ NoLock \notin SpinNoPreempt
    BY ZenonT(60), <1>2, <1>3, <1>5, SpAssumption DEF Around, Kept, SpAssumption
  <2> QED
    BY ZenonT(60), <1>2, <1>3, <2>1, <2>2, <2>3 DEF Around, Handlers, NoIrqAt
<1>9. Masks(x)'
  BY ZenonT(60), <1>2, <1>3, SpAssumption DEF Around, Masks, Masking, HoldsNoIrq, NoIrqAt, SpAssumption
<1>10. ASSUME NEW y \in Contexts, y # x, Masks(y) PROVE Masks(y)'
  BY Zenon, <1>3, <1>5, <1>10 DEF Kept, Masks, Masking, HoldsNoIrq, NoIrqAt
<1> QED
  <2>1. Masks(Thread(t))' /\ Masks(Handler(t))'
    BY Zenon, <1>2, <1>9, <1>10 DEF Around
  <2> QED
    BY Zenon, <1>1, <1>4, <1>5, <1>6, <1>7, <1>8, <2>1, ContextStep

\* Owners stay apart when a context drops a lock it holds.
LEMMA LostLock ==
  ASSUME SpInv, NEW x \in Contexts, NEW l \in SpHeld(x), wanted' = wanted, flag' = [flag EXCEPT ![l] = FALSE],
         SpHeld(x)' = SpHeld(x) \ {l}, \A y \in Contexts : y # x => SpHeld(y)' = SpHeld(y),
         \A y \in Contexts : Distinct(guards'[y])
  PROVE  Owners'
<1>1. Owners /\ SpTypeOK
  BY Zenon DEF SpInv
<1>2. \A y \in Contexts : SpHeld(y)' \subseteq SpHeld(y) /\ SpHeld(y) \subseteq SpLocks
  BY Zenon, <1>1, HeldLocks
<1>3. \A y \in Contexts : wanted'[y] \notin SpHeld(y)'
  BY Zenon, <1>1, <1>2 DEF Owners
<1>4. ASSUME SpSmp, NEW y \in Contexts, NEW m, m \in SpHeld(y)'
      PROVE  flag'[m] /\ \A z \in Contexts : m \in SpHeld(z)' => y = z
  <2>1. m \in SpHeld(y) /\ m \in SpLocks /\ flag[m] /\ \A z \in Contexts : m \in SpHeld(z) => y = z
    BY Zenon, <1>1, <1>2, <1>4 DEF Owners
  <2>2. m # l
    BY ZenonT(60), <1>4, <2>1
  <2>3. flag'[m] = flag[m]
    BY Zenon, <1>1, <2>1, <2>2 DEF SpTypeOK
  <2> QED
    BY Zenon, <1>2, <2>1, <2>3
<1> QED
  BY Zenon, <1>3, <1>4 DEF Owners

\* The guard taken last is dropped: what it found masked is masked again, and that is
\* enough for the guards below it.
LEMMA ReleaseStep ==
  ASSUME SpInv, NEW x \in Contexts, release(x)
  PROVE  SpInv'
<1>1. PICK t \in SpThreads : t = x[1]
  BY Zenon, ContextFacts
<1>2. Around(x, t)
  BY Zenon, <1>1, AroundContext
<1>3. PICK n \in Nat \ {0} : n = Len(guards[x])
  BY Zenon, <1>2, PushPop DEF Around, release, SpTypeOK
<1>4. PICK g \in Guard : g = guards[x][n]
  <2>1. n \in 1 .. n
    BY SMT
  <2> QED
    BY Zenon, <1>2, <1>3, <2>1, GuardFacts DEF Around
<1>5. /\ wanted[x] = NoLock /\ raws[x] = {} /\ sp_on' = sp_on /\ in_irq' = in_irq /\ wanted' = wanted
      /\ saved' = saved /\ raws' = raws /\ failed' = failed /\ flag' = [flag EXCEPT ![g.lock] = FALSE]
      /\ g.lock \in SpinNoIrq \cup SpinNoPreempt
  BY Zenon, <1>2, <1>3, <1>4 DEF release, Guard
<1>6. /\ preempt' = [preempt EXCEPT ![t] = @ - 1] /\ preempt'[t] = preempt[t] - 1
      /\ masked' = IF g.lock \in SpinNoIrq THEN [masked EXCEPT ![t] = g.irq_state] ELSE masked
  BY Zenon, <1>1, <1>2, <1>3, <1>4 DEF Around, release, SpTypeOK
<1>7. guards'[x] = SubSeq(guards[x], 1, Len(guards[x]) - 1) /\ \A y \in Contexts : y # x => guards'[y] = guards[y]
  BY Zenon, <1>2 DEF Around, release, SpTypeOK
<1>8. /\ guards'[x] \in Seq(Guard) /\ Len(guards'[x]) = n - 1
      /\ \A i \in 1 .. n - 1 : i \in 1 .. n /\ i # n /\ i < n /\ guards'[x][i] = guards[x][i]
  <2>1. guards[x] \in Seq(Guard) /\ guards[x] # <<>>
    BY Zenon, <1>2 DEF Around, release, SpTypeOK
  <2> QED
    BY SMTT(60), <1>3, <1>7, <2>1, PushPop
<1>9. Disables(x) = n /\ Disables(x)' = n - 1 /\ preempt[t] > 0
  <2>1. Pending(x) = 0 /\ Pending(x)' = 0
    BY Zenon, <1>5, SpAssumption DEF Pending, SpAssumption
  <2>2. Disables(x) = n /\ Disables(x)' = n - 1
    BY <1>3, <1>8, <2>1 DEF Disables
  <2>3. Disables(Thread(t)) > 0 \/ Disables(Handler(t)) > 0
    BY SMTT(60), <1>2, <2>2 DEF Around
  <2> QED
    BY <1>2, <2>2, <2>3, SumPositive DEF Around, Depth
<1>10. SpTypeOK'
  <2>1. preempt' \in [SpThreads -> Nat]
    <3>1. preempt[t] - 1 \in Nat
      BY SMT, <1>2, <1>9 DEF Around
    <3> QED
      BY Zenon, <1>2, <1>6, <3>1 DEF Around, SpTypeOK
  <2>2. masked' \in [SpThreads -> BOOLEAN]
    BY Zenon, <1>2, <1>4, <1>6 DEF Around, SpTypeOK, Guard
  <2>3. guards' \in [Contexts -> Seq(Guard)]
    BY Zenon, <1>2, <1>7, <1>8 DEF Around, release, SpTypeOK
  <2> QED
    BY ZenonT(60), <1>2, <1>5, <2>1, <2>2, <2>3 DEF Around, release, SpTypeOK
<1>11. Kept(x)
  BY ZenonT(60), <1>1, <1>2, <1>5, <1>6, <1>7 DEF Around, Kept, SpTypeOK
<1>12. Owners'
  <2>1. SpHeld(x)' = SpHeld(x) \ {g.lock} /\ g.lock \in SpHeld(x)
    <3>1. 1 .. n = (1 .. n - 1) \cup {n}
      BY SMTT(60)
    <3>2. SpHeld(x) = {guards[x][i].lock : i \in 1 .. n}
      BY Zenon, <1>3, <1>5 DEF SpHeld
    <3>3. SpHeld(x)' = {guards[x][i].lock : i \in 1 .. n - 1}
      <4>1. SpHeld(x)' = {guards'[x][i].lock : i \in 1 .. n - 1}
        BY Zenon, <1>5, <1>8 DEF SpHeld
      <4> QED
        BY ZenonT(60), <1>8, <4>1
    <3>4. \A i \in 1 .. n - 1 : guards[x][i].lock # g.lock
      <4>1. Distinct(guards[x]) /\ n \in 1 .. n
        BY Zenon, <1>2, <3>1 DEF Around, Owners
      <4> QED
        BY ZenonT(60), <1>3, <1>4, <1>8, <4>1 DEF Distinct
    <3> QED
      BY ZenonT(60), <1>4, <3>1, <3>2, <3>3, <3>4
  <2>2. \A y \in Contexts : y # x => SpHeld(y)' = SpHeld(y)
    BY ZenonT(60), <1>5, <1>7 DEF SpHeld
  <2>3. ASSUME NEW i \in 1 .. Len(guards'[x]), NEW j \in 1 .. Len(guards'[x]),
               guards'[x][i].lock = guards'[x][j].lock
        PROVE  i = j
    <3>1. /\ i \in 1 .. Len(guards[x]) /\ guards'[x][i] = guards[x][i]
          /\ j \in 1 .. Len(guards[x]) /\ guards'[x][j] = guards[x][j]
      BY Zenon, <1>3, <1>8, <2>3
    <3>2. Distinct(guards[x])
      BY Zenon, <1>2 DEF Around, Owners
    <3> QED
      BY Zenon, <2>3, <3>1, <3>2 DEF Distinct
  <2>4. ASSUME NEW y \in Contexts PROVE Distinct(guards'[y])
    <3>1. CASE y = x
      BY Zenon, <2>3, <3>1 DEF Distinct
    <3>2. CASE y # x
      <4>1. Distinct(guards[y])
        BY Zenon, <1>2 DEF Around, Owners
      <4> QED
        BY Zenon, <1>7, <3>2, <4>1 DEF Distinct
    <3> QED
      BY Zenon, <3>1, <3>2
  <2> QED
    BY Zenon, <1>5, <2>1, <2>2, <2>4, LostLock
<1>13. Depth(t)'
  <2>1. \A y \in Contexts : y # x => Disables(y)' = Disables(y)
    BY Zenon, <1>5, <1>7 DEF Disables, Pending
  <2>2. preempt'[t] = Disables(Thread(t))' + Disables(Handler(t))' + HandlerGuard(t) + failed[t]
    BY SMTT(60), <1>2, <1>6, <1>9, <2>1 DEF Around, Depth
  <2> QED
    BY Zenon, <1>2, <1>5, <1>9, <2>2 DEF Around, Depth, HandlerGuard, Running
<1>14. Masks(x)'
  <2>1. ASSUME HoldsNoIrq(x)' PROVE masked'[t]
    <3>1. PICK i \in 1 .. n - 1 : NoIrqAt(x, i)
      BY Zenon, <1>8, <2>1 DEF HoldsNoIrq, NoIrqAt
    <3>2. masked[t]
      BY Zenon, <1>2, <1>3, <1>8, <3>1 DEF Around, Masks, Masking, HoldsNoIrq
    <3>3. CASE g.lock \in SpinNoIrq
      <4>0. n \in 1 .. n
        BY SMTT(60)
      <4>1. i \in 1 .. Len(guards[x]) /\ n \in 1 .. Len(guards[x]) /\ i < n /\ NoIrqAt(x, n)
        BY Zenon, <1>3, <1>4, <1>8, <3>1, <3>3, <4>0 DEF NoIrqAt
      <4>2. g.irq_state
        BY ZenonT(60), <1>2, <1>4, <3>1, <4>1 DEF Around, Masks
      <4> QED
        BY Zenon, <1>2, <1>6, <3>3, <4>2 DEF Around, SpTypeOK
    <3> QED
      BY Zenon, <1>6, <3>2, <3>3
  <2>2. \A i, j \in 1 .. Len(guards'[x]) : i < j /\ NoIrqAt(x, i)' /\ NoIrqAt(x, j)' => guards'[x][j].irq_state
    BY ZenonT(60), <1>2, <1>3, <1>8 DEF Around, Masks, NoIrqAt
  <2> QED
    BY Zenon, <1>1, <1>2, <1>5, <2>1, <2>2, SpAssumption DEF Around, Masks, Masking, SpAssumption
<1>15. ASSUME NEW y \in Contexts, y # x, y[1] = t, Masks(y) PROVE Masks(y)'
  <2>1. ~Masking(y)
    <3>1. CASE y = Thread(t)
      <4>1. x = Handler(t) /\ in_irq[t] = "handler"
        BY Zenon, <1>2, <1>15, <3>1 DEF Around, release, Executing
      <4> QED
        BY Zenon, <1>2, <3>1, <4>1 DEF Around, Handlers
    <3>2. CASE y = Handler(t)
      <4>1. x = Thread(t) /\ in_irq[t] = "no"
        BY Zenon, <1>2, <1>15, <3>2 DEF Around, release, Executing
      <4> QED
        BY Zenon, <1>2, <3>2, <4>1, IdleMasksNot DEF Around, Handlers
    <3> QED
      BY Zenon, <1>15, <3>1, <3>2, ContextFacts
  <2> QED
    BY Zenon, <1>5, <1>7, <1>15, <2>1 DEF Masks, Masking, HoldsNoIrq, NoIrqAt
<1>16. Handlers(t)'
  <2>1. CASE x = Handler(t)
    <3>1. in_irq[t] = "handler" /\ masked[t] /\ g.irq_state
      <4>1. in_irq[t] = "handler"
        BY Zenon, <1>2, <2>1 DEF Around, release, Executing
      <4>2. n \in 1 .. n
        BY SMT
      <4> QED
        BY Zenon, <1>2, <1>3, <1>4, <2>1, <4>1, <4>2 DEF Around, Handlers
    <3>2. masked'[t]
      BY Zenon, <1>2, <1>6, <3>1 DEF Around, SpTypeOK
    <3>3. Masking(Thread(t))' = Masking(Thread(t))
      BY ZenonT(60), <1>2, <1>11, <2>1 DEF Around, Kept, Masking, HoldsNoIrq, NoIrqAt
    <3>4. \A i \in 1 .. Len(guards'[x]) : guards'[x][i].lock \in SpinNoIrq /\ guards'[x][i].irq_state
      BY ZenonT(60), <1>2, <1>3, <1>8, <2>1 DEF Around, Handlers, NoIrqAt
    <3> QED
      BY Zenon, <1>2, <1>5, <2>1, <3>1, <3>2, <3>3, <3>4 DEF Around, Handlers, NoIrqAt
  <2>2. CASE x = Thread(t)
    <3>1. in_irq[t] = "no"
      BY Zenon, <1>2, <2>2 DEF Around, release, Executing
    <3> QED
      BY ZenonT(60), <1>2, <1>5, <1>11, <2>2, <3>1 DEF Around, Handlers, Kept, SpIdle, NoIrqAt
  <2> QED
    BY Zenon, <1>2, <2>1, <2>2 DEF Around
<1> QED
  <2>1. Masks(Thread(t))' /\ Masks(Handler(t))'
    BY Zenon, <1>2, <1>14, <1>15 DEF Around
  <2> QED
    BY Zenon, <1>1, <1>10, <1>11, <1>12, <1>13, <1>16, <2>1, ContextStep

\* A raw lock is dropped: nothing but its flag and its holder change.
LEMMA ReleaseRawStep ==
  ASSUME SpInv, NEW x \in Contexts, NEW l \in SpLocks, release_raw(x, l)
  PROVE  SpInv'
<1>1. PICK t \in SpThreads : t = x[1]
  BY Zenon, ContextFacts
<1>2. Around(x, t)
  BY Zenon, <1>1, AroundContext
<1>3. /\ sp_on' = sp_on /\ preempt' = preempt /\ masked' = masked /\ in_irq' = in_irq /\ wanted' = wanted
      /\ saved' = saved /\ guards' = guards /\ failed' = failed /\ flag' = [flag EXCEPT ![l] = FALSE]
      /\ raws'[x] = raws[x] \ {l} /\ l \in raws[x] /\ \A y \in Contexts : y # x => raws'[y] = raws[y]
  BY ZenonT(60), <1>2 DEF Around, release_raw, SpTypeOK
<1>4. SpTypeOK'
  BY ZenonT(60), <1>2 DEF Around, release_raw, SpTypeOK
<1>5. Kept(x)
  BY ZenonT(60), <1>3 DEF Kept
<1>6. Owners'
  <2>1. \A i \in 1 .. Len(guards[x]) : guards[x][i].lock # l
    <3>1. l \in SpinRaw /\ SpinRaw \cap (SpinNoIrq \cup SpinNoPreempt) = {}
      BY Zenon, <1>2, <1>3, GuardFacts, SpAssumption DEF Around, SpAssumption
    <3> QED
      BY Zenon, <1>2, <3>1, GuardFacts DEF Around
  <2>2. SpHeld(x)' = SpHeld(x) \ {l} /\ l \in SpHeld(x) /\ \A y \in Contexts : y # x => SpHeld(y)' = SpHeld(y)
    BY ZenonT(60), <1>3, <2>1 DEF SpHeld
  <2>3. \A y \in Contexts : Distinct(guards'[y])
    BY Zenon, <1>2, <1>3 DEF Around, Owners
  <2> QED
    BY Zenon, <1>3, <2>2, <2>3, LostLock
<1>7. Depth(t)'
  BY ZenonT(60), <1>2, <1>3 DEF Around, Depth, Disables, Pending, HandlerGuard, Running
<1>8. Handlers(t)'
  BY ZenonT(60), <1>2, <1>3 DEF Around, release_raw, Executing, Handlers, Masking, HoldsNoIrq, NoIrqAt, SpIdle
<1>9. ASSUME NEW y \in Contexts, Masks(y) PROVE Masks(y)'
  BY Zenon, <1>3, <1>9 DEF Masks, Masking, HoldsNoIrq, NoIrqAt
<1> QED
  <2>1. Masks(Thread(t))' /\ Masks(Handler(t))'
    BY Zenon, <1>2, <1>9 DEF Around
  <2> QED
    BY ZenonT(60), <1>1, <1>4, <1>5, <1>6, <1>7, <1>8, <2>1, ContextStep

\* An interrupt comes only where none is masked, so its thread holds nothing that a
\* handler may want; the handler ends with nothing held.
LEMMA HandlerStep ==
  ASSUME SpInv, NEW c \in SpCpus, handle_irq(c) \/ irq_handled(c) \/ irq_return(c)
  PROVE  SpInv'
<1>1. PICK t \in SpThreads : t = sp_on[c]
  BY Zenon DEF SpInv, SpTypeOK
<1>2. Around(Thread(t), t)
  BY Zenon, ContextFacts, AroundContext
<1>3. /\ sp_on' = sp_on /\ flag' = flag /\ wanted' = wanted /\ try' = try /\ saved' = saved
      /\ guards' = guards /\ raws' = raws /\ failed' = failed
  BY Zenon DEF handle_irq, irq_handled, irq_return
<1>4. \A y \in Contexts : Disables(y)' = Disables(y) /\ Masking(y)' = Masking(y) /\ SpIdle(y)' = SpIdle(y)
  BY ZenonT(60), <1>3 DEF Disables, Pending, Masking, HoldsNoIrq, NoIrqAt, SpIdle
<1>5. Owners'
  <2>1. \A y \in Contexts : SpHeld(y)' = SpHeld(y)
    BY Zenon, <1>3, SameHeld
  <2>2. Owners
    BY Zenon, <1>2 DEF Around
  <2>3. \A y \in Contexts : wanted'[y] \notin SpHeld(y)'
    BY Zenon, <1>3, <2>1, <2>2 DEF Owners
  <2> QED
    BY Zenon, <1>3, <2>1, <2>2, <2>3, SameOwners
<1>6. Running(t) /\ Running(t)'
  BY Zenon, <1>1, <1>3 DEF Running, SpInv, SpTypeOK
<1>7. \A y \in Contexts : y[1] = t /\ ~Masking(y) => Masks(y)'
  BY Zenon, <1>3, <1>4 DEF Masks, Masking, HoldsNoIrq
<1>8. CASE handle_irq(c)
  <2>1. /\ in_irq[t] = "no" /\ in_irq'[t] = "handler" /\ ~masked[t] /\ masked'[t]
        /\ preempt'[t] = preempt[t] + 1
    BY Zenon, <1>1, <1>2, <1>8 DEF Around, handle_irq, SpTypeOK
  <2>2. SpTypeOK'
    <3>1. preempt[t] + 1 \in Nat
      BY SMT, <1>2 DEF Around
    <3> QED
      BY ZenonT(60), <1>1, <1>2, <1>3, <1>8, <3>1 DEF Around, handle_irq, SpTypeOK
  <2>3. Kept(Thread(t))
    BY ZenonT(60), <1>1, <1>2, <1>3, <1>8 DEF Around, Kept, handle_irq, SpTypeOK
  <2>4. ~Masking(Thread(t)) /\ ~Masking(Handler(t))
    BY Zenon, <1>2, <2>1 DEF Around, Masks
  <2>5. Depth(t)'
    <3>1. HandlerGuard(t) = 0 /\ HandlerGuard(t)' = 1
      BY Zenon, <2>1 DEF HandlerGuard
    <3>2. preempt'[t] = Disables(Thread(t)) + Disables(Handler(t)) + 1 + failed[t]
      BY SMTT(60), <1>2, <2>1, <3>1 DEF Around, Depth
    <3> QED
      BY Zenon, <1>2, <1>3, <1>4, <1>6, <3>1, <3>2 DEF Around, Depth
  <2>6. Handlers(t)'
    BY Zenon, <1>2, <1>3, <1>4, <2>1, <2>4 DEF Around, Handlers, NoIrqAt
  <2> QED
    BY Zenon, <1>2, <1>5, <1>7, <2>2, <2>3, <2>4, <2>5, <2>6, ContextStep DEF Around
<1>9. CASE irq_handled(c)
  <2>1. /\ in_irq[t] = "handler" /\ in_irq'[t] = "leaving" /\ masked' = masked
        /\ preempt'[t] = preempt[t] - 1 /\ preempt' = [preempt EXCEPT ![t] = @ - 1]
    BY Zenon, <1>1, <1>2, <1>9 DEF Around, irq_handled, SpTypeOK
  <2>2. SpIdle(Handler(t))
    <3>1. wanted[Handler(t)] = NoLock /\ SpHeld(Handler(t)) = {}
      BY Zenon, <1>1, <1>9 DEF irq_handled
    <3>2. raws[Handler(t)] = {} /\ 1 .. Len(guards[Handler(t)]) = {}
      BY Zenon, <3>1 DEF SpHeld
    <3>3. guards[Handler(t)] \in Seq(Guard)
      BY Zenon, <1>2, GuardFacts DEF Around
    <3>4. Len(guards[Handler(t)]) = 0
      <4>1. PICK n \in Nat : n = Len(guards[Handler(t)])
        BY SMTT(60), <3>3
      <4>2. 1 \notin 1 .. n
        BY Zenon, <3>2, <4>1
      <4> QED
        BY <4>1, <4>2
    <3> QED
      BY SMTT(60), <3>1, <3>2, <3>3, <3>4 DEF SpIdle
  <2>3. HandlerGuard(t) = 1 /\ HandlerGuard(t)' = 0
    BY Zenon, <2>1 DEF HandlerGuard
  <2>4. /\ preempt[t] = Disables(Thread(t)) + Disables(Handler(t)) + 1 + failed[t]
        /\ preempt'[t] = Disables(Thread(t)) + Disables(Handler(t)) + 0 + failed[t]
        /\ preempt[t] > 0
    BY SMTT(60), <1>2, <2>1, <2>3 DEF Around, Depth
  <2>5. SpTypeOK'
    <3>1. preempt' \in [SpThreads -> Nat]
      <4>1. preempt[t] - 1 \in Nat
        BY SMT, <1>2, <2>4 DEF Around
      <4> QED
        BY Zenon, <1>2, <2>1, <4>1 DEF Around, SpTypeOK
    <3> QED
      BY ZenonT(60), <1>2, <1>3, <1>9, <3>1 DEF Around, irq_handled, SpTypeOK
  <2>6. Kept(Thread(t))
    BY ZenonT(60), <1>1, <1>2, <1>3, <1>9 DEF Around, Kept, irq_handled, SpTypeOK
  <2>7. ~Masking(Thread(t)) /\ ~Masking(Handler(t))
    BY Zenon, <1>2, <2>1, <2>2, IdleMasksNot DEF Around, Handlers
  <2>8. Depth(t)'
    BY Zenon, <1>2, <1>3, <1>4, <1>6, <2>3, <2>4 DEF Around, Depth
  <2>9. Handlers(t)'
    BY Zenon, <1>2, <1>3, <1>4, <2>1, <2>2, <2>7 DEF Around, Handlers, NoIrqAt
  <2> QED
    BY Zenon, <1>2, <1>5, <1>7, <2>5, <2>6, <2>7, <2>8, <2>9, ContextStep DEF Around
<1>10. CASE irq_return(c)
  <2>1. in_irq[t] = "leaving" /\ in_irq'[t] = "no" /\ preempt' = preempt
    BY Zenon, <1>1, <1>2, <1>10 DEF Around, irq_return, SpTypeOK
  <2>2. SpTypeOK'
    BY ZenonT(60), <1>1, <1>2, <1>3, <1>10 DEF Around, irq_return, SpTypeOK
  <2>3. Kept(Thread(t))
    BY ZenonT(60), <1>1, <1>2, <1>3, <1>10 DEF Around, Kept, irq_return, SpTypeOK
  <2>4. ~Masking(Thread(t)) /\ SpIdle(Handler(t))
    BY Zenon, <1>2, <2>1 DEF Around, Handlers
  <2>5. ~Masking(Handler(t))
    BY Zenon, <1>2, <2>4, IdleMasksNot DEF Around
  <2>6. Depth(t)'
    BY Zenon, <1>2, <1>3, <1>4, <1>6, <2>1 DEF Around, Depth, HandlerGuard
  <2>7. Handlers(t)'
    BY Zenon, <1>2, <1>3, <1>4, <2>1, <2>4 DEF Around, Handlers, NoIrqAt
  <2> QED
    BY Zenon, <1>2, <1>5, <1>7, <2>2, <2>3, <2>4, <2>5, <2>6, <2>7, ContextStep DEF Around
<1> QED
  BY Zenon, <1>8, <1>9, <1>10

\* A CPU turns to another thread: the one it leaves has preemption enabled.
LEMMA SwitchStep ==
  ASSUME SpInv, NEW c \in SpCpus, NEW t \in SpThreads, switch_to(c, t)
  PROVE  SpInv'
<1>1. /\ SpTypeOK /\ sp_on' = [sp_on EXCEPT ![c] = t] /\ ~Running(t) /\ preempt[sp_on[c]] = 0
      /\ UNCHANGED <<preempt, masked, in_irq, flag, wanted, try, saved, guards, raws, failed>>
  BY Zenon DEF SpInv, switch_to
<1>2. SpTypeOK'
  BY Zenon, <1>1 DEF SpTypeOK
<1>3. \A d, e \in SpCpus : sp_on'[d] = sp_on'[e] => d = e
  BY Zenon, <1>1 DEF SpInv, SpTypeOK, Running
<1>4. ASSUME NEW s \in SpThreads PROVE Depth(s)'
  <2>1. Depth(s) /\ preempt[s] \in Nat
    BY Zenon, <1>1 DEF SpInv, SpTypeOK
  <2>2. preempt[s] > 0 => Running(s)'
    BY SMTT(60), <1>1, <2>1 DEF Depth, Running, SpTypeOK
  <2> QED
    BY Zenon, <1>1, <2>1, <2>2 DEF Depth, Disables, Pending, HandlerGuard
<1>5. ASSUME NEW s \in SpThreads PROVE Handlers(s)'
  <2>1. Handlers(s)
    BY Zenon DEF SpInv
  <2> QED
    BY Zenon, <1>1, <2>1 DEF Handlers, Masking, HoldsNoIrq, NoIrqAt, SpIdle
<1>6. ASSUME NEW x \in Contexts PROVE Masks(x)'
  <2>1. Masks(x)
    BY Zenon DEF SpInv
  <2> QED
    BY Zenon, <1>1, <2>1 DEF Masks, Masking, HoldsNoIrq, NoIrqAt
<1>7. Owners'
  <2>1. Owners
    BY Zenon DEF SpInv
  <2> QED
    <3>1. \A y \in Contexts : SpHeld(y)' = SpHeld(y)
      BY Zenon, <1>1, SameHeld
    <3>2. \A y \in Contexts : wanted'[y] \notin SpHeld(y)'
      BY Zenon, <1>1, <2>1, <3>1 DEF Owners
    <3> QED
      BY Zenon, <1>1, <2>1, <3>1, <3>2, SameOwners
<1> QED
  BY Zenon, <1>2, <1>3, <1>4, <1>5, <1>6, <1>7 DEF SpInv

\* The strengthening of LocksExclude is an invariant of the spin locks: the counts and
\* the masks agree with what is held in every reachable state.
THEOREM SpInvThm == SpSpec => []SpInv
<1>1. SpInit => SpInv
  BY Zenon, SpInitInv
<1>2. SpInv /\ [SpNext]_sp_vars => SpInv'
  <2>1. ASSUME SpInv, SpNext PROVE SpInv'
    BY Zenon, <2>1, AcquireStep, TakeStep, TryFailsStep, ReleaseStep, ReleaseRawStep, HandlerStep, SwitchStep DEF SpNext
  <2>2. ASSUME SpInv, UNCHANGED sp_vars PROVE SpInv'
    <3>1. ASSUME NEW t \in SpThreads PROVE Depth(t)' /\ Handlers(t)'
      <4>1. Depth(t) /\ Handlers(t)
        BY Zenon, <2>2 DEF SpInv
      <4>2. Depth(t)'
        BY Zenon, <2>2, <4>1 DEF sp_vars, Depth, Disables, Pending, HandlerGuard, Running
      <4>3. Handlers(t)'
        BY Zenon, <2>2, <4>1 DEF sp_vars, Handlers, Masking, HoldsNoIrq, NoIrqAt, SpIdle
      <4> QED
        BY Zenon, <4>2, <4>3
    <3>2. ASSUME NEW x \in Contexts PROVE Masks(x)'
      <4>1. Masks(x)
        BY Zenon, <2>2 DEF SpInv
      <4> QED
        BY Zenon, <2>2, <4>1 DEF sp_vars, Masks, Masking, HoldsNoIrq, NoIrqAt
    <3>3. Owners'
      <4>1. Owners
        BY Zenon, <2>2 DEF SpInv
      <4> QED
        <5>1. \A y \in Contexts : SpHeld(y)' = SpHeld(y)
          BY Zenon, <2>2, SameHeld DEF sp_vars
        <5>2. \A y \in Contexts : wanted'[y] \notin SpHeld(y)'
          BY Zenon, <2>2, <4>1, <5>1 DEF sp_vars, Owners
        <5> QED
          BY Zenon, <2>2, <4>1, <5>1, <5>2, SameOwners DEF sp_vars
    <3> QED
      BY Zenon, <2>2, <3>1, <3>2, <3>3 DEF sp_vars, SpInv, SpTypeOK
  <2> QED
    BY Zenon, <2>1, <2>2
<1> QED
  BY <1>1, <1>2, PTL DEF SpSpec

\* SpinNoIrq, SpinNoPreempt and SpinRaw (crates/spinlock/src/base.rs) exclude, and their
\* holders are never off the CPU, with "smp" and without.
THEOREM LocksExcludeThm == SpSpec => []LocksExclude
BY SpInvThm, SpInvExcludes, PTL
=============================================================================
