--------------------------------- MODULE Cfs ---------------------------------
(***************************************************************************)
(* The fair scheduler of crates/scheduler/src/cfs.rs, driven by the calls  *)
(* that the run queue of modules/ruxtask makes: a ready queue ordered by   *)
(* virtual run time, a minimum that new and woken tasks start from, and    *)
(* ticks charged by the weight of the task's nice value.                   *)
(***************************************************************************)
EXTENDS Integers, FiniteSets, FiniteSetsExt, Sequences

CONSTANTS
    CfsTasks,   \* the tasks
    CfsIdle,    \* the idle task, which is in no queue
    CfsNices,   \* the nice values a program asks for
    CfsHeld,    \* ticks a task can take with preemption disabled
    CfsTicks,   \* bound: the ticks of a behaviour
    CfsCalls    \* bound: the other calls of a behaviour

VARIABLES
    cfs_inner,  \* task -> its init_vruntime, delta, nice and id
    cfs_ready,  \* ready_queue, the entries of the BTreeMap
    cfs_min,    \* min_vruntime: {} for None, {v} for Some(v)
    cfs_pool,   \* id_pool
    cfs_state,  \* task -> its state, and "out" before it is added
    cfs_cur,    \* the running task
    cfs_late,   \* the tasks that were added after the first tick
    cfs_ticks, cfs_calls

cfs_vars == <<cfs_inner, cfs_ready, cfs_min, cfs_pool, cfs_state, cfs_cur, cfs_late, cfs_ticks, cfs_calls>>

NICE2WEIGHT_POS == <<1024, 820, 655, 526, 423, 335, 272, 215, 172, 137, 110, 87, 70, 56, 45, 36, 29, 23, 18, 15>>

NICE2WEIGHT_NEG == <<1024, 1277, 1586, 1991, 2501, 3121, 3906, 4904, 6100, 7620, 9548, 11916, 14949, 18705, 23254,
                     29154, 36291, 46273, 56483, 71755, 88761>>

get_weight(c) == IF c.nice >= 0 THEN NICE2WEIGHT_POS[c.nice + 1] ELSE NICE2WEIGHT_NEG[1 - c.nice]

get_vruntime(c) ==
    IF c.nice = 0 THEN c.init + c.delta ELSE c.init + (c.delta * 1024) \div get_weight(c)

mut_set_nice(c, nice) == [c EXCEPT !.init = get_vruntime(c), !.nice = nice]

set_nice(c, nice) == [c EXCEPT !.init = get_vruntime(c), !.delta = 0, !.nice = nice]

CFSTask_new == [init |-> 0, delta |-> 0, nice |-> 0, id |-> 0]

Before(j, k) == j[1] < k[1] \/ (j[1] = k[1] /\ j[2] <= k[2])

\* BTreeMap::insert replaces the entry that has the same key.
Inserted(queue, key, t) == {e \in queue : e.key # key} \cup {[key |-> key, task |-> t]}

First(queue) == CHOOSE e \in queue : \A f \in queue : Before(e.key, f.key)

first_vruntime(queue) == IF queue = {} THEN {} ELSE {First(queue).key[1]}

-----------------------------------------------------------------------------

CfsInit ==
    /\ cfs_inner = [t \in CfsTasks |-> CFSTask_new]
    /\ cfs_ready = {}
    /\ cfs_min = {}
    /\ cfs_pool = 0
    /\ cfs_state = [t \in CfsTasks |-> "out"]
    /\ cfs_cur = CfsIdle
    /\ cfs_late = {}
    /\ cfs_ticks = 0
    /\ cfs_calls = 0

CfsCall == cfs_calls < CfsCalls /\ cfs_calls' = cfs_calls + 1

cfs_add_task(t) ==
    LET v == IF cfs_min = {} THEN 0 ELSE CHOOSE m \in cfs_min : TRUE
        queue == Inserted(cfs_ready, <<v, cfs_pool>>, t)
    IN  /\ cfs_inner' = [cfs_inner EXCEPT ![t].init = v, ![t].id = cfs_pool]
        /\ cfs_ready' = queue
        /\ cfs_min' = first_vruntime(queue)
        /\ cfs_pool' = cfs_pool + 1

\* put_prev_task of t, whose ticks are already in inner, then pick_next_task.
cfs_put_prev_task(inner, t) ==
    LET charged == [inner EXCEPT ![t].id = cfs_pool]
        queue == Inserted(cfs_ready, <<get_vruntime(charged[t]), cfs_pool>>, t)
        next == First(queue)
    IN  /\ cfs_inner' = charged
        /\ cfs_pool' = cfs_pool + 1
        /\ cfs_ready' = queue \ {next}
        /\ cfs_cur' = next.task
        /\ cfs_state' = [cfs_state EXCEPT ![t] = "ready", ![next.task] = "running"]
        /\ UNCHANGED cfs_min

\* The running task gives up the CPU without being queued.
cfs_pick_next_task(state) ==
    /\ IF cfs_ready = {}
       THEN cfs_cur' = CfsIdle /\ cfs_state' = state /\ UNCHANGED cfs_ready
       ELSE LET next == First(cfs_ready)
            IN  /\ cfs_cur' = next.task
                /\ cfs_state' = [state EXCEPT ![next.task] = "running"]
                /\ cfs_ready' = cfs_ready \ {next}
    /\ UNCHANGED <<cfs_inner, cfs_min, cfs_pool>>

\* A task is spawned, or woken by unblock_task.
cfs_unblock(t) ==
    /\ cfs_state[t] \in {"out", "blocked"}
    /\ CfsCall
    /\ cfs_add_task(t)
    /\ cfs_state' = [cfs_state EXCEPT ![t] = "ready"]
    /\ cfs_late' = IF cfs_ticks > 0 THEN cfs_late \cup {t} ELSE cfs_late
    /\ UNCHANGED <<cfs_cur, cfs_ticks>>

\* n ticks reach the task before the preemption they ask for is taken.
cfs_task_tick(n) ==
    /\ cfs_cur # CfsIdle
    /\ cfs_ticks + n <= CfsTicks
    /\ cfs_ticks' = cfs_ticks + n
    /\ LET inner == [cfs_inner EXCEPT ![cfs_cur].delta = @ + n]
           resched == \A m \in cfs_min : get_vruntime(inner[cfs_cur]) > m
       IN  IF resched THEN cfs_put_prev_task(inner, cfs_cur)
           ELSE cfs_inner' = inner /\ UNCHANGED <<cfs_ready, cfs_min, cfs_pool, cfs_state, cfs_cur>>
    /\ UNCHANGED <<cfs_late, cfs_calls>>

cfs_yield ==
    /\ cfs_cur # CfsIdle
    /\ CfsCall
    /\ cfs_put_prev_task(cfs_inner, cfs_cur)
    /\ UNCHANGED <<cfs_late, cfs_ticks>>

\* The idle task yields all the time and is not put back.
cfs_idle ==
    /\ cfs_cur = CfsIdle
    /\ cfs_ready # {}
    /\ cfs_pick_next_task(cfs_state)
    /\ UNCHANGED <<cfs_late, cfs_ticks, cfs_calls>>

cfs_block ==
    /\ cfs_cur # CfsIdle
    /\ CfsCall
    /\ cfs_pick_next_task([cfs_state EXCEPT ![cfs_cur] = "blocked"])
    /\ UNCHANGED <<cfs_late, cfs_ticks>>

\* Of the range -20..19 only; another value is refused without effect.
cfs_set_priority(nice) ==
    /\ cfs_cur # CfsIdle
    /\ nice \in -20..19
    /\ CfsCall
    /\ cfs_inner' = [cfs_inner EXCEPT ![cfs_cur] = set_nice(@, nice)]
    /\ UNCHANGED <<cfs_ready, cfs_min, cfs_pool, cfs_state, cfs_cur, cfs_late, cfs_ticks>>

\* Finds the task by the key it would have now; otherwise it answers None.
cfs_remove_task(t) ==
    /\ cfs_state[t] = "ready"
    /\ CfsCall
    /\ LET key == <<get_vruntime(cfs_inner[t]), cfs_inner[t].id>>
           queue == {e \in cfs_ready : e.key # key}
       IN  IF queue = cfs_ready THEN UNCHANGED <<cfs_ready, cfs_min, cfs_state>>
           ELSE /\ cfs_ready' = queue
                /\ cfs_min' = first_vruntime(queue)
                /\ cfs_state' = [cfs_state EXCEPT ![t] = "out"]
    /\ UNCHANGED <<cfs_inner, cfs_pool, cfs_cur, cfs_late, cfs_ticks>>

CfsNext ==
    \/ \E t \in CfsTasks : cfs_unblock(t) \/ cfs_remove_task(t)
    \/ \E n \in 1..CfsHeld : cfs_task_tick(n)
    \/ cfs_yield \/ cfs_idle \/ cfs_block
    \/ \E nice \in CfsNices : cfs_set_priority(nice)

-----------------------------------------------------------------------------

Runnable == {t \in CfsTasks : cfs_state[t] \in {"ready", "running"}}

\* What one tick can add at most to the virtual run time of a task.
MostOfTick == Max({1024 \div get_weight([nice |-> nice]) + 1 : nice \in CfsNices \cup {0}})

\* Every ready task has exactly one entry in the tree, although entries are replaced when their keys
\* are equal and every put_prev_task and add_task makes a new key (cfs.rs:153, 188). The tasks that
\* have run since before the first tick stay within what one turn can charge of one another, whatever
\* their nice values were and whoever sleeps, wakes or is preempted late; and remove_task, which looks
\* for the key a task would have now, finds them (cfs.rs:164).
FairShare ==
    /\ \A t \in CfsTasks : Cardinality({e \in cfs_ready : e.task = t}) = (IF cfs_state[t] = "ready" THEN 1 ELSE 0)
    /\ \A e \in cfs_ready : e.task \notin cfs_late =>
          e.key = <<get_vruntime(cfs_inner[e.task]), cfs_inner[e.task].id>>
    /\ \A s, t \in Runnable \ cfs_late :
          get_vruntime(cfs_inner[s]) <= get_vruntime(cfs_inner[t]) + CfsHeld * MostOfTick
=============================================================================
