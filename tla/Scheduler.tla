----------------------------- MODULE Scheduler -----------------------------
(***************************************************************************)
(* The scheduler of kernel/task.c with the clock interrupt of              *)
(* kernel/clock.c: task_search, schedule, task_block, task_unblock,        *)
(* task_yield, task_sleep, task_wakeup and clock_handler, driven by a      *)
(* fixed table of tasks.  Slot 0 holds the idle task, the others any mix   *)
(* of processes that compute, yield, sleep and block.                      *)
(*                                                                         *)
(* Each action is one system call or one interrupt: the kernel runs with   *)
(* interrupts off and is left only through schedule().                     *)
(***************************************************************************)
EXTENDS Integers, Sequences, SequencesExt

CONSTANTS NTasks,       \* entries of task_table in use
          Priority,     \* task->priority
          SleepTicks,   \* the durations ms / jiffy that programs ask for
          MaxJiffies,   \* bound on the clock interrupts taken
          Sleepers      \* the tasks that call sleep()

Tasks == 0 .. NTasks - 1
Idle == 0
NoTask == -1            \* NULL

ASSUME SchedulerAssumption ==
    /\ NTasks \in Nat \ {0, 1}
    /\ Priority \in [Tasks -> Nat \ {0}]
    /\ SleepTicks \subseteq Nat
    /\ Sleepers \subseteq Tasks \ {Idle}
    /\ MaxJiffies \in Nat

VARIABLES state,        \* task->state
          running,      \* running_task()
          ticks,        \* task->ticks: slice left, or expiry while asleep
          last,         \* task->jiffies: when the task last saw a clock tick
          jiffies,      \* clock interrupts since boot
          sleepList,    \* sleep_list, head first
          idleAwake,    \* the idle task has left hlt and is about to yield
          ran,          \* history: clock ticks charged since the last schedule()
          woken         \* history: tasks task_wakeup woke, slice not refilled

vars == <<state, running, ticks, last, jiffies, sleepList, idleAwake, ran, woken>>

T == INSTANCE Tasks

-----------------------------------------------------------------------------
\* The loop of task_search over the first n entries of the table: keep the later
\* task when it has more ticks left or when it ran less recently.
best_ready(st, tk, ls) ==
    LET found[n \in 0 .. NTasks] ==
          IF n = 0 THEN NoTask
          ELSE LET p == n - 1
                   best == found[n - 1]
                   better == best = NoTask \/ tk[best] < tk[p] \/ ls[p] < ls[best]
               IN  IF st[p] = "READY" /\ p # running /\ better THEN p ELSE best
    IN  found[NTasks]

task_search_no_idle(st, tk, ls) == best_ready(st, tk, ls)

\* task_search(TASK_READY): the best task, idle_task if there is none.
task_search(st, tk, ls) ==
    LET found == best_ready(st, tk, ls)
    IN  IF found = NoTask THEN Idle ELSE found

schedule_no_refill(st, tk, ls) ==
    LET next == task_search(st, tk, ls)
    IN  /\ state' = T!Dispatch(st, running, next)
        /\ ticks' = tk /\ last' = ls /\ running' = next

schedule_no_demotion(st, tk, ls) ==
    LET next == task_search(st, tk, ls)
    IN  /\ state' = [st EXCEPT ![next] = "RUNNING"]
        /\ ticks' = [tk EXCEPT ![running] = IF @ = 0 THEN Priority[running] ELSE @]
        /\ last' = ls /\ running' = next

\* schedule(): pick a task, refill the caller's slice only if it is exactly 0.
schedule(st, tk, ls) ==
    LET next == task_search(st, tk, ls)
    IN  /\ state' = T!Dispatch(st, running, next)
        /\ ticks' = [tk EXCEPT ![running] = IF @ = 0 THEN Priority[running] ELSE @]
        /\ last' = ls
        /\ running' = next

\* The history variables over a schedule() entered with tick counts tk.
Dispatched(tk, wk) ==
    /\ ran' = 0
    /\ woken' = IF tk[running] = 0 THEN wk \ {running} ELSE wk

\* The position of the first entry of a set of positions, or one past the end.
FirstOf(S, list) == IF S = {} THEN Len(list) + 1 ELSE CHOOSE i \in S : \A j \in S : i <= j

list_insert_sort_append(list, t, key) == Append(list, t)

\* list_insert_sort: before the first entry whose key is larger.
list_insert_sort(list, t, key) ==
    InsertAt(list, FirstOf({i \in 1 .. Len(list) : key[list[i]] > key[t]}, list), t)

Expired_early(list, tk) ==
    FirstOf({i \in 1 .. Len(list) : tk[list[i]] > jiffies + 1}, list) - 1

\* task_wakeup: how many tasks it takes from the head of sleep_list; it stops
\* at the first one that has not expired.
Expired(list, tk) ==
    FirstOf({i \in 1 .. Len(list) : tk[list[i]] > jiffies}, list) - 1

-----------------------------------------------------------------------------
\* task_init created the tasks; the boot code's single tick ran out in the
\* first clock interrupt, which dispatched the first task.  The processes of
\* slots 3 and up were forked from it within its first slice.
Init ==
    /\ running = 1
    /\ state = [t \in Tasks |-> IF t = running THEN "RUNNING" ELSE "READY"]
    /\ ticks = Priority
    /\ last = [t \in Tasks |-> 0]
    /\ jiffies = 1
    /\ sleepList = <<>>
    /\ idleAwake = FALSE
    /\ ran = 0
    /\ woken = {}

\* yeild(): the system call of a process, and of idle_thread when hlt returned.
task_yield ==
    /\ running = Idle => idleAwake
    /\ idleAwake' = IF running = Idle THEN FALSE ELSE idleAwake
    /\ schedule(state, ticks, last)
    /\ Dispatched(ticks, woken)
    /\ UNCHANGED <<jiffies, sleepList>>

\* task_sleep: expiry in ticks, sorted into sleep_list.
task_sleep(n) ==
    /\ running \in Sleepers
    /\ LET tk == [ticks EXCEPT ![running] = jiffies + (IF n > 0 THEN n ELSE 1)]
       IN  /\ sleepList' = list_insert_sort(sleepList, running, tk)
           /\ schedule(T!Suspend(state, running, "SLEEPING"), tk, last)
           /\ Dispatched(tk, woken \ {running})
    /\ UNCHANGED <<jiffies, idleAwake>>

\* task_block on some wait list of a driver, a lock or a pipe.
task_block ==
    /\ running # Idle
    /\ schedule(T!Suspend(state, running, "BLOCKED"), ticks, last)
    /\ Dispatched(ticks, woken)
    /\ UNCHANGED <<jiffies, sleepList, idleAwake>>

\* task_unblock, from an interrupt or from the running process.
task_unblock(t) ==
    /\ state[t] = "BLOCKED"
    /\ state' = [state EXCEPT ![t] = "READY"]
    /\ idleAwake' = (idleAwake \/ running = Idle)
    /\ UNCHANGED <<running, ticks, last, jiffies, sleepList, ran, woken>>

\* idle_thread leaves hlt on any interrupt, one that wakes nobody included.
idle_thread ==
    /\ running = Idle /\ ~idleAwake
    /\ idleAwake' = TRUE
    /\ UNCHANGED <<state, running, ticks, last, jiffies, sleepList, ran, woken>>

\* clock_handler: wake the expired sleepers, count the tick, charge it to the
\* running task and reschedule when its slice reaches 0.
clock_handler ==
    /\ jiffies < MaxJiffies
    /\ LET k == Expired(sleepList, ticks)
           up == {sleepList[i] : i \in 1 .. k}
           st == T!Unblock(state, up)
           tk == [t \in Tasks |-> (IF t \in up THEN 0 ELSE ticks[t])
                                  - (IF t = running THEN 1 ELSE 0)]
           ls == [last EXCEPT ![running] = jiffies + 1]
       IN  /\ sleepList' = SubSeq(sleepList, k + 1, Len(sleepList))
           /\ IF tk[running] = 0
              THEN schedule(st, tk, ls) /\ Dispatched(tk, woken \cup up)
              ELSE /\ state' = st /\ ticks' = tk /\ last' = ls
                   /\ woken' = woken \cup up /\ ran' = ran + 1
                   /\ UNCHANGED running
    /\ jiffies' = jiffies + 1
    /\ idleAwake' = (idleAwake \/ running = Idle)

Next == \/ task_yield
        \/ \E n \in SleepTicks : task_sleep(n)
        \/ task_block
        \/ \E t \in Tasks : task_unblock(t)
        \/ idle_thread
        \/ clock_handler

Spec == Init /\ [][Next]_vars

-----------------------------------------------------------------------------
TypeOK ==
    /\ state \in [Tasks -> T!States]
    /\ running \in Tasks
    /\ ticks \in [Tasks -> Int]
    /\ last \in [Tasks -> Nat]
    /\ jiffies \in Nat
    /\ sleepList \in Seq(Tasks)
    /\ idleAwake \in BOOLEAN
    /\ ran \in Nat
    /\ woken \subseteq Tasks

(* sleep_list holds every sleeping task exactly once and nobody else, in   *)
(* order of expiry: task_wakeup stops at the first entry that is not due   *)
(* and unlinks through the same node that task_block would use.  No sleeper*)
(* is overlooked: none stays asleep past its expiry.                       *)
SleepListExact ==
    /\ IsInjective(sleepList)
    /\ ToSet(sleepList) = {t \in Tasks : state[t] = "SLEEPING"}
    /\ \A i, j \in 1 .. Len(sleepList) :
          i < j => ticks[sleepList[i]] <= ticks[sleepList[j]]
    /\ \A t \in Tasks : state[t] = "SLEEPING" => ticks[t] >= jiffies

(* sleep() lasts at least the ticks it was asked for: a task leaves        *)
(* SLEEPING only in a clock interrupt after its expiry.                    *)
SleepStep == \A t \in Tasks : state[t] = "SLEEPING" /\ state'[t] # "SLEEPING"
                                  => ticks[t] < jiffies'

SleepsLongEnough == [][SleepStep]_vars

(* A task never holds the CPU longer than its priority in ticks without a  *)
(* schedule(), unless task_wakeup zeroed its slice: every other runnable   *)
(* task has between 1 and priority ticks left.                             *)
SliceRespected ==
    \A t \in Tasks : state[t] \in {"READY", "RUNNING", "BLOCKED"} /\ t \notin woken =>
        /\ ticks[t] \in 1 .. Priority[t]
        /\ t = running => ran + ticks[t] <= Priority[t]

(* The scheduler implements the contract the rest of the kernel relies on. *)
ImplementsTasks == T!TaskSpec
=============================================================================
