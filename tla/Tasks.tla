------------------------------- MODULE Tasks -------------------------------
(***************************************************************************)
(* The contract between the process code of the kernel (kernel/task.c) and *)
(* everything that blocks or wakes a process: one CPU, a table of tasks in *)
(* states READY, RUNNING or suspended, and three kinds of atomic step.     *)
(*                                                                         *)
(* A step is whatever the kernel does between two points where the CPU can *)
(* change hands: system calls and interrupt handlers run with interrupts   *)
(* off (interrupt gates), so the CPU is given away only inside schedule(). *)
(* Which READY task schedule() picks is left open here; Scheduler.tla has  *)
(* the code's choice and is shown to implement this module.                *)
(***************************************************************************)
EXTENDS Integers

CONSTANTS Tasks,    \* the entries of task_table
          Idle      \* idle_task

ASSUME IdleAssumption == Idle \in Tasks

VARIABLES state,    \* task->state of every task
          running   \* running_task()

taskVars == <<state, running>>

Suspended == {"BLOCKED", "SLEEPING", "WAITING"}

States == {"READY", "RUNNING"} \cup Suspended

\* task_unblock on every task of R: off its list, READY.
Unblock(st, R) == [t \in Tasks |-> IF t \in R THEN "READY" ELSE st[t]]

\* task_block / task_sleep: the state the caller leaves the CPU in.
Suspend(st, t, s) == [st EXCEPT ![t] = s]

\* What task_search(TASK_READY) may return to the task cur.
Candidates(st, cur) ==
    LET others == {t \in Tasks \ {cur} : st[t] = "READY"}
    IN  IF others = {} THEN {Idle} ELSE others

\* schedule(): a RUNNING caller becomes READY, n becomes RUNNING.
Dispatch(st, cur, n) ==
    [t \in Tasks |-> IF t = n THEN "RUNNING"
                     ELSE IF t = cur /\ st[t] = "RUNNING" THEN "READY" ELSE st[t]]

schedule(st) ==
    \E n \in Candidates(st, running) :
        /\ state' = Dispatch(st, running, n)
        /\ running' = n

-----------------------------------------------------------------------------
TaskTypeOK == /\ state \in [Tasks -> States]
              /\ running \in Tasks

(* The idle task is always runnable: task_search falls back on idle_task   *)
(* without looking at its state, so a suspended idle task would be run     *)
(* while it is still linked in a wait list.                                *)
IdleRunnable == state[Idle] \in {"READY", "RUNNING"}

(* Exactly the task on the CPU is RUNNING, whatever list the others are on.*)
OneRunning == \A t \in Tasks : state[t] = "RUNNING" <=> t = running

\* The table of any kernel that has been running for a while.
TaskInit == TaskTypeOK /\ OneRunning /\ IdleRunnable

\* The table task_init leaves: every task in it can run.
AllReady == /\ running \in Tasks
            /\ state = [t \in Tasks |-> IF t = running THEN "RUNNING" ELSE "READY"]

Asleep == {t \in Tasks : state[t] \in Suspended}

\* An interrupt or a system call wakes the tasks of R and returns to the caller.
Wake(R) == /\ state' = Unblock(state, R)
           /\ running' = running

\* The same, but the CPU is given away by a caller that stays runnable:
\* task_yield, the end of a time slice, mutex_unlock.
Yield(R) == schedule(Unblock(state, R))

\* The caller suspends itself. The idle task never does.
Block(R, s) == /\ running # Idle
               /\ schedule(Suspend(Unblock(state, R), running, s))

TaskNext == \E R \in SUBSET Asleep : Wake(R) \/ Yield(R) \/ \E s \in Suspended : Block(R, s)

TaskSpec == TaskInit /\ [][TaskNext]_taskVars

=============================================================================
