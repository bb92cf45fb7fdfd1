------------------------------ MODULE Process ------------------------------
(***************************************************************************)
(* The life cycle of a process in kernel/task.c: task_fork, task_exit and  *)
(* task_waitpid over task_table, with processes that also block on I/O.    *)
(* A task's pid is its slot in the table.                                  *)
(*                                                                         *)
(* task_exit marks the task DIED before it gives its inodes and files      *)
(* back, and iput may write a buffer to disk.  If the request queue of the *)
(* disk is empty that call does not give up the CPU (the IDE driver polls  *)
(* for a task that is not RUNNING); if it is not, device_request blocks    *)
(* the exiting task, any number of times.                                  *)
(***************************************************************************)
EXTENDS Integers

CONSTANTS NTasks,           \* NR_TASKS
          Users             \* the slots whose tasks run user programs

Tasks == 0 .. NTasks - 1
Idle == 0
AnyChild == -1              \* waitpid(-1, ...)

ASSUME ProcessAssumption ==
    /\ NTasks \in Nat \ {0, 1}
    /\ Users \subseteq Tasks \ {Idle}

VARIABLES state,            \* task->state, "FREE" where task_table[i] is NULL
          running,          \* running_task()
          ppid,             \* task->ppid
          waitpid,          \* task->waitpid
          pc,               \* "user", "wait", "exit" (blocked in task_exit) or "gone"
          halted,           \* the kernel has panicked
          stalled           \* history: tasks that blocked inside task_exit

vars == <<state, running, ppid, waitpid, pc, halted, stalled>>

\* For the scheduling contract, a slot without a live process is suspended.
T == INSTANCE Tasks WITH
        state <- [t \in Tasks |-> IF state[t] \in {"FREE", "DIED"} THEN "WAITING" ELSE state[t]]

Init ==
    /\ running = 1
    /\ state = [t \in Tasks |-> IF t = 1 THEN "RUNNING" ELSE IF t \in {0, 2} THEN "READY" ELSE "FREE"]
    /\ ppid = [t \in Tasks |-> 0]
    /\ waitpid = [t \in Tasks |-> 0]
    /\ pc = [t \in Tasks |-> "user"]
    /\ halted = FALSE
    /\ stalled = {}

-----------------------------------------------------------------------------
schedule_requeues(st) ==
    \E n \in {t \in Tasks \ {running} : st[t] = "READY"} :
        running' = n /\ state' = [st EXCEPT ![running] = "READY", ![n] = "RUNNING"]

schedule_no_demotion(st) ==
    \E n \in {t \in Tasks \ {running} : st[t] = "READY"} :
        running' = n /\ state' = [st EXCEPT ![n] = "RUNNING"]

schedule(st) ==
    LET ready == {t \in Tasks \ {running} : st[t] = "READY"}
        next == IF ready = {} THEN {Idle} ELSE ready
    IN  \E n \in next : /\ running' = n
                        /\ state' = T!Dispatch(st, running, n)

\* The running task is a user process about to enter the kernel.
Calls(t) == t = running /\ t \in Users /\ pc[t] = "user" /\ ~halted

\* get_free_task takes the lowest free slot and panics if there is none.
get_free_task == {i \in Tasks : state[i] = "FREE" /\ \A j \in 0 .. i - 1 : state[j] # "FREE"}

task_fork(t) ==
    /\ Calls(t)
    /\ IF get_free_task = {}
       THEN halted' = TRUE /\ UNCHANGED <<state, ppid, waitpid, pc, stalled>>
       ELSE \E c \in get_free_task :
              /\ state' = [state EXCEPT ![c] = "READY"]
              /\ ppid' = [ppid EXCEPT ![c] = t]
              /\ waitpid' = [waitpid EXCEPT ![c] = waitpid[t]]
              /\ pc' = [pc EXCEPT ![c] = "user"]
              /\ stalled' = stalled \ {c}
              /\ UNCHANGED halted
    /\ UNCHANGED running

-----------------------------------------------------------------------------
exit_finish_no_any(st, t) ==
    LET p == ppid[t]
        wake == st[p] = "WAITING" /\ waitpid[p] = t
    IN  /\ ppid' = [c \in Tasks |-> IF state[c] # "FREE" /\ ppid[c] = t THEN p ELSE ppid[c]]
        /\ pc' = [pc EXCEPT ![t] = "gone"]
        /\ schedule(IF wake THEN [st EXCEPT ![p] = "READY"] ELSE st)

exit_finish_keeps_children(st, t) ==
    LET p == ppid[t]
        wake == st[p] = "WAITING" /\ waitpid[p] \in {AnyChild, t}
    IN  /\ pc' = [pc EXCEPT ![t] = "gone"]
        /\ schedule(IF wake THEN [st EXCEPT ![p] = "READY"] ELSE st)
        /\ UNCHANGED ppid

\* The end of task_exit: children go to the grandparent, a parent that waits
\* for this task or for any child is woken, the CPU is given away.
exit_finish(st, t) ==
    LET p == ppid[t]
        wake == st[p] = "WAITING" /\ waitpid[p] \in {AnyChild, t}
    IN  /\ ppid' = [c \in Tasks |-> IF state[c] # "FREE" /\ ppid[c] = t THEN p ELSE ppid[c]]
        /\ pc' = [pc EXCEPT ![t] = "gone"]
        /\ schedule(IF wake THEN [st EXCEPT ![p] = "READY"] ELSE st)

\* iput or close inside task_exit meets a busy disk: the state of the exiting
\* task is overwritten by task_block.
exit_block(t) ==
    /\ pc' = [pc EXCEPT ![t] = "exit"]
    /\ schedule([state EXCEPT ![t] = "BLOCKED"])
    /\ stalled' = stalled \cup {t}
    /\ UNCHANGED ppid

exit_task(t) == \/ exit_finish([state EXCEPT ![t] = "DIED"], t) /\ UNCHANGED stalled
                \/ exit_block(t)

task_exit(t) ==
    /\ Calls(t)
    /\ exit_task(t)
    /\ UNCHANGED <<waitpid, halted>>

\* The disk is done and the exiting task carries on where it stopped.
exit_resume(t) ==
    /\ t = running /\ pc[t] = "exit" /\ ~halted
    /\ (exit_finish(state, t) /\ UNCHANGED stalled) \/ exit_block(t)
    /\ UNCHANGED <<waitpid, halted>>

-----------------------------------------------------------------------------
Matching_any_parent(t, w) ==
    {i \in 2 .. NTasks - 1 : state[i] # "FREE" /\ w \in {i, AnyChild}}

\* The entries of task_table that waitpid(w) by task t looks at.
Matching(t, w) == {i \in 2 .. NTasks - 1 : /\ state[i] # "FREE" /\ ppid[i] = t
                                           /\ w \in {i, AnyChild}}

\* One turn of the loop in task_waitpid: free the first dead child, else wait
\* if there is a live one, else dereference NULL: the page fault handler ends
\* the process.
waitpid_loop(t, w) ==
    LET mine == Matching(t, w)
        dead == {i \in mine : state[i] = "DIED"}
    IN  \/ \E c \in dead :
             /\ \A d \in dead : c <= d
             /\ state' = [state EXCEPT ![c] = "FREE"]
             /\ pc' = [pc EXCEPT ![t] = "user"]
             /\ UNCHANGED <<running, ppid, waitpid, stalled>>
        \/ /\ dead = {} /\ mine # {}
           /\ waitpid' = [waitpid EXCEPT ![t] = w]
           /\ pc' = [pc EXCEPT ![t] = "wait"]
           /\ schedule([state EXCEPT ![t] = "WAITING"])
           /\ UNCHANGED <<ppid, stalled>>
        \/ /\ mine = {}
           /\ exit_task(t)
           /\ UNCHANGED waitpid

task_waitpid(t) == /\ Calls(t)
                   /\ \E w \in (Tasks \ {0, 1}) \cup {AnyChild} : waitpid_loop(t, w)
                   /\ UNCHANGED halted

\* A woken waiter scans again for the pid it was called with.
waitpid_retry(t) == /\ t = running /\ pc[t] = "wait" /\ ~halted
                    /\ waitpid_loop(t, waitpid[t])
                    /\ UNCHANGED halted

-----------------------------------------------------------------------------
\* Any task gives the CPU away; any but idle sleeps or waits for I/O, which an
\* interrupt ends.
task_yield == /\ pc[running] = "user" /\ ~halted
              /\ schedule(state)
              /\ UNCHANGED <<ppid, waitpid, pc, halted, stalled>>

io_wait(t) == /\ t = running /\ t # Idle /\ pc[t] = "user" /\ ~halted
              /\ schedule([state EXCEPT ![t] = "BLOCKED"])
              /\ UNCHANGED <<ppid, waitpid, pc, halted, stalled>>

io_done(t) == /\ state[t] = "BLOCKED" /\ ~halted
              /\ state' = [state EXCEPT ![t] = "READY"]
              /\ UNCHANGED <<running, ppid, waitpid, pc, halted, stalled>>

Next == \/ \E t \in Tasks : \/ task_fork(t) \/ task_exit(t) \/ exit_resume(t)
                            \/ task_waitpid(t) \/ waitpid_retry(t)
                            \/ io_wait(t) \/ io_done(t)
        \/ task_yield

Spec == Init /\ [][Next]_vars

-----------------------------------------------------------------------------
(* No child's death is missed: a task blocked in waitpid has a matching    *)
(* child that is still alive, and none that is already dead.               *)
WaiterHasLiveChild ==
    \A t \in Tasks : state[t] = "WAITING" =>
        /\ Matching(t, waitpid[t]) # {}
        /\ \A c \in Matching(t, waitpid[t]) : state[c] # "DIED"

(* Every process has a live parent, dead ones included: task_exit reads    *)
(* task_table[ppid] without a NULL check, and a child of a dead parent     *)
(* could never be reaped.                                                  *)
ParentAlive ==
    \A t \in Tasks : state[t] # "FREE" => state[ppid[t]] \notin {"FREE", "DIED"}

(* A task that got through task_exit without blocking stays DIED until its *)
(* parent frees its slot, whatever runs meanwhile.                         *)
CleanExitIsFinal ==
    \A t \in Tasks \ stalled : pc[t] = "gone" => state[t] \in {"DIED", "FREE"}

(* docs/46: exit ends the process and gives its memory back.  A task that  *)
(* has been through task_exit stays DIED until its parent frees its slot.  *)
ExitedStaysDead ==
    \A t \in Tasks : pc[t] = "gone" => state[t] \in {"DIED", "FREE"}

\* A step in which a slot of task_table becomes free.
ReapStep == \A t \in Tasks : state[t] # "FREE" /\ state'[t] = "FREE"
                => running = ppid[t] /\ pc[t] = "gone" /\ running # t

(* A slot is freed by the task's parent only, and only when the task has   *)
(* left the CPU for good: the parent frees the page with its kernel stack. *)
ReapedByParent == [][ReapStep]_vars

(* Creating, ending and waiting for processes keeps the scheduling contract.*)
ImplementsTasks == T!TaskSpec
=============================================================================
