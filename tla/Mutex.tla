------------------------------- MODULE Mutex -------------------------------
(***************************************************************************)
(* kernel/mutex.c: the mutex (a flag and a list of waiters) and the        *)
(* reentrant lock_t built on it, used by tasks under the scheduling        *)
(* contract of Tasks.tla.  The drivers take such locks around code that    *)
(* waits for an interrupt, so the holder may give the CPU away, or suspend *)
(* itself, between lock_acquire and lock_release.                          *)
(***************************************************************************)
EXTENDS Tasks, Sequences

CONSTANTS NoTask,       \* NULL
          MaxRepeat     \* bound on nested acquisitions

ASSUME MutexAssumption == /\ NoTask \notin Tasks
                          /\ MaxRepeat \in Nat \ {0}

VARIABLES value,        \* mutex->value
          waiters,      \* mutex->waiters, head (newest) first
          holder,       \* lock->holder
          repeat,       \* lock->repeat
          pc,           \* "run", or "locking" inside the loop of mutex_lock
          depth         \* history: acquisitions a task has not yet released

lockVars == <<value, waiters, holder, repeat>>
vars == <<taskVars, lockVars, pc, depth>>

Init == /\ AllReady
        /\ value = FALSE
        /\ waiters = <<>>
        /\ holder = NoTask
        /\ repeat = 0
        /\ pc = [t \in Tasks |-> "run"]
        /\ depth = [t \in Tasks |-> 0]

-----------------------------------------------------------------------------
\* One turn of the loop in mutex_lock: wait at the head of the list while the
\* flag is up, else raise it; lock_acquire then records the holder.
mutex_lock(t) ==
    \/ /\ value
       /\ waiters' = <<t>> \o waiters
       /\ pc' = [pc EXCEPT ![t] = "locking"]
       /\ schedule(Suspend(state, t, "BLOCKED"))
       /\ UNCHANGED <<value, holder, repeat, depth>>
    \/ /\ ~value
       /\ value' = TRUE
       /\ holder' = t
       /\ repeat' = 1
       /\ pc' = [pc EXCEPT ![t] = "run"]
       /\ depth' = [depth EXCEPT ![t] = @ + 1]
       /\ UNCHANGED <<taskVars, waiters>>

lock_acquire(t) ==
    /\ t = running /\ t # Idle /\ pc[t] = "run"
    /\ \/ holder # t /\ mutex_lock(t)
       \/ /\ holder = t
          /\ repeat < MaxRepeat
          /\ repeat' = repeat + 1
          /\ depth' = [depth EXCEPT ![t] = @ + 1]
          /\ UNCHANGED <<taskVars, value, waiters, holder, pc>>

lock_retry_no_test(t) ==
    /\ t = running /\ pc[t] = "locking"
    /\ value' = TRUE /\ holder' = t /\ repeat' = 1
    /\ pc' = [pc EXCEPT ![t] = "run"]
    /\ depth' = [depth EXCEPT ![t] = @ + 1]
    /\ UNCHANGED <<taskVars, waiters>>

\* A waiter that was woken runs the loop condition again.
lock_retry(t) == /\ t = running /\ pc[t] = "locking"
                 /\ mutex_lock(t)

mutex_unlock_no_wake == /\ value' = FALSE
                        /\ UNCHANGED <<taskVars, waiters>>

mutex_unlock_no_pop ==
    /\ value' = FALSE
    /\ IF waiters = <<>> THEN UNCHANGED taskVars
       ELSE schedule(Unblock(state, {waiters[Len(waiters)]}))
    /\ UNCHANGED waiters

\* mutex_unlock: drop the flag; if there are waiters make the oldest READY
\* and yield.
mutex_unlock ==
    /\ value' = FALSE
    /\ \/ /\ waiters = <<>>
          /\ UNCHANGED <<taskVars, waiters>>
       \/ /\ waiters # <<>>
          /\ LET oldest == waiters[Len(waiters)]
             IN  /\ waiters' = SubSeq(waiters, 1, Len(waiters) - 1)
                 /\ schedule(Unblock(state, {oldest}))

lock_release(t) ==
    /\ t = running /\ depth[t] > 0 /\ pc[t] = "run"
    /\ depth' = [depth EXCEPT ![t] = @ - 1]
    /\ \/ /\ repeat > 1
          /\ repeat' = repeat - 1
          /\ UNCHANGED <<taskVars, value, waiters, holder>>
       \/ /\ repeat <= 1
          /\ holder' = NoTask
          /\ repeat' = 0
          /\ mutex_unlock
    /\ UNCHANGED pc

\* The running task gives the CPU away in its own code, lock held or not.
task_yield == /\ pc[running] = "run"
              /\ schedule(state)
              /\ UNCHANGED <<lockVars, pc, depth>>

\* It waits for a device, lock held or not ...
device_wait == /\ running # Idle /\ pc[running] = "run"
               /\ schedule(Suspend(state, running, "WAITING"))
               /\ UNCHANGED <<lockVars, pc, depth>>

\* ... and the device's interrupt wakes it.
device_interrupt(t) == /\ state[t] = "WAITING"
                       /\ state' = Unblock(state, {t})
                       /\ UNCHANGED <<running, lockVars, pc, depth>>

Next == \/ \E t \in Tasks : \/ lock_acquire(t) \/ lock_retry(t)
                            \/ lock_release(t) \/ device_interrupt(t)
        \/ task_yield
        \/ device_wait

Spec == Init /\ [][Next]_vars

-----------------------------------------------------------------------------
TypeOK == /\ TaskTypeOK
          /\ value \in BOOLEAN
          /\ waiters \in Seq(Tasks)
          /\ holder \in Tasks \cup {NoTask}
          /\ repeat \in 0 .. MaxRepeat
          /\ pc \in [Tasks -> {"run", "locking"}]
          /\ depth \in [Tasks -> 0 .. MaxRepeat]

(* The waiters are exactly the tasks blocked by mutex_lock, each linked    *)
(* once and each stopped inside the loop: task_block asserts that the node *)
(* is free, task_unblock that it is linked.                                *)
WaitersExact ==
    /\ \A i, j \in 1 .. Len(waiters) : waiters[i] = waiters[j] => i = j
    /\ \A t \in Tasks : (\E i \in 1 .. Len(waiters) : waiters[i] = t)
                           <=> state[t] = "BLOCKED"
    /\ \A t \in Tasks : state[t] = "BLOCKED" => pc[t] = "locking"
    /\ pc[Idle] = "run"

(* Mutual exclusion and reentrancy: acquisitions are outstanding for one   *)
(* task only, the recorded holder, and repeat counts them.  The asserts of *)
(* lock_acquire, lock_release and mutex_unlock follow.                     *)
LockExact ==
    /\ value <=> holder # NoTask
    /\ value <=> repeat > 0
    /\ \A t \in Tasks : depth[t] = IF t = holder THEN repeat ELSE 0
    /\ \A t \in Tasks : depth[t] > 0 => pc[t] = "run"

(* No lost wakeup: while tasks wait, the mutex is held or a task that was  *)
(* woken for it can run and will test the flag again.                      *)
NoLostWakeup ==
    waiters # <<>> =>
        \/ value
        \/ \E t \in Tasks : pc[t] = "locking" /\ state[t] \in {"READY", "RUNNING"}
=============================================================================
