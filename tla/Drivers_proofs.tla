--------------------------- MODULE Drivers_proofs ---------------------------
(***************************************************************************)
(* The scheduling contract, the locks of kernel/mutex.c, and the drivers   *)
(* that use them around a wait for an interrupt: kernel/ide.c, keyboard.c  *)
(* and serial.c.  For any set of tasks, any nesting bound, any disks and   *)
(* partitions and any keyboard.  Then the console of kernel/console.c, for *)
(* any size of the screen and of video memory: it implements a terminal.   *)
(*                                                                         *)
(* The inductive invariant of the lock, IInv, is the conjunction of the    *)
(* invariants checked by TLC: none of them is inductive alone, since the   *)
(* wait list is described by the task states, the task states by the       *)
(* scheduling contract, and the holder by the tasks outside the loop.  To  *)
(* it the drivers add who holds the lock at which point of a transfer and  *)
(* what the drive is doing then.                                           *)
(***************************************************************************)
EXTENDS Drivers, SequenceTheorems, TLAPS

(* schedule() hands the CPU to one runnable task: it leaves the suspended  *)
(* tasks as they are, and afterwards exactly the task on the CPU is        *)
(* RUNNING.  The caller may have suspended itself in st.                   *)
LEMMA ScheduleLemma ==
    ASSUME NEW st \in [Tasks -> States], running \in Tasks,
           \A t \in Tasks : st[t] = "RUNNING" => t = running,
           st[Idle] \in {"READY", "RUNNING"},
           schedule(st)
    PROVE  /\ TaskTypeOK'
           /\ OneRunning'
           /\ IdleRunnable'
           /\ \A t \in Tasks : st[t] \in Suspended => state'[t] = st[t]
           /\ \A t \in Tasks : st[t] \notin Suspended => state'[t] \in {"READY", "RUNNING"}
<1>1. PICK n \in Candidates(st, running) :
          /\ state' = Dispatch(st, running, n)
          /\ running' = n
  BY DEF schedule
<1>2. n \in Tasks /\ st[n] \in {"READY", "RUNNING"}
  BY <1>1, IdleAssumption DEF Candidates
<1>3. \A t \in Tasks : state'[t] = IF t = n THEN "RUNNING"
                                   ELSE IF t = running /\ st[t] = "RUNNING" THEN "READY" ELSE st[t]
  BY <1>1 DEF Dispatch
<1>4. TaskTypeOK'
  BY <1>1, <1>2 DEF TaskTypeOK, Dispatch, States, Suspended
<1>5. OneRunning'
  BY <1>1, <1>3 DEF OneRunning
<1>6. IdleRunnable'
  BY <1>2, <1>3, IdleAssumption DEF IdleRunnable
<1>7. \A t \in Tasks : st[t] \in Suspended => state'[t] = st[t]
  BY <1>2, <1>3 DEF Suspended
<1>8. \A t \in Tasks : st[t] \notin Suspended => state'[t] \in {"READY", "RUNNING"}
  BY <1>3 DEF States, Suspended
<1> QED
  BY <1>4, <1>5, <1>6, <1>7, <1>8

TaskInv == TaskTypeOK /\ OneRunning /\ IdleRunnable

(* The contract keeps exactly one task RUNNING and never suspends the idle *)
(* task, whatever the other tasks do.                                      *)
THEOREM TaskContract == TaskSpec => []TaskInv
<1>1. TaskInit => TaskInv
  BY DEF TaskInit, TaskInv
<1>2. TaskInv /\ [TaskNext]_taskVars => TaskInv'
  <2> SUFFICES ASSUME TaskInv, [TaskNext]_taskVars PROVE TaskInv'
    OBVIOUS
  <2>1. CASE UNCHANGED taskVars
    BY <2>1 DEF TaskInv, TaskTypeOK, OneRunning, IdleRunnable, taskVars
  <2>2. ASSUME NEW R \in SUBSET Asleep, Wake(R) PROVE TaskInv'
    BY <2>2, IdleAssumption DEF TaskInv, TaskTypeOK, OneRunning, IdleRunnable, Wake, Unblock, Asleep,
                Suspended, States
  <2>3. ASSUME NEW R \in SUBSET Asleep
        PROVE  /\ Unblock(state, R) \in [Tasks -> States]
               /\ \A t \in Tasks : Unblock(state, R)[t] = "RUNNING" => t = running
               /\ Unblock(state, R)[Idle] \in {"READY", "RUNNING"}
    BY <2>3, IdleAssumption DEF TaskInv, TaskTypeOK, OneRunning, IdleRunnable, Unblock, States
  <2>4. ASSUME NEW R \in SUBSET Asleep, Yield(R) PROVE TaskInv'
    BY <2>3, <2>4, ScheduleLemma DEF TaskInv, TaskTypeOK, Yield
  <2>5. ASSUME NEW R \in SUBSET Asleep, NEW s \in Suspended, Block(R, s) PROVE TaskInv'
    <3> DEFINE st == Suspend(Unblock(state, R), running, s)
    <3>1. /\ st \in [Tasks -> States]
          /\ \A t \in Tasks : st[t] = "RUNNING" => t = running
          /\ st[Idle] \in {"READY", "RUNNING"}
      BY <2>3, <2>5, IdleAssumption DEF Block, Suspend, TaskInv, TaskTypeOK, States
    <3>2. schedule(st)
      BY <2>5 DEF Block
    <3> QED
      BY <3>1, <3>2, ScheduleLemma DEF TaskInv, TaskTypeOK
  <2> QED
    BY <2>1, <2>2, <2>4, <2>5 DEF TaskNext
<1> QED
  BY <1>1, <1>2, PTL DEF TaskSpec

-----------------------------------------------------------------------------
\* The lock.

IInv == TypeOK /\ OneRunning /\ IdleRunnable /\ WaitersExact /\ LockExact /\ NoLostWakeup

(* list_push: the new entry comes first, the others move up by one.        *)
LEMMA PushLemma ==
    ASSUME NEW X, NEW w \in Seq(X), NEW t \in X
    PROVE  /\ <<t>> \o w \in Seq(X)
           /\ Len(<<t>> \o w) = Len(w) + 1
           /\ (<<t>> \o w)[1] = t
           /\ \A i \in 1 .. Len(w) : (<<t>> \o w)[i + 1] = w[i]
           /\ \A i \in 2 .. Len(w) + 1 : (<<t>> \o w)[i] = w[i - 1]
OBVIOUS

(* Removing the last entry keeps the others in place.                      *)
LEMMA PopLemma ==
    ASSUME NEW X, NEW w \in Seq(X), w # <<>>
    PROVE  /\ Len(w) \in Nat \ {0}
           /\ w[Len(w)] \in X
           /\ SubSeq(w, 1, Len(w) - 1) \in Seq(X)
           /\ Len(SubSeq(w, 1, Len(w) - 1)) = Len(w) - 1
           /\ \A i \in 1 .. Len(w) - 1 : SubSeq(w, 1, Len(w) - 1)[i] = w[i]
<1>1. Len(w) \in Nat \ {0}
  BY EmptySeq
<1>2. \A i \in 1 .. Len(w) : w[i] \in X
  BY ElementOfSeq
<1> DEFINE n == Len(w) - 1
<1>3. n \in Int /\ 1 \in Int /\ \A i \in 1 .. n : w[i] \in X
  BY <1>1, <1>2
<1>4. /\ SubSeq(w, 1, n) \in Seq(X)
      /\ Len(SubSeq(w, 1, n)) = IF 1 <= n THEN n - 1 + 1 ELSE 0
      /\ \A i \in 1 .. n - 1 + 1 : SubSeq(w, 1, n)[i] = w[1 + i - 1]
  <2> HIDE DEF n
  <2> QED
    BY <1>3, SubSeqProperties
<1>5. SubSeq(w, 1, Len(w) - 1) \in Seq(X)
  BY <1>4
<1>6. Len(SubSeq(w, 1, Len(w) - 1)) = Len(w) - 1
  <2>1. (IF 1 <= n THEN n - 1 + 1 ELSE 0) = n
    <3>1. n \in Nat
      BY <1>1
    <3> HIDE DEF n
    <3> QED
      BY <3>1
  <2>2. Len(SubSeq(w, 1, n)) = n
    <3> HIDE DEF n
    <3> QED
      BY <1>4, <2>1
  <2> QED
    BY <2>2
<1>7. ASSUME NEW i \in 1 .. Len(w) - 1
      PROVE  SubSeq(w, 1, Len(w) - 1)[i] = w[i]
  <2>1. i \in 1 .. Len(w) - 1 - 1 + 1 /\ 1 + i - 1 = i
    BY <1>1
  <2> QED
    BY <1>4, <2>1
<1>8. w[Len(w)] \in X
  BY <1>1, <1>2
<1> QED
  BY <1>1, <1>5, <1>6, <1>7, <1>8

(* A step that only moves tasks between READY, RUNNING and the wait for a  *)
(* device keeps the lock's invariants: it must leave the BLOCKED tasks     *)
(* alone and not suspend a task inside the loop of mutex_lock.             *)
LEMMA FrameLemma ==
    ASSUME IInv, TaskTypeOK', OneRunning', IdleRunnable',
           UNCHANGED <<lockVars, pc, depth>>,
           \A t \in Tasks : state'[t] = "BLOCKED" <=> state[t] = "BLOCKED",
           \A t \in Tasks : pc[t] = "locking" /\ state[t] \in {"READY", "RUNNING"}
                                => state'[t] \in {"READY", "RUNNING"}
    PROVE  IInv'
<1>1. TypeOK'
  BY DEF IInv, TypeOK, lockVars
<1>2. WaitersExact'
  BY DEF IInv, WaitersExact, lockVars
<1>3. LockExact'
  BY DEF IInv, LockExact, lockVars
<1>4. NoLostWakeup'
  BY DEF IInv, NoLostWakeup, lockVars
<1> QED
  BY <1>1, <1>2, <1>3, <1>4 DEF IInv

(* One turn of mutex_lock, first or repeated, by a task that does not hold *)
(* the lock.                                                               *)
LEMMA MutexLockLemma ==
    ASSUME IInv, NEW t \in Tasks, t = running, t # Idle, holder # t, mutex_lock(t)
    PROVE  IInv'
<1>1. state[t] = "RUNNING" /\ depth[t] = 0
  BY DEF IInv, OneRunning, LockExact
<1>2. \A i \in 1 .. Len(waiters) : waiters[i] # t
  BY <1>1 DEF IInv, WaitersExact
<1>3. CASE value
  <2> DEFINE st == Suspend(state, t, "BLOCKED")
  <2>1. /\ waiters' = <<t>> \o waiters
        /\ pc' = [pc EXCEPT ![t] = "locking"]
        /\ schedule(st)
        /\ UNCHANGED <<value, holder, repeat, depth>>
    BY <1>3 DEF mutex_lock
  <2>2. /\ st \in [Tasks -> States]
        /\ \A u \in Tasks : st[u] = IF u = t THEN "BLOCKED" ELSE state[u]
    BY DEF IInv, TypeOK, TaskTypeOK, Suspend, States, Suspended
  <2>3. /\ \A u \in Tasks : st[u] = "RUNNING" => u = running
        /\ st[Idle] \in {"READY", "RUNNING"}
    BY <2>2, IdleAssumption DEF IInv, OneRunning, IdleRunnable
  <2>4. /\ TaskTypeOK' /\ OneRunning' /\ IdleRunnable'
        /\ \A u \in Tasks : state'[u] = "BLOCKED" <=> u = t \/ state[u] = "BLOCKED"
    <3> HIDE DEF st
    <3>1. running \in Tasks
      BY DEF IInv, TypeOK, TaskTypeOK
    <3>2. /\ TaskTypeOK' /\ OneRunning' /\ IdleRunnable'
          /\ \A u \in Tasks : st[u] \in Suspended => state'[u] = st[u]
          /\ \A u \in Tasks : st[u] \notin Suspended => state'[u] \in {"READY", "RUNNING"}
      BY <2>1, <2>2, <2>3, <3>1, ScheduleLemma
    <3> QED
      BY <2>2, <3>2 DEF Suspended
  <2>5. /\ waiters \in Seq(Tasks) /\ Len(waiters) \in Nat
        /\ waiters' \in Seq(Tasks)
        /\ Len(waiters') = Len(waiters) + 1
        /\ waiters'[1] = t
        /\ \A i \in 1 .. Len(waiters) : waiters'[i + 1] = waiters[i]
        /\ \A i \in 2 .. Len(waiters) + 1 : waiters'[i] = waiters[i - 1]
    BY <2>1, PushLemma DEF IInv, TypeOK
  <2>6. TypeOK'
    BY <2>1, <2>4, <2>5 DEF IInv, TypeOK
  <2>7. WaitersExact'
    <3>1. ASSUME NEW i \in 1 .. Len(waiters'), NEW j \in 1 .. Len(waiters'),
                 waiters'[i] = waiters'[j]
          PROVE  i = j
      <4>1. CASE i = 1 \/ j = 1
        <5>1. \A k \in 1 .. Len(waiters') : k # 1 => waiters'[k] # t
          <6> SUFFICES ASSUME NEW k \in 1 .. Len(waiters'), k # 1 PROVE waiters'[k] # t
            OBVIOUS
          <6>1. k - 1 \in 1 .. Len(waiters) /\ waiters'[k] = waiters[k - 1]
            BY <2>5
          <6> QED
            BY <1>2, <6>1
        <5> QED
          BY <2>5, <3>1, <4>1, <5>1
      <4>2. CASE i # 1 /\ j # 1
        <5>1. i - 1 \in 1 .. Len(waiters) /\ j - 1 \in 1 .. Len(waiters)
          BY <2>5, <4>2
        <5>2. waiters[i - 1] = waiters[j - 1]
          BY <2>5, <3>1, <4>2
        <5>3. i - 1 = j - 1
          BY <5>1, <5>2 DEF IInv, WaitersExact
        <5> QED
          BY <2>5, <5>3
      <4> QED
        BY <4>1, <4>2
    <3>2. ASSUME NEW u \in Tasks
          PROVE  (\E i \in 1 .. Len(waiters') : waiters'[i] = u) <=> state'[u] = "BLOCKED"
      <4>1. CASE u = t
        BY <2>4, <2>5, <4>1
      <4>2. CASE u # t
        <5>1. (\E i \in 1 .. Len(waiters') : waiters'[i] = u)
                 <=> (\E i \in 1 .. Len(waiters) : waiters[i] = u)
          <6>1. ASSUME NEW i \in 1 .. Len(waiters'), waiters'[i] = u
                PROVE  \E j \in 1 .. Len(waiters) : waiters[j] = u
            <7>1. i - 1 \in 1 .. Len(waiters) /\ waiters'[i] = waiters[i - 1]
              BY <2>5, <4>2, <6>1
            <7> QED
              BY <6>1, <7>1
          <6>2. ASSUME NEW i \in 1 .. Len(waiters), waiters[i] = u
                PROVE  \E j \in 1 .. Len(waiters') : waiters'[j] = u
            <7>1. i + 1 \in 1 .. Len(waiters') /\ waiters'[i + 1] = waiters[i]
              BY <2>5
            <7> QED
              BY <6>2, <7>1
          <6> QED
            BY <6>1, <6>2
        <5> QED
          BY <2>4, <4>2, <5>1 DEF IInv, WaitersExact
      <4> QED
        BY <4>1, <4>2
    <3>3. \A u \in Tasks : state'[u] = "BLOCKED" => pc'[u] = "locking"
      BY <2>1, <2>4 DEF IInv, WaitersExact, TypeOK
    <3>4. pc'[Idle] = "run"
      BY <2>1, IdleAssumption DEF IInv, WaitersExact, TypeOK
    <3> QED
      BY <3>1, <3>2, <3>3, <3>4 DEF WaitersExact
  <2>8. LockExact'
    BY <1>1, <2>1 DEF IInv, LockExact, TypeOK
  <2>9. NoLostWakeup'
    BY <1>3, <2>1 DEF NoLostWakeup
  <2> QED
    BY <2>4, <2>6, <2>7, <2>8, <2>9 DEF IInv
<1>4. CASE ~value
  <2>1. /\ value' = TRUE /\ holder' = t /\ repeat' = 1
        /\ pc' = [pc EXCEPT ![t] = "run"]
        /\ depth' = [depth EXCEPT ![t] = @ + 1]
        /\ UNCHANGED <<taskVars, waiters>>
    BY <1>4 DEF mutex_lock
  <2>2. holder = NoTask /\ \A u \in Tasks : depth[u] = 0
    BY <1>4, MutexAssumption DEF IInv, LockExact
  <2>3. TypeOK' /\ OneRunning' /\ IdleRunnable'
    BY <1>1, <2>1, MutexAssumption DEF IInv, TypeOK, TaskTypeOK, OneRunning, IdleRunnable, taskVars
  <2>4. WaitersExact'
    <3>1. state' = state /\ waiters' = waiters /\ WaitersExact
      BY <2>1 DEF IInv, taskVars
    <3>2. pc'[Idle] = "run" /\ \A u \in Tasks : u # t => pc'[u] = pc[u]
      BY <2>1, IdleAssumption DEF IInv, WaitersExact, TypeOK
    <3>3. \A u \in Tasks : state[u] = "BLOCKED" => pc'[u] = "locking"
      BY <1>1, <3>1, <3>2 DEF WaitersExact
    <3> QED
      BY <3>1, <3>2, <3>3 DEF WaitersExact
  <2>5. LockExact'
    BY <2>1, <2>2, MutexAssumption DEF IInv, LockExact, TypeOK
  <2>6. NoLostWakeup'
    BY <2>1 DEF NoLostWakeup
  <2> QED
    BY <2>3, <2>4, <2>5, <2>6 DEF IInv
<1> QED
  BY <1>3, <1>4

(* lock_release by the task whose acquisitions are outstanding.            *)
LEMMA LockReleaseLemma ==
    ASSUME IInv, NEW t \in Tasks, lock_release(t)
    PROVE  IInv'
<1>1. /\ t = running /\ depth[t] > 0 /\ pc[t] = "run"
      /\ depth' = [depth EXCEPT ![t] = @ - 1]
      /\ pc' = pc
  BY DEF lock_release
<1>2. /\ t = holder /\ value /\ depth[t] = repeat /\ repeat > 0
      /\ \A u \in Tasks : u # t => depth[u] = 0
      /\ state[t] = "RUNNING"
  BY <1>1, MutexAssumption DEF IInv, LockExact, OneRunning, TypeOK, TaskTypeOK
<1>3. CASE repeat > 1
  <2>1. /\ repeat' = repeat - 1
        /\ UNCHANGED <<taskVars, value, waiters, holder>>
    BY <1>3 DEF lock_release, IInv, TypeOK
  <2>2. TypeOK' /\ OneRunning' /\ IdleRunnable'
    <3>1. repeat' \in 0 .. MaxRepeat /\ depth' \in [Tasks -> 0 .. MaxRepeat]
      BY <1>1, <1>2, <1>3, <2>1, MutexAssumption DEF IInv, TypeOK
    <3>2. TaskTypeOK' /\ OneRunning' /\ IdleRunnable'
      BY <2>1 DEF IInv, TypeOK, TaskTypeOK, OneRunning, IdleRunnable, taskVars
    <3> QED
      BY <1>1, <2>1, <3>1, <3>2 DEF IInv, TypeOK
  <2>3. WaitersExact'
    BY <1>1, <2>1 DEF IInv, WaitersExact, taskVars
  <2>4. LockExact'
    BY <1>1, <1>2, <1>3, <2>1, MutexAssumption DEF IInv, LockExact, TypeOK
  <2>5. NoLostWakeup'
    BY <1>2, <2>1 DEF NoLostWakeup
  <2> QED
    BY <2>2, <2>3, <2>4, <2>5 DEF IInv
<1>4. CASE repeat <= 1
  <2>1. holder' = NoTask /\ repeat' = 0 /\ mutex_unlock
    BY <1>4 DEF lock_release, IInv, TypeOK
  <2>2. value' = FALSE
    BY <2>1 DEF mutex_unlock
  <2>3. LockExact'
    BY <1>1, <1>2, <1>4, <2>1, <2>2, MutexAssumption DEF IInv, LockExact, TypeOK
  <2>4. /\ holder' \in Tasks \cup {NoTask} /\ repeat' \in 0 .. MaxRepeat
        /\ pc' \in [Tasks -> {"run", "locking"}]
        /\ depth' \in [Tasks -> 0 .. MaxRepeat]
    BY <1>1, <1>2, <2>1, MutexAssumption DEF IInv, TypeOK
  <2>5. CASE waiters = <<>>
    <3>1. UNCHANGED <<taskVars, waiters>>
      BY <2>1, <2>5 DEF mutex_unlock
    <3>2. TaskTypeOK' /\ OneRunning' /\ IdleRunnable'
      BY <3>1 DEF IInv, TypeOK, TaskTypeOK, OneRunning, IdleRunnable, taskVars
    <3>3. TypeOK'
      BY <2>2, <2>4, <3>1, <3>2 DEF IInv, TypeOK
    <3>4. WaitersExact' /\ NoLostWakeup'
      BY <1>1, <2>5, <3>1 DEF IInv, WaitersExact, NoLostWakeup, taskVars
    <3> QED
      BY <2>3, <3>2, <3>3, <3>4 DEF IInv
  <2>6. CASE waiters # <<>>
    <3> DEFINE oldest == waiters[Len(waiters)]
               st == Unblock(state, {oldest})
    <3>1. /\ waiters' = SubSeq(waiters, 1, Len(waiters) - 1)
          /\ schedule(st)
      BY <2>1, <2>6 DEF mutex_unlock
    <3>2. /\ waiters \in Seq(Tasks) /\ Len(waiters) \in Nat \ {0}
          /\ oldest \in Tasks
          /\ waiters' \in Seq(Tasks)
          /\ Len(waiters') = Len(waiters) - 1
          /\ \A i \in 1 .. Len(waiters) - 1 : waiters'[i] = waiters[i]
      BY <2>6, <3>1, PopLemma DEF IInv, TypeOK
    <3>3. state[oldest] = "BLOCKED" /\ pc[oldest] = "locking" /\ oldest # Idle
      BY <3>2 DEF IInv, WaitersExact
    <3> HIDE DEF oldest
    <3>4. /\ st \in [Tasks -> States]
          /\ \A u \in Tasks : st[u] = IF u = oldest THEN "READY" ELSE state[u]
      BY DEF IInv, TypeOK, TaskTypeOK, Unblock, States
    <3>5. /\ \A u \in Tasks : st[u] = "RUNNING" => u = running
          /\ st[Idle] \in {"READY", "RUNNING"}
          /\ running \in Tasks
      BY <3>3, <3>4, IdleAssumption DEF IInv, OneRunning, IdleRunnable, TypeOK, TaskTypeOK
    <3>6. /\ TaskTypeOK' /\ OneRunning' /\ IdleRunnable'
          /\ \A u \in Tasks : st[u] \in Suspended => state'[u] = st[u]
          /\ \A u \in Tasks : st[u] \notin Suspended => state'[u] \in {"READY", "RUNNING"}
      <4> HIDE DEF st
      <4> QED
        BY <3>1, <3>4, <3>5, ScheduleLemma
    <3>7. /\ \A u \in Tasks : state'[u] = "BLOCKED" <=> u # oldest /\ state[u] = "BLOCKED"
          /\ state'[oldest] \in {"READY", "RUNNING"}
      <4> HIDE DEF st
      <4> QED
        BY <3>2, <3>4, <3>6 DEF Suspended
    <3>8. TypeOK'
      BY <2>2, <2>4, <3>1, <3>2, <3>6 DEF IInv, TypeOK
    <3>9. WaitersExact'
      <4>1. ASSUME NEW u \in Tasks
            PROVE  (\E i \in 1 .. Len(waiters') : waiters'[i] = u)
                      <=> u # oldest /\ (\E i \in 1 .. Len(waiters) : waiters[i] = u)
        <5>1. ASSUME NEW i \in 1 .. Len(waiters'), waiters'[i] = u
              PROVE  u # oldest /\ i \in 1 .. Len(waiters) /\ waiters[i] = u
          BY <3>2, <5>1 DEF IInv, WaitersExact, oldest
        <5>2. ASSUME NEW i \in 1 .. Len(waiters), waiters[i] = u, u # oldest
              PROVE  i \in 1 .. Len(waiters') /\ waiters'[i] = u
          BY <3>2, <5>2 DEF oldest
        <5> QED
          BY <5>1, <5>2
      <4>2. \A i, j \in 1 .. Len(waiters') : waiters'[i] = waiters'[j] => i = j
        BY <3>2 DEF IInv, WaitersExact
      <4>3. /\ \A u \in Tasks : (\E i \in 1 .. Len(waiters') : waiters'[i] = u)
                                   <=> state'[u] = "BLOCKED"
            /\ \A u \in Tasks : state'[u] = "BLOCKED" => pc'[u] = "locking"
            /\ pc'[Idle] = "run"
        BY <1>1, <3>7, <4>1 DEF IInv, WaitersExact
      <4> QED
        BY <4>2, <4>3 DEF WaitersExact
    <3>10. NoLostWakeup'
      BY <1>1, <3>2, <3>3, <3>7 DEF NoLostWakeup
    <3> QED
      BY <2>3, <3>6, <3>8, <3>9, <3>10 DEF IInv
  <2> QED
    BY <2>5, <2>6
<1> QED
  BY <1>2, <1>3, <1>4 DEF IInv, TypeOK

(* The running task may yield or wait for a device, holding the lock or    *)
(* not: it is not inside the loop of mutex_lock.                           *)
LEMMA GiveUpCpuLemma ==
    ASSUME IInv, NEW st \in [Tasks -> States],
           \A u \in Tasks : u # running => st[u] = state[u],
           st[running] \in {"RUNNING", "WAITING"}, st[Idle] \in {"READY", "RUNNING"},
           pc[running] = "run", schedule(st), UNCHANGED <<lockVars, pc, depth>>
    PROVE  IInv'
<1>1. running \in Tasks /\ state[running] = "RUNNING"
  BY DEF IInv, TypeOK, TaskTypeOK, OneRunning
<1>2. \A u \in Tasks : st[u] = "RUNNING" => u = running
  BY <1>1 DEF IInv, OneRunning
<1>3. /\ TaskTypeOK' /\ OneRunning' /\ IdleRunnable'
      /\ \A u \in Tasks : st[u] \in Suspended => state'[u] = st[u]
      /\ \A u \in Tasks : st[u] \notin Suspended => state'[u] \in {"READY", "RUNNING"}
  BY <1>1, <1>2, ScheduleLemma
<1>4. \A u \in Tasks : state'[u] = "BLOCKED" <=> state[u] = "BLOCKED"
  BY <1>1, <1>3 DEF Suspended
<1>5. \A u \in Tasks : pc[u] = "locking" /\ state[u] \in {"READY", "RUNNING"}
                          => state'[u] \in {"READY", "RUNNING"}
  BY <1>1, <1>3 DEF Suspended
<1> QED
  BY <1>3, <1>4, <1>5, FrameLemma

(* The lock's invariants are inductive.                                    *)
LEMMA InductionLemma == IInv /\ [Next]_vars => IInv'
<1> SUFFICES ASSUME IInv, [Next]_vars PROVE IInv'
  OBVIOUS
<1>1. CASE UNCHANGED vars
  BY <1>1, FrameLemma DEF vars, taskVars, IInv, TypeOK, TaskTypeOK, OneRunning, IdleRunnable
<1>2. ASSUME NEW t \in Tasks, lock_acquire(t) PROVE IInv'
  <2>1. CASE holder # t
    BY <1>2, <2>1, MutexLockLemma DEF lock_acquire
  <2>2. CASE holder = t
    <3>1. /\ t = running /\ repeat < MaxRepeat /\ repeat' = repeat + 1
          /\ depth' = [depth EXCEPT ![t] = @ + 1]
          /\ UNCHANGED <<taskVars, value, waiters, holder, pc>>
          /\ pc[t] = "run"
      BY <1>2, <2>2 DEF lock_acquire
    <3>2. /\ depth[t] = repeat /\ value
      BY <2>2, MutexAssumption DEF IInv, LockExact
    <3>3. TypeOK' /\ OneRunning' /\ IdleRunnable'
      BY <3>1, <3>2, MutexAssumption DEF IInv, TypeOK, TaskTypeOK, OneRunning, IdleRunnable, taskVars
    <3>4. LockExact'
      BY <2>2, <3>1, <3>2, MutexAssumption DEF IInv, LockExact, TypeOK
    <3>5. WaitersExact' /\ NoLostWakeup'
      BY <3>1, <3>2 DEF IInv, WaitersExact, NoLostWakeup, taskVars
    <3> QED
      BY <3>3, <3>4, <3>5 DEF IInv
  <2> QED
    BY <2>1, <2>2
<1>3. ASSUME NEW t \in Tasks, lock_retry(t) PROVE IInv'
  <2>1. holder # t /\ t # Idle /\ t = running
    BY <1>3, MutexAssumption DEF lock_retry, IInv, LockExact, WaitersExact, TypeOK
  <2> QED
    BY <1>3, <2>1, MutexLockLemma DEF lock_retry
<1>4. ASSUME NEW t \in Tasks, lock_release(t) PROVE IInv'
  BY <1>4, LockReleaseLemma
<1>5. ASSUME NEW t \in Tasks, device_interrupt(t) PROVE IInv'
  <2>1. /\ TaskTypeOK' /\ OneRunning' /\ IdleRunnable'
        /\ \A u \in Tasks : state'[u] = "BLOCKED" <=> state[u] = "BLOCKED"
        /\ \A u \in Tasks : state[u] \in {"READY", "RUNNING"} => state'[u] \in {"READY", "RUNNING"}
    BY <1>5, IdleAssumption DEF device_interrupt, IInv, TypeOK, TaskTypeOK, OneRunning, IdleRunnable,
                Unblock, States, Suspended
  <2> QED
    BY <1>5, <2>1, FrameLemma DEF device_interrupt
<1>6. CASE task_yield
  <2>1. state \in [Tasks -> States] /\ state[running] = "RUNNING"
        /\ state[Idle] \in {"READY", "RUNNING"}
    BY DEF IInv, TypeOK, TaskTypeOK, OneRunning, IdleRunnable
  <2> QED
    BY <1>6, <2>1, GiveUpCpuLemma DEF task_yield
<1>7. CASE device_wait
  <2> DEFINE st == Suspend(state, running, "WAITING")
  <2>1. /\ st \in [Tasks -> States] /\ st[running] = "WAITING"
        /\ st[Idle] \in {"READY", "RUNNING"}
        /\ \A u \in Tasks : u # running => st[u] = state[u]
    BY <1>7, IdleAssumption DEF device_wait, IInv, TypeOK, TaskTypeOK, IdleRunnable, Suspend, States, Suspended
  <2>2. /\ pc[running] = "run" /\ schedule(st)
        /\ UNCHANGED <<lockVars, pc, depth>>
    BY <1>7 DEF device_wait
  <2> HIDE DEF st
  <2> QED
    BY <2>1, <2>2, GiveUpCpuLemma
<1> QED
  BY <1>1, <1>2, <1>3, <1>4, <1>5, <1>6, <1>7 DEF Next

(* The lock as lock_init leaves it.                                        *)
LEMMA InitLemma ==
    ASSUME Init PROVE IInv
<1>1. TaskTypeOK /\ OneRunning /\ IdleRunnable
  BY IdleAssumption DEF Init, AllReady, TaskTypeOK, OneRunning, IdleRunnable, States
<1>2. TypeOK
  <2>1. waiters \in Seq(Tasks)
    BY EmptySeq DEF Init
  <2>2. 0 \in 0 .. MaxRepeat
    BY MutexAssumption
  <2>3. /\ pc \in [Tasks -> {"run", "locking"}]
        /\ depth \in [Tasks -> 0 .. MaxRepeat]
        /\ repeat \in 0 .. MaxRepeat
    BY <2>2 DEF Init
  <2>4. value \in BOOLEAN /\ holder \in Tasks \cup {NoTask}
    BY DEF Init
  <2> QED
    BY <1>1, <2>1, <2>3, <2>4 DEF TypeOK
<1>3. WaitersExact
  <2>1. Len(waiters) = 0
    BY EmptySeq DEF Init
  <2>2. \A t \in Tasks : state[t] # "BLOCKED"
    BY DEF Init, AllReady
  <2> QED
    BY <2>1, <2>2, IdleAssumption DEF Init, WaitersExact
<1>4. LockExact
  BY MutexAssumption DEF Init, LockExact
<1>5. NoLostWakeup
  BY DEF Init, NoLostWakeup
<1> QED
  BY <1>1, <1>2, <1>3, <1>4, <1>5 DEF IInv

(* The lock of kernel/mutex.c, used by any number of tasks: types, one     *)
(* RUNNING task, an exact wait list, mutual exclusion with an exact        *)
(* reentrancy count, and no lost wakeup.                                   *)
THEOREM LockInvariant == Spec => []IInv
BY InitLemma, InductionLemma, PTL DEF Spec

(* Mutual exclusion: only the recorded holder has acquisitions             *)
(* outstanding, and repeat counts them.                                    *)
THEOREM MutualExclusion == Spec => []LockExact
BY LockInvariant, PTL DEF IInv

(* A task waits on the list exactly while it is BLOCKED in mutex_lock.     *)
THEOREM WaitListExact == Spec => []WaitersExact
BY LockInvariant, PTL DEF IInv

(* No wakeup is lost: with tasks waiting, the mutex is held or a woken     *)
(* task is about to test it.                                               *)
THEOREM WakeupNotLost == Spec => []NoLostWakeup
BY LockInvariant, PTL DEF IInv

-----------------------------------------------------------------------------
\* The IDE driver.

Ops == [cmd : {"read", "write"}, at : {"issue", "sector", "done"}, disk : DOMAIN Disks,
        lba : Nat, count : Nat \ {0}, buf : Seq(Nat), done : Nat]

InTransfer(t, where) == op[t] # NoOp /\ op[t].at = where

IdeTypeOK == /\ op \in [Tasks -> Ops \cup {NoOp}]
             /\ waiter \in Tasks \cup {NoTask} /\ irq \in BOOLEAN /\ written \in Nat
             /\ drive \in [cmd : {"none", "read", "write"}, lba : Nat, left : Int,
                           phase : {"idle", "busy", "ready"}, data : Seq(Nat)]
             /\ medium = [d \in DOMAIN Disks |-> medium[d]]
             /\ \A d \in DOMAIN Disks : medium[d] \in [0 .. Disks[d] - 1 -> Nat]

\* The lock is held by the task that is inside a transfer and past
\* lock_acquire, once.
TransferLocked == /\ repeat <= 1
                  /\ \A t \in Tasks : (op[t] # NoOp /\ pc[t] = "run") <=> holder = t
                  /\ \A t \in Tasks : pc[t] = "locking" => InTransfer(t, "issue")
                  /\ op[Idle] = NoOp

\* How far a transfer is, and that its sectors are on the disk.
ProgressExact == \A t \in Tasks : op[t] # NoOp =>
    /\ op[t].lba + op[t].count <= Disks[op[t].disk]
    /\ Len(op[t].buf) = IF op[t].cmd = "write" THEN op[t].count ELSE op[t].done
    /\ op[t].at = "issue" => op[t].done = 0
    /\ op[t].at = "sector" => op[t].done < op[t].count
    /\ op[t].at = "done" => op[t].done = op[t].count

\* Only the task at work waits, and for an interrupt that will come.
IdeWaitExact == /\ \A t \in Tasks : state[t] = "WAITING" <=> t = waiter
                /\ waiter # NoTask => /\ holder = waiter /\ InTransfer(waiter, "sector")
                                      /\ drive.phase = "busy" \/ irq

\* The drive works on the next sector of that task, or has it ready.
AtSector(o) ==
    /\ drive.cmd = o.cmd /\ active = o.disk
    /\ \/ /\ drive.phase = "busy" /\ drive.lba = o.lba + o.done
          /\ o.cmd = "write" => drive.data[1] = o.buf[o.done + 1]
       \/ /\ drive.phase = "ready" /\ drive.lba = o.lba + o.done + 1
          /\ o.cmd = "read" => drive.data[1] = medium[o.disk][o.lba + o.done]
          /\ o.cmd = "write" => medium[o.disk][o.lba + o.done] = o.buf[o.done + 1]

DriveExact == /\ \A t \in Tasks : InTransfer(t, "sector") => AtSector(op[t])
              /\ drive.phase = "busy" => \E t \in Tasks : InTransfer(t, "sector")

IdeInv == /\ IdeTypeOK /\ TransferLocked /\ ProgressExact /\ IdeWaitExact /\ DriveExact
          /\ TransferIntact /\ charWaiter = NoTask

-----------------------------------------------------------------------------
\* The character devices.

CharTypeOK == /\ todo \in [Tasks -> Nat] /\ charWaiter \in Tasks \cup {NoTask}
              /\ events \in Nat

CallLocked == /\ repeat <= 1
              /\ \A t \in Tasks : (todo[t] > 0 /\ pc[t] = "run") <=> holder = t
              /\ \A t \in Tasks : pc[t] = "locking" => todo[t] > 0
              /\ todo[Idle] = 0

CharWaitExact == /\ \A t \in Tasks : state[t] = "WAITING" <=> t = charWaiter
                 /\ charWaiter # NoTask => holder = charWaiter
                 /\ charWaiter # NoTask /\ port # "tx" => fifo_empty

CharInv == CharTypeOK /\ CallLocked /\ CharWaitExact /\ waiter = NoTask

-----------------------------------------------------------------------------
DriversInv == /\ IInv
              /\ part = "ide" => IdeInv
              /\ part = "char" => CharInv
              /\ part # "ide" => op = [t \in Tasks |-> NoOp]

-----------------------------------------------------------------------------
\* Who waits for a device, after each use of the lock.

(* schedule() changes nothing for those who wait for a device.             *)
LEMMA SwitchLemma ==
    ASSUME IInv, NEW st \in [Tasks -> States], schedule(st),
           \A u \in Tasks : st[u] = "RUNNING" => u = running,
           st[Idle] \in {"READY", "RUNNING"}
    PROVE  \A u \in Tasks : state'[u] = "WAITING" <=> st[u] = "WAITING"
<1>1. running \in Tasks
  BY DEF IInv, TypeOK, TaskTypeOK
<1>2. /\ \A u \in Tasks : st[u] \in Suspended => state'[u] = st[u]
      /\ \A u \in Tasks : st[u] \notin Suspended => state'[u] \in {"READY", "RUNNING"}
  BY <1>1, ScheduleLemma
<1> QED
  BY <1>2 DEF Suspended

(* The caller suspends itself to wait for a device.                        *)
LEMMA AwaitLemma ==
    ASSUME IInv, NEW t \in Tasks, t = running, t # Idle, schedule(Suspend(state, t, "WAITING"))
    PROVE  \A u \in Tasks : state'[u] = "WAITING" <=> u = t \/ state[u] = "WAITING"
<1> DEFINE st == Suspend(state, t, "WAITING")
<1>1. /\ st \in [Tasks -> States]
      /\ \A u \in Tasks : st[u] = IF u = t THEN "WAITING" ELSE state[u]
  BY DEF IInv, TypeOK, TaskTypeOK, Suspend, States, Suspended
<1>2. /\ \A u \in Tasks : st[u] = "RUNNING" => u = running
      /\ st[Idle] \in {"READY", "RUNNING"}
  BY <1>1, IdleAssumption DEF IInv, OneRunning, IdleRunnable
<1>3. schedule(st)
  OBVIOUS
<1> HIDE DEF st
<1>4. \A u \in Tasks : state'[u] = "WAITING" <=> st[u] = "WAITING"
  BY <1>1, <1>2, <1>3, SwitchLemma
<1> QED
  BY <1>1, <1>4

(* The CPU is given away by a task that can go on.                         *)
LEMMA YieldLemma ==
    ASSUME IInv, schedule(state)
    PROVE  \A u \in Tasks : state'[u] = "WAITING" <=> state[u] = "WAITING"
<1>1. /\ state \in [Tasks -> States]
      /\ \A u \in Tasks : state[u] = "RUNNING" => u = running
      /\ state[Idle] \in {"READY", "RUNNING"}
  BY DEF IInv, TypeOK, TaskTypeOK, OneRunning, IdleRunnable
<1> QED
  BY <1>1, SwitchLemma

(* A turn of mutex_lock leaves the caller in the loop or makes it the      *)
(* holder of a lock that was free.                                         *)
LEMMA AcquireLemma ==
    ASSUME IInv, NEW t \in Tasks, holder # t, lock_acquire(t) \/ lock_retry(t)
    PROVE  /\ t = running /\ t # Idle
           /\ \A u \in Tasks : state'[u] = "WAITING" <=> state[u] = "WAITING"
           /\ \/ /\ pc' = [pc EXCEPT ![t] = "locking"]
                 /\ holder' = holder /\ repeat' = repeat
              \/ /\ pc' = [pc EXCEPT ![t] = "run"]
                 /\ holder = NoTask /\ holder' = t /\ repeat' = 1
<1>1. t = running /\ t # Idle /\ mutex_lock(t)
  BY DEF lock_acquire, lock_retry, IInv, WaitersExact
<1>2. CASE value
  <2> DEFINE st == Suspend(state, t, "BLOCKED")
  <2>1. /\ pc' = [pc EXCEPT ![t] = "locking"] /\ schedule(st)
        /\ holder' = holder /\ repeat' = repeat
    BY <1>1, <1>2 DEF mutex_lock
  <2>2. /\ st \in [Tasks -> States]
        /\ \A u \in Tasks : st[u] = IF u = t THEN "BLOCKED" ELSE state[u]
    BY DEF IInv, TypeOK, TaskTypeOK, Suspend, States, Suspended
  <2>3. /\ \A u \in Tasks : st[u] = "RUNNING" => u = running
        /\ st[Idle] \in {"READY", "RUNNING"} /\ state[t] = "RUNNING"
    BY <1>1, <2>2, IdleAssumption DEF IInv, OneRunning, IdleRunnable
  <2> HIDE DEF st
  <2>4. \A u \in Tasks : state'[u] = "WAITING" <=> st[u] = "WAITING"
    BY <2>1, <2>2, <2>3, SwitchLemma
  <2> QED
    BY <1>1, <2>1, <2>2, <2>3, <2>4
<1>3. CASE ~value
  BY <1>1, <1>3 DEF mutex_lock, taskVars, IInv, LockExact
<1> QED
  BY <1>2, <1>3

(* The last lock_release leaves the lock free.                             *)
LEMMA ReleaseLemma ==
    ASSUME IInv, NEW t \in Tasks, repeat <= 1, lock_release(t)
    PROVE  /\ t = running /\ holder = t /\ holder' = NoTask /\ repeat' = 0 /\ pc' = pc
           /\ \A u \in Tasks : state'[u] = "WAITING" <=> state[u] = "WAITING"
<1>1. t = running /\ holder = t
  BY DEF lock_release, IInv, LockExact, TypeOK
<1>2. repeat \in Int
  BY DEF IInv, TypeOK
<1>3. holder' = NoTask /\ repeat' = 0 /\ mutex_unlock /\ pc' = pc
  BY <1>2 DEF lock_release
<1>4. CASE waiters = <<>> /\ UNCHANGED <<taskVars, waiters>>
  BY <1>1, <1>3, <1>4 DEF taskVars
<1>5. CASE waiters # <<>> /\ schedule(Unblock(state, {waiters[Len(waiters)]}))
  <2> DEFINE oldest == waiters[Len(waiters)]
             st == Unblock(state, {oldest})
  <2>1. Len(waiters) \in Nat \ {0} /\ oldest \in Tasks
    BY <1>5, PopLemma DEF IInv, TypeOK
  <2>2. state[oldest] = "BLOCKED"
    <3>1. Len(waiters) \in 1 .. Len(waiters)
      BY <2>1
    <3> QED
      BY <2>1, <3>1 DEF IInv, WaitersExact
  <2> HIDE DEF oldest
  <2>3. /\ st \in [Tasks -> States]
        /\ \A u \in Tasks : st[u] = IF u = oldest THEN "READY" ELSE state[u]
    BY DEF IInv, TypeOK, TaskTypeOK, Unblock, States
  <2>4. /\ \A u \in Tasks : st[u] = "RUNNING" => u = running
        /\ st[Idle] \in {"READY", "RUNNING"}
    BY <2>3, IdleAssumption DEF IInv, OneRunning, IdleRunnable
  <2>5. schedule(st)
    BY <1>5 DEF oldest
  <2> HIDE DEF st
  <2>6. \A u \in Tasks : state'[u] = "WAITING" <=> st[u] = "WAITING"
    BY <2>3, <2>4, <2>5, SwitchLemma
  <2>7. \A u \in Tasks : st[u] = "WAITING" <=> state[u] = "WAITING"
    BY <2>2, <2>3
  <2> QED
    BY <1>1, <1>3, <2>6, <2>7
<1> QED
  BY <1>3, <1>4, <1>5 DEF mutex_unlock

-----------------------------------------------------------------------------
\* The steps of the character devices.  Each is a step of a task that uses
\* the lock, and keeps CharInv.

(* A handler that wakes the waiter, if there is one.                       *)
LEMMA CharWakeStep ==
    ASSUME IInv, CharInv, UNCHANGED <<running, lockVars, pc, depth, port, todo>>, events' \in Nat,
           state' = IF charWaiter = NoTask THEN state ELSE Unblock(state, {charWaiter}),
           charWaiter' = NoTask, waiter' = waiter
    PROVE  [Next]_vars /\ CharInv'
<1>1. CharTypeOK /\ CallLocked /\ CharWaitExact /\ waiter = NoTask
  BY DEF CharInv
<1>2. [Next]_vars
  <2>1. CASE charWaiter = NoTask
    BY <2>1 DEF vars, taskVars
  <2>2. CASE charWaiter # NoTask
    <3>1. charWaiter \in Tasks /\ state[charWaiter] = "WAITING"
      BY <1>1, <2>2 DEF CharTypeOK, CharWaitExact
    <3>2. device_interrupt(charWaiter)
      BY <2>2, <3>1 DEF device_interrupt
    <3> QED
      BY <3>1, <3>2 DEF Next
  <2> QED
    BY <2>1, <2>2
<1>3. \A t \in Tasks : state'[t] # "WAITING"
  <2>1. CASE charWaiter = NoTask
    BY <1>1, <2>1, MutexAssumption DEF CharWaitExact
  <2>2. CASE charWaiter # NoTask
    BY <1>1, <2>2 DEF CharWaitExact, Unblock
  <2> QED
    BY <2>1, <2>2
<1>4. CharTypeOK' /\ CallLocked'
  BY <1>1 DEF CharTypeOK, CallLocked, lockVars
<1>5. CharWaitExact'
  BY <1>3, MutexAssumption DEF CharWaitExact
<1> QED
  BY <1>1, <1>2, <1>4, <1>5 DEF CharInv

(* Nothing changes that the invariant is about, or only the ring buffer    *)
(* while nobody waits for it.                                              *)
LEMMA CharIdleStep ==
    ASSUME CharInv, UNCHANGED <<vars, port, todo, charWaiter, waiter>>, events' \in Nat,
           charWaiter = NoTask \/ port = "tx" \/ UNCHANGED fifoVars
    PROVE  [Next]_vars /\ CharInv'
BY DEF CharInv, CharTypeOK, CallLocked, CharWaitExact, vars, taskVars, lockVars, fifoVars, fifo_empty

(* keyboard_handler, serial_handler and the line itself.                   *)
LEMMA CharHandlerStep ==
    ASSUME IInv, CharInv, keyboard_handler \/ serial_handler \/ transmitted, waiter' = waiter
    PROVE  [Next]_vars /\ CharInv'
<1>1. events \in Nat
  BY DEF CharInv, CharTypeOK
<1>2. CASE transmitted
  <2>1. UNCHANGED <<vars, port, todo, charWaiter>> /\ events' = events /\ UNCHANGED fifoVars
    BY <1>2 DEF transmitted
  <2> QED
    BY <1>1, <2>1, CharIdleStep
<1>3. ASSUME keyboard_handler \/ serial_handler
      PROVE  events' \in Nat /\ UNCHANGED <<lockVars, pc, depth, port, todo>>
  BY <1>1, <1>3 DEF keyboard_handler, serial_handler, Interrupted
<1>4. ASSUME keyboard_handler \/ serial_handler, NEW b, Deliver(b)
      PROVE  [Next]_vars /\ CharInv'
  <2>1. /\ UNCHANGED running /\ charWaiter' = NoTask
        /\ state' = IF charWaiter = NoTask THEN state ELSE Unblock(state, {charWaiter})
    BY <1>4 DEF Deliver
  <2> QED
    BY <1>3, <1>4, <2>1, CharWakeStep
<1>5. ASSUME keyboard_handler \/ serial_handler, UNCHANGED <<taskVars, charWaiter>>,
             port = "tx" \/ UNCHANGED fifoVars
      PROVE  [Next]_vars /\ CharInv'
  <2>1. UNCHANGED <<vars, port, todo, charWaiter, waiter>>
    BY <1>3, <1>5 DEF vars
  <2> QED
    BY <1>3, <1>5, <2>1, CharIdleStep
<1>6. CASE keyboard_handler
  <2>1. \/ UNCHANGED <<taskVars, fifoVars, charWaiter>>
        \/ \E k \in DOMAIN Keys : Deliver(Decode(k, extcode, locked'))
    BY <1>6 DEF keyboard_handler
  <2> QED
    BY <1>4, <1>5, <1>6, <2>1
<1>7. CASE serial_handler
  <2>1. CASE port = "rx" /\ \E b \in Bytes : recv_data(b)
    BY <1>4, <1>7, <2>1 DEF recv_data
  <2>2. CASE /\ port = "tx" /\ empty /\ charWaiter # NoTask
             /\ state' = Unblock(state, {charWaiter}) /\ charWaiter' = NoTask /\ UNCHANGED running
    <3>1. state' = IF charWaiter = NoTask THEN state ELSE Unblock(state, {charWaiter})
      BY <2>2
    <3> QED
      BY <1>3, <1>7, <2>2, <3>1, CharWakeStep
  <2>3. CASE port = "tx" /\ UNCHANGED <<taskVars, charWaiter>>
    BY <1>5, <1>7, <2>3
  <2> QED
    BY <1>7, <2>1, <2>2, <2>3 DEF serial_handler
<1> QED
  BY <1>2, <1>6, <1>7

(* A call begins, or a caller that was woken tries the lock again.         *)
LEMMA CharAcquireStep ==
    ASSUME IInv, CharInv, NEW t \in Tasks, lock_acquire(t) \/ lock_retry(t), holder # t,
           todo' \in [Tasks -> Nat], todo'[t] > 0, \A u \in Tasks : u # t => todo'[u] = todo[u],
           UNCHANGED <<fifoVars, port, charWaiter, waiter>>, events' \in Nat
    PROVE  [Next]_vars /\ CharInv'
<1>1. CharTypeOK /\ CallLocked /\ CharWaitExact /\ waiter = NoTask
  BY DEF CharInv
<1>2. /\ t = running /\ t # Idle
      /\ \A u \in Tasks : state'[u] = "WAITING" <=> state[u] = "WAITING"
      /\ \/ /\ pc' = [pc EXCEPT ![t] = "locking"]
            /\ holder' = holder /\ repeat' = repeat
         \/ /\ pc' = [pc EXCEPT ![t] = "run"]
            /\ holder = NoTask /\ holder' = t /\ repeat' = 1
  BY AcquireLemma
<1>3. [Next]_vars
  BY DEF Next
<1>4. pc \in [Tasks -> {"run", "locking"}]
  BY DEF IInv, TypeOK
<1>5. /\ \/ pc'[t] = "locking" /\ holder' = holder
         \/ pc'[t] = "run" /\ holder' = t /\ holder = NoTask
      /\ \A u \in Tasks : u # t => pc'[u] = pc[u]
      /\ repeat' <= 1
  BY <1>1, <1>2, <1>4 DEF CallLocked
<1>6. CallLocked'
  <2>1. ASSUME NEW u \in Tasks PROVE (todo'[u] > 0 /\ pc'[u] = "run") <=> holder' = u
    <3>1. CASE u = t
      BY <1>5, <3>1
    <3>2. CASE u # t
      BY <1>1, <1>5, <3>2, MutexAssumption DEF CallLocked
    <3> QED
      BY <3>1, <3>2
  <2>2. ASSUME NEW u \in Tasks, pc'[u] = "locking" PROVE todo'[u] > 0
    BY <1>1, <1>5, <2>2 DEF CallLocked
  <2>3. todo'[Idle] = 0
    BY <1>1, <1>2, IdleAssumption DEF CallLocked
  <2> QED
    BY <1>5, <2>1, <2>2, <2>3 DEF CallLocked
<1>7. CharWaitExact'
  <2>1. fifo_empty' = fifo_empty
    BY DEF fifo_empty, fifoVars
  <2>2. charWaiter # NoTask => holder' = charWaiter
    <3> SUFFICES ASSUME charWaiter # NoTask PROVE holder' = charWaiter
      OBVIOUS
    <3>1. holder = charWaiter
      BY <1>1 DEF CharWaitExact
    <3> QED
      BY <1>5, <3>1
  <2> QED
    BY <1>1, <1>2, <2>1, <2>2 DEF CharWaitExact
<1>8. CharTypeOK' /\ waiter' = NoTask
  BY <1>1 DEF CharTypeOK
<1> QED
  BY <1>3, <1>6, <1>7, <1>8 DEF CharInv

(* A turn of a read or write loop that waits for the device.               *)
LEMMA CharAwaitStep ==
    ASSUME IInv, CharInv, NEW t \in Tasks, In(t), wait_for_device(t), fifo_empty \/ port = "tx",
           UNCHANGED <<fifoVars, port, todo, waiter, events>>
    PROVE  [Next]_vars /\ CharInv'
<1>1. CharTypeOK /\ CallLocked /\ CharWaitExact /\ waiter = NoTask
  BY DEF CharInv
<1>2. t = running /\ pc[t] = "run" /\ todo[t] > 0 /\ t # Idle /\ holder = t
  BY <1>1 DEF In, CallLocked
<1>3. /\ charWaiter' = t /\ schedule(Suspend(state, t, "WAITING")) /\ UNCHANGED <<lockVars, pc, depth>>
  BY DEF wait_for_device
<1>4. [Next]_vars
  BY <1>2, <1>3 DEF Next, device_wait
<1>5. \A u \in Tasks : state'[u] = "WAITING" <=> u = t \/ state[u] = "WAITING"
  BY <1>2, <1>3, AwaitLemma
<1>6. state[t] = "RUNNING"
  BY <1>2 DEF IInv, OneRunning
<1>7. charWaiter = NoTask
  BY <1>1, <1>2, <1>6 DEF CharWaitExact
<1>8. CharTypeOK' /\ CallLocked'
  BY <1>1, <1>3 DEF CharTypeOK, CallLocked, lockVars
<1>9. CharWaitExact'
  <2>1. fifo_empty' = fifo_empty
    BY DEF fifo_empty, fifoVars
  <2>2. \A u \in Tasks : state'[u] = "WAITING" <=> u = charWaiter'
    BY <1>1, <1>3, <1>5, <1>7, MutexAssumption DEF CharWaitExact
  <2>3. holder' = charWaiter'
    BY <1>2, <1>3 DEF lockVars
  <2>4. port' # "tx" => fifo_empty'
    BY <2>1
  <2> QED
    BY <2>2, <2>3, <2>4 DEF CharWaitExact
<1> QED
  BY <1>1, <1>4, <1>8, <1>9 DEF CharInv

(* A turn that moves a character, and gives the lock back after the last.  *)
LEMMA CharMoveStep ==
    ASSUME IInv, CharInv, NEW t \in Tasks, In(t), todo' = [todo EXCEPT ![t] = @ - 1],
           IF todo[t] = 1 THEN lock_release(t) ELSE UNCHANGED vars,
           UNCHANGED <<port, charWaiter, waiter, events>>
    PROVE  [Next]_vars /\ CharInv'
<1>1. CharTypeOK /\ CallLocked /\ CharWaitExact /\ waiter = NoTask
  BY DEF CharInv
<1>2. t = running /\ pc[t] = "run" /\ todo[t] > 0 /\ t # Idle /\ holder = t /\ todo[t] \in Nat
  BY <1>1 DEF In, CallLocked, CharTypeOK
<1>3. state[t] = "RUNNING"
  BY <1>2 DEF IInv, OneRunning
<1>4. charWaiter = NoTask
  BY <1>1, <1>2, <1>3 DEF CharWaitExact
<1>5. /\ todo' \in [Tasks -> Nat] /\ todo'[t] = todo[t] - 1
      /\ \A u \in Tasks : u # t => todo'[u] = todo[u]
  BY <1>1, <1>2 DEF CharTypeOK
<1>6. CASE todo[t] = 1
  <2>1. /\ holder' = NoTask /\ repeat' = 0 /\ pc' = pc
        /\ \A u \in Tasks : state'[u] = "WAITING" <=> state[u] = "WAITING"
    BY <1>1, <1>6, ReleaseLemma DEF CallLocked
  <2>2. [Next]_vars
    BY <1>6 DEF Next
  <2>3. CallLocked'
    <3>1. ASSUME NEW u \in Tasks PROVE (todo'[u] > 0 /\ pc'[u] = "run") <=> holder' = u
      <4>1. holder' # u
        BY <2>1, MutexAssumption
      <4>2. CASE u = t
        BY <1>5, <1>6, <4>1, <4>2
      <4>3. CASE u # t
        BY <1>1, <1>2, <1>5, <2>1, <4>1, <4>3 DEF CallLocked
      <4> QED
        BY <4>2, <4>3
    <3>2. ASSUME NEW u \in Tasks, pc'[u] = "locking" PROVE todo'[u] > 0
      BY <1>1, <1>2, <1>5, <2>1, <3>2 DEF CallLocked
    <3>3. todo'[Idle] = 0
      BY <1>1, <1>2, <1>5, IdleAssumption DEF CallLocked
    <3> QED
      BY <2>1, <3>1, <3>2, <3>3 DEF CallLocked
  <2>4. CharWaitExact'
    BY <1>1, <1>4, <2>1 DEF CharWaitExact
  <2>5. CharTypeOK' /\ waiter' = NoTask
    BY <1>1, <1>5 DEF CharTypeOK
  <2> QED
    BY <2>2, <2>3, <2>4, <2>5 DEF CharInv
<1>7. CASE todo[t] # 1
  <2>1. UNCHANGED vars /\ holder' = holder /\ repeat' = repeat /\ pc' = pc /\ state' = state
    BY <1>7 DEF vars, lockVars, taskVars
  <2>2. todo'[t] > 0
    BY <1>2, <1>5, <1>7
  <2>3. CallLocked'
    <3>1. \A u \in Tasks : todo'[u] > 0 <=> todo[u] > 0
      BY <1>2, <1>5, <2>2
    <3>2. todo'[Idle] = 0
      BY <1>1, <1>2, <1>5, IdleAssumption DEF CallLocked
    <3> QED
      BY <1>1, <2>1, <3>1, <3>2 DEF CallLocked
  <2>4. CharWaitExact'
    BY <1>1, <1>4, <2>1 DEF CharWaitExact
  <2>5. CharTypeOK' /\ waiter' = NoTask
    BY <1>1, <1>5 DEF CharTypeOK
  <2> QED
    BY <2>1, <2>3, <2>4, <2>5 DEF CharInv
<1> QED
  BY <1>6, <1>7

(* A step of a character device keeps the invariant of the drivers.        *)
LEMMA CharStep ==
    ASSUME IInv, CharInv, CharNext, waiter' = waiter
    PROVE  [Next]_vars /\ CharInv'
<1>0. CharTypeOK /\ CallLocked /\ CharWaitExact /\ waiter = NoTask
  BY DEF CharInv
<1>1. CASE keyboard_handler \/ serial_handler \/ transmitted
  BY <1>1, CharHandlerStep
<1>2. CASE char_preempt
  <2>1. task_yield /\ UNCHANGED charVars
    BY <1>2 DEF char_preempt
  <2>2. [Next]_vars
    BY <2>1 DEF Next
  <2>3. schedule(state) /\ UNCHANGED <<lockVars, pc, depth>>
    BY <2>1 DEF task_yield
  <2>4. \A u \in Tasks : state'[u] = "WAITING" <=> state[u] = "WAITING"
    BY <2>3, YieldLemma
  <2>5. CharTypeOK' /\ CallLocked' /\ CharWaitExact'
    BY <1>0, <2>1, <2>3, <2>4
       DEF CharTypeOK, CallLocked, CharWaitExact, charVars, fifoVars, lockVars, fifo_empty
  <2> QED
    BY <1>0, <2>2, <2>5 DEF CharInv
<1>3. ASSUME NEW t \in Tasks, NEW n \in ReadCounts, char_call(t, n) PROVE [Next]_vars /\ CharInv'
  <2>1. /\ todo[t] = 0 /\ lock_acquire(t) /\ todo' = [todo EXCEPT ![t] = n]
        /\ UNCHANGED <<fifoVars, port, charWaiter>> /\ events' = events
    BY <1>3 DEF char_call
  <2>2. n \in Nat /\ n > 0
    BY CharAssumption
  <2>3. holder # t
    BY <1>0, <2>1 DEF CallLocked
  <2>4. /\ todo' \in [Tasks -> Nat] /\ todo'[t] > 0 /\ \A u \in Tasks : u # t => todo'[u] = todo[u]
        /\ events' \in Nat
    BY <1>0, <2>1, <2>2 DEF CharTypeOK
  <2> QED
    BY <2>1, <2>3, <2>4, CharAcquireStep
<1>4. ASSUME NEW t \in Tasks, char_retry(t) PROVE [Next]_vars /\ CharInv'
  <2>1. /\ lock_retry(t) /\ pc[t] = "locking" /\ UNCHANGED charVars
    BY <1>4 DEF char_retry, lock_retry
  <2>2. holder # t /\ todo[t] > 0
    BY <1>0, <2>1 DEF CallLocked
  <2>3. /\ todo' \in [Tasks -> Nat] /\ todo'[t] > 0 /\ \A u \in Tasks : u # t => todo'[u] = todo[u]
        /\ events' \in Nat /\ UNCHANGED <<fifoVars, port, charWaiter>>
    BY <1>0, <2>1, <2>2 DEF CharTypeOK, charVars
  <2> QED
    BY <2>1, <2>2, <2>3, CharAcquireStep
<1>5. ASSUME NEW t \in Tasks, read_loop(t) PROVE [Next]_vars /\ CharInv'
  <2>1. CASE fifo_empty /\ wait_for_device(t) /\ UNCHANGED <<fifoVars, todo>>
    BY <1>5, <2>1, CharAwaitStep DEF read_loop
  <2>2. CASE /\ todo' = [todo EXCEPT ![t] = @ - 1]
             /\ IF todo[t] = 1 THEN lock_release(t) ELSE UNCHANGED vars
             /\ UNCHANGED charWaiter
    BY <1>5, <2>2, CharMoveStep DEF read_loop
  <2> QED
    BY <1>5, <2>1, <2>2 DEF read_loop
<1>6. ASSUME NEW t \in Tasks, serial_write(t) PROVE [Next]_vars /\ CharInv'
  <2>1. CASE wait_for_device(t) /\ UNCHANGED <<todo, empty>>
    BY <1>6, <2>1, CharAwaitStep DEF serial_write
  <2>2. CASE /\ todo' = [todo EXCEPT ![t] = @ - 1]
             /\ IF todo[t] = 1 THEN lock_release(t) ELSE UNCHANGED vars
             /\ UNCHANGED charWaiter
    BY <1>6, <2>2, CharMoveStep DEF serial_write
  <2> QED
    BY <1>6, <2>1, <2>2 DEF serial_write
<1> QED
  BY <1>1, <1>2, <1>3, <1>4, <1>5, <1>6 DEF CharNext, keyboard_read, serial_read

-----------------------------------------------------------------------------
\* The steps of the IDE driver.

(* One transfer at a time has given its command to the drive.              *)
LEMMA OneSectorLemma ==
    ASSUME IInv, IdeInv, NEW t \in Tasks, NEW u \in Tasks, InTransfer(t, "sector"), InTransfer(u, "sector")
    PROVE  t = u /\ holder = t /\ pc[t] = "run"
<1>1. pc[t] \in {"run", "locking"} /\ pc[u] \in {"run", "locking"}
  BY DEF IInv, TypeOK
<1>2. pc[t] = "run" /\ pc[u] = "run"
  BY <1>1 DEF IdeInv, TransferLocked, InTransfer
<1> QED
  BY <1>2 DEF IdeInv, TransferLocked, InTransfer

(* What a task in a transfer has.                                          *)
LEMMA OpLemma ==
    ASSUME IdeInv, NEW t \in Tasks, op[t] # NoOp
    PROVE  /\ op[t] \in Ops /\ op[t].disk \in DOMAIN Disks
           /\ op[t].cmd \in {"read", "write"} /\ op[t].at \in {"issue", "sector", "done"}
           /\ op[t].lba \in Nat /\ op[t].count \in Nat /\ op[t].count > 0
           /\ op[t].buf \in Seq(Nat) /\ op[t].done \in Nat
           /\ op[t].lba + op[t].count <= Disks[op[t].disk]
           /\ Len(op[t].buf) = IF op[t].cmd = "write" THEN op[t].count ELSE op[t].done
           /\ Disks[op[t].disk] \in Nat
           /\ medium[op[t].disk] \in [0 .. Disks[op[t].disk] - 1 -> Nat]
<1>1. op[t] \in Ops
  BY DEF IdeInv, IdeTypeOK
<1>2. op[t].disk \in DOMAIN Disks
  BY <1>1 DEF Ops
<1> QED
  BY <1>1, <1>2, IdeAssumption DEF IdeInv, IdeTypeOK, Ops, ProgressExact

(* A task whose transfer is about to issue its command takes the lock, or  *)
(* goes to its waiters.                                                    *)
LEMMA IdeAcquireStep ==
    ASSUME IInv, IdeInv, NEW t \in Tasks, lock_acquire(t) \/ lock_retry(t), holder # t,
           NEW o \in Ops, op' = [op EXCEPT ![t] = o], o.at = "issue", o.done = 0,
           o.lba + o.count <= Disks[o.disk],
           Len(o.buf) = IF o.cmd = "write" THEN o.count ELSE 0,
           op[t] = NoOp \/ InTransfer(t, "issue"),
           UNCHANGED <<waiter, active, drive, irq, medium, charWaiter>>, written' \in Nat
    PROVE  [Next]_vars /\ IdeInv'
<1>1. /\ IdeTypeOK /\ TransferLocked /\ ProgressExact /\ IdeWaitExact /\ DriveExact /\ TransferIntact
      /\ charWaiter = NoTask
  BY DEF IdeInv
<1>2. /\ t = running /\ t # Idle
      /\ \A u \in Tasks : state'[u] = "WAITING" <=> state[u] = "WAITING"
      /\ \/ /\ pc' = [pc EXCEPT ![t] = "locking"]
            /\ holder' = holder /\ repeat' = repeat
         \/ /\ pc' = [pc EXCEPT ![t] = "run"]
            /\ holder = NoTask /\ holder' = t /\ repeat' = 1
  BY AcquireLemma
<1>3. [Next]_vars
  BY DEF Next
<1>4. pc \in [Tasks -> {"run", "locking"}]
  BY DEF IInv, TypeOK
<1>5. /\ \/ pc'[t] = "locking" /\ holder' = holder
         \/ pc'[t] = "run" /\ holder' = t /\ holder = NoTask
      /\ \A u \in Tasks : u # t => pc'[u] = pc[u]
      /\ repeat' <= 1
  BY <1>1, <1>2, <1>4 DEF TransferLocked
<1>6. /\ op'[t] = o /\ \A u \in Tasks : u # t => op'[u] = op[u]
      /\ op' \in [Tasks -> Ops \cup {NoOp}]
  BY <1>1 DEF IdeTypeOK
<1>7. o # NoOp
  BY DEF Ops, NoOp
<1>8. \A u \in Tasks : InTransfer(u, "sector")' <=> InTransfer(u, "sector")
  BY <1>6 DEF InTransfer
<1>9. IdeTypeOK'
  BY <1>1, <1>6 DEF IdeTypeOK
<1>10. TransferLocked'
  <2>1. ASSUME NEW u \in Tasks PROVE (op'[u] # NoOp /\ pc'[u] = "run") <=> holder' = u
    <3>1. CASE u = t
      BY <1>5, <1>6, <1>7, <3>1
    <3>2. CASE u # t
      BY <1>1, <1>5, <1>6, <3>2, MutexAssumption DEF TransferLocked
    <3> QED
      BY <3>1, <3>2
  <2>2. ASSUME NEW u \in Tasks, pc'[u] = "locking" PROVE InTransfer(u, "issue")'
    BY <1>1, <1>5, <1>6, <1>7, <2>2 DEF TransferLocked, InTransfer
  <2>3. op'[Idle] = NoOp
    BY <1>1, <1>2, <1>6, IdleAssumption DEF TransferLocked
  <2> QED
    BY <1>5, <2>1, <2>2, <2>3 DEF TransferLocked
<1>11. ProgressExact'
  <2> SUFFICES ASSUME NEW u \in Tasks, op'[u] # NoOp
               PROVE  /\ op'[u].lba + op'[u].count <= Disks[op'[u].disk]
                      /\ Len(op'[u].buf) = IF op'[u].cmd = "write" THEN op'[u].count ELSE op'[u].done
                      /\ op'[u].at = "issue" => op'[u].done = 0
                      /\ op'[u].at = "sector" => op'[u].done < op'[u].count
                      /\ op'[u].at = "done" => op'[u].done = op'[u].count
    BY DEF ProgressExact
  <2>1. CASE u = t
    BY <1>6, <2>1
  <2>2. CASE u # t
    BY <1>1, <1>6, <2>2 DEF ProgressExact
  <2> QED
    BY <2>1, <2>2
<1>12. IdeWaitExact'
  <2>1. ASSUME waiter # NoTask PROVE holder' = waiter /\ InTransfer(waiter, "sector")'
    <3>1. holder = waiter /\ InTransfer(waiter, "sector") /\ waiter \in Tasks
      BY <1>1, <2>1 DEF IdeWaitExact, IdeTypeOK
    <3>2. holder' = waiter
      BY <1>5, <2>1, <3>1
    <3> QED
      BY <1>8, <3>1, <3>2
  <2> QED
    BY <1>1, <1>2, <2>1 DEF IdeWaitExact
<1>13. DriveExact'
  <2>1. ASSUME NEW u \in Tasks, InTransfer(u, "sector")' PROVE AtSector(op[u])' /\ op'[u] = op[u]
    <3>1. InTransfer(u, "sector") /\ u # t
      BY <1>6, <1>8, <2>1 DEF InTransfer
    <3> QED
      BY <1>1, <1>6, <3>1 DEF DriveExact, AtSector
  <2> QED
    BY <1>1, <1>8, <2>1 DEF DriveExact
<1>14. TransferIntact'
  <2> SUFFICES ASSUME NEW u \in Tasks, op'[u] # NoOp, NEW k \in 1 .. op'[u].done
               PROVE  medium'[op'[u].disk][op'[u].lba + k - 1] = op'[u].buf[k]
    BY DEF TransferIntact
  <2>1. u # t
    BY <1>6
  <2> QED
    BY <1>1, <1>6, <2>1 DEF TransferIntact
<1> QED
  BY <1>1, <1>3, <1>9, <1>10, <1>11, <1>12, <1>13, <1>14 DEF IdeInv

(* ide_pio and ide_pio_retry.                                              *)
LEMMA IdeBeginStep ==
    ASSUME IInv, IdeInv, NEW t \in Tasks, charWaiter' = charWaiter,
           \/ ide_pio_retry(t)
           \/ \E dev \in ide_install, cmd \in {"read", "write"}, n \in Counts :
                 \E lba \in 0 .. dev.count - n : ide_pio(t, dev, cmd, lba, n)
    PROVE  [Next]_vars /\ IdeInv'
<1>1. IdeTypeOK /\ TransferLocked /\ ProgressExact
  BY DEF IdeInv
<1>2. CASE ide_pio_retry(t)
  <2>1. lock_retry(t) /\ pc[t] = "locking" /\ UNCHANGED ideVars
    BY <1>2 DEF ide_pio_retry, lock_retry
  <2>2. holder # t /\ InTransfer(t, "issue")
    BY <1>1, <2>1 DEF TransferLocked
  <2>3. op[t] \in Ops /\ op[t].at = "issue" /\ op[t].done = 0
    BY <1>1, <2>2 DEF InTransfer, IdeTypeOK, ProgressExact
  <2>4. /\ op[t].lba + op[t].count <= Disks[op[t].disk]
        /\ Len(op[t].buf) = IF op[t].cmd = "write" THEN op[t].count ELSE 0
    BY <1>1, <2>2, <2>3 DEF InTransfer, ProgressExact
  <2>5. op' = [op EXCEPT ![t] = op[t]]
    BY <1>1, <2>1 DEF IdeTypeOK, ideVars
  <2>6. UNCHANGED <<waiter, active, drive, irq, medium, charWaiter>> /\ written' \in Nat
    BY <1>1, <2>1 DEF ideVars, IdeTypeOK
  <2> QED
    BY <2>1, <2>2, <2>3, <2>4, <2>5, <2>6, IdeAcquireStep
<1>3. CASE \E dev \in ide_install, cmd \in {"read", "write"}, n \in Counts :
              \E lba \in 0 .. dev.count - n : ide_pio(t, dev, cmd, lba, n)
  <2>1. PICK dev \in ide_install, cmd \in {"read", "write"}, n \in Counts :
               \E lba \in 0 .. dev.count - n : ide_pio(t, dev, cmd, lba, n)
    BY <1>3
  <2>2. PICK lba \in 0 .. dev.count - n : ide_pio(t, dev, cmd, lba, n)
    BY <2>1
  <2>3. /\ dev.disk \in DOMAIN Disks /\ dev.start \in Nat /\ dev.count \in Nat
        /\ dev.start + dev.count <= Disks[dev.disk] /\ Disks[dev.disk] \in Nat
    <3>1. CASE dev \in {[disk |-> d, start |-> 0, count |-> ide_identify(d)] :
                           d \in {e \in DOMAIN Disks : ide_identify(e) # 0}}
      BY <3>1, IdeAssumption DEF ide_identify
    <3>2. CASE dev \in UNION {{[disk |-> d, start |-> PartTable[d][p].start, count |-> PartTable[d][p].count] :
                                  p \in ide_part_init(d)} : d \in DOMAIN Disks}
      <4>1. PICK d \in DOMAIN Disks :
                   dev \in {[disk |-> d, start |-> PartTable[d][p].start, count |-> PartTable[d][p].count] :
                               p \in ide_part_init(d)}
        BY <3>2
      <4>2. PICK p \in ide_part_init(d) :
                   dev = [disk |-> d, start |-> PartTable[d][p].start, count |-> PartTable[d][p].count]
        BY <4>1
      <4>3. p \in DOMAIN PartTable[d]
        BY <4>2 DEF ide_part_init
      <4> QED
        BY <4>2, <4>3, IdeAssumption
    <3> QED
      BY <2>1, <3>1, <3>2 DEF ide_install
  <2>4. n \in Nat /\ n > 0 /\ lba \in Nat /\ written \in Nat
    BY <1>1, <2>3, IdeAssumption DEF IdeTypeOK
  <2> DEFINE o == [cmd |-> cmd, at |-> "issue", disk |-> dev.disk, lba |-> ide_pio_part(dev, lba),
                   count |-> n, buf |-> IF cmd = "write" THEN [k \in 1 .. n |-> written + k] ELSE <<>>,
                   done |-> 0]
  <2>5. /\ op[t] = NoOp /\ lba + n <= dev.count /\ lock_acquire(t)
        /\ op' = [op EXCEPT ![t] = o] /\ UNCHANGED <<waiter, active, drive, irq, medium>>
        /\ written' = IF cmd = "write" THEN written + n ELSE written
    BY <2>2 DEF ide_pio, ide_pio_ioctl
  <2>6. o.buf \in Seq(Nat) /\ Len(o.buf) = IF cmd = "write" THEN n ELSE 0
    <3> DEFINE b == [k \in 1 .. n |-> written + k]
    <3>1. b \in Seq(Nat) /\ Len(b) = n
      BY <2>4
    <3>2. <<>> \in Seq(Nat) /\ Len(<<>>) = 0
      OBVIOUS
    <3>3. o.buf = IF cmd = "write" THEN b ELSE <<>>
      OBVIOUS
    <3> HIDE DEF b
    <3> QED
      BY <3>1, <3>2, <3>3
  <2>7. o.lba = dev.start + lba /\ o.count = n /\ o.disk = dev.disk /\ o.cmd = cmd /\ o.done = 0 /\ o.at = "issue"
    BY DEF ide_pio_part
  <2>8. o \in Ops
    <3>1. o.lba \in Nat /\ o.count \in Nat \ {0} /\ o.done \in Nat
      BY <2>3, <2>4, <2>7
    <3>2. o.disk \in DOMAIN Disks /\ o.cmd \in {"read", "write"} /\ o.at \in {"issue", "sector", "done"}
      BY <2>1, <2>3, <2>7
    <3>3. o = [cmd |-> o.cmd, at |-> o.at, disk |-> o.disk, lba |-> o.lba, count |-> o.count,
               buf |-> o.buf, done |-> o.done]
      OBVIOUS
    <3> HIDE DEF o
    <3> QED
      BY <2>6, <3>1, <3>2, <3>3 DEF Ops
  <2> HIDE DEF o
  <2>9. o.lba + o.count <= Disks[o.disk]
    BY <2>3, <2>4, <2>5, <2>7
  <2>10. holder # t /\ written' \in Nat
    BY <1>1, <2>4, <2>5 DEF TransferLocked
  <2>11. UNCHANGED <<waiter, active, drive, irq, medium, charWaiter>>
    BY <2>5
  <2>12. Len(o.buf) = IF o.cmd = "write" THEN o.count ELSE 0
    BY <2>6, <2>7
  <2> QED
    BY <2>5, <2>7, <2>8, <2>9, <2>10, <2>11, <2>12, IdeAcquireStep
<1> QED
  BY <1>2, <1>3

(* The task at work has the drive to itself, and does not wait.            *)
LEMMA AtWorkLemma ==
    ASSUME IInv, IdeInv, NEW t \in Tasks, t = running, op[t] # NoOp, pc[t] = "run"
    PROVE  /\ t # Idle /\ holder = t /\ waiter = NoTask
           /\ \A u \in Tasks : u # t => ~InTransfer(u, "sector")
<1>1. t # Idle /\ holder = t
  BY DEF IdeInv, TransferLocked
<1>2. state[t] = "RUNNING"
  BY DEF IInv, OneRunning
<1>3. waiter = NoTask
  BY <1>1, <1>2 DEF IdeInv, IdeWaitExact, IdeTypeOK
<1>4. ASSUME NEW u \in Tasks, InTransfer(u, "sector") PROVE u = t
  BY <1>1, <1>4, OneSectorLemma
<1> QED
  BY <1>1, <1>3, <1>4

(* The task at work gives the drive a sector to work on and waits.         *)
LEMMA IdeAwaitStep ==
    ASSUME IInv, IdeInv, NEW t \in Tasks, t = running, op[t] # NoOp, pc[t] = "run",
           NEW o \in Ops, op' = [op EXCEPT ![t] = o], o.at = "sector", o.done < o.count,
           o.lba + o.count <= Disks[o.disk],
           Len(o.buf) = IF o.cmd = "write" THEN o.count ELSE o.done,
           \A k \in 1 .. o.done : medium[o.disk][o.lba + k - 1] = o.buf[k],
           drive' \in [cmd : {"none", "read", "write"}, lba : Nat, left : Int,
                       phase : {"idle", "busy", "ready"}, data : Seq(Nat)],
           active' = o.disk, drive'.cmd = o.cmd, drive'.phase = "busy", drive'.lba = o.lba + o.done,
           o.cmd = "write" => drive'.data[1] = o.buf[o.done + 1],
           Await(t), UNCHANGED <<irq, medium, written, charWaiter>>
    PROVE  [Next]_vars /\ IdeInv'
<1>1. /\ IdeTypeOK /\ TransferLocked /\ ProgressExact /\ IdeWaitExact /\ DriveExact /\ TransferIntact
      /\ charWaiter = NoTask
  BY DEF IdeInv
<1>2. /\ t # Idle /\ holder = t /\ waiter = NoTask
      /\ \A u \in Tasks : u # t => ~InTransfer(u, "sector")
  BY AtWorkLemma
<1>3. waiter' = t /\ schedule(Suspend(state, t, "WAITING")) /\ UNCHANGED <<lockVars, pc, depth>>
  BY DEF Await
<1>4. [Next]_vars
  BY <1>2, <1>3 DEF Next, device_wait
<1>5. \A u \in Tasks : state'[u] = "WAITING" <=> u = t \/ state[u] = "WAITING"
  BY <1>2, <1>3, AwaitLemma
<1>6. /\ op'[t] = o /\ \A u \in Tasks : u # t => op'[u] = op[u]
      /\ op' \in [Tasks -> Ops \cup {NoOp}]
  BY <1>1 DEF IdeTypeOK
<1>7. o # NoOp
  BY DEF Ops, NoOp
<1>8. InTransfer(t, "sector")' /\ \A u \in Tasks : u # t => ~InTransfer(u, "sector")'
  BY <1>2, <1>6, <1>7 DEF InTransfer
<1>9. IdeTypeOK'
  BY <1>1, <1>3, <1>6 DEF IdeTypeOK
<1>10. TransferLocked'
  <2>1. holder' = holder /\ repeat' = repeat /\ pc' = pc
    BY <1>3 DEF lockVars
  <2>2. ASSUME NEW u \in Tasks PROVE (op'[u] # NoOp /\ pc'[u] = "run") <=> holder' = u
    BY <1>1, <1>2, <1>6, <1>7, <2>1 DEF TransferLocked
  <2>3. ASSUME NEW u \in Tasks, pc'[u] = "locking" PROVE InTransfer(u, "issue")'
    BY <1>1, <1>6, <2>1, <2>3 DEF TransferLocked, InTransfer
  <2>4. op'[Idle] = NoOp
    BY <1>1, <1>2, <1>6, IdleAssumption DEF TransferLocked
  <2> QED
    BY <1>1, <2>1, <2>2, <2>3, <2>4 DEF TransferLocked
<1>11. ProgressExact'
  <2> SUFFICES ASSUME NEW u \in Tasks, op'[u] # NoOp
               PROVE  /\ op'[u].lba + op'[u].count <= Disks[op'[u].disk]
                      /\ Len(op'[u].buf) = IF op'[u].cmd = "write" THEN op'[u].count ELSE op'[u].done
                      /\ op'[u].at = "issue" => op'[u].done = 0
                      /\ op'[u].at = "sector" => op'[u].done < op'[u].count
                      /\ op'[u].at = "done" => op'[u].done = op'[u].count
    BY DEF ProgressExact
  <2>1. CASE u = t
    BY <1>6, <2>1
  <2>2. CASE u # t
    BY <1>1, <1>6, <2>2 DEF ProgressExact
  <2> QED
    BY <2>1, <2>2
<1>12. IdeWaitExact'
  <2>1. \A u \in Tasks : state'[u] = "WAITING" <=> u = waiter'
    BY <1>1, <1>2, <1>3, <1>5, MutexAssumption DEF IdeWaitExact
  <2>2. holder' = waiter' /\ InTransfer(waiter, "sector")'
    BY <1>2, <1>3, <1>8 DEF lockVars, InTransfer
  <2> QED
    BY <2>1, <2>2 DEF IdeWaitExact
<1>13. DriveExact'
  <2>1. AtSector(op[t])'
    BY <1>6 DEF AtSector
  <2> QED
    BY <1>8, <2>1 DEF DriveExact
<1>14. TransferIntact'
  <2> SUFFICES ASSUME NEW u \in Tasks, op'[u] # NoOp, NEW k \in 1 .. op'[u].done
               PROVE  medium'[op'[u].disk][op'[u].lba + k - 1] = op'[u].buf[k]
    BY DEF TransferIntact
  <2>1. CASE u = t
    BY <1>6, <2>1
  <2>2. CASE u # t
    BY <1>1, <1>6, <2>2 DEF TransferIntact
  <2> QED
    BY <2>1, <2>2
<1> QED
  BY <1>1, <1>4, <1>9, <1>10, <1>11, <1>12, <1>13, <1>14 DEF IdeInv

(* The command.                                                            *)
LEMMA IdeCommandStep ==
    ASSUME IInv, IdeInv, NEW t \in Tasks, ide_command(t), charWaiter' = charWaiter
    PROVE  [Next]_vars /\ IdeInv'
<1> DEFINE q == op[t]
           o == [q EXCEPT !.at = "sector"]
<1>1. t = running /\ q # NoOp /\ pc[t] = "run" /\ q.at = "issue"
  BY DEF ide_command, At
<1>2. /\ q \in Ops /\ q.disk \in DOMAIN Disks /\ q.cmd \in {"read", "write"}
      /\ q.lba \in Nat /\ q.count \in Nat /\ q.count > 0
      /\ q.buf \in Seq(Nat) /\ q.done \in Nat
      /\ q.lba + q.count <= Disks[q.disk]
      /\ Len(q.buf) = IF q.cmd = "write" THEN q.count ELSE q.done
  BY <1>1, OpLemma
<1>3. q.done = 0
  BY <1>1 DEF IdeInv, ProgressExact
<1>4. /\ active' = q.disk /\ Await(t) /\ UNCHANGED <<irq, medium, written>>
      /\ drive' = [cmd |-> q.cmd, lba |-> q.lba, left |-> q.count, phase |-> "busy",
                   data |-> IF q.cmd = "write" THEN <<q.buf[1]>> ELSE <<>>]
      /\ op' = [op EXCEPT ![t].at = "sector"]
  BY DEF ide_command
<1>5. op' = [op EXCEPT ![t] = o]
  BY <1>4
<1> HIDE DEF q
<1>6. /\ o \in Ops /\ o.at = "sector" /\ o.disk = q.disk /\ o.cmd = q.cmd /\ o.lba = q.lba
      /\ o.count = q.count /\ o.buf = q.buf /\ o.done = 0
  BY <1>2, <1>3 DEF Ops
<1> HIDE DEF o
<1>7. q.cmd = "write" => q.buf[1] \in Nat
  BY <1>2
<1>8. /\ drive'.cmd = o.cmd /\ drive'.phase = "busy" /\ drive'.lba = o.lba + o.done
      /\ o.cmd = "write" => drive'.data[1] = o.buf[o.done + 1]
      /\ drive' \in [cmd : {"none", "read", "write"}, lba : Nat, left : Int,
                     phase : {"idle", "busy", "ready"}, data : Seq(Nat)]
  <2>1. /\ drive'.cmd = o.cmd /\ drive'.phase = "busy" /\ drive'.lba = o.lba + o.done
    BY <1>2, <1>4, <1>6
  <2>2. ASSUME o.cmd = "write" PROVE drive'.data[1] = o.buf[o.done + 1]
    BY <1>4, <1>6, <2>2
  <2>3. (IF q.cmd = "write" THEN <<q.buf[1]>> ELSE <<>>) \in Seq(Nat)
    BY <1>7
  <2>4. drive' \in [cmd : {"none", "read", "write"}, lba : Nat, left : Int,
                    phase : {"idle", "busy", "ready"}, data : Seq(Nat)]
    BY <1>2, <1>4, <2>3
  <2> QED
    BY <2>1, <2>2, <2>4
<1>9. /\ o.done < o.count /\ o.lba + o.count <= Disks[o.disk]
      /\ Len(o.buf) = IF o.cmd = "write" THEN o.count ELSE o.done
      /\ active' = o.disk
      /\ \A k \in 1 .. o.done : medium[o.disk][o.lba + k - 1] = o.buf[k]
  BY <1>2, <1>3, <1>4, <1>6
<1>10. op[t] # NoOp
  BY <1>1 DEF q
<1> QED
  BY <1>1, <1>4, <1>5, <1>6, <1>8, <1>9, <1>10, IdeAwaitStep

(* The task at work is through with its last sector.                       *)
LEMMA IdeLastStep ==
    ASSUME IInv, IdeInv, NEW t \in Tasks, t = running, op[t] # NoOp, pc[t] = "run",
           NEW o \in Ops, op' = [op EXCEPT ![t] = o], o.at = "done", o.done = o.count,
           o.lba + o.count <= Disks[o.disk],
           Len(o.buf) = IF o.cmd = "write" THEN o.count ELSE o.done,
           \A k \in 1 .. o.done : medium[o.disk][o.lba + k - 1] = o.buf[k],
           drive' = Quiet, UNCHANGED <<vars, waiter, active, irq, medium, written, charWaiter>>
    PROVE  [Next]_vars /\ IdeInv'
<1>1. /\ IdeTypeOK /\ TransferLocked /\ ProgressExact /\ IdeWaitExact /\ DriveExact /\ TransferIntact
      /\ charWaiter = NoTask
  BY DEF IdeInv
<1>2. /\ t # Idle /\ holder = t /\ waiter = NoTask
      /\ \A u \in Tasks : u # t => ~InTransfer(u, "sector")
  BY AtWorkLemma
<1>3. holder' = holder /\ repeat' = repeat /\ pc' = pc /\ state' = state
  BY DEF vars, lockVars, taskVars
<1>4. /\ op'[t] = o /\ \A u \in Tasks : u # t => op'[u] = op[u]
      /\ op' \in [Tasks -> Ops \cup {NoOp}]
  BY <1>1 DEF IdeTypeOK
<1>5. o # NoOp
  BY DEF Ops, NoOp
<1>6. \A u \in Tasks : ~InTransfer(u, "sector")'
  BY <1>2, <1>4 DEF InTransfer
<1>7. IdeTypeOK'
  <2>1. <<>> \in Seq(Nat)
    OBVIOUS
  <2>2. Quiet \in [cmd : {"none", "read", "write"}, lba : Nat, left : Int,
                   phase : {"idle", "busy", "ready"}, data : Seq(Nat)]
    BY <2>1 DEF Quiet
  <2> QED
    BY <1>1, <1>4, <2>2 DEF IdeTypeOK
<1>8. TransferLocked'
  <2>1. ASSUME NEW u \in Tasks PROVE (op'[u] # NoOp /\ pc'[u] = "run") <=> holder' = u
    BY <1>1, <1>2, <1>3, <1>4, <1>5 DEF TransferLocked
  <2>2. ASSUME NEW u \in Tasks, pc'[u] = "locking" PROVE InTransfer(u, "issue")'
    BY <1>1, <1>3, <1>4, <2>2 DEF TransferLocked, InTransfer
  <2>3. op'[Idle] = NoOp
    BY <1>1, <1>2, <1>4, IdleAssumption DEF TransferLocked
  <2> QED
    BY <1>1, <1>3, <2>1, <2>2, <2>3 DEF TransferLocked
<1>9. ProgressExact'
  <2> SUFFICES ASSUME NEW u \in Tasks, op'[u] # NoOp
               PROVE  /\ op'[u].lba + op'[u].count <= Disks[op'[u].disk]
                      /\ Len(op'[u].buf) = IF op'[u].cmd = "write" THEN op'[u].count ELSE op'[u].done
                      /\ op'[u].at = "issue" => op'[u].done = 0
                      /\ op'[u].at = "sector" => op'[u].done < op'[u].count
                      /\ op'[u].at = "done" => op'[u].done = op'[u].count
    BY DEF ProgressExact
  <2>1. CASE u = t
    BY <1>4, <2>1
  <2>2. CASE u # t
    BY <1>1, <1>4, <2>2 DEF ProgressExact
  <2> QED
    BY <2>1, <2>2
<1>10. IdeWaitExact'
  BY <1>1, <1>2, <1>3 DEF IdeWaitExact
<1>11. DriveExact'
  BY <1>6 DEF DriveExact, Quiet
<1>12. TransferIntact'
  <2> SUFFICES ASSUME NEW u \in Tasks, op'[u] # NoOp, NEW k \in 1 .. op'[u].done
               PROVE  medium'[op'[u].disk][op'[u].lba + k - 1] = op'[u].buf[k]
    BY DEF TransferIntact
  <2>1. CASE u = t
    BY <1>4, <2>1
  <2>2. CASE u # t
    BY <1>1, <1>4, <2>2 DEF TransferIntact
  <2> QED
    BY <2>1, <2>2
<1> QED
  BY <1>1, <1>7, <1>8, <1>9, <1>10, <1>11, <1>12 DEF IdeInv

(* A sector was moved: the next one, or the end.                           *)
LEMMA IdeSectorStep ==
    ASSUME IInv, IdeInv, NEW t \in Tasks, ide_sector(t), charWaiter' = charWaiter
    PROVE  [Next]_vars /\ IdeInv'
<1> DEFINE q == op[t]
           n == q.done + 1
           moved == IF q.cmd = "read" THEN Append(q.buf, drive.data[1]) ELSE q.buf
           o == [q EXCEPT !.done = n, !.buf = moved]
           last == [o EXCEPT !.at = "done"]
           next == IF q.cmd = "write" THEN <<q.buf[n + 1]>> ELSE <<>>
           Types == [cmd : {"none", "read", "write"}, lba : Nat, left : Int,
                     phase : {"idle", "busy", "ready"}, data : Seq(Nat)]
<1>1. t = running /\ q # NoOp /\ pc[t] = "run" /\ q.at = "sector" /\ ide_busy_wait(q)
  BY DEF ide_sector, At
<1>2. /\ q \in Ops /\ q.disk \in DOMAIN Disks /\ q.cmd \in {"read", "write"}
      /\ q.lba \in Nat /\ q.count \in Nat /\ q.count > 0
      /\ q.buf \in Seq(Nat) /\ q.done \in Nat
      /\ q.lba + q.count <= Disks[q.disk]
      /\ Len(q.buf) = IF q.cmd = "write" THEN q.count ELSE q.done
      /\ Disks[q.disk] \in Nat
      /\ medium[q.disk] \in [0 .. Disks[q.disk] - 1 -> Nat]
  BY <1>1, OpLemma
<1>3. q.done < q.count
  BY <1>1 DEF IdeInv, ProgressExact
<1>4. AtSector(q)
  BY <1>1 DEF IdeInv, DriveExact, InTransfer
<1>5. /\ drive.phase = "ready" /\ drive.cmd = q.cmd /\ active = q.disk /\ drive.lba = q.lba + q.done + 1
      /\ q.cmd = "read" => drive.data[1] = medium[q.disk][q.lba + q.done]
      /\ q.cmd = "write" => medium[q.disk][q.lba + q.done] = q.buf[n]
  BY <1>1, <1>2, <1>4 DEF AtSector, ide_busy_wait
<1>6. /\ drive' = IF n = q.count THEN Quiet ELSE [drive EXCEPT !.phase = "busy", !.data = next]
      /\ UNCHANGED <<active, irq, medium, written>>
  BY DEF ide_sector
<1>7. \/ n < q.count /\ op' = [op EXCEPT ![t] = o] /\ Await(t)
      \/ n = q.count /\ op' = [op EXCEPT ![t] = last] /\ UNCHANGED <<vars, waiter>>
  <2> DEFINE advanced == IF q.cmd = "read" THEN [op EXCEPT ![t].done = n, ![t].buf = Append(@, drive.data[1])]
                    ELSE [op EXCEPT ![t].done = n]
  <2>1. \/ n < q.count /\ op' = advanced /\ Await(t)
        \/ n = q.count /\ op' = [advanced EXCEPT ![t].at = "done"] /\ UNCHANGED <<vars, waiter>>
    BY DEF ide_sector
  <2>2. op \in [Tasks -> Ops \cup {NoOp}]
    BY DEF IdeInv, IdeTypeOK
  <2>3. advanced = [op EXCEPT ![t] = o]
    BY <1>2, <2>2 DEF Ops
  <2>4. [advanced EXCEPT ![t].at = "done"] = [op EXCEPT ![t] = last]
    BY <2>2, <2>3
  <2> HIDE DEF advanced
  <2> QED
    BY <2>1, <2>3, <2>4
<1>8. op[t] # NoOp
  BY <1>1
<1>10. drive \in Types
  BY DEF IdeInv, IdeTypeOK
<1>11. TransferIntact
  BY DEF IdeInv
<1>12. \A k \in 1 .. q.done : medium[q.disk][q.lba + k - 1] = q.buf[k]
  BY <1>8, <1>11 DEF TransferIntact
<1> HIDE DEF q
<1>9. n \in Nat /\ n = q.done + 1 /\ n <= q.count /\ (n < q.count => n + 1 \in 1 .. q.count)
  BY <1>2, <1>3
<1> HIDE DEF n
<1>13. q.cmd = "read" => drive.data[1] \in Nat
  <2>1. q.lba + q.done \in 0 .. Disks[q.disk] - 1
    BY <1>2, <1>3
  <2> QED
    BY <1>2, <1>5, <2>1
<1>14. /\ moved \in Seq(Nat)
       /\ Len(moved) = IF q.cmd = "write" THEN q.count ELSE n
       /\ \A k \in 1 .. n : medium[q.disk][q.lba + k - 1] = moved[k]
  <2>1. CASE q.cmd = "read"
    <3>1. moved = Append(q.buf, drive.data[1]) /\ Len(q.buf) = q.done /\ drive.data[1] \in Nat
      BY <1>2, <1>13, <2>1
    <3>2. moved \in Seq(Nat) /\ Len(moved) = n
      BY <1>2, <1>9, <3>1
    <3>3. /\ \A k \in 1 .. q.done : moved[k] = q.buf[k]
          /\ moved[n] = drive.data[1]
      BY <1>2, <1>9, <3>1
    <3>4. ASSUME NEW k \in 1 .. n PROVE medium[q.disk][q.lba + k - 1] = moved[k]
      <4>1. CASE k \in 1 .. q.done
        BY <1>12, <3>3, <4>1
      <4>2. CASE k \notin 1 .. q.done
        <5>1. k = n /\ q.lba + k - 1 = q.lba + q.done
          BY <1>2, <1>9, <4>2
        <5> QED
          BY <1>5, <2>1, <3>3, <5>1
      <4> QED
        BY <4>1, <4>2
    <3> HIDE DEF moved
    <3> QED
      BY <2>1, <3>2, <3>4
  <2>2. CASE q.cmd = "write"
    <3>1. moved = q.buf
      BY <2>2
    <3>2. ASSUME NEW k \in 1 .. n PROVE medium[q.disk][q.lba + k - 1] = q.buf[k]
      <4>1. CASE k \in 1 .. q.done
        BY <1>12, <4>1
      <4>2. CASE k \notin 1 .. q.done
        <5>1. k = n /\ q.lba + k - 1 = q.lba + q.done
          BY <1>2, <1>9, <4>2
        <5> QED
          BY <1>5, <2>2, <5>1
      <4> QED
        BY <4>1, <4>2
    <3> QED
      BY <1>2, <2>2, <3>1, <3>2
  <2> QED
    BY <1>2, <2>1, <2>2
<1> HIDE DEF moved
<1>15. /\ o \in Ops /\ o.at = "sector" /\ o.disk = q.disk /\ o.cmd = q.cmd /\ o.lba = q.lba
       /\ o.count = q.count /\ o.buf = moved /\ o.done = n
  BY <1>1, <1>2, <1>9, <1>14 DEF Ops
<1> HIDE DEF o
<1>16. /\ o.lba + o.count <= Disks[o.disk]
       /\ Len(o.buf) = IF o.cmd = "write" THEN o.count ELSE o.done
       /\ \A k \in 1 .. o.done : medium[o.disk][o.lba + k - 1] = o.buf[k]
       /\ active = o.disk
  BY <1>2, <1>5, <1>14, <1>15
<1>17. CASE n < q.count /\ op' = [op EXCEPT ![t] = o] /\ Await(t)
  <2>1. n # q.count /\ drive' = [drive EXCEPT !.phase = "busy", !.data = next]
    BY <1>2, <1>6, <1>9, <1>17
  <2>2. next \in Seq(Nat)
    <3>1. ASSUME q.cmd = "write" PROVE q.buf[n + 1] \in Nat
      <4>1. n + 1 \in 1 .. Len(q.buf)
        BY <1>2, <1>9, <1>17, <3>1
      <4>2. q.buf \in Seq(Nat)
        BY <1>2
      <4> QED
        BY ONLY <4>1, <4>2
    <3> QED
      BY <3>1
  <2>3. drive' \in Types /\ drive'.cmd = q.cmd /\ drive'.phase = "busy" /\ drive'.lba = drive.lba /\ drive'.data = next
    BY <1>5, <1>10, <2>1, <2>2
  <2>4. o.cmd = "write" => drive'.data[1] = o.buf[o.done + 1]
    BY <1>15, <2>3 DEF moved
  <2>5. o.done < o.count /\ active' = o.disk /\ drive'.cmd = o.cmd
    BY <1>6, <1>15, <1>16, <1>17, <2>3
  <2>6. drive'.lba = o.lba + o.done
    <3>1. drive'.lba = q.lba + q.done + 1 /\ n = q.done + 1 /\ o.lba = q.lba /\ o.done = n
      BY <1>5, <1>9, <1>15, <2>3
    <3>2. q.lba \in Nat /\ q.done \in Nat
      BY <1>2
    <3> QED
      BY ONLY <3>1, <3>2
  <2>7. UNCHANGED <<irq, medium, written, charWaiter>>
    BY <1>6
  <2> QED
    BY <1>1, <1>8, <1>15, <1>16, <1>17, <2>3, <2>4, <2>5, <2>6, <2>7, IdeAwaitStep
<1>18. CASE n = q.count /\ op' = [op EXCEPT ![t] = last] /\ UNCHANGED <<vars, waiter>>
  <2>1. /\ last \in Ops /\ last.at = "done" /\ last.disk = o.disk /\ last.cmd = o.cmd /\ last.lba = o.lba
        /\ last.count = o.count /\ last.buf = o.buf /\ last.done = o.done
    BY <1>15 DEF Ops
  <2> HIDE DEF last
  <2>2. drive' = Quiet /\ last.done = last.count
    BY <1>6, <1>15, <1>18, <2>1
  <2>3. /\ last.lba + last.count <= Disks[last.disk]
        /\ Len(last.buf) = IF last.cmd = "write" THEN last.count ELSE last.done
        /\ \A k \in 1 .. last.done : medium[last.disk][last.lba + k - 1] = last.buf[k]
    BY <1>16, <2>1
  <2>4. UNCHANGED <<vars, waiter, active, irq, medium, written, charWaiter>>
    BY <1>6, <1>18
  <2>5. t = running /\ pc[t] = "run"
    BY <1>1
  <2> QED
    BY <1>8, <1>18, <2>1, <2>2, <2>3, <2>4, <2>5, IdeLastStep
<1> QED
  BY <1>7, <1>17, <1>18

(* lock_release after a transfer.                                          *)
LEMMA IdeReturnStep ==
    ASSUME IInv, IdeInv, NEW t \in Tasks, ide_pio_return(t), charWaiter' = charWaiter
    PROVE  [Next]_vars /\ IdeInv'
<1>1. /\ IdeTypeOK /\ TransferLocked /\ ProgressExact /\ IdeWaitExact /\ DriveExact /\ TransferIntact
      /\ charWaiter = NoTask
  BY DEF IdeInv
<1>2. /\ t = running /\ op[t] # NoOp /\ pc[t] = "run" /\ op[t].at = "done" /\ lock_release(t)
      /\ op' = [op EXCEPT ![t] = NoOp] /\ UNCHANGED <<waiter, active, drive, irq, medium, written>>
  BY DEF ide_pio_return, At
<1>3. /\ holder = t /\ holder' = NoTask /\ repeat' = 0 /\ pc' = pc
      /\ \A u \in Tasks : state'[u] = "WAITING" <=> state[u] = "WAITING"
  BY <1>1, <1>2, ReleaseLemma DEF TransferLocked
<1>4. waiter = NoTask
  BY <1>2, AtWorkLemma
<1>5. [Next]_vars
  BY <1>2 DEF Next
<1>6. /\ op'[t] = NoOp /\ \A u \in Tasks : u # t => op'[u] = op[u]
      /\ op' \in [Tasks -> Ops \cup {NoOp}]
  BY <1>1, <1>2 DEF IdeTypeOK
<1>7. \A u \in Tasks : InTransfer(u, "sector")' <=> InTransfer(u, "sector")
  BY <1>2, <1>6 DEF InTransfer
<1>8. IdeTypeOK'
  BY <1>1, <1>2, <1>6 DEF IdeTypeOK
<1>9. TransferLocked'
  <2>1. ASSUME NEW u \in Tasks PROVE (op'[u] # NoOp /\ pc'[u] = "run") <=> holder' = u
    <3>1. holder' # u
      BY <1>3, MutexAssumption
    <3> QED
      BY <1>1, <1>3, <1>6, <3>1 DEF TransferLocked
  <2>2. ASSUME NEW u \in Tasks, pc'[u] = "locking" PROVE InTransfer(u, "issue")'
    BY <1>1, <1>2, <1>3, <1>6, <2>2 DEF TransferLocked, InTransfer
  <2>3. op'[Idle] = NoOp
    BY <1>1, <1>6, IdleAssumption DEF TransferLocked
  <2> QED
    BY <1>3, <2>1, <2>2, <2>3 DEF TransferLocked
<1>10. ProgressExact'
  <2> SUFFICES ASSUME NEW u \in Tasks, op'[u] # NoOp PROVE u # t /\ op'[u] = op[u]
    BY <1>1 DEF ProgressExact
  <2> QED
    BY <1>6
<1>11. IdeWaitExact'
  BY <1>1, <1>2, <1>3, <1>4 DEF IdeWaitExact
<1>12. DriveExact'
  <2>1. ASSUME NEW u \in Tasks, InTransfer(u, "sector")' PROVE AtSector(op[u])'
    <3>1. InTransfer(u, "sector") /\ u # t
      BY <1>6, <1>7, <2>1 DEF InTransfer
    <3> QED
      BY <1>1, <1>2, <1>6, <3>1 DEF DriveExact, AtSector
  <2> QED
    BY <1>1, <1>2, <1>7, <2>1 DEF DriveExact
<1>13. TransferIntact'
  BY <1>1, <1>2, <1>6 DEF TransferIntact
<1> QED
  BY <1>1, <1>5, <1>8, <1>9, <1>10, <1>11, <1>12, <1>13 DEF IdeInv

(* The drive finishes with a sector.                                       *)
LEMMA DriveStep ==
    ASSUME IInv, IdeInv, drive_works, charWaiter' = charWaiter
    PROVE  [Next]_vars /\ IdeInv'
<1> DEFINE Types == [cmd : {"none", "read", "write"}, lba : Nat, left : Int,
                     phase : {"idle", "busy", "ready"}, data : Seq(Nat)]
<1>1. /\ IdeTypeOK /\ TransferLocked /\ ProgressExact /\ IdeWaitExact /\ DriveExact /\ TransferIntact
      /\ charWaiter = NoTask
  BY DEF IdeInv
<1>2. drive.phase = "busy" /\ irq' = TRUE /\ UNCHANGED <<vars, waiter, active, op, written>>
  BY DEF drive_works
<1>3. holder' = holder /\ repeat' = repeat /\ pc' = pc /\ state' = state
  BY <1>2 DEF vars, lockVars, taskVars
<1>4. PICK t \in Tasks : InTransfer(t, "sector")
  BY <1>1, <1>2 DEF DriveExact
<1>5. \A u \in Tasks : InTransfer(u, "sector") => u = t
  BY <1>4, OneSectorLemma
<1> DEFINE o == op[t]
<1>6. /\ o \in Ops /\ o.disk \in DOMAIN Disks /\ o.cmd \in {"read", "write"}
      /\ o.lba \in Nat /\ o.count \in Nat /\ o.buf \in Seq(Nat) /\ o.done \in Nat
      /\ o.lba + o.count <= Disks[o.disk]
      /\ Len(o.buf) = IF o.cmd = "write" THEN o.count ELSE o.done
      /\ Disks[o.disk] \in Nat /\ medium[o.disk] \in [0 .. Disks[o.disk] - 1 -> Nat]
  BY <1>4, OpLemma DEF InTransfer
<1>7. o.done < o.count /\ o # NoOp /\ holder = t
  BY <1>1, <1>4, OneSectorLemma DEF InTransfer, ProgressExact
<1>8. /\ drive.cmd = o.cmd /\ active = o.disk /\ drive.lba = o.lba + o.done
      /\ o.cmd = "write" => drive.data[1] = o.buf[o.done + 1]
  BY <1>1, <1>2, <1>4 DEF DriveExact, AtSector
<1>9. drive \in Types
  BY <1>1 DEF IdeTypeOK
<1> HIDE DEF o
<1> DEFINE place == o.lba + o.done
<1>10. place \in 0 .. Disks[o.disk] - 1 /\ drive.lba = place
  BY <1>6, <1>7, <1>8
<1> DEFINE Done == /\ drive' \in Types /\ drive'.phase = "ready" /\ drive'.cmd = o.cmd
                   /\ drive'.lba = place + 1
           Kept == \A u \in Tasks : op[u] # NoOp =>
                      \A k \in 1 .. op[u].done : medium'[op[u].disk][op[u].lba + k - 1] = op[u].buf[k]
           TypedMedium == /\ medium' = [d \in DOMAIN Disks |-> medium'[d]]
                          /\ \A d \in DOMAIN Disks : medium'[d] \in [0 .. Disks[d] - 1 -> Nat]
<1>11. ASSUME drive.cmd = "read"
       PROVE  /\ Done /\ Kept /\ TypedMedium
              /\ o.cmd = "read" => drive'.data[1] = medium'[o.disk][place]
              /\ o.cmd = "write" => medium'[o.disk][place] = o.buf[o.done + 1]
  <2>1. /\ drive' = [drive EXCEPT !.phase = "ready", !.data = <<medium[active][drive.lba]>>,
                                  !.lba = @ + 1, !.left = @ - 1]
        /\ medium' = medium
    BY <1>11 DEF drive_works
  <2>2. medium[active][drive.lba] = medium[o.disk][place] /\ medium[o.disk][place] \in Nat
    BY <1>6, <1>8, <1>10
  <2>3. Done /\ drive'.data[1] = medium'[o.disk][place]
    <3>1. <<medium[o.disk][place]>> \in Seq(Nat) /\ <<medium[o.disk][place]>>[1] = medium[o.disk][place]
      BY <2>2
    <3>2. drive'.data = <<medium[o.disk][place]>>
      BY <1>9, <2>1, <2>2
    <3>3. place + 1 \in Nat
      BY <1>10
    <3> HIDE DEF place
    <3>4. drive' = [cmd |-> drive.cmd, lba |-> place + 1, left |-> drive.left - 1, phase |-> "ready",
                    data |-> <<medium[o.disk][place]>>]
      BY <1>9, <1>10, <2>1, <2>2
    <3>5. drive.left - 1 \in Int /\ drive.cmd \in {"none", "read", "write"}
      BY <1>9
    <3>6. drive' \in Types
      BY <3>1, <3>3, <3>4, <3>5
    <3>7. Done
      BY <1>8, <3>4, <3>6
    <3> QED
      BY <2>1, <3>1, <3>2, <3>7
  <2>4. Kept
    BY <1>1, <2>1 DEF TransferIntact
  <2>5. TypedMedium
    BY <1>1, <2>1 DEF IdeTypeOK
  <2>6. o.cmd = "read"
    BY <1>8, <1>11
  <2> HIDE DEF Done, Kept, TypedMedium, place
  <2> QED
    BY <2>3, <2>4, <2>5, <2>6
<1>12. ASSUME drive.cmd = "write"
       PROVE  /\ Done /\ Kept /\ TypedMedium
              /\ o.cmd = "read" => drive'.data[1] = medium'[o.disk][place]
              /\ o.cmd = "write" => medium'[o.disk][place] = o.buf[o.done + 1]
  <2>1. /\ medium' = [medium EXCEPT ![active][drive.lba] = drive.data[1]]
        /\ drive' = [drive EXCEPT !.phase = "ready", !.lba = @ + 1, !.left = @ - 1, !.data = <<>>]
    BY <1>12 DEF drive_works
  <2>2. o.cmd = "write" /\ drive.data[1] = o.buf[o.done + 1]
    BY <1>8, <1>12
  <2>3. o.buf[o.done + 1] \in Nat
    <3>1. o.done + 1 \in 1 .. Len(o.buf)
      BY <1>6, <1>7, <2>2
    <3> QED
      BY <1>6, <3>1
  <2>4. /\ medium' = [d \in DOMAIN Disks |-> medium'[d]]
        /\ \A d \in DOMAIN Disks : d # o.disk => medium'[d] = medium[d]
        /\ medium'[o.disk] = [medium[o.disk] EXCEPT ![place] = o.buf[o.done + 1]]
    BY <1>1, <1>6, <1>8, <1>10, <2>1, <2>2 DEF IdeTypeOK
  <2>5. /\ medium'[o.disk] \in [0 .. Disks[o.disk] - 1 -> Nat]
        /\ medium'[o.disk][place] = o.buf[o.done + 1]
        /\ \A i \in 0 .. Disks[o.disk] - 1 : i # place => medium'[o.disk][i] = medium[o.disk][i]
    BY <1>6, <1>10, <2>3, <2>4
  <2>6. TypedMedium
    BY <1>1, <2>4, <2>5 DEF IdeTypeOK
  <2>7. Done
    <3>1. <<>> \in Seq(Nat) /\ place + 1 \in Nat
      BY <1>10
    <3> HIDE DEF place
    <3>2. drive' = [cmd |-> drive.cmd, lba |-> place + 1, left |-> drive.left - 1, phase |-> "ready",
                    data |-> <<>>]
      BY <1>9, <1>10, <2>1
    <3>3. drive.left - 1 \in Int /\ drive.cmd \in {"none", "read", "write"}
      BY <1>9
    <3>4. drive' \in Types
      BY <3>1, <3>2, <3>3
    <3> QED
      BY <1>8, <3>2, <3>4
  <2>8. Kept
    <3> SUFFICES ASSUME NEW u \in Tasks, op[u] # NoOp, NEW k \in 1 .. op[u].done
                 PROVE  medium'[op[u].disk][op[u].lba + k - 1] = op[u].buf[k]
      OBVIOUS
    <3>1. medium[op[u].disk][op[u].lba + k - 1] = op[u].buf[k]
      BY <1>1 DEF TransferIntact
    <3>2. CASE u = t
      <4>1. op[u] = o
        BY <3>2 DEF o
      <4>2. o.lba + k - 1 \in 0 .. Disks[o.disk] - 1 /\ o.lba + k - 1 # place
        BY <1>6, <1>7, <4>1
      <4> QED
        BY <2>5, <3>1, <4>1, <4>2
    <3>3. CASE u # t
      <4>1. /\ op[u] \in Ops /\ op[u].at \in {"issue", "sector", "done"} /\ op[u].done \in Nat
            /\ pc[u] \in {"run", "locking"}
        BY OpLemma DEF IInv, TypeOK
      <4>2. pc[u] # "run"
        BY <1>1, <1>7, <3>3 DEF TransferLocked
      <4>3. op[u].at = "issue"
        BY <1>1, <4>1, <4>2 DEF TransferLocked, InTransfer
      <4>4. op[u].done = 0
        BY <1>1, <4>3 DEF ProgressExact
      <4> QED
        BY <4>4
    <3> QED
      BY <3>2, <3>3
  <2> HIDE DEF Done, Kept, TypedMedium, place
  <2> QED
    BY <2>2, <2>5, <2>6, <2>7, <2>8
<1>13. /\ Done /\ Kept /\ TypedMedium
       /\ o.cmd = "read" => drive'.data[1] = medium'[o.disk][place]
       /\ o.cmd = "write" => medium'[o.disk][place] = o.buf[o.done + 1]
  <2>1. drive.cmd = "read" \/ drive.cmd = "write"
    BY DEF drive_works
  <2> HIDE DEF Done, Kept, TypedMedium, place
  <2> QED
    BY <1>11, <1>12, <2>1
<1>14. IdeTypeOK'
  BY <1>1, <1>2, <1>13 DEF IdeTypeOK
<1>15. TransferLocked' /\ ProgressExact'
  BY <1>1, <1>2, <1>3 DEF TransferLocked, ProgressExact, InTransfer
<1>16. IdeWaitExact'
  BY <1>1, <1>2, <1>3 DEF IdeWaitExact, InTransfer
<1>17. DriveExact'
  <2>1. AtSector(op[t])'
    <3>1. op'[t] = o /\ active' = o.disk
      BY <1>2, <1>8 DEF o
    <3> QED
      BY <1>13, <3>1 DEF AtSector
  <2>2. \A u \in Tasks : InTransfer(u, "sector")' => u = t
    BY <1>2, <1>5 DEF InTransfer
  <2>3. drive'.phase # "busy"
    BY <1>13
  <2> QED
    BY <2>1, <2>2, <2>3 DEF DriveExact
<1>18. TransferIntact'
  BY <1>2, <1>13 DEF TransferIntact
<1>19. [Next]_vars /\ charWaiter' = NoTask
  BY <1>1, <1>2
<1> HIDE DEF Done, Kept, TypedMedium, place
<1> QED
  BY <1>14, <1>15, <1>16, <1>17, <1>18, <1>19 DEF IdeInv

(* ide_handler: an interrupt for the waiter, or a left-over one.           *)
LEMMA IdeHandlerStep ==
    ASSUME IInv, IdeInv, ide_handler, charWaiter' = charWaiter
    PROVE  [Next]_vars /\ IdeInv'
<1>1. /\ IdeTypeOK /\ TransferLocked /\ ProgressExact /\ IdeWaitExact /\ DriveExact /\ TransferIntact
      /\ charWaiter = NoTask
  BY DEF IdeInv
<1>2. /\ irq' = FALSE /\ waiter' = NoTask
      /\ IF waiter = NoTask THEN UNCHANGED state ELSE state' = Unblock(state, {waiter})
      /\ UNCHANGED <<running, lockVars, pc, depth, active, drive, medium, op, written>>
  BY DEF ide_handler
<1>3. [Next]_vars
  <2>1. CASE waiter = NoTask
    BY <1>2, <2>1 DEF vars, taskVars
  <2>2. CASE waiter # NoTask
    <3>1. waiter \in Tasks /\ state[waiter] = "WAITING"
      BY <1>1, <2>2 DEF IdeTypeOK, IdeWaitExact
    <3>2. device_interrupt(waiter)
      BY <1>2, <2>2, <3>1 DEF device_interrupt
    <3> QED
      BY <3>1, <3>2 DEF Next
  <2> QED
    BY <2>1, <2>2
<1>4. \A t \in Tasks : state'[t] # "WAITING"
  <2>1. CASE waiter = NoTask
    BY <1>1, <1>2, <2>1, MutexAssumption DEF IdeWaitExact
  <2>2. CASE waiter # NoTask
    BY <1>1, <1>2, <2>2 DEF IdeWaitExact, Unblock
  <2> QED
    BY <2>1, <2>2
<1>5. IdeTypeOK'
  BY <1>1, <1>2 DEF IdeTypeOK
<1>6. TransferLocked' /\ ProgressExact'
  BY <1>1, <1>2 DEF TransferLocked, ProgressExact, InTransfer, lockVars
<1>7. IdeWaitExact'
  BY <1>2, <1>4, MutexAssumption DEF IdeWaitExact
<1>8. DriveExact' /\ TransferIntact'
  BY <1>1, <1>2 DEF DriveExact, AtSector, InTransfer, TransferIntact
<1> QED
  BY <1>1, <1>3, <1>5, <1>6, <1>7, <1>8 DEF IdeInv

(* A program loses the CPU.                                                *)
LEMMA IdePreemptStep ==
    ASSUME IInv, IdeInv, ide_preempt, charWaiter' = charWaiter
    PROVE  [Next]_vars /\ IdeInv'
<1>1. /\ IdeTypeOK /\ TransferLocked /\ ProgressExact /\ IdeWaitExact /\ DriveExact /\ TransferIntact
      /\ charWaiter = NoTask
  BY DEF IdeInv
<1>2. task_yield /\ UNCHANGED <<waiter, active, drive, irq, medium, op, written>>
  BY DEF ide_preempt, ideVars
<1>3. schedule(state) /\ UNCHANGED <<lockVars, pc, depth>> /\ [Next]_vars
  BY <1>2 DEF task_yield, Next
<1>4. \A u \in Tasks : state'[u] = "WAITING" <=> state[u] = "WAITING"
  BY <1>3, YieldLemma
<1>5. IdeTypeOK'
  BY <1>1, <1>2 DEF IdeTypeOK
<1>6. TransferLocked' /\ ProgressExact'
  BY <1>1, <1>2, <1>3 DEF TransferLocked, ProgressExact, InTransfer, lockVars
<1>7. IdeWaitExact'
  BY <1>1, <1>2, <1>3, <1>4 DEF IdeWaitExact, InTransfer, lockVars
<1>8. DriveExact' /\ TransferIntact'
  BY <1>1, <1>2 DEF DriveExact, AtSector, InTransfer, TransferIntact
<1> QED
  BY <1>1, <1>3, <1>5, <1>6, <1>7, <1>8 DEF IdeInv

(* A step of the IDE driver keeps it.                                      *)
LEMMA IdeStep ==
    ASSUME IInv, IdeInv, IdeNext, charWaiter' = charWaiter
    PROVE  [Next]_vars /\ IdeInv'
BY IdeHandlerStep, DriveStep, IdePreemptStep, IdeBeginStep, IdeCommandStep, IdeSectorStep, IdeReturnStep
   DEF IdeNext

-----------------------------------------------------------------------------
(* The locks and the drivers on them: the invariant of the lock, and for   *)
(* the driver in use who is in it, who waits and what the device is at.    *)
THEOREM DriversInvariant == DriversSpec => []DriversInv
<1>1. DriversInit => DriversInv
  <2> SUFFICES ASSUME DriversInit PROVE DriversInv
    OBVIOUS
  <2>1. Init /\ ide_ctrl_init /\ CharInit
    BY DEF DriversInit
  <2>2. IInv
    BY <2>1, InitLemma
  <2>3. /\ \A t \in Tasks : state[t] # "WAITING"
        /\ holder = NoTask /\ repeat = 0 /\ pc = [t \in Tasks |-> "run"]
    BY <2>1 DEF Init, AllReady
  <2>4. op = [t \in Tasks |-> NoOp] /\ waiter = NoTask /\ drive = Quiet /\ charWaiter = NoTask
    BY <2>1 DEF ide_ctrl_init, CharInit, serial_init
  <2>5. IdeTypeOK
    <3>1. <<>> \in Seq(Nat)
      OBVIOUS
    <3>2. drive \in [cmd : {"none", "read", "write"}, lba : Nat, left : Int,
                     phase : {"idle", "busy", "ready"}, data : Seq(Nat)]
      BY <2>4, <3>1 DEF Quiet
    <3>3. /\ medium = [d \in DOMAIN Disks |-> medium[d]]
          /\ \A d \in DOMAIN Disks : medium[d] \in [0 .. Disks[d] - 1 -> Nat]
      BY <2>1 DEF ide_ctrl_init
    <3>4. irq \in BOOLEAN /\ written \in Nat
      BY <2>1 DEF ide_ctrl_init
    <3> QED
      BY <2>4, <3>2, <3>3, <3>4 DEF IdeTypeOK
  <2>6. IdeInv
    <3>1. TransferLocked
      BY <2>3, <2>4, MutexAssumption, IdleAssumption DEF TransferLocked
    <3>2. ProgressExact /\ TransferIntact
      BY <2>4 DEF ProgressExact, TransferIntact
    <3>3. IdeWaitExact
      BY <2>3, <2>4, MutexAssumption DEF IdeWaitExact
    <3>4. DriveExact
      BY <2>4 DEF DriveExact, InTransfer, Quiet
    <3> QED
      BY <2>4, <2>5, <3>1, <3>2, <3>3, <3>4 DEF IdeInv
  <2>7. CharInv
    <3>1. todo = [t \in Tasks |-> 0] /\ events = 0
      BY <2>1 DEF CharInit
    <3>2. CharTypeOK
      BY <2>4, <3>1 DEF CharTypeOK
    <3>3. CallLocked
      BY <2>3, <3>1, MutexAssumption, IdleAssumption DEF CallLocked
    <3>4. CharWaitExact
      BY <2>3, <2>4, MutexAssumption DEF CharWaitExact
    <3> QED
      BY <2>4, <3>2, <3>3, <3>4 DEF CharInv
  <2> QED
    BY <2>2, <2>4, <2>6, <2>7 DEF DriversInv
<1>2. DriversInv /\ [DriversNext]_allVars => DriversInv'
  <2> SUFFICES ASSUME DriversInv, [DriversNext]_allVars PROVE DriversInv'
    OBVIOUS
  <2>1. IInv /\ (part = "ide" => IdeInv) /\ (part = "char" => CharInv)
        /\ (part # "ide" => op = [t \in Tasks |-> NoOp])
    BY DEF DriversInv
  <2>2. ASSUME [Next]_vars PROVE IInv'
    BY <2>1, <2>2, InductionLemma
  <2>3. CASE part = "lock" /\ Next /\ UNCHANGED <<ideVars, charVars, consoleVars>> /\ UNCHANGED part
    BY <2>1, <2>2, <2>3 DEF DriversInv, ideVars
  <2>4. CASE part = "ide" /\ IdeNext /\ UNCHANGED <<charVars, consoleVars>> /\ UNCHANGED part
    <3>1. [Next]_vars /\ IdeInv'
      BY <2>1, <2>4, IdeStep DEF charVars
    <3> QED
      BY <2>2, <2>4, <3>1 DEF DriversInv
  <2>5. CASE part = "char" /\ CharNext /\ UNCHANGED <<ideVars, consoleVars>> /\ UNCHANGED part
    <3>1. [Next]_vars /\ CharInv' /\ op' = op
      BY <2>1, <2>5, CharStep DEF ideVars
    <3> QED
      BY <2>1, <2>2, <2>5, <3>1 DEF DriversInv
  <2>6. CASE part = "console" /\ ConsoleNext /\ UNCHANGED <<vars, ideVars, charVars>> /\ UNCHANGED part
    BY <2>1, <2>2, <2>6 DEF DriversInv, ideVars
  <2>7. CASE UNCHANGED allVars
    <3>1. UNCHANGED <<vars, ideVars, charVars, part>>
      BY <2>7 DEF allVars
    <3>2. IInv'
      BY <2>2, <3>1
    <3>3. IdeInv => IdeInv'
      BY <3>1 DEF IdeInv, IdeTypeOK, TransferLocked, ProgressExact, IdeWaitExact, DriveExact, TransferIntact,
                  InTransfer, AtSector, vars, taskVars, lockVars, ideVars, charVars
    <3>4. CharInv => CharInv'
      BY <3>1 DEF CharInv, CharTypeOK, CallLocked, CharWaitExact, fifo_empty,
                  vars, taskVars, lockVars, ideVars, charVars, fifoVars
    <3> QED
      BY <2>1, <3>1, <3>2, <3>3, <3>4 DEF DriversInv, ideVars
  <2> QED
    BY <2>3, <2>4, <2>5, <2>6, <2>7 DEF DriversNext
<1> QED
  BY <1>1, <1>2, PTL DEF DriversSpec

(* kernel/mutex.c as the drivers use it, holding it across their waits: an *)
(* exact wait list, one holder, no lost wakeup.                            *)
THEOREM LocksSafe == DriversSpec => [](WaitersExact /\ LockExact /\ NoLostWakeup)
BY DriversInvariant, PTL DEF DriversInv, IInv

(* ide_handler, keyboard_handler and serial_handler: a task that waits for *)
(* a device is the one its driver will wake and holds the driver's lock;   *)
(* and what it waits for has not happened already and will, unless it is   *)
(* in serial_write, for which serial_init enables no interrupt.            *)
THEOREM InterruptAlwaysComes == DriversSpec => []InterruptWillCome
<1>1. DriversInv => InterruptWillCome
  <2> SUFFICES ASSUME DriversInv, part \in {"ide", "char"} PROVE InterruptWillCome
    BY DEF InterruptWillCome
  <2>1. CASE part = "ide"
    <3>1. IdeWaitExact /\ charWaiter = NoTask /\ waiter \in Tasks \cup {NoTask}
      BY <2>1 DEF DriversInv, IdeInv, IdeTypeOK
    <3> QED
      BY <3>1, MutexAssumption DEF IdeWaitExact, InterruptWillCome
  <2>2. CASE part = "char"
    <3>1. CharWaitExact /\ CallLocked /\ waiter = NoTask /\ OneRunning /\ charWaiter \in Tasks \cup {NoTask}
      BY <2>2 DEF DriversInv, CharInv, CharTypeOK, IInv
    <3>2. ASSUME NEW t \in Tasks, In(t) PROVE charWaiter = NoTask
      <4>1. holder = t /\ state[t] # "WAITING"
        BY <3>1, <3>2 DEF In, CallLocked, OneRunning
      <4> QED
        BY <3>1, <4>1 DEF CharWaitExact
    <3> QED
      BY <3>1, <3>2, MutexAssumption DEF CharWaitExact, InterruptWillCome
  <2> QED
    BY <2>1, <2>2
<1> QED
  BY <1>1, DriversInvariant, PTL

(* ide_pio_read and ide_pio_write: a transfer moves the right sectors of   *)
(* the right disk in their order, whatever early, late or left-over        *)
(* interrupts do.                                                          *)
THEOREM TransfersIntact == DriversSpec => []TransferIntact
<1>1. DriversInv => TransferIntact
  BY DEF DriversInv, IdeInv, TransferIntact
<1> QED
  BY <1>1, DriversInvariant, PTL

-----------------------------------------------------------------------------
\* The console.  Its commands pass a record of the registers and the memory on.

VideoCells == Chars \cup {Erase, Null}

Line(r) == r * WIDTH

\* The cursor is on the screen and the screen in the memory.
Good(c) == /\ c \in [mem : [Addresses -> VideoCells], screen : Nat, pos : Nat, x : 0 .. WIDTH, y : 0 .. HEIGHT - 1]
           /\ c.screen + SCR_SIZE < MEM_SIZE
           /\ c.pos = c.screen + Line(c.y) + c.x

Glyph(cell) == IF cell \in Chars THEN cell ELSE Erase

\* What is seen of it.
Shown(c) == [r \in 0 .. HEIGHT - 1 |-> [k \in 0 .. WIDTH - 1 |-> Glyph(c.mem[c.screen + Line(r) + k])]]

(* The lines follow each other in the memory.                              *)
LEMMA LineLemma ==
    /\ WIDTH \in Nat /\ WIDTH > 0 /\ HEIGHT \in Nat /\ HEIGHT > 0 /\ MEM_SIZE \in Nat /\ SCR_SIZE \in Nat
    /\ SCR_SIZE + WIDTH < MEM_SIZE
    /\ Line(0) = 0 /\ Line(HEIGHT) = SCR_SIZE
    /\ \A r \in Nat : Line(r) \in Nat /\ Line(r + 1) = Line(r) + WIDTH
    /\ \A r, q \in Nat : r < q => Line(r) + WIDTH <= Line(q)
<1>1. WIDTH \in Nat /\ WIDTH > 0 /\ HEIGHT \in Nat /\ HEIGHT > 0 /\ MEM_SIZE \in Nat
  BY ConsoleAssumption
<1>2. \A r \in Nat : r * WIDTH \in Nat /\ (r + 1) * WIDTH = r * WIDTH + WIDTH
  BY <1>1
<1>3. SCR_SIZE \in Nat /\ SCR_SIZE + WIDTH < MEM_SIZE /\ Line(HEIGHT) = SCR_SIZE /\ Line(0) = 0
  <2>1. /\ WIDTH * HEIGHT \in Nat /\ WIDTH * (HEIGHT + 1) = WIDTH * HEIGHT + WIDTH
        /\ WIDTH * HEIGHT = HEIGHT * WIDTH /\ 0 * WIDTH = 0
    BY <1>1
  <2>2. MEM_SIZE > WIDTH * (HEIGHT + 1)
    BY ConsoleAssumption
  <2> QED
    BY <1>1, <2>1, <2>2 DEF SCR_SIZE, Line
<1>4. ASSUME NEW r \in Nat, NEW q \in Nat, r < q PROVE r * WIDTH + WIDTH <= q * WIDTH
  <2>1. q - r - 1 \in Nat
    BY <1>4
  <2>2. (q - r - 1) * WIDTH \in Nat
    BY <1>1, <2>1
  <2>3. (q - r - 1) * WIDTH = q * WIDTH - r * WIDTH - WIDTH
    BY <1>1
  <2>4. q * WIDTH \in Nat /\ r * WIDTH \in Nat
    BY <1>2
  <2> QED
    BY <1>1, <2>2, <2>3, <2>4
<1> QED
  BY <1>1, <1>2, <1>3, <1>4 DEF Line

(* Where a cell of the screen is in the memory.                            *)
LEMMA PlaceLemma ==
    ASSUME NEW s \in Nat, s + SCR_SIZE < MEM_SIZE, NEW r \in 0 .. HEIGHT - 1, NEW k \in 0 .. WIDTH - 1
    PROVE  /\ Line(r) \in Nat /\ Line(r) + WIDTH <= SCR_SIZE
           /\ s + Line(r) + k \in Nat
           /\ s + Line(r) + k < s + SCR_SIZE
           /\ s + Line(r) + k \in Addresses
<1>1. r \in Nat /\ r < HEIGHT /\ k \in Nat /\ k < WIDTH /\ HEIGHT \in Nat /\ WIDTH \in Nat
  BY LineLemma
<1>2. Line(r) \in Nat /\ Line(r) + WIDTH <= Line(HEIGHT) /\ Line(HEIGHT) = SCR_SIZE
      /\ SCR_SIZE \in Nat /\ MEM_SIZE \in Nat
  BY <1>1, LineLemma
<1> QED
  BY <1>1, <1>2 DEF Addresses

(* Two cells of the screen are two cells of the memory.                    *)
LEMMA ApartLemma ==
    ASSUME NEW s \in Nat, NEW r \in 0 .. HEIGHT - 1, NEW q \in 0 .. HEIGHT - 1,
           NEW j \in 0 .. WIDTH - 1, NEW k \in 0 .. WIDTH - 1, s + Line(r) + j = s + Line(q) + k
    PROVE  r = q /\ j = k
<1>1. /\ r \in Nat /\ q \in Nat /\ j \in Nat /\ j < WIDTH /\ k \in Nat /\ k < WIDTH /\ WIDTH \in Nat
      /\ HEIGHT \in Nat
  BY LineLemma
<1>2. Line(r) \in Nat /\ Line(q) \in Nat
  BY <1>1, LineLemma
<1>3. /\ r < q => Line(r) + WIDTH <= Line(q)
      /\ q < r => Line(q) + WIDTH <= Line(r)
  BY <1>1, LineLemma
<1>4. ~(r < q) /\ ~(q < r)
  BY <1>1, <1>2, <1>3
<1>5. r = q
  BY <1>1, <1>4
<1> QED
  BY <1>1, <1>2, <1>5

(* A cell stored at the cursor is seen there and nowhere else.             *)
LEMMA StoreLemma ==
    ASSUME NEW c, Good(c), c.x < WIDTH, NEW cell \in Chars \cup {Erase}
    PROVE  LET d == [c EXCEPT !.mem[c.pos] = cell]
           IN  /\ Good(d) /\ d.x = c.x /\ d.y = c.y /\ d.screen = c.screen /\ d.pos = c.pos
               /\ Shown(d) = [Shown(c) EXCEPT ![c.y][c.x] = cell]
<1> DEFINE d == [c EXCEPT !.mem[c.pos] = cell]
<1>1. /\ c.mem \in [Addresses -> VideoCells] /\ c.screen \in Nat /\ c.pos \in Nat
      /\ c.x \in 0 .. WIDTH /\ c.y \in 0 .. HEIGHT - 1
      /\ c.screen + SCR_SIZE < MEM_SIZE /\ c.pos = c.screen + Line(c.y) + c.x
  BY DEF Good
<1>2. c.x \in 0 .. WIDTH - 1 /\ c.pos \in Addresses
  <2>1. c.x \in 0 .. WIDTH - 1
    <3>1. WIDTH \in Nat /\ c.x \in 0 .. WIDTH /\ c.x < WIDTH
      BY <1>1, LineLemma
    <3> QED
      BY ONLY <3>1
  <2> QED
    BY <1>1, <2>1, PlaceLemma
<1>3. /\ d.mem = [c.mem EXCEPT ![c.pos] = cell] /\ d.screen = c.screen /\ d.pos = c.pos
      /\ d.x = c.x /\ d.y = c.y
      /\ d \in [mem : [Addresses -> VideoCells], screen : Nat, pos : Nat, x : 0 .. WIDTH, y : 0 .. HEIGHT - 1]
  BY <1>1, <1>2 DEF Good, VideoCells
<1>4. Good(d)
  BY <1>1, <1>3 DEF Good
<1> HIDE DEF d
<1>5. ASSUME NEW r \in 0 .. HEIGHT - 1, NEW k \in 0 .. WIDTH - 1
      PROVE  Shown(d)[r][k] = [Shown(c) EXCEPT ![c.y][c.x] = cell][r][k]
  <2>1. c.screen + Line(r) + k \in Addresses
    BY <1>1, PlaceLemma
  <2>2. Glyph(cell) = cell
    BY DEF Glyph
  <2>3. CASE r = c.y /\ k = c.x
    BY <1>1, <1>2, <1>3, <2>1, <2>2, <2>3 DEF Shown
  <2>4. CASE ~(r = c.y /\ k = c.x)
    <3>1. c.screen + Line(r) + k # c.pos
      BY <1>1, <1>2, <2>4, ApartLemma
    <3> QED
      BY <1>1, <1>2, <1>3, <2>1, <2>4, <3>1 DEF Shown
  <2> QED
    BY <2>3, <2>4
<1>6. Shown(d) = [Shown(c) EXCEPT ![c.y][c.x] = cell]
  <2>1. ASSUME NEW r \in 0 .. HEIGHT - 1
        PROVE  Shown(d)[r] = [Shown(c) EXCEPT ![c.y][c.x] = cell][r]
    BY <1>2, <1>5 DEF Shown
  <2> QED
    BY <2>1 DEF Shown
<1> QED
  BY <1>3, <1>4, <1>6 DEF d

(* scroll_up: the first line leaves the screen, a blank one enters it, also*)
(* when the screen is copied back to the start of the memory.              *)
LEMMA ScrollLemma ==
    ASSUME NEW c, Good(c), c.y = HEIGHT - 1
    PROVE  LET d == scroll_up(c)
           IN  Good(d) /\ d.x = c.x /\ d.y = c.y /\ Shown(d) = S!Scrolled(Shown(c))
<1> DEFINE d == scroll_up(c)
           full == c.screen + SCR_SIZE + WIDTH >= MEM_SIZE
           home == IF full THEN 0 ELSE c.screen
           copied == [a \in Addresses |-> IF full /\ a < SCR_SIZE THEN c.mem[c.screen + a] ELSE c.mem[a]]
           next == home + SCR_SIZE
           cleared == [a \in Addresses |-> IF a \in next .. next + 2 * WIDTH - 1
                                           THEN IF (a - next) % 2 = 0 THEN Erase ELSE Null
                                           ELSE copied[a]]
<1>1. /\ c.mem \in [Addresses -> VideoCells] /\ c.screen \in Nat /\ c.pos \in Nat
      /\ c.x \in 0 .. WIDTH /\ c.y \in 0 .. HEIGHT - 1
      /\ c.screen + SCR_SIZE < MEM_SIZE /\ c.pos = c.screen + Line(c.y) + c.x
      /\ c \in [mem : [Addresses -> VideoCells], screen : Nat, pos : Nat, x : 0 .. WIDTH, y : 0 .. HEIGHT - 1]
  BY DEF Good
<1>2. /\ WIDTH \in Nat /\ WIDTH > 0 /\ HEIGHT \in Nat /\ HEIGHT > 0 /\ MEM_SIZE \in Nat /\ SCR_SIZE \in Nat
      /\ SCR_SIZE + WIDTH < MEM_SIZE
  BY LineLemma
<1>3. home \in Nat /\ home <= c.screen /\ home + SCR_SIZE + WIDTH < MEM_SIZE /\ (full => home = 0)
      /\ (~full => home = c.screen)
  BY <1>1, <1>2
<1>4. d = [c EXCEPT !.mem = cleared, !.screen = home + WIDTH, !.pos = @ - (c.screen - home) + WIDTH]
  BY DEF scroll_up
<1>5. cleared \in [Addresses -> VideoCells]
  <2>1. ASSUME NEW a \in Addresses PROVE copied[a] \in VideoCells
    <3>1. CASE full /\ a < SCR_SIZE
      <4>1. c.screen + a \in Addresses
        BY <1>1, <1>2, <3>1 DEF Addresses
      <4> QED
        BY <1>1, <3>1, <4>1
    <3>2. CASE ~(full /\ a < SCR_SIZE)
      BY <1>1, <3>2
    <3> QED
      BY <3>1, <3>2
  <2> HIDE DEF copied, next
  <2>2. ASSUME NEW a \in Addresses PROVE cleared[a] \in VideoCells
    <3>1. cleared[a] = Erase \/ cleared[a] = Null \/ cleared[a] = copied[a]
      OBVIOUS
    <3> QED
      BY <2>1, <3>1 DEF VideoCells
  <2> QED
    BY <2>2
<1>6. ASSUME NEW r \in 0 .. HEIGHT - 1, NEW k \in 0 .. WIDTH - 1
      PROVE  /\ home + WIDTH + Line(r) + k \in Addresses
             /\ Glyph(cleared[home + WIDTH + Line(r) + k]) = S!Scrolled(Shown(c))[r][k]
  <2> DEFINE a == home + WIDTH + Line(r) + k
  <2>1. /\ r \in Nat /\ r < HEIGHT /\ k \in Nat /\ k < WIDTH /\ Line(r) \in Nat
        /\ Line(r) + WIDTH <= SCR_SIZE /\ Line(r + 1) = Line(r) + WIDTH
    <3>1. r \in Nat /\ r < HEIGHT /\ k \in Nat /\ k < WIDTH
      BY <1>2
    <3> QED
      BY <1>1, <3>1, PlaceLemma, LineLemma
  <2>2. a \in Nat /\ a < home + WIDTH + SCR_SIZE
    BY <1>2, <1>3, <2>1
  <2>3. a \in Addresses
    BY <1>2, <1>3, <2>2 DEF Addresses
  <2>4. S!Scrolled(Shown(c))[r] = IF r + 1 \in 0 .. HEIGHT - 1 THEN Shown(c)[r + 1] ELSE S!BlankLine
    BY DEF S!Scrolled, S!Rows
  <2>5. CASE r + 1 \in 0 .. HEIGHT - 1
    <3>1. Line(r + 1) + WIDTH <= SCR_SIZE
      <4>1. r + 1 \in Nat /\ r + 1 < HEIGHT
        BY <1>2, <2>1, <2>5
      <4>2. Line(r + 1) + WIDTH <= Line(HEIGHT) /\ Line(HEIGHT) = SCR_SIZE
        BY <1>2, <4>1, LineLemma
      <4> QED
        BY <4>2
    <3>2. a < home + SCR_SIZE
      BY <1>2, <1>3, <2>1, <3>1
    <3>3. cleared[a] = copied[a]
      <4>1. a \notin next .. next + 2 * WIDTH - 1
        BY <1>2, <1>3, <2>2, <3>2
      <4> HIDE DEF a, next, copied
      <4> QED
        BY <2>3, <4>1
    <3>4. copied[a] = c.mem[c.screen + Line(r + 1) + k]
      <4>1. CASE full
        <5>1. home = 0 /\ a < SCR_SIZE
          BY <1>2, <1>3, <3>2, <4>1
        <5>2. c.screen + a = c.screen + Line(r + 1) + k
          BY <1>1, <1>2, <2>1, <5>1
        <5> HIDE DEF a
        <5> QED
          BY <2>3, <4>1, <5>1, <5>2
      <4>2. CASE ~full
        <5>1. a = c.screen + Line(r + 1) + k
          BY <1>1, <1>2, <1>3, <2>1, <4>2
        <5> HIDE DEF a
        <5> QED
          BY <2>3, <4>2, <5>1
      <4> QED
        BY <4>1, <4>2
    <3>5. Shown(c)[r + 1][k] = Glyph(c.mem[c.screen + Line(r + 1) + k])
      BY <2>5 DEF Shown
    <3> HIDE DEF a
    <3> QED
      BY <2>3, <2>4, <2>5, <3>3, <3>4, <3>5 DEF a
  <2>6. CASE r + 1 \notin 0 .. HEIGHT - 1
    <3>1. r + 1 = HEIGHT
      BY <1>2, <2>1, <2>6
    <3>2. Line(r) + WIDTH = SCR_SIZE
      BY <2>1, <3>1, LineLemma
    <3>3. a = next + k
      BY <1>2, <1>3, <2>1, <3>2
    <3>4. a \in next .. next + 2 * WIDTH - 1
      BY <1>2, <1>3, <2>1, <2>2, <3>3
    <3>5. cleared[a] \in {Erase, Null}
      <4> HIDE DEF a, next, copied
      <4> QED
        BY <2>3, <3>4
    <3>6. Glyph(cleared[a]) = Erase
      BY <3>5, ConsoleAssumption DEF Glyph
    <3>7. S!Scrolled(Shown(c))[r][k] = Erase
      BY <2>4, <2>6 DEF S!BlankLine, S!Cols
    <3> HIDE DEF a
    <3> QED
      BY <2>3, <3>6, <3>7 DEF a
  <2> QED
    BY <2>5, <2>6
<1> HIDE DEF cleared, home
<1>7. /\ d.mem = cleared /\ d.screen = home + WIDTH /\ d.x = c.x /\ d.y = c.y
      /\ d.pos = c.pos - (c.screen - home) + WIDTH
      /\ d = [mem |-> cleared, screen |-> home + WIDTH, pos |-> c.pos - (c.screen - home) + WIDTH,
              x |-> c.x, y |-> c.y]
  BY <1>1, <1>4
<1> HIDE DEF d
<1>8. Good(d)
  <2>1. Line(c.y) \in Nat /\ c.x \in Nat
    <3>1. c.y \in Nat
      BY <1>1, <1>2
    <3> QED
      BY <1>1, <1>2, <3>1, LineLemma
  <2>2. c.pos - (c.screen - home) + WIDTH = (home + WIDTH) + Line(c.y) + c.x
    BY <1>1, <1>2, <1>3, <2>1
  <2>3. home + WIDTH \in Nat /\ c.pos - (c.screen - home) + WIDTH \in Nat
        /\ home + WIDTH + SCR_SIZE < MEM_SIZE
    BY <1>2, <1>3, <2>1, <2>2
  <2>4. d \in [mem : [Addresses -> VideoCells], screen : Nat, pos : Nat, x : 0 .. WIDTH, y : 0 .. HEIGHT - 1]
    BY <1>1, <1>5, <1>7, <2>3
  <2> QED
    BY <1>7, <2>2, <2>3, <2>4 DEF Good
<1>9. Shown(d) = S!Scrolled(Shown(c))
  <2>1. ASSUME NEW r \in 0 .. HEIGHT - 1 PROVE Shown(d)[r] = S!Scrolled(Shown(c))[r]
    <3>1. Shown(d)[r] = [k \in 0 .. WIDTH - 1 |-> Glyph(cleared[home + WIDTH + Line(r) + k])]
      BY <1>7 DEF Shown
    <3>2. S!Scrolled(Shown(c))[r] = [k \in 0 .. WIDTH - 1 |-> S!Scrolled(Shown(c))[r][k]]
      <4>1. S!Scrolled(Shown(c))[r] = IF r + 1 \in 0 .. HEIGHT - 1 THEN Shown(c)[r + 1] ELSE S!BlankLine
        BY DEF S!Scrolled, S!Rows
      <4>2. r + 1 \in 0 .. HEIGHT - 1 =>
               Shown(c)[r + 1] = [k \in 0 .. WIDTH - 1 |-> Glyph(c.mem[c.screen + Line(r + 1) + k])]
        BY DEF Shown
      <4>3. S!BlankLine = [k \in 0 .. WIDTH - 1 |-> Erase]
        BY DEF S!BlankLine, S!Cols
      <4> QED
        BY <4>1, <4>2, <4>3
    <3> QED
      BY <1>6, <3>1, <3>2
  <2>2. S!Scrolled(Shown(c)) = [r \in 0 .. HEIGHT - 1 |-> S!Scrolled(Shown(c))[r]]
    BY DEF S!Scrolled, S!Rows
  <2>3. Shown(d) = [r \in 0 .. HEIGHT - 1 |-> Shown(d)[r]]
    BY DEF Shown
  <2> QED
    BY <2>1, <2>2, <2>3
<1> QED
  BY <1>7, <1>8, <1>9 DEF d

(* command_lf.                                                             *)
LEMMA FeedLemma ==
    ASSUME NEW c, Good(c)
    PROVE  LET d == command_lf(c)
           IN  /\ Good(d) /\ d.x = c.x
               /\ IF c.y + 1 \in 0 .. HEIGHT - 1 THEN Shown(d) = Shown(c) /\ d.y = c.y + 1
                  ELSE Shown(d) = S!Scrolled(Shown(c)) /\ d.y = c.y
<1>1. /\ c \in [mem : [Addresses -> VideoCells], screen : Nat, pos : Nat, x : 0 .. WIDTH, y : 0 .. HEIGHT - 1]
      /\ c.y \in 0 .. HEIGHT - 1 /\ c.screen + SCR_SIZE < MEM_SIZE /\ c.pos = c.screen + Line(c.y) + c.x
      /\ c.x \in 0 .. WIDTH /\ c.screen \in Nat /\ c.pos \in Nat
  BY DEF Good
<1>2. WIDTH \in Nat /\ HEIGHT \in Nat /\ c.y \in Nat /\ Line(c.y) \in Nat /\ Line(c.y + 1) = Line(c.y) + WIDTH
  <2>1. WIDTH \in Nat /\ HEIGHT \in Nat
    BY LineLemma
  <2>2. c.y \in Nat
    BY <1>1, <2>1
  <2> QED
    BY <2>1, <2>2, LineLemma
<1>3. CASE c.y + 1 < HEIGHT
  <2> DEFINE d == [c EXCEPT !.y = @ + 1, !.pos = @ + WIDTH]
  <2>1. command_lf(c) = d
    BY <1>3 DEF command_lf
  <2>2. c.y + 1 \in 0 .. HEIGHT - 1
    BY <1>2, <1>3
  <2>9. d = [c EXCEPT !.y = c.y + 1, !.pos = c.pos + WIDTH]
    OBVIOUS
  <2> HIDE DEF d
  <2>10. d = [mem |-> c.mem, screen |-> c.screen, pos |-> c.pos + WIDTH, x |-> c.x, y |-> c.y + 1]
    <3>1. c = [mem |-> c.mem, screen |-> c.screen, pos |-> c.pos, x |-> c.x, y |-> c.y]
      BY <1>1
    <3> QED
      BY ONLY <2>9, <3>1
  <2>3. d.mem = c.mem /\ d.screen = c.screen /\ d.x = c.x /\ d.y = c.y + 1 /\ d.pos = c.pos + WIDTH
    BY <2>10
  <2>4. Good(d)
    <3>1. c.pos + WIDTH \in Nat /\ c.pos + WIDTH = c.screen + Line(c.y + 1) + c.x
      BY <1>1, <1>2
    <3>2. d \in [mem : [Addresses -> VideoCells], screen : Nat, pos : Nat, x : 0 .. WIDTH, y : 0 .. HEIGHT - 1]
      BY <1>1, <2>2, <2>10, <3>1
    <3> QED
      BY <1>1, <2>3, <3>1, <3>2 DEF Good
  <2>5. Shown(d) = Shown(c)
    BY <2>3 DEF Shown
  <2> QED
    BY <2>1, <2>2, <2>3, <2>4, <2>5
<1>4. CASE ~(c.y + 1 < HEIGHT)
  <2>1. c.y = HEIGHT - 1 /\ c.y + 1 \notin 0 .. HEIGHT - 1
    BY <1>1, <1>2, <1>4
  <2>2. command_lf(c) = scroll_up(c)
    BY <1>4 DEF command_lf
  <2> QED
    BY <2>1, <2>2, ScrollLemma
<1> QED
  BY <1>3, <1>4

(* The cursor moves along its line.                                        *)
LEMMA MoveLemma ==
    ASSUME NEW c, Good(c), NEW n \in 0 .. WIDTH, NEW d,
           d = [mem |-> c.mem, screen |-> c.screen, pos |-> c.pos - c.x + n, x |-> n, y |-> c.y]
    PROVE  Good(d) /\ d.x = n /\ d.y = c.y /\ Shown(d) = Shown(c)
<1>1. /\ c.mem \in [Addresses -> VideoCells] /\ c.screen \in Nat /\ c.pos \in Nat
      /\ c.x \in 0 .. WIDTH /\ c.y \in 0 .. HEIGHT - 1
      /\ c.screen + SCR_SIZE < MEM_SIZE /\ c.pos = c.screen + Line(c.y) + c.x
  BY DEF Good
<1>2. Line(c.y) \in Nat /\ c.x \in Nat /\ n \in Nat
  <2>1. WIDTH \in Nat /\ HEIGHT \in Nat
    BY LineLemma
  <2>2. c.y \in Nat /\ c.x \in Nat /\ n \in Nat
    BY <1>1, <2>1
  <2> QED
    BY <2>2, LineLemma
<1>3. c.pos - c.x + n = c.screen + Line(c.y) + n /\ c.pos - c.x + n \in Nat
  BY <1>1, <1>2
<1>4. /\ d.mem = c.mem /\ d.screen = c.screen /\ d.pos = c.pos - c.x + n /\ d.x = n /\ d.y = c.y
  OBVIOUS
<1>5. d \in [mem : [Addresses -> VideoCells], screen : Nat, pos : Nat, x : 0 .. WIDTH, y : 0 .. HEIGHT - 1]
  BY <1>1, <1>3
<1>6. Good(d)
  BY <1>1, <1>3, <1>4, <1>5 DEF Good
<1>7. Shown(d) = Shown(c)
  BY <1>4 DEF Shown
<1> QED
  BY <1>4, <1>6, <1>7

(* The parts of a record that the commands pass on.                        *)
LEMMA RecordLemma ==
    ASSUME NEW c, Good(c)
    PROVE  /\ c = [mem |-> c.mem, screen |-> c.screen, pos |-> c.pos, x |-> c.x, y |-> c.y]
           /\ c.x \in Nat /\ c.x <= WIDTH /\ c.pos \in Nat /\ c.y \in 0 .. HEIGHT - 1
           /\ c.mem \in [Addresses -> VideoCells] /\ WIDTH \in Nat /\ WIDTH > 0
<1>1. WIDTH \in Nat /\ WIDTH > 0
  BY LineLemma
<1>2. c \in [mem : [Addresses -> VideoCells], screen : Nat, pos : Nat, x : 0 .. WIDTH, y : 0 .. HEIGHT - 1]
  BY DEF Good
<1>3. c = [mem |-> c.mem, screen |-> c.screen, pos |-> c.pos, x |-> c.x, y |-> c.y]
  BY ONLY <1>2
<1>4. c.mem \in [Addresses -> VideoCells] /\ c.x \in 0 .. WIDTH /\ c.pos \in Nat /\ c.y \in 0 .. HEIGHT - 1
  BY <1>2
<1>5. c.x \in Nat /\ c.x <= WIDTH
  BY ONLY <1>1, <1>4
<1> QED
  BY <1>1, <1>3, <1>4, <1>5

(* command_cr, command_bs and command_del.                                 *)
LEMMA ReturnLemma ==
    ASSUME NEW c, Good(c)
    PROVE  LET d == command_cr(c) IN Good(d) /\ d.x = 0 /\ d.y = c.y /\ Shown(d) = Shown(c)
<1> DEFINE d == command_cr(c)
<1>1. /\ c = [mem |-> c.mem, screen |-> c.screen, pos |-> c.pos, x |-> c.x, y |-> c.y]
      /\ c.x \in Nat /\ c.pos \in Nat /\ WIDTH \in Nat
  BY RecordLemma
<1>2. d = [c EXCEPT !.pos = c.pos - c.x, !.x = 0]
  BY DEF command_cr
<1>3. c.pos - c.x = c.pos - c.x + 0 /\ 0 \in 0 .. WIDTH
  BY <1>1
<1> HIDE DEF d
<1>4. d = [mem |-> c.mem, screen |-> c.screen, pos |-> c.pos - c.x, x |-> 0, y |-> c.y]
  BY ONLY <1>1, <1>2
<1>5. d = [mem |-> c.mem, screen |-> c.screen, pos |-> c.pos - c.x + 0, x |-> 0, y |-> c.y]
  BY ONLY <1>3, <1>4
<1>6. Good(d) /\ d.x = 0 /\ d.y = c.y /\ Shown(d) = Shown(c)
  BY <1>3, <1>5, MoveLemma
<1> QED
  BY <1>6 DEF d

(* A backspace in video memory is one on the terminal.                     *)
LEMMA BackLemma ==
    ASSUME NEW c, Good(c), c.x # 0
    PROVE  LET d == command_bs(c)
           IN  Good(d) /\ d.x = c.x - 1 /\ d.y = c.y /\ Shown(d) = [Shown(c) EXCEPT ![c.y][c.x - 1] = Erase]
<1> DEFINE d == command_bs(c)
           e == [mem |-> c.mem, screen |-> c.screen, pos |-> c.pos - 1, x |-> c.x - 1, y |-> c.y]
           n == c.x - 1
<1>1. /\ c = [mem |-> c.mem, screen |-> c.screen, pos |-> c.pos, x |-> c.x, y |-> c.y]
      /\ c.x \in Nat /\ c.x <= WIDTH /\ c.pos \in Nat /\ WIDTH \in Nat
  BY RecordLemma
<1>2. n \in 0 .. WIDTH /\ n < WIDTH /\ c.pos - 1 = c.pos - c.x + n
  BY <1>1
<1>3. d = [c EXCEPT !.x = c.x - 1, !.pos = c.pos - 1, !.mem[c.pos - 1] = Erase]
  BY DEF command_bs
<1>4. e = [mem |-> c.mem, screen |-> c.screen, pos |-> c.pos - c.x + n, x |-> n, y |-> c.y] /\ e.pos = c.pos - 1
  BY <1>2
<1> HIDE DEF d
<1>5. d = [e EXCEPT !.mem[e.pos] = Erase]
  <2>1. d = [mem |-> [c.mem EXCEPT ![c.pos - 1] = Erase], screen |-> c.screen, pos |-> c.pos - 1,
             x |-> c.x - 1, y |-> c.y]
    BY ONLY <1>1, <1>3
  <2>2. [e EXCEPT !.mem[e.pos] = Erase]
          = [mem |-> [c.mem EXCEPT ![c.pos - 1] = Erase], screen |-> c.screen, pos |-> c.pos - 1,
             x |-> c.x - 1, y |-> c.y]
    OBVIOUS
  <2> QED
    BY ONLY <2>1, <2>2
<1> HIDE DEF e
<1>6. Good(e) /\ e.x = n /\ e.y = c.y /\ Shown(e) = Shown(c)
  BY ONLY <1>2, <1>4, Good(c), MoveLemma
<1>7. Good(d) /\ d.x = e.x /\ d.y = e.y /\ Shown(d) = [Shown(e) EXCEPT ![e.y][e.x] = Erase]
  BY <1>2, <1>5, <1>6, StoreLemma
<1> QED
  BY <1>6, <1>7 DEF d

(* A delete in video memory is one on the terminal.                        *)
LEMMA DelLemma ==
    ASSUME NEW c, Good(c)
    PROVE  LET d == command_del(c)
           IN  /\ Good(d) /\ d.x = c.x /\ d.y = c.y
               /\ Shown(d) = [r \in 0 .. HEIGHT - 1 |-> [k \in 0 .. WIDTH - 1 |->
                                 IF Line(r) + k = Line(c.y) + c.x THEN Erase ELSE Shown(c)[r][k]]]
<1> DEFINE d == command_del(c)
<1>1. /\ c = [mem |-> c.mem, screen |-> c.screen, pos |-> c.pos, x |-> c.x, y |-> c.y]
      /\ c.mem \in [Addresses -> VideoCells] /\ c.x \in Nat /\ c.pos \in Nat
  BY RecordLemma
<1>2. /\ c.screen \in Nat /\ c.screen + SCR_SIZE < MEM_SIZE /\ c.pos = c.screen + Line(c.y) + c.x
      /\ c.x \in 0 .. WIDTH /\ c.y \in 0 .. HEIGHT - 1
  BY DEF Good
<1>3. d = [c EXCEPT !.mem[c.pos] = Erase]
  BY DEF command_del
<1> HIDE DEF d
<1>4. d = [mem |-> [c.mem EXCEPT ![c.pos] = Erase], screen |-> c.screen, pos |-> c.pos, x |-> c.x, y |-> c.y]
  BY ONLY <1>1, <1>3
<1>5. d.mem = [c.mem EXCEPT ![c.pos] = Erase] /\ d.screen = c.screen /\ d.pos = c.pos /\ d.x = c.x /\ d.y = c.y
  BY <1>4
<1>6. [c.mem EXCEPT ![c.pos] = Erase] \in [Addresses -> VideoCells]
  BY <1>1 DEF VideoCells
<1>7. Good(d)
  <2>1. d \in [mem : [Addresses -> VideoCells], screen : Nat, pos : Nat, x : 0 .. WIDTH, y : 0 .. HEIGHT - 1]
    BY <1>1, <1>2, <1>4, <1>6
  <2> QED
    BY <1>2, <1>5, <2>1 DEF Good
<1>8. ASSUME NEW r \in 0 .. HEIGHT - 1, NEW k \in 0 .. WIDTH - 1
      PROVE  Shown(d)[r][k] = IF Line(r) + k = Line(c.y) + c.x THEN Erase ELSE Shown(c)[r][k]
  <2> DEFINE a == c.screen + Line(r) + k
  <2>1. a \in Addresses /\ Line(r) \in Nat
    BY <1>2, PlaceLemma
  <2>2. Line(c.y) \in Nat /\ k \in Nat
    <3>1. HEIGHT \in Nat /\ WIDTH \in Nat
      BY LineLemma
    <3>2. c.y \in Nat /\ k \in Nat
      BY <1>2, <3>1
    <3> QED
      BY <3>2, LineLemma
  <2>3. a = c.pos <=> Line(r) + k = Line(c.y) + c.x
    BY <1>1, <1>2, <2>1, <2>2
  <2>4. Shown(d)[r][k] = Glyph(d.mem[a]) /\ Shown(c)[r][k] = Glyph(c.mem[a])
    BY <1>5 DEF Shown
  <2>5. Glyph(Erase) = Erase
    BY DEF Glyph
  <2> HIDE DEF a
  <2> QED
    BY <1>1, <1>5, <2>1, <2>3, <2>4, <2>5
<1>9. Shown(d) = [r \in 0 .. HEIGHT - 1 |-> [k \in 0 .. WIDTH - 1 |->
                     IF Line(r) + k = Line(c.y) + c.x THEN Erase ELSE Shown(c)[r][k]]]
  <2>1. Shown(d) = [r \in 0 .. HEIGHT - 1 |-> [k \in 0 .. WIDTH - 1 |-> Shown(d)[r][k]]]
    BY DEF Shown
  <2> QED
    BY <1>8, <2>1
<1> QED
  BY <1>5, <1>7, <1>9 DEF d

(* A character.                                                            *)
LEMMA PrintLemma ==
    ASSUME NEW c, Good(c), NEW ch \in Chars
    PROVE  LET d == print(c, ch)
               e == IF c.x >= WIDTH THEN command_lf([c EXCEPT !.x = @ - WIDTH, !.pos = @ - WIDTH]) ELSE c
           IN  /\ Good(d) /\ d.y = e.y /\ d.x = e.x + 1 /\ Good(e)
               /\ e.x = IF c.x = WIDTH THEN 0 ELSE c.x
               /\ Shown(d) = [Shown(e) EXCEPT ![e.y][e.x] = ch]
               /\ c.x # WIDTH => e = c
               /\ c.x = WIDTH => IF c.y + 1 \in 0 .. HEIGHT - 1 THEN Shown(e) = Shown(c) /\ e.y = c.y + 1
                                 ELSE Shown(e) = S!Scrolled(Shown(c)) /\ e.y = c.y
<1> DEFINE home == [c EXCEPT !.x = @ - WIDTH, !.pos = @ - WIDTH]
           e == IF c.x >= WIDTH THEN command_lf(home) ELSE c
           stored == [e EXCEPT !.mem[e.pos] = ch]
           d == print(c, ch)
<1>1. /\ c = [mem |-> c.mem, screen |-> c.screen, pos |-> c.pos, x |-> c.x, y |-> c.y]
      /\ c.x \in Nat /\ c.x <= WIDTH /\ c.pos \in Nat /\ WIDTH \in Nat /\ WIDTH > 0
  BY RecordLemma
<1>2. /\ Good(e)
      /\ e.x = IF c.x = WIDTH THEN 0 ELSE c.x
      /\ c.x # WIDTH => e = c
      /\ c.x = WIDTH => IF c.y + 1 \in 0 .. HEIGHT - 1 THEN Shown(e) = Shown(c) /\ e.y = c.y + 1
                        ELSE Shown(e) = S!Scrolled(Shown(c)) /\ e.y = c.y
  <2>1. CASE c.x # WIDTH
    <3>1. ~(c.x >= WIDTH)
      BY <1>1, <2>1
    <3> QED
      BY <2>1, <3>1
  <2>2. CASE c.x = WIDTH
    <3>1. c.x >= WIDTH /\ c.x - WIDTH = 0 /\ c.pos - WIDTH = c.pos - c.x + 0 /\ 0 \in 0 .. WIDTH
      BY <1>1, <2>2
    <3>2. home = [c EXCEPT !.x = c.x - WIDTH, !.pos = c.pos - WIDTH]
      OBVIOUS
    <3>3. e = command_lf(home)
      BY <3>1
    <3> HIDE DEF home, e
    <3>4. home = [mem |-> c.mem, screen |-> c.screen, pos |-> c.pos - WIDTH, x |-> c.x - WIDTH, y |-> c.y]
      BY ONLY <1>1, <3>2
    <3>5. home = [mem |-> c.mem, screen |-> c.screen, pos |-> c.pos - c.x + 0, x |-> 0, y |-> c.y]
      BY ONLY <3>1, <3>4
    <3>6. Good(home) /\ home.x = 0 /\ home.y = c.y /\ Shown(home) = Shown(c)
      BY <3>1, <3>5, MoveLemma
    <3>7. /\ Good(e) /\ e.x = home.x
          /\ IF home.y + 1 \in 0 .. HEIGHT - 1 THEN Shown(e) = Shown(home) /\ e.y = home.y + 1
             ELSE Shown(e) = S!Scrolled(Shown(home)) /\ e.y = home.y
      BY <3>3, <3>6, FeedLemma
    <3> QED
      BY <2>2, <3>6, <3>7
  <2> QED
    BY <2>1, <2>2
<1>3. d = [e EXCEPT !.mem[e.pos] = ch, !.pos = e.pos + 1, !.x = e.x + 1]
  BY DEF print
<1> HIDE DEF e, d
<1>4. /\ e = [mem |-> e.mem, screen |-> e.screen, pos |-> e.pos, x |-> e.x, y |-> e.y]
      /\ e.x \in Nat /\ e.pos \in Nat
  BY <1>2, RecordLemma
<1>5. e.x < WIDTH /\ e.x + 1 \in 0 .. WIDTH
  BY <1>1, <1>2, <1>4
<1>6. stored = [mem |-> [e.mem EXCEPT ![e.pos] = ch], screen |-> e.screen, pos |-> e.pos, x |-> e.x, y |-> e.y]
  BY ONLY <1>4
<1>7. /\ Good(stored) /\ stored.x = e.x /\ stored.y = e.y
      /\ Shown(stored) = [Shown(e) EXCEPT ![e.y][e.x] = ch]
  BY <1>2, <1>5, StoreLemma
<1> HIDE DEF stored
<1>8. d = [mem |-> stored.mem, screen |-> stored.screen, pos |-> stored.pos - stored.x + (e.x + 1),
           x |-> e.x + 1, y |-> stored.y]
  <2>1. d = [mem |-> [e.mem EXCEPT ![e.pos] = ch], screen |-> e.screen, pos |-> e.pos + 1, x |-> e.x + 1, y |-> e.y]
    BY ONLY <1>3, <1>4
  <2>2. stored.mem = [e.mem EXCEPT ![e.pos] = ch] /\ stored.screen = e.screen /\ stored.pos = e.pos /\ stored.x = e.x /\ stored.y = e.y
    BY <1>6
  <2>3. e.pos + 1 = stored.pos - stored.x + (e.x + 1)
    BY <1>4, <2>2
  <2> QED
    BY <2>1, <2>2, <2>3
<1>9. Good(d) /\ d.x = e.x + 1 /\ d.y = stored.y /\ Shown(d) = Shown(stored)
  <2> DEFINE n == e.x + 1
  <2>1. /\ n \in 0 .. WIDTH /\ Good(stored)
        /\ d = [mem |-> stored.mem, screen |-> stored.screen, pos |-> stored.pos - stored.x + n,
                x |-> n, y |-> stored.y]
    BY <1>5, <1>7, <1>8
  <2> HIDE DEF n
  <2>2. Good(d) /\ d.x = n /\ d.y = stored.y /\ Shown(d) = Shown(stored)
    BY ONLY <2>1, MoveLemma
  <2> QED
    BY <2>2 DEF n
<1> QED
  BY <1>2, <1>7, <1>9 DEF d, e

\* The text of the screen, as the refinement mapping has it.
Grid == [r \in 0 .. HEIGHT - 1 |-> [c \in 0 .. WIDTH - 1 |-> Visible(screen + r * WIDTH + c)]]

(* The refinement mapping reads the lines that the console shows now.      *)
LEMMA GridLemma == Grid = Shown(Now) /\ Now.x = x /\ Now.y = y
<1>1. Now.mem = mem /\ Now.screen = screen /\ Now.x = x /\ Now.y = y
  BY DEF Now
<1>2. \A a : Visible(a) = Glyph(Now.mem[a])
  BY <1>1 DEF Visible, Glyph
<1>3. Grid = [r \in 0 .. HEIGHT - 1 |-> [c \in 0 .. WIDTH - 1 |-> Glyph(Now.mem[Now.screen + r * WIDTH + c])]]
  BY <1>1, <1>2 DEF Grid
<1> QED
  BY <1>1, <1>3 DEF Shown, Line

(* A command that leaves a good record leaves the registers as it says.    *)
LEMMA BecomeLemma ==
    ASSUME NEW d, Good(d), Become(d)
    PROVE  Good(Now)' /\ Grid' = Shown(d) /\ x' = d.x /\ y' = d.y
<1>1. d = [mem |-> d.mem, screen |-> d.screen, pos |-> d.pos, x |-> d.x, y |-> d.y]
  BY RecordLemma
<1>2. mem' = d.mem /\ screen' = d.screen /\ pos' = d.pos /\ x' = d.x /\ y' = d.y
  BY DEF Become
<1>3. Now' = d
  BY <1>1, <1>2 DEF Now
<1>4. Good(Now)'
  BY <1>3 DEF Good, Line
<1>5. Grid' = [r \in 0 .. HEIGHT - 1 |-> [c \in 0 .. WIDTH - 1 |-> Glyph(d.mem[d.screen + r * WIDTH + c])]]
  <2>1. \A a : Visible(a)' = Glyph(d.mem[a])
    BY <1>2 DEF Visible, Glyph
  <2> QED
    BY <1>2, <2>1 DEF Grid
<1>6. Grid' = Shown(d)
  BY <1>5 DEF Shown, Line
<1> QED
  BY <1>2, <1>4, <1>6

(* Every turn of console_write, and console_clear, is a step of the screen *)
(* or changes nothing that is seen.                                        *)
LEMMA ConsoleStep ==
    ASSUME Good(Now), ConsoleNext
    PROVE  Good(Now)' /\ [S!Next]_(S!screenVars)
<1>1. Grid = Shown(Now) /\ Now.x = x /\ Now.y = y
  BY GridLemma
<1>2. x \in Nat /\ y \in 0 .. HEIGHT - 1 /\ WIDTH \in Nat
  BY <1>1, RecordLemma
<1>3. ASSUME NEW ch \in Chars, Become(print(Now, ch)) PROVE Good(Now)' /\ S!Put(ch)
  <2> DEFINE d == print(Now, ch)
             e == IF Now.x >= WIDTH THEN command_lf([Now EXCEPT !.x = @ - WIDTH, !.pos = @ - WIDTH]) ELSE Now
  <2>1. /\ Good(d) /\ d.y = e.y /\ d.x = e.x + 1
        /\ e.x = IF Now.x = WIDTH THEN 0 ELSE Now.x
        /\ Shown(d) = [Shown(e) EXCEPT ![e.y][e.x] = ch]
        /\ Now.x # WIDTH => e = Now
        /\ Now.x = WIDTH => IF Now.y + 1 \in 0 .. HEIGHT - 1 THEN Shown(e) = Shown(Now) /\ e.y = Now.y + 1
                            ELSE Shown(e) = S!Scrolled(Shown(Now)) /\ e.y = Now.y
    BY PrintLemma
  <2> HIDE DEF d, e
  <2>2. Good(Now)' /\ Grid' = Shown(d) /\ x' = d.x /\ y' = d.y
    BY <1>3, <2>1, BecomeLemma DEF d
  <2>3. CASE x # WIDTH
    <3>1. Grid' = [Grid EXCEPT ![y][x] = ch] /\ x' = x + 1 /\ y' = y
      BY <1>1, <2>1, <2>2, <2>3
    <3> QED
      BY <2>2, <2>3, <3>1 DEF S!Put, Grid
  <2>4. CASE x = WIDTH /\ y + 1 \in 0 .. HEIGHT - 1
    <3>1. Grid' = [Grid EXCEPT ![y + 1][0] = ch] /\ x' = 0 + 1 /\ y' = y + 1
      BY <1>1, <2>1, <2>2, <2>4
    <3> QED
      BY <2>2, <2>4, <3>1 DEF S!Put, S!Fed, S!Rows, Grid
  <2>5. CASE x = WIDTH /\ y + 1 \notin 0 .. HEIGHT - 1
    <3>1. Grid' = [S!Scrolled(Grid) EXCEPT ![y][0] = ch] /\ x' = 0 + 1 /\ y' = y
      BY <1>1, <2>1, <2>2, <2>5
    <3> QED
      BY <2>2, <2>5, <3>1 DEF S!Put, S!Fed, S!Rows, Grid
  <2> QED
    BY <2>3, <2>4, <2>5
<1>4. ASSUME NEW d, NEW c, Good(d), Shown(d) = Shown(c), d.y = c.y, Become(d),
             IF y + 1 \in 0 .. HEIGHT - 1 THEN Shown(c) = Grid /\ c.y = y + 1
             ELSE Shown(c) = S!Scrolled(Grid) /\ c.y = y
      PROVE  Good(Now)' /\ S!Feed(d.x)
  <2>1. Good(Now)' /\ Grid' = Shown(d) /\ x' = d.x /\ y' = d.y
    BY <1>4, BecomeLemma
  <2>2. CASE y + 1 \in 0 .. HEIGHT - 1
    <3>1. Grid' = Grid /\ y' = y + 1
      BY <1>4, <2>1, <2>2
    <3> QED
      BY <2>1, <2>2, <3>1 DEF S!Feed, S!Fed, S!Rows, Grid
  <2>3. CASE y + 1 \notin 0 .. HEIGHT - 1
    <3>1. Grid' = S!Scrolled(Grid) /\ y' = y
      BY <1>4, <2>1, <2>3
    <3> QED
      BY <2>1, <2>3, <3>1 DEF S!Feed, S!Fed, S!Rows, Grid
  <2> QED
    BY <2>2, <2>3
<1>5. /\ Good(command_lf(Now)) /\ command_lf(Now).x = x
      /\ IF y + 1 \in 0 .. HEIGHT - 1 THEN Shown(command_lf(Now)) = Grid /\ command_lf(Now).y = y + 1
         ELSE Shown(command_lf(Now)) = S!Scrolled(Grid) /\ command_lf(Now).y = y
  BY <1>1, FeedLemma
<1>6. ASSUME Become(command_lf(Now)) PROVE Good(Now)' /\ S!Feed(x)
  BY <1>4, <1>5, <1>6
<1>7. ASSUME Become(command_cr(command_lf(Now))) PROVE Good(Now)' /\ S!Feed(0)
  <2> DEFINE c == command_lf(Now)
             d == command_cr(c)
  <2>1. Good(d) /\ d.x = 0 /\ d.y = c.y /\ Shown(d) = Shown(c)
    BY <1>5, ReturnLemma
  <2> HIDE DEF d
  <2>2. Become(d)
    BY <1>7 DEF d
  <2> HIDE DEF c
  <2>3. IF y + 1 \in 0 .. HEIGHT - 1 THEN Shown(c) = Grid /\ c.y = y + 1
        ELSE Shown(c) = S!Scrolled(Grid) /\ c.y = y
    BY <1>5 DEF c
  <2>4. Good(Now)' /\ S!Feed(d.x)
    BY <1>4, <2>1, <2>2, <2>3
  <2> QED
    BY <2>1, <2>4
<1>8. ASSUME Become(command_cr(Now)) PROVE Good(Now)' /\ S!Return
  <2> DEFINE d == command_cr(Now)
  <2>1. Good(d) /\ d.x = 0 /\ d.y = y /\ Shown(d) = Grid
    BY <1>1, ReturnLemma
  <2> HIDE DEF d
  <2>2. Good(Now)' /\ Grid' = Shown(d) /\ x' = d.x /\ y' = d.y
    BY <1>8, <2>1, BecomeLemma DEF d
  <2>3. Grid' = Grid /\ x' = 0 /\ y' = y
    BY <2>1, <2>2
  <2> QED
    BY <2>2, <2>3 DEF S!Return, Grid
<1>9. ASSUME Become(command_bs(Now)), x # 0 PROVE Good(Now)' /\ S!Back
  <2> DEFINE d == command_bs(Now)
  <2>1. Good(d) /\ d.x = x - 1 /\ d.y = y /\ Shown(d) = [Grid EXCEPT ![y][x - 1] = Erase]
    BY <1>1, <1>9, BackLemma
  <2> HIDE DEF d
  <2>2. Good(Now)' /\ Grid' = Shown(d) /\ x' = d.x /\ y' = d.y
    BY <1>9, <2>1, BecomeLemma DEF d
  <2>3. x > 0 /\ x' = x - 1 /\ y' = y /\ Grid' = [Grid EXCEPT ![y][x - 1] = Erase]
    BY <1>2, <1>9, <2>1, <2>2
  <2> QED
    BY <2>2, <2>3 DEF S!Back, Grid
<1>10. ASSUME Become(command_bs(Now)), x = 0 PROVE Good(Now)' /\ UNCHANGED S!screenVars
  <2>1. command_bs(Now) = Now
    BY <1>1, <1>10 DEF command_bs
  <2>2. Good(Now)' /\ Grid' = Grid /\ x' = x /\ y' = y
    BY <1>1, <1>10, <2>1, BecomeLemma
  <2> QED
    BY <2>2 DEF S!screenVars, Grid
<1>11. ASSUME Become(command_del(Now)) PROVE Good(Now)' /\ S!Rub
  <2> DEFINE d == command_del(Now)
  <2>1. /\ Good(d) /\ d.x = x /\ d.y = y
        /\ Shown(d) = [r \in 0 .. HEIGHT - 1 |-> [k \in 0 .. WIDTH - 1 |->
                          IF Line(r) + k = Line(y) + x THEN Erase ELSE Grid[r][k]]]
    BY <1>1, DelLemma
  <2> HIDE DEF d
  <2>2. Good(Now)' /\ Grid' = Shown(d) /\ x' = d.x /\ y' = d.y
    BY <1>11, <2>1, BecomeLemma DEF d
  <2>3. /\ x' = x /\ y' = y
        /\ Grid' = [r \in 0 .. HEIGHT - 1 |-> [k \in 0 .. WIDTH - 1 |->
                       IF r * WIDTH + k = y * WIDTH + x THEN Erase ELSE Grid[r][k]]]
    BY <2>1, <2>2 DEF Line
  <2> QED
    BY <2>2, <2>3 DEF S!Rub, S!Rows, S!Cols, Grid
<1>12. ASSUME console_clear PROVE Good(Now)' /\ S!Clear
  <2>1. /\ mem' = [a \in Addresses |-> IF a < MEM_SIZE THEN Erase ELSE mem[a]]
        /\ screen' = 0 /\ pos' = 0 /\ x' = 0 /\ y' = 0
    BY <1>12 DEF console_clear
  <2> DEFINE d == [mem |-> [a \in Addresses |-> IF a < MEM_SIZE THEN Erase ELSE mem[a]],
                   screen |-> 0, pos |-> 0, x |-> 0, y |-> 0]
  <2>2. Become(d)
    BY <2>1 DEF Become
  <2>3. d.mem \in [Addresses -> VideoCells]
    <3>1. Now.mem \in [Addresses -> VideoCells] /\ Now.mem = mem
      BY RecordLemma DEF Now
    <3> QED
      BY <3>1 DEF VideoCells
  <2>4. d.screen = 0 /\ d.pos = 0 /\ d.x = 0 /\ d.y = 0 /\ \A a \in Addresses : a < MEM_SIZE => d.mem[a] = Erase
    OBVIOUS
  <2>5. d = [mem |-> d.mem, screen |-> 0, pos |-> 0, x |-> 0, y |-> 0]
    OBVIOUS
  <2> HIDE DEF d
  <2>6. Good(d)
    <3>1. /\ WIDTH \in Nat /\ WIDTH > 0 /\ HEIGHT \in Nat /\ HEIGHT > 0 /\ SCR_SIZE \in Nat /\ MEM_SIZE \in Nat
          /\ SCR_SIZE + WIDTH < MEM_SIZE /\ Line(0) = 0
      BY LineLemma
    <3>2. d \in [mem : [Addresses -> VideoCells], screen : Nat, pos : Nat, x : 0 .. WIDTH, y : 0 .. HEIGHT - 1]
      BY <2>3, <2>5, <3>1
    <3>3. 0 + SCR_SIZE < MEM_SIZE /\ 0 = 0 + Line(0) + 0
      BY <3>1
    <3> QED
      BY <2>4, <3>2, <3>3 DEF Good
  <2>7. Shown(d) = [r \in 0 .. HEIGHT - 1 |-> [k \in 0 .. WIDTH - 1 |-> Erase]]
    <3>1. ASSUME NEW r \in 0 .. HEIGHT - 1, NEW k \in 0 .. WIDTH - 1
          PROVE  Glyph(d.mem[d.screen + Line(r) + k]) = Erase
      <4>1. SCR_SIZE \in Nat /\ MEM_SIZE \in Nat /\ 0 + SCR_SIZE < MEM_SIZE
        BY LineLemma
      <4>2. 0 + Line(r) + k \in Addresses /\ 0 + Line(r) + k < 0 + SCR_SIZE /\ 0 + Line(r) + k \in Nat
        BY <4>1, PlaceLemma
      <4>3. 0 + Line(r) + k < MEM_SIZE
        BY <4>1, <4>2
      <4> QED
        BY <2>4, <4>2, <4>3 DEF Glyph
    <3> QED
      BY <3>1 DEF Shown
  <2>8. Good(Now)' /\ Grid' = Shown(d) /\ x' = d.x /\ y' = d.y
    BY <2>2, <2>6, BecomeLemma
  <2> QED
    BY <2>4, <2>7, <2>8 DEF S!Clear, S!Rows, S!Cols, S!BlankLine, Grid
<1> QED
  BY <1>3, <1>6, <1>7, <1>8, <1>9, <1>10, <1>11, <1>12 DEF ConsoleNext, console_write, S!Next

(* kernel/console.c shows what a plain text screen would, for any size of  *)
(* the screen and of the video memory.                                     *)
THEOREM ConsoleImplementsScreen == DriversSpec => ImplementsScreen
<1>1. DriversInit => Good(Now) /\ S!Init
  <2> SUFFICES ASSUME console_init PROVE Good(Now) /\ S!Init
    BY DEF DriversInit
  <2>1. mem = [a \in Addresses |-> Erase] /\ screen = 0 /\ pos = 0 /\ x = 0 /\ y = 0
    BY DEF console_init
  <2>2. Now = [mem |-> mem, screen |-> 0, pos |-> 0, x |-> 0, y |-> 0]
    BY <2>1 DEF Now
  <2>3. mem \in [Addresses -> VideoCells]
    BY <2>1 DEF VideoCells
  <2>4. Good(Now)
    <3>1. /\ WIDTH \in Nat /\ WIDTH > 0 /\ HEIGHT \in Nat /\ HEIGHT > 0 /\ SCR_SIZE \in Nat /\ MEM_SIZE \in Nat
          /\ SCR_SIZE + WIDTH < MEM_SIZE /\ Line(0) = 0
      BY LineLemma
    <3>2. Now \in [mem : [Addresses -> VideoCells], screen : Nat, pos : Nat, x : 0 .. WIDTH, y : 0 .. HEIGHT - 1]
      BY <2>2, <2>3, <3>1
    <3>3. 0 + SCR_SIZE < MEM_SIZE /\ 0 = 0 + Line(0) + 0
      BY <3>1
    <3>4. Now.screen = 0 /\ Now.pos = 0 /\ Now.x = 0 /\ Now.y = 0
      BY <2>2
    <3> QED
      BY <3>2, <3>3, <3>4 DEF Good
  <2>5. Grid = [r \in 0 .. HEIGHT - 1 |-> [c \in 0 .. WIDTH - 1 |-> Erase]]
    <3>1. ASSUME NEW r \in 0 .. HEIGHT - 1, NEW k \in 0 .. WIDTH - 1
          PROVE  Visible(screen + r * WIDTH + k) = Erase
      <4>1. SCR_SIZE \in Nat /\ MEM_SIZE \in Nat /\ 0 + SCR_SIZE < MEM_SIZE
        BY LineLemma
      <4>2. 0 + Line(r) + k \in Addresses
        BY <4>1, PlaceLemma
      <4> QED
        BY <2>1, <4>2 DEF Visible, Line
    <3> QED
      BY <3>1 DEF Grid
  <2> QED
    BY <2>1, <2>4, <2>5 DEF S!Init, S!Rows, S!Cols, S!BlankLine, Grid
<1>2. Good(Now) /\ [DriversNext]_allVars => Good(Now)' /\ [S!Next]_(S!screenVars)
  <2> SUFFICES ASSUME Good(Now), [DriversNext]_allVars PROVE Good(Now)' /\ [S!Next]_(S!screenVars)
    OBVIOUS
  <2>1. CASE ConsoleNext
    BY <2>1, ConsoleStep
  <2>2. CASE UNCHANGED consoleVars
    <3>1. mem' = mem /\ screen' = screen /\ pos' = pos /\ x' = x /\ y' = y
      BY <2>2 DEF consoleVars
    <3>2. Good(Now)'
      BY <3>1 DEF Now, Good, Line
    <3>3. UNCHANGED S!screenVars
      BY <3>1 DEF S!screenVars, Visible
    <3> QED
      BY <3>2, <3>3
  <2> QED
    BY <2>1, <2>2 DEF DriversNext, allVars
<1> QED
  BY <1>1, <1>2, PTL DEF DriversSpec, ImplementsScreen, S!Spec
=============================================================================
