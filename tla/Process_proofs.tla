--------------------------- MODULE Process_proofs ---------------------------
(***************************************************************************)
(* The life cycle of processes for any size of the task table and any set  *)
(* of user processes: waitpid misses no death, parents are alive, a clean  *)
(* exit is final, and the scheduling contract is kept.                     *)
(***************************************************************************)
EXTENDS Process, TLAPS

Parked == {"FREE", "DIED", "BLOCKED", "WAITING"}

ProcTypeOK ==
    /\ state \in [Tasks -> Parked \cup {"READY", "RUNNING"}]
    /\ running \in Tasks
    /\ ppid \in [Tasks -> Tasks]
    /\ waitpid \in [Tasks -> Tasks \cup {AnyChild}]
    /\ pc \in [Tasks -> {"user", "wait", "exit", "gone"}]
    /\ stalled \in SUBSET Tasks

\* Exactly the task on the CPU is RUNNING, and idle_task never leaves the ready
\* tasks nor user code.
CpuExact == /\ \A t \in Tasks : state[t] = "RUNNING" <=> t = running
            /\ state[Idle] \in {"READY", "RUNNING"}
            /\ pc[Idle] = "user"

\* A dead task is through task_exit; one inside it has blocked there.
ExitExact == \A t \in Tasks : /\ state[t] = "DIED" => pc[t] = "gone"
                              /\ pc[t] = "exit" => t \in stalled

\* The parents form a tree with idle_task at the root.  The rank of a task is a
\* bound on its depth: adoption by the grandparent never makes a cycle.
IsRank(r) == /\ r \in [Tasks -> Nat]
             /\ \A t \in Tasks \ {Idle} : state[t] # "FREE" => r[ppid[t]] < r[t]
Tree == \E r \in [Tasks -> Nat] : IsRank(r)

\* The inductive invariant.
ProcInv == /\ ProcTypeOK /\ CpuExact /\ ExitExact /\ Tree
           /\ ParentAlive /\ WaiterHasLiveChild /\ CleanExitIsFinal

-----------------------------------------------------------------------------
\* What schedule() may be called with: the table after the caller suspended
\* itself, died, or just gave the CPU away.
Schedulable(st) == /\ st \in [Tasks -> Parked \cup {"READY", "RUNNING"}]
                   /\ \A t \in Tasks : st[t] = "RUNNING" => t = running
                   /\ st[Idle] \in {"READY", "RUNNING"}

(* idle_task has an entry in the table.                                    *)
LEMMA IdleInTable == Idle \in Tasks
  BY ProcessAssumption DEF Idle, Tasks

(* schedule() changes nothing for a task that cannot run.                  *)
LEMMA ProcScheduleLemma ==
    ASSUME NEW st, Schedulable(st), running \in Tasks, schedule(st)
    PROVE  /\ state' \in [Tasks -> Parked \cup {"READY", "RUNNING"}]
           /\ running' \in Tasks
           /\ \A t \in Tasks : state'[t] = "RUNNING" <=> t = running'
           /\ state'[Idle] \in {"READY", "RUNNING"}
           /\ \A t \in Tasks : st[t] \in Parked => state'[t] = st[t]
           /\ \A t \in Tasks : st[t] \notin Parked => state'[t] \in {"READY", "RUNNING"}
<1>1. PICK n \in Tasks : /\ running' = n /\ st[n] \in {"READY", "RUNNING"}
                         /\ state' = T!Dispatch(st, running, n)
  BY IdleInTable DEF schedule, Schedulable
<1>2. \A t \in Tasks : state'[t] = IF t = n THEN "RUNNING"
                                   ELSE IF t = running /\ st[t] = "RUNNING" THEN "READY" ELSE st[t]
  BY <1>1 DEF T!Dispatch
<1>3. state' \in [Tasks -> Parked \cup {"READY", "RUNNING"}]
  BY <1>1 DEF T!Dispatch, Schedulable
<1>4. \A t \in Tasks : state'[t] = "RUNNING" <=> t = running'
  BY <1>1, <1>2 DEF Schedulable
<1>5. state'[Idle] \in {"READY", "RUNNING"}
  BY <1>2, IdleInTable DEF Schedulable
<1>6. \A t \in Tasks : st[t] \in Parked => state'[t] = st[t]
  BY <1>1, <1>2 DEF Parked
<1>7. \A t \in Tasks : st[t] \notin Parked => state'[t] \in {"READY", "RUNNING"}
  BY <1>2 DEF Schedulable
<1> QED
  BY <1>1, <1>3, <1>4, <1>5, <1>6, <1>7

(* A task that changes only between READY, RUNNING and BLOCKED disturbs    *)
(* neither the family tree nor anybody's wait.                             *)
LEMMA SameFamily ==
    ASSUME ProcInv, ProcTypeOK', CpuExact', ExitExact', CleanExitIsFinal',
           UNCHANGED ppid,
           \A t \in Tasks : state'[t] = "FREE" <=> state[t] = "FREE",
           \A t \in Tasks : state'[t] = "DIED" <=> state[t] = "DIED",
           \A t \in Tasks : state'[t] = "WAITING" => state[t] = "WAITING" /\ waitpid'[t] = waitpid[t]
    PROVE  ProcInv'
<1>1. Tree'
  BY DEF ProcInv, Tree, IsRank
<1>2. ParentAlive'
  BY DEF ProcInv, ProcTypeOK, ParentAlive
<1>3. WaiterHasLiveChild'
  <2> SUFFICES ASSUME NEW t \in Tasks, state'[t] = "WAITING"
               PROVE  /\ Matching(t, waitpid[t])' # {}
                      /\ \A c \in Matching(t, waitpid[t])' : state'[c] # "DIED"
    BY DEF WaiterHasLiveChild
  <2>1. Matching(t, waitpid[t])' = Matching(t, waitpid[t])
    BY ProcessAssumption DEF Matching, Tasks
  <2>2. Matching(t, waitpid[t]) \subseteq Tasks
    BY ProcessAssumption DEF Matching, Tasks
  <2> QED
    BY <2>1, <2>2 DEF ProcInv, WaiterHasLiveChild
<1> QED
  BY <1>1, <1>2, <1>3 DEF ProcInv

(* A process has a parent other than itself.                               *)
LEMMA ProperParent ==
    ASSUME ProcInv, NEW t \in Tasks \ {Idle}, state[t] # "FREE"
    PROVE  ppid[t] \in Tasks /\ ppid[t] # t /\ state[ppid[t]] \notin {"FREE", "DIED"}
<1>1. PICK r \in [Tasks -> Nat] : IsRank(r)
  BY DEF ProcInv, Tree
<1>2. ppid[t] \in Tasks /\ r[ppid[t]] < r[t] /\ r[t] \in Nat
  BY <1>1 DEF IsRank, ProcInv, ProcTypeOK
<1> QED
  BY <1>2 DEF ProcInv, ParentAlive

(* The last part of task_exit, with the caller DIED or, after it blocked,  *)
(* RUNNING again: adoption and waking keep the invariant.                  *)
LEMMA ExitFinishLemma ==
    ASSUME ProcInv, running # Idle, NEW st, exit_finish(st, running),
           \/ st = [state EXCEPT ![running] = "DIED"]
           \/ st = state /\ running \in stalled,
           UNCHANGED <<waitpid, stalled>>
    PROVE  ProcInv'
<1> DEFINE t == running
           p == ppid[t]
           wake == st[p] = "WAITING" /\ waitpid[p] \in {AnyChild, t}
           st1 == IF wake THEN [st EXCEPT ![p] = "READY"] ELSE st
<1>1. /\ t \in Tasks /\ t # Idle /\ state[t] = "RUNNING"
      /\ p \in Tasks /\ p # t /\ state[p] \notin {"FREE", "DIED"}
  BY ProperParent DEF ProcInv, ProcTypeOK, CpuExact
<1>2. /\ ppid' = [c \in Tasks |-> IF state[c] # "FREE" /\ ppid[c] = t THEN p ELSE ppid[c]]
      /\ pc' = [pc EXCEPT ![t] = "gone"]
      /\ schedule(st1)
  BY DEF exit_finish
<1>3. \A u \in Tasks : u # t => st[u] = state[u]
  BY DEF ProcInv, ProcTypeOK
<1>4. st[t] \in {"DIED", "RUNNING"} /\ (st[t] = "RUNNING" => t \in stalled)
  BY <1>1 DEF ProcInv, ProcTypeOK
<1>5. st \in [Tasks -> Parked \cup {"READY", "RUNNING"}]
  BY DEF ProcInv, ProcTypeOK, Parked
<1>6. Schedulable(st1)
  BY <1>1, <1>3, <1>4, <1>5, IdleInTable DEF Schedulable, ProcInv, CpuExact
<1>7. /\ state' \in [Tasks -> Parked \cup {"READY", "RUNNING"}]
      /\ running' \in Tasks
      /\ \A u \in Tasks : state'[u] = "RUNNING" <=> u = running'
      /\ state'[Idle] \in {"READY", "RUNNING"}
      /\ \A u \in Tasks : st1[u] \in Parked => state'[u] = st1[u]
      /\ \A u \in Tasks : st1[u] \notin Parked => state'[u] \in {"READY", "RUNNING"}
  BY <1>1, <1>2, <1>6, ProcScheduleLemma
<1>8. \A u \in Tasks : u # t => /\ state'[u] = "FREE" <=> state[u] = "FREE"
                                /\ state'[u] = "DIED" <=> state[u] = "DIED"
                                /\ state'[u] = "WAITING" => state[u] = "WAITING"
  BY <1>1, <1>3, <1>5, <1>7 DEF Parked
<1>9. state'[t] \notin {"FREE", "WAITING"} /\ (state'[t] # "DIED" => t \in stalled)
  BY <1>1, <1>4, <1>7 DEF Parked
<1>10. state'[p] = "WAITING" => waitpid[p] \notin {AnyChild, t}
  BY <1>1, <1>3, <1>5, <1>7 DEF Parked
<1> HIDE DEF t, p, st1
<1>11. ProcTypeOK'
  BY <1>1, <1>2, <1>7 DEF ProcInv, ProcTypeOK
<1>12. CpuExact'
  BY <1>1, <1>2, <1>7, IdleInTable DEF ProcInv, ProcTypeOK, CpuExact
<1>13. ExitExact'
  BY <1>1, <1>2, <1>8 DEF ProcInv, ProcTypeOK, ExitExact
<1>14. CleanExitIsFinal'
  BY <1>1, <1>2, <1>8, <1>9 DEF ProcInv, ProcTypeOK, CleanExitIsFinal
<1>15. ParentAlive'
  <2> SUFFICES ASSUME NEW u \in Tasks, state'[u] # "FREE"
               PROVE  state'[ppid'[u]] \notin {"FREE", "DIED"}
    BY DEF ParentAlive
  <2>1. state[u] # "FREE"
    BY <1>1, <1>8
  <2>2. ppid'[u] \in Tasks /\ ppid'[u] # t /\ state[ppid'[u]] \notin {"FREE", "DIED"}
    BY <1>1, <1>2, <2>1 DEF ProcInv, ProcTypeOK, ParentAlive
  <2> QED
    BY <1>8, <2>2
<1>16. Tree'
  <2>1. PICK r \in [Tasks -> Nat] : IsRank(r)
    BY DEF ProcInv, Tree
  <2>2. ASSUME NEW u \in Tasks \ {Idle}, state'[u] # "FREE" PROVE r[ppid'[u]] < r[u]
    <3>1. state[u] # "FREE" /\ r[ppid[u]] < r[u] /\ r[p] < r[t]
      BY <1>1, <1>8, <2>1, <2>2 DEF IsRank, p
    <3>2. r[p] \in Nat /\ r[t] \in Nat /\ r[u] \in Nat
      BY <1>1
    <3>3. CASE ppid[u] = t
      BY <1>2, <3>1, <3>2, <3>3
    <3>4. CASE ppid[u] # t
      BY <1>2, <3>1, <3>4
    <3> QED
      BY <3>3, <3>4
  <2> QED
    BY <2>2 DEF Tree, IsRank
<1>17. WaiterHasLiveChild'
  <2> SUFFICES ASSUME NEW q \in Tasks, state'[q] = "WAITING"
               PROVE  /\ Matching(q, waitpid[q])' # {}
                      /\ \A c \in Matching(q, waitpid[q])' : state'[c] # "DIED"
    BY DEF WaiterHasLiveChild
  <2> DEFINE w == waitpid[q]
  <2>1. q # t /\ state[q] = "WAITING" /\ w' = w
    BY <1>8, <1>9
  <2>2. Matching(q, w) # {} /\ \A c \in Matching(q, w) : state[c] # "DIED"
    BY <2>1 DEF ProcInv, WaiterHasLiveChild
  <2>3. /\ Matching(q, w) \subseteq {c \in Tasks : state[c] # "FREE" /\ ppid[c] = q /\ w \in {c, AnyChild}}
        /\ Matching(q, w)' \subseteq {c \in Tasks : state'[c] # "FREE" /\ ppid'[c] = q /\ w \in {c, AnyChild}}
        /\ \A c \in Matching(q, w) : state'[c] # "FREE" /\ ppid'[c] = q => c \in Matching(q, w)'
    BY <2>1, ProcessAssumption DEF Matching, Tasks
  <2> HIDE DEF w
  <2>4. CASE q = p
    <3>1. w \notin {AnyChild, t}
      BY <1>10, <2>4 DEF w
    <3>2. Matching(q, w) = {w} /\ w \in Tasks /\ state[w] # "FREE" /\ ppid[w] = q /\ state[w] # "DIED"
      BY <2>2, <2>3, <3>1
    <3>3. state'[w] # "FREE" /\ state'[w] # "DIED" /\ ppid'[w] = q
      BY <1>1, <1>2, <1>8, <2>4, <3>1, <3>2
    <3>4. Matching(q, w)' = {w}
      BY <2>3, <3>1, <3>2, <3>3
    <3> QED
      BY <3>3, <3>4 DEF w
  <2>5. CASE q # p
    <3>1. \A c \in Tasks : ppid'[c] = q <=> ppid[c] = q
      BY <1>1, <1>2, <2>1, <2>5
    <3>2. \A c \in Tasks : ppid[c] = q => c # t
      BY <2>5 DEF p
    <3>3. ASSUME NEW c \in Matching(q, w) PROVE c \in Matching(q, w)'
      BY <1>8, <2>3, <3>1, <3>2, <3>3
    <3>4. ASSUME NEW c \in Matching(q, w)' PROVE state'[c] # "DIED"
      <4>1. c \in Tasks /\ ppid[c] = q /\ c # t /\ state[c] # "FREE" /\ w \in {c, AnyChild}
        BY <1>8, <2>3, <3>1, <3>2, <3>4
      <4>2. c \in Matching(q, w)
        BY <2>1, <3>4, <4>1, ProcessAssumption DEF Matching, w
      <4> QED
        BY <1>8, <2>2, <4>1, <4>2
    <3> QED
      BY <2>2, <3>3, <3>4 DEF w
  <2> QED
    BY <2>4, <2>5
<1> QED
  BY <1>11, <1>12, <1>13, <1>14, <1>15, <1>16, <1>17 DEF ProcInv

(* task_exit blocks on the disk.                                           *)
LEMMA ExitBlockLemma ==
    ASSUME ProcInv, running # Idle, exit_block(running), UNCHANGED waitpid
    PROVE  ProcInv'
<1> DEFINE st == [state EXCEPT ![running] = "BLOCKED"]
<1>1. schedule(st) /\ running \in Tasks /\ state[running] = "RUNNING"
  BY DEF exit_block, ProcInv, ProcTypeOK, CpuExact
<1>2. Schedulable(st)
  BY IdleInTable DEF Schedulable, ProcInv, ProcTypeOK, CpuExact, Parked
<1> HIDE DEF st
<1>3. /\ state' \in [Tasks -> Parked \cup {"READY", "RUNNING"}]
      /\ running' \in Tasks
      /\ \A u \in Tasks : state'[u] = "RUNNING" <=> u = running'
      /\ state'[Idle] \in {"READY", "RUNNING"}
      /\ \A u \in Tasks : st[u] \in Parked => state'[u] = st[u]
      /\ \A u \in Tasks : st[u] \notin Parked => state'[u] \in {"READY", "RUNNING"}
  BY <1>1, <1>2, ProcScheduleLemma
<1>4. \A u \in Tasks : /\ state'[u] = "FREE" <=> state[u] = "FREE"
                       /\ state'[u] = "DIED" <=> state[u] = "DIED"
                       /\ state'[u] = "WAITING" => state[u] = "WAITING"
  BY <1>1, <1>3 DEF st, Parked, ProcInv, ProcTypeOK
<1>5. ProcTypeOK'
  BY <1>1, <1>3 DEF exit_block, ProcInv, ProcTypeOK
<1>6. CpuExact'
  BY <1>3, IdleInTable DEF exit_block, ProcInv, ProcTypeOK, CpuExact
<1>7. ExitExact'
  BY <1>1, <1>4 DEF exit_block, ProcInv, ProcTypeOK, ExitExact
<1>8. CleanExitIsFinal'
  BY <1>4 DEF exit_block, ProcInv, ProcTypeOK, CleanExitIsFinal
<1> QED
  BY <1>4, <1>5, <1>6, <1>7, <1>8, SameFamily DEF exit_block

(* task_exit as a whole, also as the page fault handler calls it.          *)
LEMMA ExitLemma ==
    ASSUME ProcInv, running # Idle, exit_task(running), UNCHANGED waitpid
    PROVE  ProcInv'
<1>1. CASE exit_finish([state EXCEPT ![running] = "DIED"], running) /\ UNCHANGED stalled
  BY <1>1, ExitFinishLemma
<1>2. CASE exit_block(running)
  BY <1>2, ExitBlockLemma
<1> QED
  BY <1>1, <1>2 DEF exit_task

(* A new process takes a free slot, which nobody has as a parent.          *)
LEMMA ForkLemma ==
    ASSUME ProcInv, NEW t \in Tasks, task_fork(t)
    PROVE  ProcInv'
<1>1. t = running /\ t # Idle /\ state[t] = "RUNNING" /\ running' = running
  BY ProcessAssumption DEF task_fork, Calls, ProcInv, CpuExact
<1>2. CASE get_free_task = {}
  BY <1>1, <1>2 DEF task_fork, ProcInv, ProcTypeOK, CpuExact, ExitExact, Tree, IsRank, ParentAlive,
                    WaiterHasLiveChild, Matching, CleanExitIsFinal
<1>3. CASE get_free_task # {}
  <2>1. PICK c \in get_free_task :
              /\ state' = [state EXCEPT ![c] = "READY"]
              /\ ppid' = [ppid EXCEPT ![c] = t]
              /\ waitpid' = [waitpid EXCEPT ![c] = waitpid[t]]
              /\ pc' = [pc EXCEPT ![c] = "user"]
              /\ stalled' = stalled \ {c}
    BY <1>3 DEF task_fork
  <2>2. c \in Tasks /\ state[c] = "FREE" /\ c # t /\ c # Idle
    BY <1>1 DEF get_free_task, ProcInv, CpuExact
  <2>3. ProcTypeOK'
    BY <1>1, <2>1, <2>2 DEF ProcInv, ProcTypeOK
  <2>4. CpuExact'
    BY <1>1, <2>1, <2>2, IdleInTable DEF ProcInv, ProcTypeOK, CpuExact
  <2>5. ExitExact'
    BY <2>1, <2>2 DEF ProcInv, ProcTypeOK, ExitExact
  <2>6. CleanExitIsFinal'
    BY <2>1, <2>2 DEF ProcInv, ProcTypeOK, CleanExitIsFinal
  <2>7. ParentAlive'
    <3> SUFFICES ASSUME NEW u \in Tasks, state'[u] # "FREE"
                 PROVE  state'[ppid'[u]] \notin {"FREE", "DIED"}
      BY DEF ParentAlive
    <3>1. CASE u = c
      BY <1>1, <2>1, <2>2, <3>1 DEF ProcInv, ProcTypeOK
    <3>2. CASE u # c
      <4>1. ppid'[u] = ppid[u] /\ ppid[u] \in Tasks /\ state[ppid[u]] \notin {"FREE", "DIED"}
        BY <2>1, <2>2, <3>2 DEF ProcInv, ProcTypeOK, ParentAlive
      <4> QED
        BY <2>1, <2>2, <4>1 DEF ProcInv, ProcTypeOK
    <3> QED
      BY <3>1, <3>2
  <2>8. Tree'
    <3>1. PICK r \in [Tasks -> Nat] : IsRank(r)
      BY DEF ProcInv, Tree
    <3> DEFINE r1 == [r EXCEPT ![c] = r[t] + 1]
    <3>2. r1 \in [Tasks -> Nat]
      <4>1. r[t] + 1 \in Nat
        OBVIOUS
      <4> QED
        BY <4>1
    <3>3. ASSUME NEW u \in Tasks \ {Idle}, state'[u] # "FREE" PROVE r1[ppid'[u]] < r1[u]
      <4>1. CASE u = c
        BY <2>1, <2>2, <4>1 DEF ProcInv, ProcTypeOK
      <4>2. CASE u # c
        <5>1. state[u] # "FREE" /\ ppid'[u] = ppid[u]
          BY <2>1, <2>2, <3>3, <4>2 DEF ProcInv, ProcTypeOK
        <5>2. ppid[u] \in Tasks /\ ppid[u] # c /\ r[ppid[u]] < r[u]
          BY <2>2, <3>1, <5>1 DEF ProcInv, ProcTypeOK, ParentAlive, IsRank
        <5> QED
          BY <4>2, <5>1, <5>2
      <4> QED
        BY <4>1, <4>2
    <3> HIDE DEF r1
    <3> QED
      BY <3>2, <3>3 DEF Tree, IsRank
  <2>9. WaiterHasLiveChild'
    <3> SUFFICES ASSUME NEW q \in Tasks, state'[q] = "WAITING"
                 PROVE  /\ Matching(q, waitpid[q])' # {}
                        /\ \A d \in Matching(q, waitpid[q])' : state'[d] # "DIED"
      BY DEF WaiterHasLiveChild
    <3>1. q # c /\ q # t /\ state[q] = "WAITING" /\ waitpid'[q] = waitpid[q]
      BY <1>1, <2>1, <2>2 DEF ProcInv, ProcTypeOK
    <3>2. Matching(q, waitpid[q])' = Matching(q, waitpid[q])
      BY <2>1, <2>2, <3>1, ProcessAssumption DEF Matching, ProcInv, ProcTypeOK, Tasks
    <3>3. \A d \in Matching(q, waitpid[q]) : d \in Tasks
      BY ProcessAssumption DEF Matching, Tasks
    <3> QED
      BY <2>1, <2>2, <3>1, <3>2, <3>3 DEF ProcInv, ProcTypeOK, WaiterHasLiveChild
  <2> QED
    BY <2>3, <2>4, <2>5, <2>6, <2>7, <2>8, <2>9 DEF ProcInv
<1> QED
  BY <1>2, <1>3

(* waitpid frees the slot of a dead child: the child is not on the CPU and *)
(* has no children of its own left.                                        *)
LEMMA ReapLemma ==
    ASSUME ProcInv, NEW c \in Tasks, state[c] = "DIED", ppid[c] = running, running # Idle,
           state' = [state EXCEPT ![c] = "FREE"], pc' = [pc EXCEPT ![running] = "user"],
           UNCHANGED <<running, ppid, waitpid, stalled>>
    PROVE  ProcInv'
<1>1. running \in Tasks /\ state[running] = "RUNNING" /\ c # running /\ c # Idle
  BY DEF ProcInv, ProcTypeOK, CpuExact
<1>2. ProcTypeOK'
  BY DEF ProcInv, ProcTypeOK, Parked
<1>3. CpuExact'
  BY <1>1, IdleInTable DEF ProcInv, ProcTypeOK, CpuExact
<1>4. ExitExact'
  BY <1>1 DEF ProcInv, ProcTypeOK, ExitExact
<1>5. CleanExitIsFinal'
  BY <1>1 DEF ProcInv, ProcTypeOK, CleanExitIsFinal
<1>6. ParentAlive'
  BY <1>1 DEF ProcInv, ProcTypeOK, ParentAlive
<1>7. Tree'
  BY DEF ProcInv, ProcTypeOK, Tree, IsRank
<1>8. WaiterHasLiveChild'
  <2> SUFFICES ASSUME NEW q \in Tasks, state'[q] = "WAITING"
               PROVE  /\ Matching(q, waitpid[q])' # {}
                      /\ \A d \in Matching(q, waitpid[q])' : state'[d] # "DIED"
    BY DEF WaiterHasLiveChild
  <2>1. q # c /\ q # running /\ state[q] = "WAITING"
    BY <1>1 DEF ProcInv, ProcTypeOK
  <2>2. Matching(q, waitpid[q])' = Matching(q, waitpid[q])
    BY <2>1, ProcessAssumption DEF Matching, ProcInv, ProcTypeOK, Tasks
  <2>3. \A d \in Matching(q, waitpid[q]) : d \in Tasks
    BY ProcessAssumption DEF Matching, Tasks
  <2> QED
    BY <2>1, <2>2, <2>3 DEF ProcInv, ProcTypeOK, WaiterHasLiveChild
<1> QED
  BY <1>2, <1>3, <1>4, <1>5, <1>6, <1>7, <1>8 DEF ProcInv

(* The running task gives the CPU away: as it is, or blocked for I/O.      *)
LEMMA GiveAwayLemma ==
    ASSUME ProcInv, NEW st, schedule(st), UNCHANGED <<ppid, waitpid, pc, stalled>>,
           \/ st = state
           \/ running # Idle /\ st = [state EXCEPT ![running] = "BLOCKED"]
    PROVE  ProcInv'
<1>1. running \in Tasks /\ state[running] = "RUNNING"
  BY DEF ProcInv, ProcTypeOK, CpuExact
<1>2. Schedulable(st)
  BY IdleInTable DEF Schedulable, ProcInv, ProcTypeOK, CpuExact, Parked
<1>3. \A u \in Tasks : u # running => st[u] = state[u]
  BY DEF ProcInv, ProcTypeOK
<1>4. st[running] \in {"RUNNING", "BLOCKED"}
  BY <1>1 DEF ProcInv, ProcTypeOK
<1>5. /\ state' \in [Tasks -> Parked \cup {"READY", "RUNNING"}]
      /\ running' \in Tasks
      /\ \A u \in Tasks : state'[u] = "RUNNING" <=> u = running'
      /\ state'[Idle] \in {"READY", "RUNNING"}
      /\ \A u \in Tasks : st[u] \in Parked => state'[u] = st[u]
      /\ \A u \in Tasks : st[u] \notin Parked => state'[u] \in {"READY", "RUNNING"}
  BY <1>1, <1>2, ProcScheduleLemma
<1>6. \A u \in Tasks : /\ state'[u] = "FREE" <=> state[u] = "FREE"
                       /\ state'[u] = "DIED" <=> state[u] = "DIED"
                       /\ state'[u] = "WAITING" => state[u] = "WAITING"
  BY <1>1, <1>3, <1>4, <1>5 DEF Parked, ProcInv, ProcTypeOK
<1>7. ProcTypeOK'
  BY <1>5 DEF ProcInv, ProcTypeOK
<1>8. CpuExact'
  BY <1>5 DEF ProcInv, CpuExact
<1>9. ExitExact'
  BY <1>6 DEF ProcInv, ExitExact
<1>10. CleanExitIsFinal'
  BY <1>6 DEF ProcInv, ProcTypeOK, CleanExitIsFinal
<1> QED
  BY <1>6, <1>7, <1>8, <1>9, <1>10, SameFamily

(* waitpid finds live children only and waits for one of them.             *)
LEMMA WaitLemma ==
    ASSUME ProcInv, running # Idle, NEW w \in Tasks \cup {AnyChild},
           Matching(running, w) # {},
           \A c \in Matching(running, w) : state[c] # "DIED",
           waitpid' = [waitpid EXCEPT ![running] = w],
           pc' = [pc EXCEPT ![running] = "wait"],
           schedule([state EXCEPT ![running] = "WAITING"]),
           UNCHANGED <<ppid, stalled>>
    PROVE  ProcInv'
<1> DEFINE t == running
           st == [state EXCEPT ![t] = "WAITING"]
<1>1. t \in Tasks /\ state[t] = "RUNNING"
  BY DEF ProcInv, ProcTypeOK, CpuExact
<1>2. Schedulable(st)
  BY IdleInTable DEF Schedulable, ProcInv, ProcTypeOK, CpuExact, Parked
<1>3. st[t] = "WAITING" /\ \A u \in Tasks : u # t => st[u] = state[u]
  BY <1>1 DEF ProcInv, ProcTypeOK
<1> HIDE DEF st
<1>4. /\ state' \in [Tasks -> Parked \cup {"READY", "RUNNING"}]
      /\ running' \in Tasks
      /\ \A u \in Tasks : state'[u] = "RUNNING" <=> u = running'
      /\ state'[Idle] \in {"READY", "RUNNING"}
      /\ \A u \in Tasks : st[u] \in Parked => state'[u] = st[u]
      /\ \A u \in Tasks : st[u] \notin Parked => state'[u] \in {"READY", "RUNNING"}
  BY <1>1, <1>2, ProcScheduleLemma DEF st
<1>5. \A u \in Tasks : /\ state'[u] = "FREE" <=> state[u] = "FREE"
                       /\ state'[u] = "DIED" <=> state[u] = "DIED"
                       /\ u # t /\ state'[u] = "WAITING" => state[u] = "WAITING"
  BY <1>1, <1>3, <1>4 DEF Parked, ProcInv, ProcTypeOK
<1>6. ProcTypeOK'
  BY <1>1, <1>4 DEF ProcInv, ProcTypeOK
<1>7. CpuExact'
  BY <1>4, IdleInTable DEF ProcInv, ProcTypeOK, CpuExact
<1>8. ExitExact'
  BY <1>1, <1>5 DEF ProcInv, ProcTypeOK, ExitExact
<1>9. CleanExitIsFinal'
  BY <1>1, <1>5 DEF ProcInv, ProcTypeOK, CleanExitIsFinal
<1>10. ParentAlive'
  BY <1>5 DEF ProcInv, ProcTypeOK, ParentAlive
<1>11. Tree'
  BY <1>5 DEF ProcInv, Tree, IsRank
<1>12. WaiterHasLiveChild'
  <2> SUFFICES ASSUME NEW q \in Tasks, state'[q] = "WAITING"
               PROVE  /\ Matching(q, waitpid[q])' # {}
                      /\ \A d \in Matching(q, waitpid[q])' : state'[d] # "DIED"
    BY DEF WaiterHasLiveChild
  <2>1. \A v : /\ \A d \in Matching(q, v) : d \in Tasks
               /\ {i \in 2 .. NTasks - 1 : /\ state'[i] # "FREE" /\ ppid'[i] = q
                                          /\ v \in {i, AnyChild}} = Matching(q, v)
    BY <1>5, ProcessAssumption DEF Matching, Tasks
  <2>2. Matching(q, waitpid[q])' = Matching(q, waitpid'[q])
    BY <2>1 DEF Matching
  <2>3. CASE q = t
    <3>1. waitpid'[q] = w
      BY <1>1, <2>3 DEF ProcInv, ProcTypeOK
    <3> QED
      BY <1>5, <2>1, <2>2, <2>3, <3>1
  <2>4. CASE q # t
    <3>1. waitpid'[q] = waitpid[q] /\ state[q] = "WAITING"
      BY <1>5, <2>4 DEF ProcInv, ProcTypeOK
    <3> QED
      BY <1>5, <2>1, <2>2, <3>1 DEF ProcInv, WaiterHasLiveChild
  <2> QED
    BY <2>3, <2>4
<1> QED
  BY <1>6, <1>7, <1>8, <1>9, <1>10, <1>11, <1>12 DEF ProcInv

(* Every turn of the loop in task_waitpid.                                 *)
LEMMA WaitpidLemma ==
    ASSUME ProcInv, running # Idle, NEW w \in Tasks \cup {AnyChild}, waitpid_loop(running, w)
    PROVE  ProcInv'
<1> DEFINE mine == Matching(running, w)
           dead == {i \in mine : state[i] = "DIED"}
<1>1. ASSUME NEW c \in dead, state' = [state EXCEPT ![c] = "FREE"],
             pc' = [pc EXCEPT ![running] = "user"], UNCHANGED <<running, ppid, waitpid, stalled>>
      PROVE  ProcInv'
  <2>1. c \in Tasks /\ state[c] = "DIED" /\ ppid[c] = running
    BY ProcessAssumption DEF Matching, Tasks
  <2> QED
    BY <1>1, <2>1, ReapLemma
<1>2. CASE /\ dead = {} /\ mine # {}
           /\ waitpid' = [waitpid EXCEPT ![running] = w]
           /\ pc' = [pc EXCEPT ![running] = "wait"]
           /\ schedule([state EXCEPT ![running] = "WAITING"])
           /\ UNCHANGED <<ppid, stalled>>
  BY <1>2, WaitLemma
<1>3. CASE exit_task(running) /\ UNCHANGED waitpid
  BY <1>3, ExitLemma
<1> QED
  BY <1>1, <1>2, <1>3 DEF waitpid_loop

-----------------------------------------------------------------------------
(* ProcInv is inductive.                                                   *)
LEMMA ProcInvariant == Spec => []ProcInv
<1>1. Init => ProcInv
  <2> SUFFICES ASSUME Init PROVE ProcInv
    OBVIOUS
  <2>1. 0 \in Tasks /\ 1 \in Tasks
    BY ProcessAssumption DEF Tasks
  <2>2. ProcTypeOK /\ CpuExact /\ ExitExact
    BY <2>1 DEF Init, ProcTypeOK, Parked, CpuExact, ExitExact, Idle
  <2>3. ParentAlive /\ CleanExitIsFinal
    BY <2>1 DEF Init, ParentAlive, CleanExitIsFinal
  <2>4. WaiterHasLiveChild
    BY DEF Init, WaiterHasLiveChild
  <2>5. Tree
    <3> DEFINE r == [t \in Tasks |-> IF t = Idle THEN 0 ELSE 1]
    <3>1. r \in [Tasks -> Nat] /\ IsRank(r)
      BY <2>1 DEF Init, IsRank, Idle
    <3> QED
      BY <3>1 DEF Tree
  <2> QED
    BY <2>2, <2>3, <2>4, <2>5 DEF ProcInv
<1>2. ProcInv /\ [Next]_vars => ProcInv'
  <2> SUFFICES ASSUME ProcInv, [Next]_vars PROVE ProcInv'
    OBVIOUS
  <2>1. CASE UNCHANGED vars
    BY <2>1 DEF vars, ProcInv, ProcTypeOK, CpuExact, ExitExact, Tree, IsRank, ParentAlive,
                WaiterHasLiveChild, Matching, CleanExitIsFinal
  <2>2. ASSUME NEW t \in Tasks, task_fork(t) PROVE ProcInv'
    BY <2>2, ForkLemma
  <2>3. ASSUME NEW t \in Tasks, task_exit(t) PROVE ProcInv'
    <3>1. t = running /\ running # Idle
      BY <2>3, ProcessAssumption DEF task_exit, Calls
    <3> QED
      BY <2>3, <3>1, ExitLemma DEF task_exit
  <2>4. ASSUME NEW t \in Tasks, exit_resume(t) PROVE ProcInv'
    <3>1. t = running /\ running # Idle /\ running \in stalled
      BY <2>4 DEF exit_resume, ProcInv, CpuExact, ExitExact
    <3>2. CASE exit_finish(state, t) /\ UNCHANGED stalled
      BY <2>4, <3>1, <3>2, ExitFinishLemma DEF exit_resume
    <3>3. CASE exit_block(t)
      BY <2>4, <3>1, <3>3, ExitBlockLemma DEF exit_resume
    <3> QED
      BY <2>4, <3>2, <3>3 DEF exit_resume
  <2>5. ASSUME NEW t \in Tasks, task_waitpid(t) PROVE ProcInv'
    <3>1. t = running /\ running # Idle
      BY <2>5, ProcessAssumption DEF task_waitpid, Calls
    <3> QED
      BY <2>5, <3>1, WaitpidLemma DEF task_waitpid
  <2>6. ASSUME NEW t \in Tasks, waitpid_retry(t) PROVE ProcInv'
    <3>1. t = running /\ running # Idle /\ waitpid[t] \in Tasks \cup {AnyChild}
      BY <2>6 DEF waitpid_retry, ProcInv, ProcTypeOK, CpuExact
    <3> QED
      BY <2>6, <3>1, WaitpidLemma DEF waitpid_retry
  <2>7. ASSUME NEW t \in Tasks, io_wait(t) PROVE ProcInv'
    BY <2>7, GiveAwayLemma DEF io_wait
  <2>8. ASSUME NEW t \in Tasks, io_done(t) PROVE ProcInv'
    <3>1. /\ state[t] = "BLOCKED" /\ state' = [state EXCEPT ![t] = "READY"]
          /\ UNCHANGED <<running, ppid, waitpid, pc, stalled>>
      BY <2>8 DEF io_done
    <3>2. ProcTypeOK' /\ CpuExact' /\ ExitExact' /\ CleanExitIsFinal'
      BY <3>1, IdleInTable DEF ProcInv, ProcTypeOK, CpuExact, ExitExact, CleanExitIsFinal
    <3>3. \A u \in Tasks : /\ state'[u] = "FREE" <=> state[u] = "FREE"
                           /\ state'[u] = "DIED" <=> state[u] = "DIED"
                           /\ state'[u] = "WAITING" => state[u] = "WAITING"
      BY <3>1 DEF ProcInv, ProcTypeOK
    <3> QED
      BY <3>1, <3>2, <3>3, SameFamily
  <2>9. CASE task_yield
    BY <2>9, GiveAwayLemma DEF task_yield
  <2> QED
    BY <2>1, <2>2, <2>3, <2>4, <2>5, <2>6, <2>7, <2>8, <2>9 DEF Next
<1> QED
  BY <1>1, <1>2, PTL DEF Spec

(* waitpid misses no death, every parent is alive, and a process that got  *)
(* through task_exit without blocking stays dead: for any number of        *)
(* processes that fork, exit and wait in any order.                        *)
THEOREM ProcessFamily == Spec => [](WaiterHasLiveChild /\ ParentAlive /\ CleanExitIsFinal)
<1>1. ProcInv => WaiterHasLiveChild /\ ParentAlive /\ CleanExitIsFinal
  BY DEF ProcInv
<1> QED
  BY <1>1, ProcInvariant, PTL

-----------------------------------------------------------------------------
(* The tables that the actions hand to schedule(), whoever the caller is.  *)
LEMMA ExitTables ==
    ASSUME ProcInv, running # Idle, NEW st,
           st = state \/ st = [state EXCEPT ![running] = "DIED"],
           NEW st1,
           st1 = st \/ st1 = [st EXCEPT ![ppid[running]] = "READY"]
    PROVE  /\ Schedulable(st1)
           /\ \A u \in Tasks : st1[u] = "FREE" => state[u] = "FREE"
<1>1. /\ running \in Tasks /\ state[running] = "RUNNING"
      /\ ppid[running] \in Tasks /\ ppid[running] # running
  BY ProperParent DEF ProcInv, ProcTypeOK, CpuExact
<1>2. /\ st \in [Tasks -> Parked \cup {"READY", "RUNNING"}]
      /\ \A u \in Tasks : u # running => st[u] = state[u]
      /\ st[running] \in {"RUNNING", "DIED"}
  BY <1>1 DEF ProcInv, ProcTypeOK, Parked
<1>3. /\ st1 \in [Tasks -> Parked \cup {"READY", "RUNNING"}]
      /\ \A u \in Tasks : st1[u] \in {st[u], "READY"}
  BY <1>1, <1>2
<1>4. Schedulable(st1)
  BY <1>1, <1>2, <1>3, IdleInTable DEF Schedulable, ProcInv, CpuExact
<1> QED
  BY <1>1, <1>2, <1>3, <1>4

(* A call of schedule() never frees a slot.                                *)
LEMMA ScheduleFreesNone ==
    ASSUME ProcInv, NEW st, Schedulable(st), schedule(st),
           \A u \in Tasks : st[u] = "FREE" => state[u] = "FREE"
    PROVE  \A u \in Tasks : state'[u] = "FREE" => state[u] = "FREE"
<1>1. running \in Tasks
  BY DEF ProcInv, ProcTypeOK
<1>2. \A u \in Tasks : /\ st[u] \in Parked => state'[u] = st[u]
                       /\ st[u] \notin Parked => state'[u] \in {"READY", "RUNNING"}
  BY <1>1, ProcScheduleLemma
<1> QED
  BY <1>2 DEF Parked

(* Nor does task_exit.                                                     *)
LEMMA ExitFreesNone ==
    ASSUME ProcInv, running # Idle,
           \/ exit_finish(state, running)
           \/ exit_task(running)
    PROVE  \A u \in Tasks : state'[u] = "FREE" => state[u] = "FREE"
<1>1. ASSUME NEW st, st = state \/ st = [state EXCEPT ![running] = "DIED"], exit_finish(st, running)
      PROVE  \A u \in Tasks : state'[u] = "FREE" => state[u] = "FREE"
  <2>1. PICK st1 : /\ st1 = st \/ st1 = [st EXCEPT ![ppid[running]] = "READY"]
                   /\ schedule(st1)
    BY <1>1 DEF exit_finish
  <2>2. /\ Schedulable(st1)
        /\ \A u \in Tasks : st1[u] = "FREE" => state[u] = "FREE"
    BY <1>1, <2>1, ExitTables
  <2> QED
    BY <2>1, <2>2, ScheduleFreesNone
<1>2. ASSUME exit_block(running)
      PROVE  \A u \in Tasks : state'[u] = "FREE" => state[u] = "FREE"
  <2> DEFINE st == [state EXCEPT ![running] = "BLOCKED"]
  <2>1. schedule(st)
    BY <1>2 DEF exit_block
  <2>2. /\ Schedulable(st)
        /\ \A u \in Tasks : st[u] = "FREE" => state[u] = "FREE"
    BY IdleInTable DEF Schedulable, ProcInv, ProcTypeOK, CpuExact, Parked
  <2> HIDE DEF st
  <2> QED
    BY <2>1, <2>2, ScheduleFreesNone
<1> QED
  BY <1>1, <1>2 DEF exit_task

(* A slot becomes free only when the task's own parent reaps it, and then  *)
(* the task is through task_exit and not on the CPU.                       *)
THEOREM ReapTheorem == Spec => ReapedByParent
<1>1. ProcInv /\ [Next]_vars => [ReapStep]_vars
  <2> SUFFICES ASSUME ProcInv, Next,
                      NEW c \in Tasks, state[c] # "FREE", state'[c] = "FREE"
               PROVE  running = ppid[c] /\ pc[c] = "gone" /\ running # c
    BY DEF ReapStep
  <2>1. ASSUME NEW w, running # Idle, waitpid_loop(running, w)
        PROVE  running = ppid[c] /\ pc[c] = "gone" /\ running # c
    <3> DEFINE mine == Matching(running, w)
               dead == {i \in mine : state[i] = "DIED"}
    <3>1. ASSUME NEW d \in dead, state' = [state EXCEPT ![d] = "FREE"]
          PROVE  running = ppid[c] /\ pc[c] = "gone" /\ running # c
      <4>1. d = c
        BY <3>1 DEF ProcInv, ProcTypeOK
      <4>2. state[c] = "DIED" /\ ppid[c] = running
        BY <4>1 DEF Matching
      <4> QED
        BY <4>2 DEF ProcInv, ExitExact, CpuExact
    <3>2. ASSUME schedule([state EXCEPT ![running] = "WAITING"])
          PROVE  FALSE
      <4> DEFINE st == [state EXCEPT ![running] = "WAITING"]
      <4>1. /\ Schedulable(st)
            /\ \A u \in Tasks : st[u] = "FREE" => state[u] = "FREE"
        BY <2>1, IdleInTable DEF Schedulable, ProcInv, ProcTypeOK, CpuExact, Parked
      <4> HIDE DEF st
      <4> QED
        BY <3>2, <4>1, ScheduleFreesNone DEF st
    <3>3. ASSUME exit_task(running) PROVE FALSE
      BY <2>1, <3>3, ExitFreesNone
    <3> QED
      BY <2>1, <3>1, <3>2, <3>3 DEF waitpid_loop
  <2>2. ASSUME NEW t \in Tasks, task_fork(t) PROVE FALSE
    BY <2>2 DEF task_fork, get_free_task, ProcInv, ProcTypeOK
  <2>3. ASSUME NEW t \in Tasks, task_exit(t) PROVE FALSE
    BY <2>3, ExitFreesNone, ProcessAssumption DEF task_exit, Calls
  <2>4. ASSUME NEW t \in Tasks, exit_resume(t) PROVE FALSE
    <3>1. t = running /\ running # Idle
      BY <2>4 DEF exit_resume, ProcInv, CpuExact
    <3> QED
      BY <2>4, <3>1, ExitFreesNone DEF exit_resume, exit_task
  <2>5. ASSUME NEW t \in Tasks, task_waitpid(t)
        PROVE  running = ppid[c] /\ pc[c] = "gone" /\ running # c
    <3>1. t = running /\ running # Idle
      BY <2>5, ProcessAssumption DEF task_waitpid, Calls
    <3>2. PICK w : waitpid_loop(running, w)
      BY <2>5, <3>1 DEF task_waitpid
    <3> QED
      BY <2>1, <3>1, <3>2
  <2>6. ASSUME NEW t \in Tasks, waitpid_retry(t)
        PROVE  running = ppid[c] /\ pc[c] = "gone" /\ running # c
    <3>1. t = running /\ running # Idle
      BY <2>6 DEF waitpid_retry, ProcInv, CpuExact
    <3> QED
      BY <2>1, <2>6, <3>1 DEF waitpid_retry
  <2>7. ASSUME NEW t \in Tasks, io_wait(t) PROVE FALSE
    <3> DEFINE st == [state EXCEPT ![running] = "BLOCKED"]
    <3>1. schedule(st) /\ running # Idle
      BY <2>7 DEF io_wait
    <3>2. /\ Schedulable(st)
          /\ \A u \in Tasks : st[u] = "FREE" => state[u] = "FREE"
      BY <3>1, IdleInTable DEF Schedulable, ProcInv, ProcTypeOK, CpuExact, Parked
    <3> HIDE DEF st
    <3> QED
      BY <3>1, <3>2, ScheduleFreesNone
  <2>8. ASSUME NEW t \in Tasks, io_done(t) PROVE FALSE
    BY <2>8 DEF io_done, ProcInv, ProcTypeOK
  <2>9. ASSUME task_yield PROVE FALSE
    <3>1. schedule(state) /\ Schedulable(state)
      BY <2>9 DEF task_yield, Schedulable, ProcInv, ProcTypeOK, CpuExact
    <3> QED
      BY <3>1, ScheduleFreesNone
  <2> QED
    BY <2>2, <2>3, <2>4, <2>5, <2>6, <2>7, <2>8, <2>9 DEF Next
<1> QED
  BY <1>1, ProcInvariant, PTL DEF Spec, ReapedByParent

-----------------------------------------------------------------------------
\* The table as the scheduling contract sees it.
Seen(st) == [t \in Tasks |-> IF st[t] \in {"FREE", "DIED"} THEN "WAITING" ELSE st[t]]

(* The task that schedule() picks is one that the contract allows.         *)
LEMMA SeenSchedule ==
    ASSUME NEW st, Schedulable(st), running \in Tasks, schedule(st)
    PROVE  T!schedule(Seen(st))
<1> DEFINE ready == {t \in Tasks \ {running} : st[t] = "READY"}
<1>1. PICK n \in (IF ready = {} THEN {Idle} ELSE ready) :
          running' = n /\ state' = T!Dispatch(st, running, n)
  BY DEF schedule
<1>2. n \in Tasks /\ st[n] \in {"READY", "RUNNING"}
  BY <1>1, IdleInTable DEF Schedulable
<1>3. {t \in Tasks \ {running} : Seen(st)[t] = "READY"} = ready
  BY DEF Seen
<1>4. n \in T!Candidates(Seen(st), running)
  BY <1>1, <1>3 DEF T!Candidates
<1>5. Seen(state)' = T!Dispatch(Seen(st), running, n)
  BY <1>1, <1>2 DEF T!Dispatch, Seen
<1> QED
  BY <1>1, <1>4, <1>5 DEF T!schedule, Seen

(* The caller suspends itself, and the tasks of R wake up.                 *)
LEMMA SeenBlock ==
    ASSUME ProcInv, running # Idle, NEW R \in SUBSET T!Asleep, NEW s \in {"BLOCKED", "WAITING"},
           NEW st, Schedulable(st), schedule(st),
           Seen(st) = [t \in Tasks |-> IF t = running THEN s
                                       ELSE IF t \in R THEN "READY" ELSE Seen(state)[t]]
    PROVE  T!TaskNext
<1>1. running \in Tasks
  BY DEF ProcInv, ProcTypeOK
<1>2. T!schedule(Seen(st))
  BY <1>1, SeenSchedule
<1>3. Seen(st) = T!Suspend(T!Unblock(Seen(state), R), running, s)
  BY <1>1 DEF T!Suspend, T!Unblock
<1>4. T!Block(R, s)
  BY <1>2, <1>3 DEF T!Block, T!schedule, Seen
<1>5. s \in T!Suspended
  BY DEF T!Suspended
<1> QED
  BY <1>4, <1>5 DEF T!TaskNext

(* The caller stays runnable, and the tasks of R wake up.                  *)
LEMMA SeenYield ==
    ASSUME ProcInv, NEW R \in SUBSET T!Asleep,
           NEW st, Schedulable(st), schedule(st),
           Seen(st) = [t \in Tasks |-> IF t \in R THEN "READY" ELSE Seen(state)[t]]
    PROVE  T!TaskNext
<1>1. running \in Tasks
  BY DEF ProcInv, ProcTypeOK
<1>2. T!schedule(Seen(st))
  BY <1>1, SeenSchedule
<1>3. Seen(st) = T!Unblock(Seen(state), R)
  BY DEF T!Unblock
<1>4. T!Yield(R)
  BY <1>2, <1>3 DEF T!Yield, T!schedule, Seen
<1> QED
  BY <1>4 DEF T!TaskNext

(* An event wakes the tasks of R.                                          *)
LEMMA SeenWake ==
    ASSUME NEW R \in SUBSET T!Asleep, running' = running,
           Seen(state)' = [t \in Tasks |-> IF t \in R THEN "READY" ELSE Seen(state)[t]]
    PROVE  T!TaskNext
<1>1. T!Wake(R)
  BY DEF T!Wake, T!Unblock, Seen
<1> QED
  BY <1>1 DEF T!TaskNext

(* What is asleep in the contract: the dead, the free and the waiting.     *)
LEMMA SeenAsleep ==
    ASSUME ProcInv
    PROVE  T!Asleep = {t \in Tasks : state[t] \in Parked}
  BY DEF T!Asleep, T!Suspended, Parked, ProcInv, ProcTypeOK

(* task_exit suspends the dying task for good, or lets one that blocked    *)
(* run on, and wakes at most its parent.                                   *)
LEMMA SeenExit ==
    ASSUME ProcInv, running # Idle,
           \/ exit_finish(state, running)
           \/ exit_task(running)
    PROVE  T!TaskNext
<1> DEFINE p == ppid[running]
<1>1. /\ running \in Tasks /\ state[running] = "RUNNING"
      /\ p \in Tasks /\ p # running
  BY ProperParent DEF ProcInv, ProcTypeOK, CpuExact
<1> HIDE DEF p
<1>2. ASSUME NEW st, st = state \/ st = [state EXCEPT ![running] = "DIED"], exit_finish(st, running)
      PROVE  T!TaskNext
  <2>1. PICK R \in SUBSET {p} : /\ \A u \in R : st[u] = "WAITING"
                                /\ schedule(IF R = {} THEN st ELSE [st EXCEPT ![p] = "READY"])
    <3>1. CASE st[p] = "WAITING" /\ waitpid[p] \in {AnyChild, running}
      <4>1. schedule(IF {p} = {} THEN st ELSE [st EXCEPT ![p] = "READY"])
        BY <1>2, <3>1 DEF exit_finish, p, schedule
      <4> QED
        BY <3>1, <4>1
    <3>2. CASE ~ (st[p] = "WAITING" /\ waitpid[p] \in {AnyChild, running})
      <4>1. schedule(IF {} = {} THEN st ELSE [st EXCEPT ![p] = "READY"])
        BY <1>2, <3>2 DEF exit_finish, p, schedule
      <4> QED
        BY <4>1
    <3> QED
      BY <3>1, <3>2
  <2> DEFINE st1 == IF R = {} THEN st ELSE [st EXCEPT ![p] = "READY"]
  <2>2. Schedulable(st1)
    BY <1>2, ExitTables DEF p
  <2>3. R \in SUBSET T!Asleep
    <3>1. \A u \in R : u \in Tasks /\ state[u] = "WAITING"
      BY <1>1, <1>2, <2>1 DEF ProcInv, ProcTypeOK
    <3> QED
      BY <3>1, SeenAsleep DEF Parked
  <2>4. CASE st = state
    <3>1. Seen(st1) = [t \in Tasks |-> IF t \in R THEN "READY" ELSE Seen(state)[t]]
      BY <1>1, <2>1, <2>4 DEF Seen, ProcInv, ProcTypeOK
    <3> HIDE DEF st1
    <3> QED
      BY <2>1, <2>2, <2>3, <3>1, SeenYield DEF st1
  <2>5. CASE st = [state EXCEPT ![running] = "DIED"]
    <3>1. Seen(st1) = [t \in Tasks |-> IF t = running THEN "WAITING"
                                       ELSE IF t \in R THEN "READY" ELSE Seen(state)[t]]
      BY <1>1, <2>1, <2>5 DEF Seen, ProcInv, ProcTypeOK
    <3> HIDE DEF st1
    <3> QED
      BY <2>1, <2>2, <2>3, <3>1, SeenBlock DEF st1
  <2> QED
    BY <1>2, <2>4, <2>5
<1>3. ASSUME exit_block(running) PROVE T!TaskNext
  <2> DEFINE st == [state EXCEPT ![running] = "BLOCKED"]
  <2>1. schedule(st)
    BY <1>3 DEF exit_block
  <2>2. Schedulable(st)
    BY IdleInTable DEF Schedulable, ProcInv, ProcTypeOK, CpuExact, Parked
  <2>3. Seen(st) = [t \in Tasks |-> IF t = running THEN "BLOCKED"
                                    ELSE IF t \in {} THEN "READY" ELSE Seen(state)[t]]
    BY <1>1 DEF Seen, ProcInv, ProcTypeOK
  <2>4. {} \in SUBSET T!Asleep
    OBVIOUS
  <2> HIDE DEF st
  <2> QED
    BY <2>1, <2>2, <2>3, <2>4, SeenBlock
<1> QED
  BY <1>2, <1>3 DEF exit_task

(* Fork, exit and waitpid keep the scheduling contract: exactly one task   *)
(* runs, only runnable tasks get the CPU, and idle_task never sleeps.      *)
THEOREM ProcessImplementsTasks == Spec => ImplementsTasks
<1>1. Init => T!TaskInit
  <2> SUFFICES ASSUME Init PROVE T!TaskInit
    OBVIOUS
  <2>1. 0 \in Tasks /\ 1 \in Tasks
    BY ProcessAssumption DEF Tasks
  <2>2. T!TaskTypeOK
    BY <2>1 DEF Init, T!TaskTypeOK, T!States, T!Suspended
  <2>3. T!OneRunning
    BY <2>1 DEF Init, T!OneRunning
  <2>4. T!IdleRunnable
    BY <2>1 DEF Init, T!IdleRunnable, Idle
  <2> QED
    BY <2>2, <2>3, <2>4 DEF T!TaskInit
<1>2. ProcInv /\ [Next]_vars => [T!TaskNext]_(T!taskVars)
  <2> SUFFICES ASSUME ProcInv, [Next]_vars PROVE T!TaskNext \/ UNCHANGED T!taskVars
    OBVIOUS
  <2>1. CASE UNCHANGED vars
    BY <2>1 DEF vars, T!taskVars
  <2>2. {} \in SUBSET T!Asleep
    OBVIOUS
  <2>3. ASSUME NEW w, running # Idle, waitpid_loop(running, w)
        PROVE  T!TaskNext \/ UNCHANGED T!taskVars
    <3> DEFINE mine == Matching(running, w)
               dead == {i \in mine : state[i] = "DIED"}
    <3>1. ASSUME NEW c \in dead, state' = [state EXCEPT ![c] = "FREE"], running' = running
          PROVE  UNCHANGED T!taskVars
      BY <3>1 DEF T!taskVars, ProcInv, ProcTypeOK, Matching
    <3>2. ASSUME schedule([state EXCEPT ![running] = "WAITING"])
          PROVE  T!TaskNext
      <4> DEFINE st == [state EXCEPT ![running] = "WAITING"]
      <4>1. Schedulable(st)
        BY <2>3, IdleInTable DEF Schedulable, ProcInv, ProcTypeOK, CpuExact, Parked
      <4>2. Seen(st) = [t \in Tasks |-> IF t = running THEN "WAITING"
                                        ELSE IF t \in {} THEN "READY" ELSE Seen(state)[t]]
        BY DEF Seen, ProcInv, ProcTypeOK
      <4> HIDE DEF st
      <4> QED
        BY <2>2, <2>3, <3>2, <4>1, <4>2, SeenBlock DEF st
    <3>3. ASSUME exit_task(running) PROVE T!TaskNext
      BY <2>3, <3>3, SeenExit
    <3> QED
      BY <2>3, <3>1, <3>2, <3>3 DEF waitpid_loop
  <2>4. ASSUME NEW t \in Tasks, task_fork(t) PROVE T!TaskNext \/ UNCHANGED T!taskVars
    <3>1. CASE get_free_task = {}
      BY <2>4, <3>1 DEF task_fork, T!taskVars
    <3>2. CASE get_free_task # {}
      <4>1. PICK c \in get_free_task : state' = [state EXCEPT ![c] = "READY"] /\ running' = running
        BY <2>4, <3>2 DEF task_fork
      <4>2. c \in Tasks /\ state[c] = "FREE"
        BY DEF get_free_task
      <4>3. {c} \in SUBSET T!Asleep
        BY <4>2, SeenAsleep DEF Parked
      <4>4. Seen(state)' = [u \in Tasks |-> IF u \in {c} THEN "READY" ELSE Seen(state)[u]]
        BY <4>1, <4>2 DEF Seen, ProcInv, ProcTypeOK
      <4> QED
        BY <4>1, <4>3, <4>4, SeenWake
    <3> QED
      BY <3>1, <3>2
  <2>5. ASSUME NEW t \in Tasks, task_exit(t) PROVE T!TaskNext
    BY <2>5, SeenExit, ProcessAssumption DEF task_exit, Calls
  <2>6. ASSUME NEW t \in Tasks, exit_resume(t) PROVE T!TaskNext
    <3>1. t = running /\ running # Idle
      BY <2>6 DEF exit_resume, ProcInv, CpuExact
    <3> QED
      BY <2>6, <3>1, SeenExit DEF exit_resume, exit_task
  <2>7. ASSUME NEW t \in Tasks, task_waitpid(t) PROVE T!TaskNext \/ UNCHANGED T!taskVars
    <3>1. t = running /\ running # Idle
      BY <2>7, ProcessAssumption DEF task_waitpid, Calls
    <3>2. PICK w : waitpid_loop(running, w)
      BY <2>7, <3>1 DEF task_waitpid
    <3> QED
      BY <2>3, <3>1, <3>2
  <2>8. ASSUME NEW t \in Tasks, waitpid_retry(t) PROVE T!TaskNext \/ UNCHANGED T!taskVars
    <3>1. t = running /\ running # Idle
      BY <2>8 DEF waitpid_retry, ProcInv, CpuExact
    <3> QED
      BY <2>3, <2>8, <3>1 DEF waitpid_retry
  <2>9. ASSUME NEW t \in Tasks, io_wait(t) PROVE T!TaskNext
    <3> DEFINE st == [state EXCEPT ![running] = "BLOCKED"]
    <3>1. schedule(st) /\ running # Idle
      BY <2>9 DEF io_wait
    <3>2. Schedulable(st)
      BY <3>1, IdleInTable DEF Schedulable, ProcInv, ProcTypeOK, CpuExact, Parked
    <3>3. Seen(st) = [u \in Tasks |-> IF u = running THEN "BLOCKED"
                                      ELSE IF u \in {} THEN "READY" ELSE Seen(state)[u]]
      BY DEF Seen, ProcInv, ProcTypeOK
    <3> HIDE DEF st
    <3> QED
      BY <2>2, <3>1, <3>2, <3>3, SeenBlock
  <2>10. ASSUME NEW t \in Tasks, io_done(t) PROVE T!TaskNext
    <3>1. {t} \in SUBSET T!Asleep
      BY <2>10, SeenAsleep DEF io_done, Parked
    <3>2. Seen(state)' = [u \in Tasks |-> IF u \in {t} THEN "READY" ELSE Seen(state)[u]]
      BY <2>10 DEF io_done, Seen, ProcInv, ProcTypeOK
    <3> QED
      BY <2>10, <3>1, <3>2, SeenWake DEF io_done
  <2>11. ASSUME task_yield PROVE T!TaskNext
    <3>1. schedule(state) /\ Schedulable(state)
      BY <2>11 DEF task_yield, Schedulable, ProcInv, ProcTypeOK, CpuExact
    <3>2. Seen(state) = [u \in Tasks |-> IF u \in {} THEN "READY" ELSE Seen(state)[u]]
      BY DEF Seen
    <3> QED
      BY <2>2, <3>1, <3>2, SeenYield
  <2> QED
    BY <2>1, <2>4, <2>5, <2>6, <2>7, <2>8, <2>9, <2>10, <2>11 DEF Next
<1> QED
  BY <1>1, <1>2, ProcInvariant, PTL DEF Spec, ImplementsTasks, T!TaskSpec
=============================================================================
