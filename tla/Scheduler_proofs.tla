-------------------------- MODULE Scheduler_proofs --------------------------
(***************************************************************************)
(* The scheduler and the sleep list for any number of tasks, priorities    *)
(* and durations: what task_search returns, the order and the contents of  *)
(* sleep_list, time slices, and that the scheduling contract of Tasks.tla  *)
(* is kept.                                                                *)
(***************************************************************************)
EXTENDS Scheduler, SequenceLemmas, TLAPS

\* One turn of the loop of task_search.
Kept(st, tk, ls, best, p) ==
    IF st[p] = "READY" /\ p # running /\ (best = NoTask \/ tk[best] < tk[p] \/ ls[p] < ls[best])
    THEN p ELSE best

(* The loop of task_search defines a function of the number of turns.      *)
LEMMA ScanExists ==
    ASSUME NEW st, NEW tk, NEW ls, NEW N \in Nat
    PROVE  \E f : f = [n \in 0 .. N |-> IF n = 0 THEN NoTask ELSE Kept(st, tk, ls, f[n - 1], n - 1)]
<1> DEFINE Is(f, M) == f = [n \in 0 .. M |-> IF n = 0 THEN NoTask ELSE Kept(st, tk, ls, f[n - 1], n - 1)]
           Bad == {M \in Nat : ~ \E f : Is(f, M)}
<1>1. SUFFICES Bad = {}
  OBVIOUS
<1>2. SUFFICES ASSUME Bad # {} PROVE FALSE
  OBVIOUS
<1>3. PICK m \in Bad : \A k \in Bad : m <= k
  <2>1. Bad \in SUBSET Nat
    OBVIOUS
  <2> QED
    BY <1>2, <2>1, LeastNat
<1>4. m # 0
  <2>1. Is([n \in 0 .. 0 |-> NoTask], 0)
    OBVIOUS
  <2> QED
    BY <2>1
<1>5. m - 1 \in Nat /\ m - 1 \notin Bad
  <2>1. m \in Nat
    OBVIOUS
  <2> HIDE DEF Bad
  <2>2. m - 1 \in Nat /\ ~ (m <= m - 1)
    BY <1>4, <2>1
  <2> QED
    BY <1>3, <2>2
<1>6. PICK f : Is(f, m - 1)
  BY <1>5
<1> DEFINE g == [n \in 0 .. m |-> IF n = m THEN Kept(st, tk, ls, f[m - 1], m - 1) ELSE f[n]]
<1>7. ASSUME NEW n \in 0 .. m PROVE g[n] = IF n = 0 THEN NoTask ELSE Kept(st, tk, ls, g[n - 1], n - 1)
  <2>1. CASE n = 0
    <3>1. 0 \in 0 .. m - 1
      BY <1>5
    <3>2. f[0] = NoTask
      BY <1>6, <3>1
    <3> QED
      BY <1>4, <2>1, <3>2
  <2>2. CASE n # 0 /\ n = m
    BY <1>5, <2>2
  <2>3. CASE n # 0 /\ n # m
    <3>1. n \in 0 .. m - 1 /\ n - 1 \in 0 .. m /\ n - 1 # m
      BY <2>3
    <3>2. f[n] = Kept(st, tk, ls, f[n - 1], n - 1)
      BY <1>6, <2>3, <3>1
    <3>3. g[n] = f[n] /\ g[n - 1] = f[n - 1]
      BY <2>3, <3>1
    <3> QED
      BY <2>3, <3>2, <3>3
  <2> QED
    BY <2>1, <2>2, <2>3
<1>8. Is(g, m)
  BY <1>7
<1> HIDE DEF g
<1> QED
  BY <1>3, <1>8

(* task_search(TASK_READY) returns a READY task other than the caller, and *)
(* idle_task exactly if there is none, whatever the ticks and times are.   *)
LEMMA SearchLemma ==
    ASSUME NEW st, NEW tk, NEW ls
    PROVE  task_search(st, tk, ls) \in T!Candidates(st, running)
<1>1. NTasks \in Nat
  BY SchedulerAssumption
<1> DEFINE found == CHOOSE f : f = [n \in 0 .. NTasks |->
                        IF n = 0 THEN NoTask ELSE Kept(st, tk, ls, f[n - 1], n - 1)]
<1>2. best_ready(st, tk, ls) = found[NTasks]
  BY DEF best_ready, Kept
<1>3. found = [n \in 0 .. NTasks |-> IF n = 0 THEN NoTask ELSE Kept(st, tk, ls, found[n - 1], n - 1)]
  BY <1>1, ScanExists
<1> HIDE DEF found
<1> DEFINE Good(n) == \/ found[n] = NoTask /\ \A p \in 0 .. n - 1 : st[p] # "READY" \/ p = running
                      \/ found[n] \in 0 .. n - 1 /\ st[found[n]] = "READY" /\ found[n] # running
           Bad == {n \in 0 .. NTasks : ~ Good(n)}
<1>4. Bad = {}
  <2> SUFFICES ASSUME Bad # {} PROVE FALSE
    OBVIOUS
  <2>1. PICK m \in Bad : \A k \in Bad : m <= k
    <3>1. Bad \in SUBSET Nat
      OBVIOUS
    <3> QED
      BY <3>1, LeastNat
  <2>2. m \in 0 .. NTasks /\ ~ Good(m)
    OBVIOUS
  <2>3. m # 0
    <3>1. found[0] = NoTask
      BY <1>1, <1>3
    <3> QED
      BY <2>2, <3>1
  <2>4. m - 1 \in 0 .. NTasks /\ Good(m - 1)
    <3>1. m - 1 \in 0 .. NTasks /\ ~ (m <= m - 1)
      BY <1>1, <2>2, <2>3
    <3>2. m - 1 \notin Bad
      BY <2>1, <3>1
    <3> QED
      BY <3>1, <3>2
  <2>5. found[m] = Kept(st, tk, ls, found[m - 1], m - 1)
    BY <1>3, <2>2, <2>3
  <2>6. CASE found[m] = m - 1 /\ st[m - 1] = "READY" /\ m - 1 # running
    BY <2>2, <2>3, <2>6
  <2>7. CASE /\ found[m] = found[m - 1]
             /\ st[m - 1] # "READY" \/ m - 1 = running \/ found[m - 1] # NoTask
    BY <2>2, <2>3, <2>4, <2>7
  <2> QED
    BY <2>5, <2>6, <2>7 DEF Kept
<1>5. Good(NTasks)
  BY <1>1, <1>4
<1>6. \A p \in Tasks : p # NoTask
  BY SchedulerAssumption DEF Tasks, NoTask
<1> QED
  BY <1>2, <1>5, <1>6 DEF task_search, T!Candidates, Tasks

(* schedule() hands the CPU to one runnable task: suspended tasks stay as  *)
(* they are, exactly the task on the CPU is RUNNING afterwards, and this   *)
(* is a schedule() of the contract.                                        *)
LEMMA ScheduleStep ==
    ASSUME NEW st \in [Tasks -> T!States], NEW tk \in [Tasks -> Int], NEW ls,
           running \in Tasks,
           \A t \in Tasks : st[t] = "RUNNING" => t = running,
           st[Idle] \in {"READY", "RUNNING"},
           schedule(st, tk, ls)
    PROVE  /\ state' \in [Tasks -> T!States]
           /\ running' \in Tasks
           /\ T!OneRunning'
           /\ T!IdleRunnable'
           /\ \A t \in Tasks : \A s \in T!Suspended : state'[t] = s <=> st[t] = s
           /\ last' = ls
           /\ ticks' \in [Tasks -> Int]
           /\ \A t \in Tasks : ticks'[t] = IF t = running /\ tk[t] = 0 THEN Priority[t] ELSE tk[t]
           /\ T!schedule(st)
<1> DEFINE n == task_search(st, tk, ls)
<1>1. n \in T!Candidates(st, running)
  BY SearchLemma
<1>2. /\ state' = T!Dispatch(st, running, n)
      /\ ticks' = [tk EXCEPT ![running] = IF @ = 0 THEN Priority[running] ELSE @]
      /\ last' = ls
      /\ running' = n
  BY DEF schedule
<1> HIDE DEF n
<1>3. Idle \in Tasks /\ Priority \in [Tasks -> Nat]
  BY SchedulerAssumption DEF Tasks, Idle
<1>4. n \in Tasks /\ st[n] \in {"READY", "RUNNING"}
  BY <1>1, <1>3 DEF T!Candidates
<1>5. \A t \in Tasks : state'[t] = IF t = n THEN "RUNNING"
                                   ELSE IF t = running /\ st[t] = "RUNNING" THEN "READY" ELSE st[t]
  BY <1>2 DEF T!Dispatch
<1>6. state' \in [Tasks -> T!States]
  BY <1>2, <1>4 DEF T!Dispatch, T!States
<1>7. T!OneRunning'
  BY <1>2, <1>5 DEF T!OneRunning
<1>8. T!IdleRunnable'
  BY <1>3, <1>4, <1>5 DEF T!IdleRunnable
<1>9. \A t \in Tasks : \A s \in T!Suspended : state'[t] = s <=> st[t] = s
  BY <1>4, <1>5 DEF T!Suspended
<1>10. /\ ticks' \in [Tasks -> Int]
       /\ \A t \in Tasks : ticks'[t] = IF t = running /\ tk[t] = 0 THEN Priority[t] ELSE tk[t]
  <2> DEFINE v == IF tk[running] = 0 THEN Priority[running] ELSE tk[running]
  <2>1. v \in Int
    BY <1>3
  <2>2. ticks' = [tk EXCEPT ![running] = v]
    BY <1>2
  <2>3. \A t \in Tasks : ticks'[t] = IF t = running THEN v ELSE tk[t]
    BY <2>2
  <2>4. ticks' \in [Tasks -> Int]
    BY <2>1, <2>2
  <2> QED
    BY <2>3, <2>4
<1>11. T!schedule(st)
  BY <1>1, <1>2 DEF T!schedule
<1> QED
  BY <1>2, <1>4, <1>6, <1>7, <1>8, <1>9, <1>10, <1>11

-----------------------------------------------------------------------------
Sorted(list, key) == \A i, j \in 1 .. Len(list) : i < j => key[list[i]] <= key[list[j]]

(* In a sorted list the search for the first larger key splits the list:   *)
(* everything before it is at most b, everything from it on is larger.     *)
LEMMA FirstLarger ==
    ASSUME NEW list \in Seq(Tasks), NEW key \in [Tasks -> Int], NEW b \in Int, Sorted(list, key)
    PROVE  LET a == FirstOf({i \in 1 .. Len(list) : key[list[i]] > b}, list)
           IN  /\ a \in 1 .. Len(list) + 1
               /\ \A k \in 1 .. Len(list) : k < a => key[list[k]] <= b
               /\ \A k \in 1 .. Len(list) : ~ (k < a) => key[list[k]] > b
<1> DEFINE larger == {i \in 1 .. Len(list) : key[list[i]] > b}
           a == FirstOf(larger, list)
<1>1. Len(list) \in Nat /\ \A k \in 1 .. Len(list) : list[k] \in Tasks /\ key[list[k]] \in Int
  BY LenProperties, ElementOfSeq
<1>2. CASE larger = {}
  BY <1>1, <1>2 DEF FirstOf
<1>3. CASE larger # {}
  <2>1. larger \in SUBSET Nat
    OBVIOUS
  <2>2. a \in larger /\ \A j \in larger : a <= j
    BY <1>3, <2>1, LeastNat DEF FirstOf
  <2> HIDE DEF a
  <2>3. a \in 1 .. Len(list) /\ key[list[a]] > b
    BY <2>2
  <2>4. ASSUME NEW k \in 1 .. Len(list), k < a PROVE key[list[k]] <= b
    <3>1. k \notin larger
      BY <1>1, <2>2, <2>4
    <3> QED
      BY <1>1, <3>1
  <2>5. ASSUME NEW k \in 1 .. Len(list), ~ (k < a) PROVE key[list[k]] > b
    <3>1. k = a \/ a < k
      BY <1>1, <2>3, <2>5
    <3>2. a < k => key[list[a]] <= key[list[k]]
      BY <2>3 DEF Sorted
    <3> QED
      BY <1>1, <2>3, <3>1, <3>2
  <2>6. a \in 1 .. Len(list) + 1
    BY <1>1, <2>3
  <2> QED
    BY <2>4, <2>5, <2>6 DEF a
<1> QED
  BY <1>2, <1>3

(* list_insert_sort keeps a sorted list sorted and adds the new entry.     *)
LEMMA InsertSorted ==
    ASSUME NEW list \in Seq(Tasks), NEW key \in [Tasks -> Int], NEW t \in Tasks,
           Sorted(list, key), IsInjective(list), t \notin ToSet(list)
    PROVE  LET r == list_insert_sort(list, t, key)
           IN  /\ r \in Seq(Tasks)
               /\ IsInjective(r)
               /\ ToSet(r) = ToSet(list) \cup {t}
               /\ Sorted(r, key)
<1> DEFINE a == FirstOf({i \in 1 .. Len(list) : key[list[i]] > key[t]}, list)
           r == InsertAt(list, a, t)
<1>1. /\ Len(list) \in Nat
      /\ DOMAIN list = 1 .. Len(list)
      /\ \A k \in 1 .. Len(list) : list[k] \in Tasks /\ key[list[k]] \in Int
      /\ key[t] \in Int
  BY LenProperties, ElementOfSeq
<1>2. /\ a \in 1 .. Len(list) + 1
      /\ \A k \in 1 .. Len(list) : k < a => key[list[k]] <= key[t]
      /\ \A k \in 1 .. Len(list) : ~ (k < a) => key[list[k]] > key[t]
  BY <1>1, FirstLarger
<1>3. list_insert_sort(list, t, key) = r
  BY DEF list_insert_sort
<1> HIDE DEF a
<1>4. /\ r \in Seq(Tasks)
      /\ Len(r) = Len(list) + 1
      /\ r[a] = t
      /\ \A k \in 1 .. Len(list) : k < a => r[k] = list[k]
      /\ \A k \in 1 .. Len(list) : k >= a => r[k + 1] = list[k]
  BY <1>2, InsertAtProperties
<1> HIDE DEF r
<1>5. ASSUME NEW k \in 1 .. Len(list) + 1
      PROVE  r[k] = IF k < a THEN list[k] ELSE IF k = a THEN t ELSE list[k - 1]
  <2>1. CASE k < a
    <3>1. k \in 1 .. Len(list)
      BY <1>1, <1>2, <2>1
    <3>2. r[k] = list[k]
      BY <1>4, <2>1, <3>1
    <3> QED
      BY <2>1, <3>2
  <2>2. CASE k = a
    BY <1>1, <1>2, <1>4, <2>2
  <2>3. CASE k > a
    <3>1. k - 1 \in 1 .. Len(list) /\ k - 1 >= a /\ (k - 1) + 1 = k
      BY <1>1, <1>2, <2>3
    <3> QED
      BY <1>1, <1>2, <1>4, <2>3, <3>1
  <2>4. k < a \/ k = a \/ k > a
    BY <1>1, <1>2
  <2> QED
    BY <2>1, <2>2, <2>3, <2>4
<1>6. DOMAIN r = 1 .. Len(list) + 1
  BY <1>4, LenProperties
<1>7. \A k \in 1 .. Len(list) : list[k] # t
  BY <1>1 DEF ToSet
<1>8. IsInjective(r)
  <2>1. \A j, k \in 1 .. Len(list) : list[j] = list[k] => j = k
    BY <1>1 DEF IsInjective
  <2>2. ASSUME NEW j \in 1 .. Len(list) + 1, NEW k \in 1 .. Len(list) + 1, r[j] = r[k]
        PROVE  j = k
    <3> DEFINE o(i) == IF i < a THEN i ELSE i - 1
    <3>1. \A i \in 1 .. Len(list) + 1 : i # a => o(i) \in 1 .. Len(list) /\ r[i] = list[o(i)]
      BY <1>1, <1>2, <1>5
    <3> HIDE DEF o
    <3>2. \A i \in 1 .. Len(list) + 1 : i # a => r[i] # t
      BY <1>7, <3>1
    <3>3. j # a /\ k # a => o(j) = o(k)
      BY <2>1, <2>2, <3>1
    <3> QED
      BY <1>1, <1>2, <1>4, <2>2, <3>2, <3>3 DEF o
  <2> QED
    BY <1>6, <2>2 DEF IsInjective
<1>9. ToSet(r) = ToSet(list) \cup {t}
  <2>1. ASSUME NEW k \in 1 .. Len(list) + 1 PROVE r[k] \in ToSet(list) \cup {t}
    <3>1. CASE k = a
      BY <1>4, <3>1
    <3>2. CASE k < a
      <4>1. k \in 1 .. Len(list) /\ r[k] = list[k]
        BY <1>1, <1>2, <1>4, <3>2
      <4> QED
        BY <1>1, <4>1 DEF ToSet
    <3>3. CASE k > a
      <4>1. k - 1 \in 1 .. Len(list) /\ ~ (k < a) /\ k # a
        BY <1>1, <1>2, <3>3
      <4>2. r[k] = list[k - 1]
        BY <1>5, <4>1
      <4> QED
        BY <1>1, <4>1, <4>2 DEF ToSet
    <3> QED
      BY <1>2, <3>1, <3>2, <3>3
  <2>2. t \in ToSet(r)
    BY <1>2, <1>4, <1>6 DEF ToSet
  <2>3. ASSUME NEW k \in 1 .. Len(list) PROVE list[k] \in ToSet(r)
    <3>1. CASE k < a
      <4>1. k \in 1 .. Len(list) + 1 /\ r[k] = list[k]
        BY <1>1, <1>4, <3>1
      <4> QED
        BY <1>6, <4>1 DEF ToSet
    <3>2. CASE ~ (k < a)
      <4>1. k + 1 \in 1 .. Len(list) + 1 /\ r[k + 1] = list[k]
        BY <1>1, <1>2, <1>4, <3>2
      <4> QED
        BY <1>6, <4>1 DEF ToSet
    <3> QED
      BY <3>1, <3>2
  <2> QED
    BY <1>1, <1>6, <2>1, <2>2, <2>3 DEF ToSet
<1>10. Sorted(r, key)
  <2>1. ASSUME NEW i \in 1 .. Len(list) + 1, NEW j \in 1 .. Len(list) + 1, i < j
        PROVE  key[r[i]] <= key[r[j]]
    <3>1. CASE i < a /\ j < a
      BY <1>1, <1>2, <1>5, <2>1, <3>1 DEF Sorted
    <3>2. CASE i < a /\ j = a
      BY <1>1, <1>2, <1>5, <2>1, <3>2
    <3>3. CASE i < a /\ j > a
      <4>1. /\ i \in 1 .. Len(list) /\ r[i] = list[i]
            /\ j - 1 \in 1 .. Len(list) /\ r[j] = list[j - 1] /\ ~ (j - 1 < a)
        BY <1>1, <1>2, <1>5, <2>1, <3>3
      <4>2. key[list[i]] <= key[t] /\ key[list[j - 1]] > key[t]
        BY <1>2, <3>3, <4>1
      <4> QED
        BY <1>1, <4>1, <4>2
    <3>4. CASE i = a
      <4>1. r[i] = t /\ j - 1 \in 1 .. Len(list) /\ r[j] = list[j - 1] /\ ~ (j - 1 < a)
        BY <1>1, <1>2, <1>5, <2>1, <3>4
      <4>2. key[list[j - 1]] > key[t]
        BY <1>2, <4>1
      <4> QED
        BY <1>1, <4>1, <4>2
    <3>5. CASE i > a
      <4>1. /\ i - 1 \in 1 .. Len(list) /\ r[i] = list[i - 1]
            /\ j - 1 \in 1 .. Len(list) /\ r[j] = list[j - 1] /\ i - 1 < j - 1
        BY <1>1, <1>2, <1>5, <2>1, <3>5
      <4> QED
        BY <4>1 DEF Sorted
    <3> QED
      BY <1>1, <1>2, <2>1, <3>1, <3>2, <3>3, <3>4, <3>5
  <2> QED
    BY <1>4, <2>1 DEF Sorted
<1> QED
  BY <1>3, <1>4, <1>8, <1>9, <1>10

(* Taking the first k entries off a list leaves the others in order.       *)
LEMMA DropFirst ==
    ASSUME NEW list \in Seq(Tasks), IsInjective(list), NEW k \in 0 .. Len(list)
    PROVE  LET r == SubSeq(list, k + 1, Len(list))
           IN  /\ r \in Seq(Tasks)
               /\ Len(r) = Len(list) - k
               /\ \A i \in 1 .. Len(list) - k : k + i \in 1 .. Len(list) /\ r[i] = list[k + i]
               /\ IsInjective(r)
               /\ ToSet(r) = ToSet(list) \ {list[i] : i \in 1 .. k}
<1> DEFINE r == SubSeq(list, k + 1, Len(list))
<1>1. Len(list) \in Nat /\ DOMAIN list = 1 .. Len(list) /\ k \in Nat
  BY LenProperties
<1>2. r \in Seq(Tasks) /\ Len(r) = Len(list) - k /\ \A i \in 1 .. Len(list) - k : r[i] = list[k + i]
  <2>1. \A i \in k + 1 .. Len(list) : list[i] \in Tasks
    BY <1>1, ElementOfSeq
  <2>2. k + 1 \in Int /\ Len(list) \in Int
    BY <1>1
  <2>3. /\ r \in Seq(Tasks)
        /\ Len(r) = IF k + 1 <= Len(list) THEN Len(list) - (k + 1) + 1 ELSE 0
        /\ \A i \in 1 .. Len(list) - (k + 1) + 1 : r[i] = list[k + 1 + i - 1]
    BY <2>1, <2>2, SubSeqProperties
  <2> QED
    BY <1>1, <2>3
<1> HIDE DEF r
<1>3. \A i \in 1 .. Len(list) - k : k + i \in 1 .. Len(list)
  BY <1>1
<1>4. DOMAIN r = 1 .. Len(list) - k
  BY <1>2, LenProperties
<1>5. \A i, j \in 1 .. Len(list) : list[i] = list[j] => i = j
  BY <1>1 DEF IsInjective
<1>6. IsInjective(r)
  <2>1. ASSUME NEW i \in 1 .. Len(list) - k, NEW j \in 1 .. Len(list) - k, r[i] = r[j] PROVE i = j
    <3>1. k + i = k + j
      BY <1>2, <1>3, <1>5, <2>1
    <3> QED
      BY <1>1, <3>1
  <2> QED
    BY <1>4, <2>1 DEF IsInjective
<1>7. ToSet(r) = ToSet(list) \ {list[i] : i \in 1 .. k}
  <2>1. ASSUME NEW i \in 1 .. Len(list) - k
        PROVE  r[i] \in ToSet(list) /\ \A j \in 1 .. k : r[i] # list[j]
    <3>1. k + i \in 1 .. Len(list) /\ r[i] = list[k + i]
      BY <1>2, <1>3
    <3>2. \A j \in 1 .. k : j \in 1 .. Len(list) /\ j # k + i
      BY <1>1
    <3> QED
      BY <1>1, <1>5, <3>1, <3>2 DEF ToSet
  <2>2. ASSUME NEW q \in 1 .. Len(list), \A j \in 1 .. k : list[q] # list[j]
        PROVE  list[q] \in ToSet(r)
    <3>1. q > k
      BY <1>1, <2>2
    <3>2. q - k \in 1 .. Len(list) - k /\ k + (q - k) = q
      BY <1>1, <3>1
    <3> QED
      BY <1>2, <1>4, <3>2 DEF ToSet
  <2> QED
    BY <1>1, <1>4, <2>1, <2>2 DEF ToSet
<1> QED
  BY <1>2, <1>3, <1>6, <1>7 DEF r

-----------------------------------------------------------------------------
\* The inductive invariant.  That the caller of schedule() is the only RUNNING
\* task, and the idle task never suspended, is what keeps the running task off
\* sleep_list and its slice apart from the expiry times there.
SchedInv == TypeOK /\ T!OneRunning /\ T!IdleRunnable /\ SleepListExact /\ SliceRespected

(* Nobody joins or leaves sleep_list: it stays exact.                      *)
LEMMA SleepersKept ==
    ASSUME SchedInv, sleepList' = sleepList, jiffies' = jiffies,
           \A t \in Tasks : state'[t] = "SLEEPING" <=> state[t] = "SLEEPING",
           \A t \in Tasks : state[t] = "SLEEPING" => ticks'[t] = ticks[t]
    PROVE  SleepListExact' /\ SleepStep
<1>1. \A i \in 1 .. Len(sleepList) : sleepList[i] \in Tasks /\ state[sleepList[i]] = "SLEEPING"
  BY LenProperties, ElementOfSeq DEF SchedInv, TypeOK, SleepListExact, ToSet
<1>2. \A i \in 1 .. Len(sleepList) : ticks'[sleepList[i]] = ticks[sleepList[i]]
  BY <1>1
<1>3. \A i, j \in 1 .. Len(sleepList') :
          i < j => ticks'[sleepList'[i]] <= ticks'[sleepList'[j]]
  BY <1>2 DEF SchedInv, SleepListExact
<1>4. ToSet(sleepList') = {t \in Tasks : state'[t] = "SLEEPING"}
  BY DEF SchedInv, SleepListExact
<1>5. \A t \in Tasks : state'[t] = "SLEEPING" => ticks'[t] >= jiffies'
  BY DEF SchedInv, SleepListExact
<1>6. IsInjective(sleepList')
  BY DEF SchedInv, SleepListExact
<1> QED
  BY <1>3, <1>4, <1>5, <1>6 DEF SleepListExact, SleepStep

(* A task that enters schedule() with a slice in range or used up keeps or *)
(* gets a slice in range, and the next one starts with nothing charged.    *)
LEMMA SliceAfterSchedule ==
    ASSUME NEW st \in [Tasks -> T!States], NEW tk \in [Tasks -> Int], NEW wk,
           state' \in [Tasks -> T!States],
           \A t \in Tasks : \A s \in T!Suspended : state'[t] = s <=> st[t] = s,
           \A t \in Tasks : ticks'[t] = IF t = running /\ tk[t] = 0 THEN Priority[t] ELSE tk[t],
           Dispatched(tk, wk), running \in Tasks,
           \A t \in Tasks : st[t] \in {"READY", "RUNNING", "BLOCKED"} /\ t \notin wk =>
               tk[t] \in 1 .. Priority[t] \/ (t = running /\ tk[t] = 0)
    PROVE  SliceRespected'
<1>1. Priority \in [Tasks -> Nat \ {0}]
  BY SchedulerAssumption
<1>2. SUFFICES ASSUME NEW t \in Tasks, state'[t] \in {"READY", "RUNNING", "BLOCKED"}, t \notin woken'
               PROVE  ticks'[t] \in 1 .. Priority[t] /\ ran' + ticks'[t] <= Priority[t]
  BY DEF SliceRespected
<1>3. Priority[t] \in Nat \ {0} /\ tk[t] \in Int
  BY <1>1
<1>4. st[t] \in {"READY", "RUNNING", "BLOCKED"}
  BY <1>2 DEF T!Suspended, T!States
<1>5. ran' = 0
  BY DEF Dispatched
<1>6. CASE t = running /\ tk[t] = 0
  <2>1. ticks'[t] = Priority[t]
    BY <1>6
  <2> QED
    BY <1>3, <1>5, <2>1
<1>7. CASE ~ (t = running /\ tk[t] = 0)
  <2>1. t \notin wk
    BY <1>2, <1>7 DEF Dispatched
  <2>2. tk[t] \in 1 .. Priority[t]
    BY <1>4, <1>7, <2>1
  <2>3. ticks'[t] = tk[t]
    BY <1>7
  <2> QED
    BY <1>3, <1>5, <2>2, <2>3
<1> QED
  BY <1>6, <1>7

\* What every step is shown to do.
StepOK == SchedInv' /\ SleepStep /\ T!TaskNext

(* The slices and the table as schedule() finds them in an unsuspended     *)
(* caller.                                                                 *)
LEMMA BeforeSchedule ==
    ASSUME SchedInv
    PROVE  /\ state \in [Tasks -> T!States] /\ running \in Tasks /\ ticks \in [Tasks -> Int]
           /\ state[running] = "RUNNING"
           /\ \A t \in Tasks : state[t] = "RUNNING" => t = running
           /\ Idle \in Tasks /\ state[Idle] \in {"READY", "RUNNING"}
           /\ Priority \in [Tasks -> Nat \ {0}]
           /\ \A t \in Tasks : state[t] \in {"READY", "RUNNING", "BLOCKED"} /\ t \notin woken =>
                  ticks[t] \in 1 .. Priority[t]
           /\ T!Unblock(state, {}) = state
           /\ {} \in SUBSET T!Asleep
<1>1. Idle \in Tasks /\ Priority \in [Tasks -> Nat \ {0}]
  BY SchedulerAssumption DEF Tasks, Idle
<1>2. T!Unblock(state, {}) = state
  BY DEF SchedInv, TypeOK, T!Unblock
<1> QED
  BY <1>1, <1>2 DEF SchedInv, TypeOK, T!OneRunning, T!IdleRunnable, SliceRespected

(* task_yield.                                                             *)
LEMMA YieldStep == ASSUME SchedInv, task_yield PROVE StepOK
<1>1. /\ schedule(state, ticks, last)
      /\ Dispatched(ticks, woken)
      /\ jiffies' = jiffies /\ sleepList' = sleepList
      /\ idleAwake' \in BOOLEAN
  BY DEF task_yield, SchedInv, TypeOK
<1>2. /\ state' \in [Tasks -> T!States]
      /\ running' \in Tasks
      /\ T!OneRunning'
      /\ T!IdleRunnable'
      /\ \A t \in Tasks : \A s \in T!Suspended : state'[t] = s <=> state[t] = s
      /\ last' = last
      /\ ticks' \in [Tasks -> Int]
      /\ \A t \in Tasks : ticks'[t] = IF t = running /\ ticks[t] = 0 THEN Priority[t] ELSE ticks[t]
      /\ T!schedule(state)
  BY <1>1, BeforeSchedule, ScheduleStep
<1>3. SleepListExact' /\ SleepStep
  BY <1>1, <1>2, BeforeSchedule, SleepersKept DEF T!Suspended
<1>4. SliceRespected'
  BY <1>1, <1>2, BeforeSchedule, SliceAfterSchedule
<1>5. TypeOK'
  BY <1>1, <1>2 DEF TypeOK, SchedInv, Dispatched
<1>6. T!TaskNext
  BY <1>2, BeforeSchedule DEF T!TaskNext, T!Yield
<1> QED
  BY <1>2, <1>3, <1>4, <1>5, <1>6 DEF StepOK, SchedInv

(* task_block.                                                             *)
LEMMA BlockStep == ASSUME SchedInv, task_block PROVE StepOK
<1> DEFINE st == T!Suspend(state, running, "BLOCKED")
<1>1. /\ running # Idle
      /\ schedule(st, ticks, last)
      /\ Dispatched(ticks, woken)
      /\ jiffies' = jiffies /\ sleepList' = sleepList /\ idleAwake' = idleAwake
  BY DEF task_block
<1>2. /\ st \in [Tasks -> T!States]
      /\ \A t \in Tasks : st[t] = IF t = running THEN "BLOCKED" ELSE state[t]
  BY BeforeSchedule DEF T!Suspend, T!States, T!Suspended
<1>3. T!schedule(st) => T!Block({}, "BLOCKED")
  BY <1>1, BeforeSchedule DEF T!Block
<1> HIDE DEF st
<1>4. /\ \A t \in Tasks : st[t] = "RUNNING" => t = running
      /\ st[Idle] \in {"READY", "RUNNING"}
  BY <1>1, <1>2, BeforeSchedule
<1>5. /\ state' \in [Tasks -> T!States]
      /\ running' \in Tasks
      /\ T!OneRunning'
      /\ T!IdleRunnable'
      /\ \A t \in Tasks : \A s \in T!Suspended : state'[t] = s <=> st[t] = s
      /\ last' = last
      /\ ticks' \in [Tasks -> Int]
      /\ \A t \in Tasks : ticks'[t] = IF t = running /\ ticks[t] = 0 THEN Priority[t] ELSE ticks[t]
      /\ T!schedule(st)
  BY <1>1, <1>2, <1>4, BeforeSchedule, ScheduleStep
<1>6. \A t \in Tasks : st[t] = "SLEEPING" <=> state[t] = "SLEEPING"
  BY <1>2, BeforeSchedule
<1>7. SleepListExact' /\ SleepStep
  BY <1>1, <1>5, <1>6, BeforeSchedule, SleepersKept DEF T!Suspended
<1>8. SliceRespected'
  <2>1. \A t \in Tasks : st[t] \in {"READY", "RUNNING", "BLOCKED"} /\ t \notin woken =>
               ticks[t] \in 1 .. Priority[t] \/ (t = running /\ ticks[t] = 0)
    BY <1>2, BeforeSchedule
  <2> QED
    BY <1>1, <1>2, <1>5, <2>1, BeforeSchedule, SliceAfterSchedule
<1>9. TypeOK'
  BY <1>1, <1>5 DEF TypeOK, SchedInv, Dispatched
<1>10. T!TaskNext
  BY <1>3, <1>5, BeforeSchedule DEF T!TaskNext, T!Suspended
<1> QED
  BY <1>5, <1>7, <1>8, <1>9, <1>10 DEF StepOK, SchedInv

(* task_unblock.                                                           *)
LEMMA UnblockStep == ASSUME SchedInv, NEW u \in Tasks, task_unblock(u) PROVE StepOK
<1>1. /\ state[u] = "BLOCKED"
      /\ state' = [state EXCEPT ![u] = "READY"]
      /\ idleAwake' \in BOOLEAN
      /\ running' = running /\ ticks' = ticks /\ last' = last /\ jiffies' = jiffies
      /\ sleepList' = sleepList /\ ran' = ran /\ woken' = woken
  BY DEF task_unblock, SchedInv, TypeOK
<1>2. /\ state' \in [Tasks -> T!States]
      /\ \A t \in Tasks : state'[t] = IF t = u THEN "READY" ELSE state[t]
  BY <1>1, BeforeSchedule DEF T!States
<1>3. T!OneRunning' /\ T!IdleRunnable'
  BY <1>1, <1>2, BeforeSchedule DEF T!OneRunning, T!IdleRunnable
<1>4. SleepListExact' /\ SleepStep
  BY <1>1, <1>2, SleepersKept
<1>5. SliceRespected'
  BY <1>1, <1>2 DEF SliceRespected, SchedInv
<1>6. TypeOK'
  BY <1>1, <1>2 DEF TypeOK, SchedInv
<1>7. T!TaskNext
  <2>1. {u} \in SUBSET T!Asleep
    BY <1>1 DEF T!Asleep, T!Suspended
  <2>2. state' = T!Unblock(state, {u})
    BY <1>1, BeforeSchedule DEF T!Unblock
  <2> QED
    BY <1>1, <2>1, <2>2 DEF T!TaskNext, T!Wake
<1> QED
  BY <1>3, <1>4, <1>5, <1>6, <1>7 DEF StepOK, SchedInv

(* idle_thread leaving hlt.                                                *)
LEMMA IdleStep == ASSUME SchedInv, idle_thread PROVE StepOK
<1>1. /\ idleAwake' \in BOOLEAN /\ state' = state
      /\ running' = running /\ ticks' = ticks /\ last' = last /\ jiffies' = jiffies
      /\ sleepList' = sleepList /\ ran' = ran /\ woken' = woken
  BY DEF idle_thread
<1>2. SleepListExact' /\ SleepStep
  BY <1>1, SleepersKept
<1>3. T!TaskNext
  BY <1>1, BeforeSchedule DEF T!TaskNext, T!Wake
<1>4. TypeOK' /\ T!OneRunning' /\ T!IdleRunnable' /\ SliceRespected'
  BY <1>1 DEF SchedInv, TypeOK, T!OneRunning, T!IdleRunnable, SliceRespected
<1> QED
  BY <1>2, <1>3, <1>4 DEF StepOK, SchedInv

(* task_sleep: the caller joins sleep_list at its expiry.                  *)
LEMMA SleepersJoin == ASSUME SchedInv, NEW n \in SleepTicks, task_sleep(n) PROVE StepOK
<1> DEFINE e == jiffies + (IF n > 0 THEN n ELSE 1)
           tk == [ticks EXCEPT ![running] = e]
           st == T!Suspend(state, running, "SLEEPING")
           wk == woken \ {running}
<1>1. /\ running \in Sleepers
      /\ sleepList' = list_insert_sort(sleepList, running, tk)
      /\ schedule(st, tk, last)
      /\ Dispatched(tk, wk)
      /\ jiffies' = jiffies /\ idleAwake' = idleAwake
  BY DEF task_sleep
<1>2. running # Idle /\ n \in Nat
  BY <1>1, SchedulerAssumption
<1>3. jiffies \in Nat /\ e \in Int /\ e > 0 /\ e >= jiffies
  BY <1>2 DEF SchedInv, TypeOK
<1>4. T!schedule(st) => T!Block({}, "SLEEPING")
  BY <1>2, BeforeSchedule DEF T!Block
<1> HIDE DEF e
<1>5. /\ tk \in [Tasks -> Int]
      /\ \A t \in Tasks : tk[t] = IF t = running THEN e ELSE ticks[t]
  BY <1>3, BeforeSchedule
<1>6. /\ st \in [Tasks -> T!States]
      /\ \A t \in Tasks : st[t] = IF t = running THEN "SLEEPING" ELSE state[t]
  BY BeforeSchedule DEF T!Suspend, T!States, T!Suspended
<1> HIDE DEF st, tk
<1>7. /\ \A t \in Tasks : st[t] = "RUNNING" => t = running
      /\ st[Idle] \in {"READY", "RUNNING"}
  BY <1>2, <1>6, BeforeSchedule
<1>8. /\ state' \in [Tasks -> T!States]
      /\ running' \in Tasks
      /\ T!OneRunning'
      /\ T!IdleRunnable'
      /\ \A t \in Tasks : \A s \in T!Suspended : state'[t] = s <=> st[t] = s
      /\ last' = last
      /\ ticks' \in [Tasks -> Int]
      /\ \A t \in Tasks : ticks'[t] = IF t = running /\ tk[t] = 0 THEN Priority[t] ELSE tk[t]
      /\ T!schedule(st)
  BY <1>1, <1>5, <1>6, <1>7, BeforeSchedule, ScheduleStep
<1>9. \A t \in Tasks : ticks'[t] = tk[t]
  BY <1>3, <1>5, <1>8, BeforeSchedule
<1>10. \A t \in Tasks : state'[t] = "SLEEPING" <=> state[t] = "SLEEPING" \/ t = running
  BY <1>6, <1>8 DEF T!Suspended
<1>11. \A i \in 1 .. Len(sleepList) : /\ sleepList[i] \in Tasks
                                      /\ sleepList[i] # running
                                      /\ tk[sleepList[i]] = ticks[sleepList[i]]
  <2>1. \A i \in 1 .. Len(sleepList) : sleepList[i] \in Tasks /\ state[sleepList[i]] = "SLEEPING"
    BY LenProperties, ElementOfSeq DEF SchedInv, TypeOK, SleepListExact, ToSet
  <2> QED
    BY <1>5, <2>1, BeforeSchedule
<1>12. sleepList \in Seq(Tasks) /\ IsInjective(sleepList) /\ running \notin ToSet(sleepList)
  BY BeforeSchedule DEF SchedInv, TypeOK, SleepListExact
<1>13. Sorted(sleepList, tk)
  BY <1>11 DEF Sorted, SchedInv, SleepListExact
<1>14. /\ sleepList' \in Seq(Tasks)
       /\ IsInjective(sleepList')
       /\ ToSet(sleepList') = ToSet(sleepList) \cup {running}
       /\ Sorted(sleepList', tk)
  BY <1>1, <1>5, <1>12, <1>13, BeforeSchedule, InsertSorted
<1>15. SleepListExact'
  <2>1. ToSet(sleepList') = {t \in Tasks : state'[t] = "SLEEPING"}
    BY <1>10, <1>14, BeforeSchedule DEF SchedInv, SleepListExact
  <2>2. \A i, j \in 1 .. Len(sleepList') :
            i < j => ticks'[sleepList'[i]] <= ticks'[sleepList'[j]]
    <3>1. \A i \in 1 .. Len(sleepList') : ticks'[sleepList'[i]] = tk[sleepList'[i]]
      BY <1>9, <1>14, ElementOfSeq
    <3> QED
      BY <1>14, <3>1 DEF Sorted
  <2>3. \A t \in Tasks : state'[t] = "SLEEPING" => ticks'[t] >= jiffies'
    BY <1>1, <1>3, <1>5, <1>9, <1>10 DEF SchedInv, SleepListExact
  <2> QED
    BY <1>14, <2>1, <2>2, <2>3 DEF SleepListExact
<1>16. SleepStep
  BY <1>10 DEF SleepStep
<1>17. SliceRespected'
  <2>1. \A t \in Tasks : st[t] \in {"READY", "RUNNING", "BLOCKED"} /\ t \notin wk =>
               tk[t] \in 1 .. Priority[t] \/ (t = running /\ tk[t] = 0)
    BY <1>5, <1>6, BeforeSchedule
  <2> QED
    BY <1>1, <1>5, <1>6, <1>8, <2>1, BeforeSchedule, SliceAfterSchedule
<1>18. TypeOK'
  BY <1>1, <1>8, <1>14 DEF TypeOK, SchedInv, Dispatched
<1>19. T!TaskNext
  BY <1>4, <1>8, BeforeSchedule DEF T!TaskNext, T!Suspended
<1> QED
  BY <1>8, <1>15, <1>16, <1>17, <1>18, <1>19 DEF StepOK, SchedInv

(* clock_handler: task_wakeup takes exactly the sleepers that are due, and *)
(* they are at the head of the list because the list is sorted.            *)
LEMMA ClockStep == ASSUME SchedInv, clock_handler PROVE StepOK
<1> DEFINE k == Expired(sleepList, ticks)
           up == {sleepList[i] : i \in 1 .. k}
           st == T!Unblock(state, up)
           tk == [t \in Tasks |-> (IF t \in up THEN 0 ELSE ticks[t])
                                  - (IF t = running THEN 1 ELSE 0)]
           ls == [last EXCEPT ![running] = jiffies + 1]
<1>1. /\ sleepList' = SubSeq(sleepList, k + 1, Len(sleepList))
      /\ IF tk[running] = 0
         THEN schedule(st, tk, ls) /\ Dispatched(tk, woken \cup up)
         ELSE /\ state' = st /\ ticks' = tk /\ last' = ls
              /\ woken' = woken \cup up /\ ran' = ran + 1
              /\ running' = running
      /\ jiffies' = jiffies + 1
      /\ idleAwake' \in BOOLEAN
  BY DEF clock_handler, SchedInv, TypeOK
<1>2. /\ jiffies \in Nat /\ sleepList \in Seq(Tasks) /\ Len(sleepList) \in Nat
      /\ DOMAIN sleepList = 1 .. Len(sleepList)
      /\ IsInjective(sleepList)
      /\ \A t \in Tasks : t \in ToSet(sleepList) <=> state[t] = "SLEEPING"
      /\ \A i \in 1 .. Len(sleepList) : sleepList[i] \in Tasks /\ sleepList[i] \in ToSet(sleepList)
      /\ Sorted(sleepList, ticks)
  BY LenProperties, ElementOfSeq DEF SchedInv, TypeOK, SleepListExact, ToSet, Sorted
<1>3. /\ k \in 0 .. Len(sleepList)
      /\ \A i \in 1 .. Len(sleepList) : i <= k => ticks[sleepList[i]] <= jiffies
      /\ \A i \in 1 .. Len(sleepList) : ~ (i <= k) => ticks[sleepList[i]] > jiffies
  <2> DEFINE a == FirstOf({i \in 1 .. Len(sleepList) : ticks[sleepList[i]] > jiffies}, sleepList)
  <2>1. /\ a \in 1 .. Len(sleepList) + 1
        /\ \A i \in 1 .. Len(sleepList) : i < a => ticks[sleepList[i]] <= jiffies
        /\ \A i \in 1 .. Len(sleepList) : ~ (i < a) => ticks[sleepList[i]] > jiffies
    <3>1. ticks \in [Tasks -> Int] /\ jiffies \in Int
      BY <1>2, BeforeSchedule
    <3> QED
      BY <1>2, <3>1, FirstLarger
  <2>2. k = a - 1
    BY DEF Expired
  <2> HIDE DEF a, k
  <2> QED
    BY <1>2, <2>1, <2>2
<1>4. /\ sleepList' \in Seq(Tasks)
      /\ Len(sleepList') = Len(sleepList) - k
      /\ \A i \in 1 .. Len(sleepList) - k : /\ k + i \in 1 .. Len(sleepList)
                                            /\ sleepList'[i] = sleepList[k + i]
      /\ IsInjective(sleepList')
      /\ ToSet(sleepList') = ToSet(sleepList) \ up
  BY <1>1, <1>2, <1>3, DropFirst
<1> HIDE DEF k
<1>5. \A i \in 1 .. k : i \in 1 .. Len(sleepList) /\ i <= k
  BY <1>2, <1>3
<1>6. /\ up \subseteq Tasks
      /\ \A t \in up : state[t] = "SLEEPING" /\ ticks[t] <= jiffies
  BY <1>2, <1>3, <1>5
<1>7. \A i \in 1 .. Len(sleepList) - k : /\ sleepList'[i] \in Tasks
                                         /\ state[sleepList'[i]] = "SLEEPING"
                                         /\ sleepList'[i] \notin up
                                         /\ ticks[sleepList'[i]] > jiffies
  <2> TAKE i \in 1 .. Len(sleepList) - k
  <2>1. k + i \in 1 .. Len(sleepList) /\ sleepList'[i] = sleepList[k + i] /\ ~ (k + i <= k)
    BY <1>2, <1>3, <1>4
  <2>2. ticks[sleepList[k + i]] > jiffies /\ sleepList[k + i] \in Tasks
    BY <1>2, <1>3, <2>1
  <2>3. sleepList[k + i] \notin up
    <3>1. ticks[sleepList[k + i]] \in Int /\ jiffies \in Int
      BY <1>2, <2>2, BeforeSchedule
    <3>2. ~ (ticks[sleepList[k + i]] <= jiffies)
      BY <2>2, <3>1
    <3> HIDE DEF up
    <3> QED
      BY <1>6, <3>2
  <2> QED
    BY <1>2, <2>1, <2>2, <2>3
<1> HIDE DEF up
<1>8. running \notin up
  BY <1>6, BeforeSchedule
<1>9. /\ tk \in [Tasks -> Int]
      /\ \A t \in Tasks : tk[t] = IF t = running THEN ticks[t] - 1
                                  ELSE IF t \in up THEN 0 ELSE ticks[t]
  BY <1>8, BeforeSchedule
<1>10. /\ st \in [Tasks -> T!States]
       /\ \A t \in Tasks : st[t] = IF t \in up THEN "READY" ELSE state[t]
  BY BeforeSchedule DEF T!Unblock, T!States
<1>11. ls \in [Tasks -> Nat]
  BY <1>2, BeforeSchedule DEF SchedInv, TypeOK
<1>12. T!schedule(st) => T!Yield(up)
  BY DEF T!Yield
<1>13. up \in SUBSET T!Asleep
  BY <1>6 DEF T!Asleep, T!Suspended
<1>14. state' = st /\ running' = running => T!Wake(up)
  BY DEF T!Wake
<1> HIDE DEF st, tk, ls
<1>15. /\ \A t \in Tasks : st[t] = "RUNNING" => t = running
       /\ st[Idle] \in {"READY", "RUNNING"}
       /\ st[running] = "RUNNING"
  BY <1>6, <1>8, <1>10, BeforeSchedule
<1>16. tk[running] = 0 =>
          /\ state' \in [Tasks -> T!States]
          /\ running' \in Tasks
          /\ T!OneRunning'
          /\ T!IdleRunnable'
          /\ \A t \in Tasks : \A s \in T!Suspended : state'[t] = s <=> st[t] = s
          /\ last' = ls
          /\ ticks' \in [Tasks -> Int]
          /\ \A t \in Tasks : ticks'[t] = IF t = running /\ tk[t] = 0 THEN Priority[t] ELSE tk[t]
          /\ T!schedule(st)
  BY <1>1, <1>9, <1>10, <1>15, BeforeSchedule, ScheduleStep
<1>17. tk[running] # 0 => T!OneRunning' /\ T!IdleRunnable'
  BY <1>1, <1>15 DEF T!OneRunning, T!IdleRunnable
<1>18. \A t \in Tasks : /\ state'[t] = "SLEEPING" <=> state[t] = "SLEEPING" /\ t \notin up
                        /\ state[t] = "SLEEPING" /\ t \notin up => ticks'[t] = ticks[t]
  BY <1>1, <1>9, <1>10, <1>16, BeforeSchedule DEF T!Suspended
<1>19. SleepListExact'
  <2>1. ToSet(sleepList') = {t \in Tasks : state'[t] = "SLEEPING"}
    <3>1. ToSet(sleepList) = {t \in Tasks : state[t] = "SLEEPING"}
      BY DEF SchedInv, SleepListExact
    <3> QED
      BY <1>4, <1>18, <3>1
  <2>2. \A i \in 1 .. Len(sleepList) - k :
            /\ ticks'[sleepList'[i]] = ticks[sleepList[k + i]]
            /\ k + i \in 1 .. Len(sleepList)
    BY <1>4, <1>7, <1>18
  <2>3. ASSUME NEW i \in 1 .. Len(sleepList) - k, NEW j \in 1 .. Len(sleepList) - k, i < j
        PROVE  ticks'[sleepList'[i]] <= ticks'[sleepList'[j]]
    <3>1. k + i < k + j
      BY <1>2, <1>3, <2>3
    <3>2. ticks[sleepList[k + i]] <= ticks[sleepList[k + j]]
      BY <1>2, <2>2, <3>1 DEF Sorted
    <3> QED
      BY <2>2, <3>2
  <2>4. ASSUME NEW t \in Tasks, state'[t] = "SLEEPING" PROVE ticks'[t] >= jiffies'
    <3>1. PICK i \in 1 .. Len(sleepList) - k : sleepList'[i] = t
      <4>1. DOMAIN sleepList' = 1 .. Len(sleepList) - k
        BY <1>4, LenProperties
      <4> QED
        BY <2>1, <2>4, <4>1 DEF ToSet
    <3>2. ticks[t] > jiffies /\ ticks'[t] = ticks[t] /\ ticks[t] \in Int
      BY <1>7, <1>18, <2>4, <3>1, BeforeSchedule
    <3> QED
      BY <1>1, <1>2, <3>2
  <2> QED
    BY <1>4, <2>1, <2>3, <2>4 DEF SleepListExact
<1>20. SleepStep
  BY <1>1, <1>2, <1>6, <1>18, BeforeSchedule DEF SleepStep
<1>21. SliceRespected'
  <2>1. CASE tk[running] = 0
    <3>1. ASSUME NEW t \in Tasks, st[t] \in {"READY", "RUNNING", "BLOCKED"}, t \notin woken \cup up
          PROVE  tk[t] \in 1 .. Priority[t] \/ (t = running /\ tk[t] = 0)
      BY <1>9, <1>10, <2>1, <3>1, BeforeSchedule
    <3>2. /\ state' \in [Tasks -> T!States]
          /\ \A t \in Tasks : \A s \in T!Suspended : state'[t] = s <=> st[t] = s
          /\ \A t \in Tasks : ticks'[t] = IF t = running /\ tk[t] = 0 THEN Priority[t] ELSE tk[t]
      BY <1>16, <2>1
    <3>3. Dispatched(tk, woken \cup up) /\ running \in Tasks
      BY <1>1, <2>1, BeforeSchedule
    <3>4. st \in [Tasks -> T!States] /\ tk \in [Tasks -> Int]
      BY <1>9, <1>10
    <3> QED
      BY <3>1, <3>2, <3>3, <3>4, SliceAfterSchedule
  <2>2. CASE tk[running] # 0
    <3>1. SUFFICES ASSUME NEW t \in Tasks, state'[t] \in {"READY", "RUNNING", "BLOCKED"}, t \notin woken'
                   PROVE  /\ ticks'[t] \in 1 .. Priority[t]
                          /\ t = running' => ran' + ticks'[t] <= Priority[t]
      BY DEF SliceRespected
    <3>2. t \notin up /\ t \notin woken /\ state[t] \in {"READY", "RUNNING", "BLOCKED"}
      BY <1>1, <1>10, <2>2, <3>1
    <3>3. /\ ticks[t] \in 1 .. Priority[t]
          /\ t = running => ran + ticks[t] <= Priority[t]
      BY <3>2 DEF SchedInv, SliceRespected
    <3>4. Priority[t] \in Nat /\ ran \in Nat
      BY BeforeSchedule DEF SchedInv, TypeOK
    <3>5. CASE t = running
      <4>1. ticks'[t] = ticks[t] - 1 /\ ticks'[t] # 0 /\ ran' = ran + 1
        BY <1>1, <1>9, <2>2, <3>5, BeforeSchedule
      <4> QED
        BY <3>3, <3>4, <3>5, <4>1
    <3>6. CASE t # running
      <4>1. ticks'[t] = ticks[t] /\ running' = running
        BY <1>1, <1>9, <2>2, <3>2, <3>6
      <4> QED
        BY <3>3, <3>6, <4>1
    <3> QED
      BY <3>5, <3>6
  <2> QED
    BY <2>1, <2>2
<1>22. TypeOK'
  <2>1. ran \in Nat /\ woken \subseteq Tasks /\ running \in Tasks
    BY DEF TypeOK, SchedInv
  <2>2. jiffies' \in Nat /\ sleepList' \in Seq(Tasks) /\ idleAwake' \in BOOLEAN
    BY <1>1, <1>2, <1>4
  <2>3. CASE tk[running] = 0
    <3>1. ran' \in Nat /\ woken' \subseteq Tasks
      BY <1>1, <1>6, <2>1, <2>3 DEF Dispatched
    <3>2. /\ state' \in [Tasks -> T!States] /\ running' \in Tasks /\ ticks' \in [Tasks -> Int]
          /\ last' \in [Tasks -> Nat]
      BY <1>11, <1>16, <2>3
    <3> QED
      BY <2>2, <3>1, <3>2 DEF TypeOK
  <2>4. CASE tk[running] # 0
    <3>1. ran' \in Nat /\ woken' \subseteq Tasks
      BY <1>1, <1>6, <2>1, <2>4
    <3>2. /\ state' \in [Tasks -> T!States] /\ running' \in Tasks /\ ticks' \in [Tasks -> Int]
          /\ last' \in [Tasks -> Nat]
      BY <1>1, <1>9, <1>10, <1>11, <2>1, <2>4
    <3> QED
      BY <2>2, <3>1, <3>2 DEF TypeOK
  <2> QED
    BY <2>3, <2>4
<1>23. T!TaskNext
  BY <1>1, <1>12, <1>13, <1>14, <1>16 DEF T!TaskNext
<1> QED
  BY <1>16, <1>17, <1>19, <1>20, <1>21, <1>22, <1>23 DEF StepOK, SchedInv

-----------------------------------------------------------------------------
(* The scheduler starts in order.                                          *)
LEMMA SchedInit == Init => SchedInv /\ T!TaskInit
<1> SUFFICES ASSUME Init PROVE SchedInv /\ T!TaskInit
  OBVIOUS
<1>1. 1 \in Tasks /\ Idle \in Tasks /\ Priority \in [Tasks -> Nat \ {0}]
  BY SchedulerAssumption DEF Tasks, Idle
<1>2. TypeOK
  <2>1. state \in [Tasks -> T!States] /\ running \in Tasks
    BY <1>1 DEF Init, T!States
  <2>2. ticks \in [Tasks -> Int] /\ last \in [Tasks -> Nat] /\ jiffies \in Nat /\ ran \in Nat
    BY <1>1 DEF Init
  <2>3. sleepList \in Seq(Tasks) /\ woken \subseteq Tasks
    BY DEF Init
  <2>4. idleAwake \in BOOLEAN
    BY Zenon DEF Init
  <2> QED
    BY <2>1, <2>2, <2>3, <2>4 DEF TypeOK
<1>3. T!OneRunning /\ T!IdleRunnable
  BY <1>1 DEF Init, T!OneRunning, T!IdleRunnable
<1>4. SleepListExact
  <2>1. sleepList = <<>> /\ Len(sleepList) = 0 /\ DOMAIN sleepList = {}
    BY DEF Init
  <2>2. \A t \in Tasks : state[t] # "SLEEPING"
    BY DEF Init
  <2> QED
    BY <2>1, <2>2 DEF SleepListExact, IsInjective, ToSet
<1>5. SliceRespected
  BY <1>1 DEF Init, SliceRespected
<1> QED
  BY <1>2, <1>3, <1>4, <1>5 DEF SchedInv, T!TaskInit, T!TaskTypeOK, TypeOK

(* Every action keeps the invariant, wakes no sleeper early and is a step  *)
(* of the contract.                                                        *)
LEMMA SchedNext == ASSUME SchedInv, Next PROVE StepOK
  BY YieldStep, SleepersJoin, BlockStep, UnblockStep, IdleStep, ClockStep DEF Next

(* A step that changes nothing.                                            *)
LEMMA SchedStutter ==
    ASSUME SchedInv, UNCHANGED vars PROVE SchedInv' /\ UNCHANGED T!taskVars
  BY DEF SchedInv, TypeOK, T!OneRunning, T!IdleRunnable, SleepListExact, SliceRespected, vars,
         T!taskVars

(* sleep_list holds exactly the sleeping tasks in order of expiry, none is *)
(* overlooked, and no task holds the CPU beyond its priority in ticks,     *)
(* whatever the tasks, their priorities and the durations they sleep.      *)
THEOREM SchedulerSafe == Spec => [](TypeOK /\ SleepListExact /\ SliceRespected)
<1>1. SchedInv /\ [Next]_vars => SchedInv'
  BY SchedNext, SchedStutter DEF StepOK
<1>2. SchedInv => TypeOK /\ SleepListExact /\ SliceRespected
  BY DEF SchedInv
<1> QED
  BY SchedInit, <1>1, <1>2, PTL DEF Spec

(* sleep() never returns early.                                            *)
THEOREM SleepTheorem == Spec => SleepsLongEnough
<1>1. SchedInv /\ [Next]_vars => SchedInv'
  BY SchedNext, SchedStutter DEF StepOK
<1>2. SchedInv /\ [Next]_vars => [SleepStep]_vars
  BY SchedNext DEF StepOK
<1> QED
  BY SchedInit, <1>1, <1>2, PTL DEF Spec, SleepsLongEnough

(* task_search, schedule and the clock implement the contract from which   *)
(* the other components are modelled.                                      *)
THEOREM SchedulerImplementsTasks == Spec => ImplementsTasks
<1>1. SchedInv /\ [Next]_vars => SchedInv'
  BY SchedNext, SchedStutter DEF StepOK
<1>2. SchedInv /\ [Next]_vars => [T!TaskNext]_T!taskVars
  BY SchedNext, SchedStutter DEF StepOK
<1> QED
  BY SchedInit, <1>1, <1>2, PTL DEF Spec, ImplementsTasks, T!TaskSpec
=============================================================================
