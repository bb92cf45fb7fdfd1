------------------------- MODULE BlockLayer_proofs -------------------------
(***************************************************************************)
(* First the request queue, for any number of tasks, sectors and requests: *)
(* it is sorted, loses nobody, has exactly one request in service, and     *)
(* sweeps.                                                                 *)
(*                                                                         *)
(* Then the buffer cache above it, for any number of tasks, blocks,        *)
(* buffers and writes: references are counted, a block has one buffer, no  *)
(* dirty buffer is reused, and whoever uses a block sees its last version. *)
(***************************************************************************)
EXTENDS BlockRequest, BufferCache, SequenceLemmas, FiniteSetTheorems, TLAPS

RequestTypeOK == /\ list \in Seq(Requesters)
                 /\ idx \in [Requesters -> Nat]
                 /\ direct \in {"UP", "DOWN"}
                 /\ stage \in [Requesters -> {"none", "queued", "active"}]

\* The inductive invariant: each of the two safety properties needs the other.
RequestInv == RequestTypeOK /\ OneActive /\ ListExact

(* A request in the list has a definite place there.                       *)
LEMMA PosLemma ==
    ASSUME list \in Seq(Requesters), NEW t \in ToSet(list)
    PROVE  Pos(t) \in 1 .. Len(list) /\ list[Pos(t)] = t
<1>1. \E k \in 1 .. Len(list) : list[k] = t
  BY LenProperties DEF ToSet
<1> QED
  BY <1>1 DEF Pos

(* A new request goes behind those with the same or a smaller sector and   *)
(* in front of all others.                                                 *)
LEMMA InsertSortLemma ==
    ASSUME RequestInv, NEW t \in Requesters, NEW i \in Nat
    PROVE  \E a \in 1 .. Len(list) + 1 :
              /\ list_insert_sort(t, i) = InsertAt(list, a, t)
              /\ \A k \in 1 .. Len(list) : IF k < a THEN idx[list[k]] <= i
                                            ELSE idx[list[k]] > i
<1> DEFINE larger == {k \in 1 .. Len(list) : idx[list[k]] > i}
           a == IF larger = {} THEN Len(list) + 1
                ELSE CHOOSE k \in larger : \A j \in larger : k <= j
<1>1. /\ Len(list) \in Nat
      /\ \A k \in 1 .. Len(list) : list[k] \in Requesters /\ idx[list[k]] \in Nat
  BY LenProperties, ElementOfSeq DEF RequestInv, RequestTypeOK
<1>2. list_insert_sort(t, i) = InsertAt(list, a, t)
  BY DEF list_insert_sort
<1>3. CASE larger = {}
  BY <1>1, <1>2, <1>3
<1>4. CASE larger # {}
  <2>1. larger \in SUBSET Nat
    OBVIOUS
  <2>2. a \in larger /\ \A j \in larger : a <= j
    BY <1>4, <2>1, LeastNat
  <2> HIDE DEF a
  <2>3. a \in 1 .. Len(list) + 1
    BY <1>1, <2>2
  <2>4. ASSUME NEW k \in 1 .. Len(list), k < a PROVE idx[list[k]] <= i
    <3>1. k \notin larger
      BY <1>1, <2>2, <2>4
    <3> QED
      BY <1>1, <3>1
  <2>5. ASSUME NEW k \in 1 .. Len(list), ~ (k < a) PROVE idx[list[k]] > i
    <3>1. a \in 1 .. Len(list) /\ idx[list[a]] > i
      BY <2>2
    <3>2. k = a \/ a < k
      BY <1>1, <2>3, <2>5
    <3>3. a < k => idx[list[a]] <= idx[list[k]]
      BY <3>1 DEF RequestInv, ListExact
    <3> QED
      BY <1>1, <3>1, <3>2, <3>3
  <2> QED
    BY <1>2, <2>3, <2>4, <2>5
<1> QED
  BY <1>3, <1>4

(* Joining the list keeps the invariant: the new request is served at once *)
(* only if there was none.                                                 *)
LEMMA JoinLemma ==
    ASSUME RequestInv, NEW t \in Requesters, NEW i \in Sectors, device_request(t, i)
    PROVE  RequestInv'
<1>1. /\ Len(list) \in Nat
      /\ DOMAIN list = 1 .. Len(list)
      /\ \A k \in 1 .. Len(list) : list[k] \in Requesters /\ idx[list[k]] \in Nat
  BY LenProperties, ElementOfSeq DEF RequestInv, RequestTypeOK
<1>2. i \in Nat
  BY RequestAssumption
<1>3. PICK a \in 1 .. Len(list) + 1 :
          /\ list_insert_sort(t, i) = InsertAt(list, a, t)
          /\ \A k \in 1 .. Len(list) : IF k < a THEN idx[list[k]] <= i ELSE idx[list[k]] > i
  BY <1>2, InsertSortLemma
<1>4. /\ list' \in Seq(Requesters)
      /\ Len(list') = Len(list) + 1
      /\ \A k \in 1 .. Len(list) + 1 :
            list'[k] = IF k < a THEN list[k] ELSE IF k = a THEN t ELSE list[k - 1]
  <2>1. list \in Seq(Requesters) /\ list' = InsertAt(list, a, t)
    BY <1>3 DEF device_request, RequestInv, RequestTypeOK
  <2>2. InsertAt(list, a, t) \in Seq(Requesters)
    BY <2>1, InsertAtProperties
  <2>3. Len(InsertAt(list, a, t)) = Len(list) + 1
    BY <2>1, InsertAtProperties
  <2>4. InsertAt(list, a, t)[a] = t
    BY <2>1, InsertAtProperties
  <2>5. \A k \in 1 .. Len(list) : k < a => InsertAt(list, a, t)[k] = list[k]
    BY <2>1, InsertAtProperties
  <2>6. \A k \in 1 .. Len(list) : k >= a => InsertAt(list, a, t)[k + 1] = list[k]
    BY <2>1, InsertAtProperties
  <2>7. ASSUME NEW k \in 1 .. Len(list) + 1
        PROVE  list'[k] = IF k < a THEN list[k] ELSE IF k = a THEN t ELSE list[k - 1]
    <3>1. CASE k < a
      BY <1>1, <2>1, <2>5, <3>1
    <3>2. CASE k = a
      BY <1>1, <2>1, <2>4, <3>2
    <3>3. CASE k > a
      <4>1. k - 1 \in 1 .. Len(list) /\ k - 1 >= a /\ (k - 1) + 1 = k
        BY <1>1, <3>3
      <4> QED
        BY <1>1, <2>1, <2>6, <3>3, <4>1
    <3> QED
      BY <1>1, <3>1, <3>2, <3>3
  <2> QED
    BY <2>1, <2>2, <2>3, <2>7
<1>5. DOMAIN list' = 1 .. Len(list) + 1
  BY <1>4, LenProperties
<1>6. stage[t] = "none" /\ \A k \in 1 .. Len(list) : list[k] # t /\ stage[list[k]] # "none"
  BY <1>1 DEF device_request, RequestInv, ListExact, ToSet
<1>7. /\ idx'[t] = i
      /\ \A k \in 1 .. Len(list) : idx'[list[k]] = idx[list[k]]
  BY <1>1, <1>6 DEF device_request, RequestInv, RequestTypeOK
<1>8. RequestTypeOK'
  BY <1>2, <1>4 DEF RequestInv, RequestTypeOK, device_request
<1>9. IsInjective(list')
  <2>1. \A j, k \in 1 .. Len(list) : list[j] = list[k] => j = k
    BY <1>1 DEF RequestInv, ListExact, IsInjective
  <2>2. ASSUME NEW j \in 1 .. Len(list) + 1, NEW k \in 1 .. Len(list) + 1, list'[j] = list'[k]
        PROVE  j = k
    BY <1>1, <1>4, <1>6, <2>1, <2>2
  <2> QED
    BY <1>5, <2>2 DEF IsInjective
<1>10. ToSet(list') = ToSet(list) \cup {t}
  <2>1. ASSUME NEW k \in 1 .. Len(list) + 1 PROVE list'[k] \in ToSet(list) \cup {t}
    BY <1>1, <1>4 DEF ToSet
  <2>2. t \in ToSet(list')
    BY <1>1, <1>4, <1>5 DEF ToSet
  <2>3. ASSUME NEW k \in 1 .. Len(list) PROVE list[k] \in ToSet(list')
    <3>1. CASE k < a
      BY <1>1, <1>4, <1>5, <3>1 DEF ToSet
    <3>2. CASE ~ (k < a)
      <4>1. k + 1 \in 1 .. Len(list) + 1 /\ list'[k + 1] = list[k]
        BY <1>1, <1>4, <3>2
      <4> QED
        BY <1>5, <4>1 DEF ToSet
    <3> QED
      BY <3>1, <3>2
  <2> QED
    BY <1>1, <1>5, <2>1, <2>2, <2>3 DEF ToSet
<1>11. ToSet(list') = {u \in Requesters : stage'[u] # "none"}
  BY <1>10 DEF device_request, RequestInv, RequestTypeOK, ListExact
<1>12. ASSUME NEW j \in 1 .. Len(list'), NEW k \in 1 .. Len(list'), j < k
       PROVE  idx'[list'[j]] <= idx'[list'[k]]
  <2>1. \A m, n \in 1 .. Len(list) : m < n => idx[list[m]] <= idx[list[n]]
    BY DEF RequestInv, ListExact
  <2>2. /\ j \in 1 .. Len(list) + 1 /\ k \in 1 .. Len(list) + 1
        /\ j # a => (IF j < a THEN j ELSE j - 1) \in 1 .. Len(list)
        /\ k # a => (IF k < a THEN k ELSE k - 1) \in 1 .. Len(list)
    BY <1>1, <1>4
  <2>3. CASE j = a
    <3>1. k - 1 \in 1 .. Len(list) /\ ~ (k - 1 < a) /\ list'[j] = t /\ list'[k] = list[k - 1]
      BY <1>1, <1>4, <1>12, <2>2, <2>3
    <3> QED
      BY <1>1, <1>2, <1>3, <1>7, <3>1
  <2>4. CASE k = a
    <3>1. j \in 1 .. Len(list) /\ j < a /\ list'[k] = t /\ list'[j] = list[j]
      BY <1>1, <1>4, <1>12, <2>2, <2>4
    <3> QED
      BY <1>1, <1>2, <1>3, <1>7, <3>1
  <2>5. CASE j # a /\ k # a
    <3> DEFINE m == IF j < a THEN j ELSE j - 1
               n == IF k < a THEN k ELSE k - 1
    <3>1. m \in 1 .. Len(list) /\ n \in 1 .. Len(list) /\ m < n
      BY <1>1, <1>12, <2>2, <2>5
    <3>2. list'[j] = list[m] /\ list'[k] = list[n]
      BY <1>1, <1>4, <2>2, <2>5
    <3> HIDE DEF m, n
    <3> QED
      BY <1>7, <2>1, <3>1, <3>2
  <2> QED
    BY <2>3, <2>4, <2>5
<1>13. OneActive'
  <2>1. list = <<>> => ToSet(list) = {}
    BY <1>1 DEF ToSet
  <2>2. CASE list = <<>>
    <3>1. \A u \in Requesters : stage[u] = "none"
      BY <2>1, <2>2 DEF RequestInv, ListExact
    <3> QED
      BY <2>2, <3>1 DEF device_request, OneActive, RequestInv, RequestTypeOK
  <2>3. CASE list # <<>>
    BY <1>6, <2>3 DEF device_request, OneActive, RequestInv, RequestTypeOK
  <2> QED
    BY <2>2, <2>3
<1> QED
  BY <1>8, <1>9, <1>11, <1>12, <1>13 DEF RequestInv, ListExact

\* The facts about the position of the request in service that both the
\* invariant and the order of service rest on.
ActiveAt(t, p) ==
    /\ p \in 1 .. Len(list) /\ p = Pos(t)
    /\ list[p] = t
    /\ \A k \in 1 .. Len(list) : k # p => stage[list[k]] = "queued"

(* The request in service is in the list and all others wait.              *)
LEMMA ActiveLemma ==
    ASSUME RequestInv, NEW t \in Requesters, stage[t] = "active"
    PROVE  ActiveAt(t, Pos(t))
<1>1. t \in ToSet(list)
  BY DEF RequestInv, ListExact
<1>2. Pos(t) \in 1 .. Len(list) /\ list[Pos(t)] = t
  BY <1>1, PosLemma DEF RequestInv, RequestTypeOK
<1>3. DOMAIN list = 1 .. Len(list)
  BY LenProperties DEF RequestInv, RequestTypeOK
<1>4. ASSUME NEW k \in 1 .. Len(list), k # Pos(t) PROVE stage[list[k]] = "queued"
  <2>1. list[k] # t
    BY <1>2, <1>3, <1>4 DEF RequestInv, ListExact, IsInjective
  <2>2. list[k] \in ToSet(list)
    BY <1>3 DEF ToSet
  <2>3. list[k] \in Requesters /\ stage[list[k]] # "none"
    BY <2>2 DEF RequestInv, ListExact
  <2> QED
    BY <2>1, <2>3 DEF RequestInv, RequestTypeOK, OneActive
<1> QED
  BY <1>2, <1>4 DEF ActiveAt

(* The task that leaves chooses a neighbour whenever there is another      *)
(* request: the elevator turns round rather than stop.                     *)
LEMMA NextreqLemma ==
    ASSUME RequestInv, NEW t \in Requesters, NEW p, ActiveAt(t, p)
    PROVE  LET n == IF Turned(t) = "UP" THEN p + 1 ELSE p - 1
           IN  /\ Turned(t) \in {"UP", "DOWN"}
               /\ Len(list) # 1 => n \in 1 .. Len(list) /\ request_nextreq(t) = list[n]
               /\ Len(list) = 1 => request_nextreq(t) = NoRequest
<1>1. Len(list) \in Nat /\ p \in 1 .. Len(list) /\ p = Pos(t)
  BY LenProperties DEF RequestInv, RequestTypeOK, ActiveAt
<1> DEFINE n == IF Turned(t) = "UP" THEN p + 1 ELSE p - 1
<1>2. /\ direct \in {"UP", "DOWN"}
      /\ Turned(t) = IF direct = "UP" /\ p = Len(list) THEN "DOWN"
                     ELSE IF direct = "DOWN" /\ p = 1 THEN "UP" ELSE direct
  BY <1>1 DEF RequestInv, RequestTypeOK, Turned
<1>3. request_nextreq(t) = IF n \in 1 .. Len(list) THEN list[n] ELSE NoRequest
  BY <1>1 DEF request_nextreq
<1>4. ASSUME Len(list) # 1 PROVE n \in 1 .. Len(list)
  <2>1. Len(list) > 1
    BY <1>1, <1>4
  <2>2. CASE direct = "UP"
    BY <1>1, <1>2, <2>1, <2>2
  <2>3. CASE direct = "DOWN"
    BY <1>1, <1>2, <2>1, <2>3
  <2> QED
    BY <1>2, <2>2, <2>3
<1>5. Len(list) = 1 => n \notin 1 .. Len(list)
  BY <1>1, <1>2
<1> QED
  BY <1>2, <1>3, <1>4, <1>5

(* Leaving the list keeps the invariant: the successor is woken exactly    *)
(* when somebody is left.                                                  *)
LEMMA LeaveLemma ==
    ASSUME RequestInv, NEW t \in Requesters, do_request(t)
    PROVE  RequestInv'
<1> DEFINE p == Pos(t)
           m(k) == IF k < p THEN k ELSE k + 1
           next == request_nextreq(t)
<1>1. /\ list \in Seq(Requesters)
      /\ Len(list) \in Nat
      /\ DOMAIN list = 1 .. Len(list)
      /\ \A k \in 1 .. Len(list) : list[k] \in Requesters
  BY LenProperties, ElementOfSeq DEF RequestInv, RequestTypeOK
<1>2. ActiveAt(t, p)
  BY ActiveLemma DEF do_request
<1>3. p \in 1 .. Len(list) /\ list[p] = t
  BY <1>2 DEF ActiveAt
<1> HIDE DEF p
<1>4. /\ list' \in Seq(Requesters)
      /\ Len(list') = Len(list) - 1
      /\ \A k \in 1 .. Len(list) - 1 : list'[k] = list[m(k)]
  <2>1. list' = RemoveAt(list, p)
    BY DEF do_request, p
  <2>2. /\ RemoveAt(list, p) \in Seq(Requesters)
        /\ Len(RemoveAt(list, p)) = Len(list) - 1
        /\ \A k \in 1 .. Len(list) - 1 :
              RemoveAt(list, p)[k] = IF k < p THEN list[k] ELSE list[k + 1]
    BY <1>1, <1>3, RemoveAtProperties
  <2> QED
    BY <2>1, <2>2
<1>5. DOMAIN list' = 1 .. Len(list) - 1
  BY <1>4, LenProperties
<1>6. /\ \A k \in 1 .. Len(list) - 1 : m(k) \in 1 .. Len(list) /\ m(k) # p
      /\ \A j, k \in 1 .. Len(list) - 1 : j < k => m(j) < m(k)
  BY <1>1, <1>3
<1>7. \A q \in 1 .. Len(list) : q # p => \E k \in 1 .. Len(list) - 1 : m(k) = q
  <2> TAKE q \in 1 .. Len(list)
  <2> HAVE q # p
  <2>1. CASE q < p
    <3>1. q \in 1 .. Len(list) - 1 /\ m(q) = q
      BY <1>1, <1>3, <2>1
    <3> QED
      BY <3>1
  <2>2. CASE ~ (q < p)
    <3>1. q - 1 \in 1 .. Len(list) - 1 /\ m(q - 1) = q
      BY <1>1, <1>3, <2>2
    <3> QED
      BY <3>1
  <2> QED
    BY <2>1, <2>2
<1> HIDE DEF m
<1>8. \A j, k \in 1 .. Len(list) : list[j] = list[k] => j = k
  BY <1>1 DEF RequestInv, ListExact, IsInjective
<1>9. IsInjective(list')
  <2>1. ASSUME NEW j \in 1 .. Len(list) - 1, NEW k \in 1 .. Len(list) - 1, list'[j] = list'[k]
        PROVE  j = k
    <3>1. m(j) = m(k) /\ m(j) \in Int
      BY <1>4, <1>6, <1>8, <2>1
    <3>2. ~ (m(j) < m(k)) /\ ~ (m(k) < m(j))
      BY <3>1
    <3>3. ~ (j < k) /\ ~ (k < j)
      BY <1>6, <3>2
    <3> QED
      BY <1>1, <3>3
  <2> QED
    BY <1>5, <2>1 DEF IsInjective
<1>10. ToSet(list') = ToSet(list) \ {t}
  <2>1. ASSUME NEW k \in 1 .. Len(list) - 1 PROVE list'[k] \in ToSet(list) \ {t}
    BY <1>1, <1>3, <1>4, <1>6, <1>8 DEF ToSet
  <2>2. ASSUME NEW q \in 1 .. Len(list), list[q] # t PROVE list[q] \in ToSet(list')
    <3>1. PICK k \in 1 .. Len(list) - 1 : m(k) = q
      BY <1>3, <1>7, <2>2
    <3> QED
      BY <1>4, <1>5, <3>1 DEF ToSet
  <2> QED
    BY <1>1, <1>5, <2>1, <2>2 DEF ToSet
<1>11. ASSUME NEW j \in 1 .. Len(list'), NEW k \in 1 .. Len(list'), j < k
       PROVE  idx'[list'[j]] <= idx'[list'[k]]
  <2>1. \A a, b \in 1 .. Len(list) : a < b => idx[list[a]] <= idx[list[b]]
    BY DEF RequestInv, ListExact
  <2> QED
    BY <1>4, <1>6, <1>11, <2>1 DEF do_request
<1>12. /\ stage' = [u \in Requesters |-> IF u = t THEN "none" ELSE IF u = next THEN "active" ELSE stage[u]]
       /\ direct' = Turned(t)
       /\ idx' = idx
  BY DEF do_request
<1>13. /\ Turned(t) \in {"UP", "DOWN"}
       /\ Len(list) # 1 => next \in ToSet(list) /\ next # t
       /\ Len(list) = 1 => next = NoRequest
  <2> DEFINE n == IF Turned(t) = "UP" THEN p + 1 ELSE p - 1
  <2>1. /\ Turned(t) \in {"UP", "DOWN"}
        /\ Len(list) # 1 => n \in 1 .. Len(list) /\ next = list[n]
        /\ Len(list) = 1 => next = NoRequest
    BY <1>2, NextreqLemma
  <2>2. n # p
    BY <1>1, <1>3
  <2> HIDE DEF n, next
  <2> QED
    BY <1>1, <1>3, <1>8, <2>1, <2>2 DEF ToSet
<1> HIDE DEF next
<1>14. RequestTypeOK'
  BY <1>4, <1>12, <1>13 DEF RequestInv, RequestTypeOK
<1>15. ToSet(list') = {u \in Requesters : stage'[u] # "none"}
  BY <1>10, <1>12, <1>13, RequestAssumption DEF RequestInv, RequestTypeOK, ListExact
<1>16. OneActive'
  <2>1. \A u \in Requesters : u # t => stage[u] # "active"
    BY DEF do_request, RequestInv, OneActive
  <2>2. \A u, v \in Requesters : stage'[u] = "active" /\ stage'[v] = "active" => u = v
    BY <1>12, <2>1
  <2>3. CASE Len(list) = 1
    <3>1. list' = <<>>
      BY <1>4, <2>3, EmptySeq
    <3> QED
      BY <2>2, <3>1 DEF OneActive
  <2>4. CASE Len(list) # 1
    <3>1. next \in Requesters /\ stage'[next] = "active"
      BY <1>1, <1>12, <1>13, <2>4 DEF ToSet
    <3> QED
      BY <2>2, <3>1 DEF OneActive
  <2> QED
    BY <2>3, <2>4
<1> QED
  BY <1>9, <1>11, <1>14, <1>15, <1>16 DEF RequestInv, ListExact

-----------------------------------------------------------------------------
(* RequestInv is inductive.                                                *)
LEMMA RequestInvariant == RequestSpec => []RequestInv
<1>1. RequestInit => RequestInv
  <2> SUFFICES ASSUME RequestInit PROVE RequestInv
    OBVIOUS
  <2>1. RequestTypeOK
    BY DEF RequestInit, RequestTypeOK
  <2>2. list = <<>> /\ DOMAIN list = {} /\ Len(list) = 0
    BY DEF RequestInit
  <2>3. OneActive
    BY <2>2 DEF RequestInit, OneActive
  <2>4. ListExact
    BY <2>2 DEF RequestInit, ListExact, IsInjective, ToSet
  <2> QED
    BY <2>1, <2>3, <2>4 DEF RequestInv
<1>2. RequestInv /\ [RequestNext]_requestVars => RequestInv'
  <2> SUFFICES ASSUME RequestInv, [RequestNext]_requestVars PROVE RequestInv'
    OBVIOUS
  <2>1. CASE UNCHANGED requestVars
    BY <2>1 DEF requestVars, RequestInv, RequestTypeOK, OneActive, ListExact
  <2>2. ASSUME NEW t \in Requesters, do_request(t) PROVE RequestInv'
    BY <2>2, LeaveLemma
  <2>3. ASSUME NEW t \in Requesters, NEW i \in Sectors, device_request(t, i) PROVE RequestInv'
    BY <2>3, JoinLemma
  <2> QED
    BY <2>1, <2>2, <2>3 DEF RequestNext
<1> QED
  BY <1>1, <1>2, PTL DEF RequestSpec

(* The list is sorted and exact, and exactly one request is in service     *)
(* whenever it is not empty: do_request and device_request never leave a   *)
(* blocked task behind that nobody will wake, for any load.                *)
THEOREM RequestQueueSafe == RequestSpec => [](OneActive /\ ListExact)
<1>1. RequestInv => OneActive /\ ListExact
  BY DEF RequestInv
<1> QED
  BY <1>1, RequestInvariant, PTL

(* The head of the disk sweeps: the next request served is the nearest one *)
(* in the direction of travel, and the direction changes only when nothing *)
(* is left ahead.                                                          *)
THEOREM RequestSweeps == RequestSpec => SweepsInOrder
<1>1. RequestInv /\ [RequestNext]_requestVars => [SweepStep]_requestVars
  <2> SUFFICES ASSUME RequestInv, RequestNext PROVE SweepStep
    OBVIOUS
  <2> SUFFICES ASSUME NEW t \in Requesters, NEW n \in Requesters,
                      stage[t] = "active", stage'[t] = "none", stage[n] = "queued", stage'[n] = "active"
               PROVE  /\ IF direct' = "UP"
                         THEN /\ idx[n] >= idx[t]
                              /\ \A u \in Requesters \ {n} : stage[u] = "queued" =>
                                    ~ (idx[t] < idx[u] /\ idx[u] < idx[n])
                         ELSE /\ idx[n] <= idx[t]
                              /\ \A u \in Requesters \ {n} : stage[u] = "queued" =>
                                    ~ (idx[n] < idx[u] /\ idx[u] < idx[t])
                      /\ direct' # direct => \A u \in Requesters : stage[u] = "queued" =>
                            ~ (IF direct = "UP" THEN idx[u] > idx[t] ELSE idx[u] < idx[t])
    BY DEF SweepStep
  <2>1. do_request(t)
    BY DEF RequestInv, RequestTypeOK, OneActive, RequestNext, do_request, device_request
  <2> DEFINE p == Pos(t)
             q == IF Turned(t) = "UP" THEN p + 1 ELSE p - 1
  <2>2. /\ Len(list) \in Nat
        /\ DOMAIN list = 1 .. Len(list)
        /\ direct \in {"UP", "DOWN"}
        /\ \A k \in 1 .. Len(list) : list[k] \in Requesters /\ idx[list[k]] \in Nat
        /\ \A j, k \in 1 .. Len(list) : j < k => idx[list[j]] <= idx[list[k]]
    BY LenProperties, ElementOfSeq DEF RequestInv, RequestTypeOK, ListExact
  <2>3. p \in 1 .. Len(list) /\ list[p] = t /\ ActiveAt(t, p)
    BY ActiveLemma DEF ActiveAt
  <2>4. n = request_nextreq(t) /\ direct' = Turned(t)
    BY <2>1 DEF do_request, RequestInv, RequestTypeOK
  <2>5. /\ Turned(t) = IF direct = "UP" /\ p = Len(list) THEN "DOWN"
                       ELSE IF direct = "DOWN" /\ p = 1 THEN "UP" ELSE direct
    BY DEF Turned
  <2>6. q \in 1 .. Len(list) /\ n = list[q]
    BY <2>3, <2>4, NextreqLemma, RequestAssumption
  <2> HIDE DEF p
  <2>7. ASSUME NEW u \in Requesters, stage[u] = "queued" PROVE \E k \in 1 .. Len(list) : u = list[k] /\ k # p
    BY <2>2, <2>3, <2>7 DEF RequestInv, ListExact, ToSet
  <2>8. CASE Turned(t) = "UP"
    <3>1. q = p + 1 /\ idx[n] >= idx[t]
      BY <2>2, <2>3, <2>6, <2>8
    <3>2. ASSUME NEW u \in Requesters \ {n}, stage[u] = "queued"
          PROVE  ~ (idx[t] < idx[u] /\ idx[u] < idx[n])
      <4>1. PICK k \in 1 .. Len(list) : u = list[k] /\ k # p
        BY <2>7, <3>2
      <4>2. k < p \/ k > q
        BY <2>2, <2>3, <2>6, <3>1, <3>2, <4>1
      <4> QED
        BY <2>2, <2>3, <2>6, <4>1, <4>2
    <3>3. ASSUME direct # "UP", NEW u \in Requesters, stage[u] = "queued" PROVE ~ (idx[u] < idx[t])
      <4>1. PICK k \in 1 .. Len(list) : u = list[k] /\ k # p
        BY <2>7, <3>3
      <4>2. p = 1 /\ p < k
        BY <2>2, <2>3, <2>5, <2>8, <3>3, <4>1
      <4> QED
        BY <2>2, <2>3, <4>1, <4>2
    <3> QED
      BY <2>2, <2>4, <2>8, <3>1, <3>2, <3>3
  <2>9. CASE Turned(t) = "DOWN"
    <3>1. q = p - 1 /\ idx[n] <= idx[t]
      BY <2>2, <2>3, <2>6, <2>9
    <3>2. ASSUME NEW u \in Requesters \ {n}, stage[u] = "queued"
          PROVE  ~ (idx[n] < idx[u] /\ idx[u] < idx[t])
      <4>1. PICK k \in 1 .. Len(list) : u = list[k] /\ k # p
        BY <2>7, <3>2
      <4>2. k < q \/ k > p
        BY <2>2, <2>3, <2>6, <3>1, <3>2, <4>1
      <4> QED
        BY <2>2, <2>3, <2>6, <4>1, <4>2
    <3>3. ASSUME direct = "UP", NEW u \in Requesters, stage[u] = "queued" PROVE ~ (idx[u] > idx[t])
      <4>1. PICK k \in 1 .. Len(list) : u = list[k] /\ k # p
        BY <2>7, <3>3
      <4>2. p = Len(list)
        BY <2>5, <2>9, <3>3
      <4>3. k < p /\ k \in 1 .. Len(list) /\ p \in 1 .. Len(list)
        <5>1. Len(list) \in Nat /\ p \in 1 .. Len(list) /\ k \in 1 .. Len(list) /\ k # p
          BY <2>2, <2>3, <4>1
        <5> QED
          BY ONLY <4>2, <5>1
      <4>4. idx[list[k]] <= idx[list[p]] /\ idx[list[k]] \in Nat /\ idx[list[p]] \in Nat
        BY <2>2, <4>3
      <4> QED
        BY <2>3, <4>1, <4>4
    <3> QED
      BY <2>2, <2>4, <2>9, <3>1, <3>2, <3>3
  <2> QED
    BY <2>2, <2>5, <2>8, <2>9
<1> QED
  BY <1>1, RequestInvariant, PTL DEF RequestSpec, SweepsInOrder

-----------------------------------------------------------------------------
\* The buffer cache.

Loaded == {"using", "flush", "flushed", "relse", "relsed"}

Written == {"flushed", "relsed"}

HistoryTypeOK == /\ latest \in [Blocks -> 0 .. MaxWrites]
                 /\ raced \in SUBSET Blocks
                 /\ panicked \in {"no", "reuse", "unlink"}

\* A task has a buffer exactly between getblk and brelse, for the block it asked for.
Held == \A t \in Tasks : /\ buf[t] = NoBuffer <=> pc[t] \in {"out", "waitbuf"}
                         /\ pc[t] # "out" => want[t] \in Blocks

\* The buffers taken from the buffer memory are the ones in the hash table.
Hashed == \A b \in Buffers : block[b] = NoBlock <=> b > buffer_count

\* A buffer that nobody refers to has been written back.
Released == \A b \in Buffers : count[b] = 0 => ~dirty[b]

\* The lock of a buffer is held exactly by the task that reads the block into it.
LockedReading == \A t \in Tasks, b \in Buffers : lock[b] = t <=> pc[t] = "reading" /\ buf[t] = b

\* bread returns valid buffers, and a buffer stays invalid while it is read.
ValidExact == \A t \in Tasks : /\ pc[t] \in Loaded => valid[buf[t]]
                               /\ pc[t] = "reading" => ~valid[buf[t]]

\* Where the last version of a block is: in its buffer if that is valid; on the
\* disk too if the buffer is clean; only there if no valid buffer has the block;
\* and on the disk as soon as the driver has sent the data.
Coherent ==
    /\ \A b \in Buffers : valid[b] /\ block[b] \in Blocks \ raced =>
          /\ data[b] = latest[block[b]]
          /\ ~dirty[b] => disk[block[b]] = latest[block[b]]
    /\ \A k \in Blocks \ raced : (\A b \in Buffers : block[b] = k => ~valid[b])
                                    => disk[k] = latest[k]
    /\ \A t \in Tasks : pc[t] \in Written /\ block[buf[t]] \in Blocks \ raced
                           => disk[block[buf[t]]] = data[buf[t]]

\* The inductive invariant.
CacheInv == /\ TypeOK /\ HistoryTypeOK
            /\ Held /\ Hashed /\ Released /\ LockedReading /\ ValidExact /\ Coherent
            /\ RefCountExact /\ OneBufferPerBlock /\ NoDirtyReuse
-----------------------------------------------------------------------------
\* The tasks that refer to a buffer.
Holders(f, b) == {t \in Tasks : f[t] = b}

(* A task that takes a reference is one more holder of that buffer.        *)
LEMMA TakeReference ==
    ASSUME NEW f, NEW t \in Tasks, NEW b \in Buffers, f \in [Tasks -> Buffers \cup {NoBuffer}],
           f[t] = NoBuffer
    PROVE  \A c \in Buffers : Cardinality(Holders([f EXCEPT ![t] = b], c)) =
              IF c = b THEN Cardinality(Holders(f, c)) + 1 ELSE Cardinality(Holders(f, c))
<1> TAKE c \in Buffers
<1>1. IsFiniteSet(Holders(f, c)) /\ t \notin Holders(f, c)
  <2>1. Holders(f, c) \in SUBSET Tasks
    BY DEF Holders
  <2>2. NoBuffer # c
    BY CacheAssumption DEF Buffers, NoBuffer
  <2> QED
    BY <2>1, <2>2, CacheAssumption, FS_Subset DEF Holders
<1>2. CASE c = b
  <2>1. Holders([f EXCEPT ![t] = b], c) = Holders(f, c) \cup {t}
    BY <1>2 DEF Holders
  <2> QED
    BY <1>1, <1>2, <2>1, FS_AddElement
<1>3. CASE c # b
  <2>1. Holders([f EXCEPT ![t] = b], c) = Holders(f, c)
    BY <1>1, <1>3 DEF Holders
  <2> QED
    BY <1>3, <2>1
<1> QED
  BY <1>2, <1>3

(* A task that drops its reference is one holder less.                     *)
LEMMA DropReference ==
    ASSUME NEW f, NEW t \in Tasks, NEW b \in Buffers, f \in [Tasks -> Buffers \cup {NoBuffer}],
           f[t] = b
    PROVE  \A c \in Buffers : Cardinality(Holders([f EXCEPT ![t] = NoBuffer], c)) =
              IF c = b THEN Cardinality(Holders(f, c)) - 1 ELSE Cardinality(Holders(f, c))
<1> TAKE c \in Buffers
<1>1. IsFiniteSet(Holders(f, c)) /\ NoBuffer # c
  <2>1. Holders(f, c) \in SUBSET Tasks
    BY DEF Holders
  <2>2. NoBuffer # c
    BY CacheAssumption DEF Buffers, NoBuffer
  <2> QED
    BY <2>1, <2>2, CacheAssumption, FS_Subset
<1>2. CASE c = b
  <2>1. Holders([f EXCEPT ![t] = NoBuffer], c) = Holders(f, c) \ {t} /\ t \in Holders(f, c)
    BY <1>1, <1>2 DEF Holders
  <2> QED
    BY <1>1, <1>2, <2>1, FS_RemoveElement
<1>3. CASE c # b
  <2>1. Holders([f EXCEPT ![t] = NoBuffer], c) = Holders(f, c)
    BY <1>1, <1>3 DEF Holders
  <2> QED
    BY <1>3, <2>1
<1> QED
  BY <1>2, <1>3

(* No buffer has more holders than there are tasks, and one without        *)
(* references has none.                                                    *)
LEMMA HoldersBound ==
    ASSUME NEW f, NEW b
    PROVE  /\ Cardinality(Holders(f, b)) \in 0 .. Cardinality(Tasks)
           /\ Cardinality(Holders(f, b)) = 0 <=> Holders(f, b) = {}
<1>1. Holders(f, b) \in SUBSET Tasks
  BY DEF Holders
<1>2. IsFiniteSet(Tasks) /\ Cardinality(Tasks) \in Nat
  BY CacheAssumption, FS_CardinalityType
<1>3. IsFiniteSet(Holders(f, b)) /\ Cardinality(Holders(f, b)) <= Cardinality(Tasks)
  BY <1>1, <1>2, FS_Subset
<1>4. Cardinality(Holders(f, b)) \in Nat
  BY <1>3, FS_CardinalityType
<1> QED
  BY <1>2, <1>3, <1>4, FS_EmptySet

(* What the counters say about the tasks.                                  *)
LEMMA CountFacts ==
    ASSUME CacheInv
    PROVE  /\ \A b \in Buffers : count[b] = Cardinality(Holders(buf, b))
           /\ \A b \in Buffers : count[b] = 0 <=> \A t \in Tasks : buf[t] # b
           /\ \A t \in Tasks : pc[t] \notin {"out", "waitbuf"} =>
                buf[t] \in Buffers /\ block[buf[t]] = want[t] /\ want[t] \in Blocks
<1>1. \A b \in Buffers : count[b] = Cardinality(Holders(buf, b))
  BY DEF CacheInv, RefCountExact, Holders
<1>2. ASSUME NEW b \in Buffers PROVE count[b] = 0 <=> \A t \in Tasks : buf[t] # b
  <2>1. count[b] = 0 <=> Holders(buf, b) = {}
    BY <1>1, HoldersBound
  <2> QED
    BY <2>1 DEF Holders
<1>3. \A t \in Tasks : pc[t] \notin {"out", "waitbuf"} =>
          buf[t] \in Buffers /\ block[buf[t]] = want[t] /\ want[t] \in Blocks
  BY DEF CacheInv, TypeOK, Held, OneBufferPerBlock
<1> QED
  BY <1>1, <1>2, <1>3

-----------------------------------------------------------------------------
(* Steps that take and drop no reference.                                  *)
LEMMA KeepReferences ==
    ASSUME CacheInv, UNCHANGED <<block, count, buffer_count, free_list, buf, want, panicked>>
    PROVE  Hashed' /\ RefCountExact' /\ OneBufferPerBlock' /\ NoDirtyReuse'
<1>1. Hashed'
  BY DEF CacheInv, Hashed
<1>2. RefCountExact'
  BY DEF CacheInv, RefCountExact
<1>3. OneBufferPerBlock'
  BY DEF CacheInv, OneBufferPerBlock
<1>4. NoDirtyReuse'
  BY DEF CacheInv, NoDirtyReuse
<1> QED
  BY <1>1, <1>2, <1>3, <1>4

(* bread takes the lock of an invalid buffer, which nobody else reads.     *)
LEMMA BreadLemma ==
    ASSUME CacheInv, NEW t \in Tasks, bread(t)
    PROVE  CacheInv'
<1> DEFINE b == buf[t]
<1>1. /\ pc[t] = "got" /\ b \in Buffers
      /\ UNCHANGED <<block, count, dirty, valid, data, buffer_count, free_list, wait_list,
                     disk, want, buf, latest, raced, panicked>>
  BY CountFacts DEF bread, At
<1>2. Hashed' /\ RefCountExact' /\ OneBufferPerBlock' /\ NoDirtyReuse'
  BY <1>1, KeepReferences
<1>3. \/ valid[b] /\ pc' = [pc EXCEPT ![t] = "using"] /\ lock' = lock
      \/ /\ ~ valid[b] /\ lock[b] = NoTask /\ lock' = [lock EXCEPT ![b] = t]
         /\ pc' = [pc EXCEPT ![t] = "reading"]
  BY DEF bread, Goto
<1> HIDE DEF b
<1>4. TypeOK' /\ HistoryTypeOK'
  BY <1>1, <1>3 DEF CacheInv, TypeOK, HistoryTypeOK
<1>5. Held'
  BY <1>1, <1>3 DEF CacheInv, TypeOK, Held
<1>6. Released'
  BY <1>1 DEF CacheInv, Released
<1>7. LockedReading'
  BY <1>1, <1>3, CacheAssumption DEF CacheInv, TypeOK, LockedReading, b
<1>8. ValidExact'
  BY <1>1, <1>3 DEF CacheInv, TypeOK, ValidExact, Loaded, b
<1>9. Coherent'
  <2>1. \A u \in Tasks : pc'[u] \in Written => pc[u] \in Written
    BY <1>1, <1>3 DEF CacheInv, TypeOK, Written
  <2> QED
    BY <1>1, <2>1 DEF CacheInv, Coherent
<1> QED
  BY <1>2, <1>4, <1>5, <1>6, <1>7, <1>8, <1>9 DEF CacheInv

(* The read request brings the last version in, since the block had no     *)
(* valid buffer.                                                           *)
LEMMA ReadDoneLemma ==
    ASSUME CacheInv, NEW t \in Tasks, read_done(t)
    PROVE  CacheInv'
<1> DEFINE b == buf[t]
           k == block[b]
<1>1. /\ pc[t] = "reading" /\ b \in Buffers /\ k \in Blocks
      /\ UNCHANGED <<block, count, buffer_count, free_list, wait_list, disk, want, buf, latest,
                     raced, panicked>>
  BY CountFacts DEF read_done, At
<1>2. /\ data' = [data EXCEPT ![b] = disk[k]]
      /\ dirty' = [dirty EXCEPT ![b] = FALSE]
      /\ valid' = [valid EXCEPT ![b] = TRUE]
      /\ lock' = [lock EXCEPT ![b] = NoTask]
      /\ pc' = [pc EXCEPT ![t] = "using"]
  BY DEF read_done, Goto
<1>3. Hashed' /\ RefCountExact' /\ OneBufferPerBlock' /\ NoDirtyReuse'
  BY <1>1, KeepReferences
<1>4. lock[b] = t /\ ~ valid[b]
  BY <1>1 DEF CacheInv, LockedReading, ValidExact
<1>5. \A c \in Buffers : block[c] = k => c = b
  BY <1>1, CacheAssumption DEF CacheInv, OneBufferPerBlock
<1>6. buf' = buf /\ block' = block /\ buf[t] = b /\ block[b] = k
  BY <1>1
<1> HIDE DEF b, k
<1>7. TypeOK' /\ HistoryTypeOK'
  BY <1>1, <1>2 DEF CacheInv, TypeOK, HistoryTypeOK
<1>8. Held'
  BY <1>1, <1>2 DEF CacheInv, TypeOK, Held
<1>9. Released'
  BY <1>1, <1>2 DEF CacheInv, TypeOK, Released
<1>10. LockedReading'
  BY <1>1, <1>2, <1>4, <1>6, CacheAssumption DEF CacheInv, TypeOK, LockedReading
<1>11. ValidExact'
  <2>1. \A u \in Tasks : pc[u] = "reading" /\ buf[u] = b => u = t
    BY <1>1, <1>4 DEF CacheInv, LockedReading
  <2>2. \A u \in Tasks : pc[u] \in Loaded \cup {"reading"} => buf[u] \in Buffers
    BY CountFacts DEF Loaded
  <2> QED
    BY <1>1, <1>2, <1>6, <2>1, <2>2 DEF CacheInv, TypeOK, ValidExact, Loaded
<1>12. Coherent'
  <2>1. k \notin raced => disk[k] = latest[k]
    BY <1>1, <1>4, <1>5 DEF CacheInv, Coherent
  <2>2. \A c \in Buffers : c # b => /\ data'[c] = data[c] /\ dirty'[c] = dirty[c]
                                   /\ valid'[c] = valid[c]
    BY <1>2 DEF CacheInv, TypeOK
  <2>3. data'[b] = disk[k] /\ valid'[b]
    BY <1>1, <1>2 DEF CacheInv, TypeOK
  <2>4. ASSUME NEW c \in Buffers, valid'[c], block[c] \in Blocks \ raced
        PROVE  /\ data'[c] = latest[block[c]]
               /\ ~ dirty'[c] => disk[block[c]] = latest[block[c]]
    BY <1>6, <2>1, <2>2, <2>3, <2>4 DEF CacheInv, Coherent
  <2>5. ASSUME NEW j \in Blocks \ raced, \A c \in Buffers : block[c] = j => ~ valid'[c]
        PROVE  disk[j] = latest[j]
    BY <1>1, <1>6, <2>2, <2>3, <2>5 DEF CacheInv, Coherent
  <2>6. ASSUME NEW u \in Tasks, pc'[u] \in Written, block[buf[u]] \in Blocks \ raced
        PROVE  disk[block[buf[u]]] = data'[buf[u]]
    <3>1. pc[u] \in Written
      BY <1>1, <1>2, <2>6 DEF CacheInv, TypeOK, Written
    <3>2. buf[u] \in Buffers /\ disk[block[buf[u]]] = data[buf[u]]
      BY <2>6, <3>1, CountFacts DEF CacheInv, Coherent, Written
    <3> QED
      BY <1>6, <2>2, <2>3, <3>2
  <2> QED
    BY <1>1, <2>4, <2>5, <2>6 DEF Coherent
<1> QED
  BY <1>3, <1>7, <1>8, <1>9, <1>10, <1>11, <1>12 DEF CacheInv

(* The version numbers of the history have a largest one.                  *)
LEMMA TopVersion ==
    ASSUME latest \in [Blocks -> 0 .. MaxWrites], NEW j \in Blocks
    PROVE  LET others == {latest[i] : i \in Blocks}
           IN  (CHOOSE n \in others : \A m \in others : m <= n) \in 0 .. MaxWrites
<1> DEFINE others == {latest[i] : i \in Blocks}
           N == {MaxWrites - n : n \in others}
<1>1. others \subseteq 0 .. MaxWrites /\ others # {} /\ MaxWrites \in Nat
  BY CacheAssumption
<1>2. N \in SUBSET Nat /\ N # {}
  BY <1>1
<1>3. PICK d \in N : \A e \in N : d <= e
  BY <1>2, LeastNat
<1>4. PICK n \in others : d = MaxWrites - n
  OBVIOUS
<1>5. ASSUME NEW m \in others PROVE m <= n
  <2>1. MaxWrites - n <= MaxWrites - m
    BY <1>3, <1>4
  <2> QED
    BY <1>1, <2>1
<1>6. (CHOOSE x \in others : \A m \in others : m <= x) \in others
  BY <1>5
<1> HIDE DEF others
<1> QED
  BY <1>1, <1>6 DEF others

(* A change goes to the one buffer of the block.  If another task is       *)
(* between the write to the disk and the end of bwrite, the block counts   *)
(* as raced.                                                               *)
LEMMA ModifyLemma ==
    ASSUME CacheInv, NEW t \in Tasks, modify(t)
    PROVE  CacheInv'
<1> DEFINE b == buf[t]
           k == block[b]
           others == {latest[j] : j \in Blocks}
           top == CHOOSE n \in others : \A m \in others : m <= n
<1>1. /\ pc[t] = "using" /\ b \in Buffers /\ k \in Blocks
      /\ UNCHANGED <<block, count, valid, lock, buffer_count, free_list, wait_list, disk, pc, want,
                     buf, panicked>>
  BY CountFacts DEF modify, At
<1>2. /\ top < MaxWrites
      /\ latest' = [latest EXCEPT ![k] = top + 1]
      /\ data' = [data EXCEPT ![b] = top + 1]
      /\ dirty' = [dirty EXCEPT ![b] = TRUE]
      /\ raced' = IF \E u \in Tasks : pc[u] \in Written /\ buf[u] = b THEN raced \cup {k} ELSE raced
  BY DEF modify, Written
<1>3. top \in 0 .. MaxWrites
  BY <1>1, TopVersion DEF CacheInv, HistoryTypeOK
<1>4. buf' = buf /\ block' = block /\ buf[t] = b /\ block[b] = k
  BY <1>1
<1>5. \A c \in Buffers : block[c] = k => c = b
  BY <1>1, CacheAssumption DEF CacheInv, OneBufferPerBlock
<1> HIDE DEF b, k, others, top
<1>6. top + 1 \in 0 .. MaxWrites
  BY <1>2, <1>3, CacheAssumption
<1>7. Hashed' /\ RefCountExact' /\ OneBufferPerBlock' /\ NoDirtyReuse'
  BY <1>1, KeepReferences
<1>8. TypeOK' /\ HistoryTypeOK'
  BY <1>1, <1>2, <1>6 DEF CacheInv, TypeOK, HistoryTypeOK
<1>9. Held' /\ LockedReading' /\ ValidExact'
  BY <1>1 DEF CacheInv, Held, LockedReading, ValidExact
<1>10. Released'
  <2>1. count[b] # 0
    BY <1>1, <1>4, CountFacts
  <2> QED
    BY <1>1, <1>2, <2>1 DEF CacheInv, TypeOK, Released
<1>11. Coherent'
  <2>1. valid[b] /\ data'[b] = top + 1 /\ latest'[k] = top + 1 /\ dirty'[b]
    BY <1>1, <1>2, <1>4 DEF CacheInv, TypeOK, HistoryTypeOK, ValidExact, Loaded
  <2>2. \A c \in Buffers : c # b => data'[c] = data[c] /\ dirty'[c] = dirty[c]
    BY <1>2 DEF CacheInv, TypeOK
  <2>3. \A j \in Blocks : j # k => latest'[j] = latest[j]
    BY <1>2 DEF CacheInv, HistoryTypeOK
  <2>4. \A j : j \notin raced' => j \notin raced
    BY <1>2
  <2>5. ASSUME NEW c \in Buffers, valid[c], block[c] \in Blocks \ raced'
        PROVE  /\ data'[c] = latest'[block[c]]
               /\ ~ dirty'[c] => disk[block[c]] = latest'[block[c]]
    <3>1. CASE c = b
      BY <1>4, <2>1, <3>1
    <3>2. CASE c # b
      <4>1. block[c] # k
        BY <1>5, <3>2
      <4>2. block[c] \in Blocks \ raced
        BY <2>4, <2>5
      <4>3. /\ data[c] = latest[block[c]]
            /\ ~ dirty[c] => disk[block[c]] = latest[block[c]]
        BY <2>5, <4>2 DEF CacheInv, Coherent
      <4> QED
        BY <2>2, <2>3, <3>2, <4>1, <4>2, <4>3
    <3> QED
      BY <3>1, <3>2
  <2>6. ASSUME NEW j \in Blocks \ raced', \A c \in Buffers : block[c] = j => ~ valid[c]
        PROVE  disk[j] = latest'[j]
    <3>1. j # k /\ j \in Blocks \ raced
      BY <1>1, <1>4, <2>1, <2>4, <2>6
    <3> QED
      BY <2>3, <2>6, <3>1 DEF CacheInv, Coherent
  <2>7. ASSUME NEW u \in Tasks, pc[u] \in Written, block[buf[u]] \in Blocks \ raced'
        PROVE  disk[block[buf[u]]] = data'[buf[u]]
    <3>1. buf[u] # b
      BY <1>2, <1>4, <2>7
    <3>2. buf[u] \in Buffers /\ block[buf[u]] \in Blocks \ raced
      BY <2>4, <2>7, CountFacts DEF Written
    <3> QED
      BY <2>2, <2>7, <3>1, <3>2 DEF CacheInv, Coherent
  <2> QED
    BY <1>1, <2>5, <2>6, <2>7 DEF Coherent
<1> QED
  BY <1>7, <1>8, <1>9, <1>10, <1>11 DEF CacheInv

(* The task starts a write of a dirty buffer: bwrite, or brelse.           *)
LEMMA StartWriteLemma ==
    ASSUME CacheInv, NEW t \in Tasks, pc[t] = "using", NEW p \in {"flush", "relse"},
           pc' = [pc EXCEPT ![t] = p],
           UNCHANGED <<bufVars, wait_list, disk, want, buf, latest, raced, panicked>>
    PROVE  CacheInv'
<1>1. UNCHANGED <<block, count, dirty, valid, data, lock, buffer_count, free_list>>
  BY DEF bufVars
<1>2. Hashed' /\ RefCountExact' /\ OneBufferPerBlock' /\ NoDirtyReuse'
  BY <1>1, KeepReferences
<1>3. TypeOK' /\ HistoryTypeOK'
  BY <1>1 DEF CacheInv, TypeOK, HistoryTypeOK
<1>4. Held'
  BY <1>1 DEF CacheInv, TypeOK, Held
<1>5. Released'
  BY <1>1 DEF CacheInv, Released
<1>6. LockedReading'
  BY <1>1 DEF CacheInv, TypeOK, LockedReading
<1>7. ValidExact'
  BY <1>1 DEF CacheInv, TypeOK, ValidExact, Loaded
<1>8. Coherent'
  <2>1. \A u \in Tasks : pc'[u] \in Written => pc[u] \in Written
    BY DEF CacheInv, TypeOK, Written
  <2> QED
    BY <1>1, <2>1 DEF CacheInv, Coherent
<1> QED
  BY <1>2, <1>3, <1>4, <1>5, <1>6, <1>7, <1>8 DEF CacheInv

(* The data reach the disk.                                                *)
LEMMA DiskWriteLemma ==
    ASSUME CacheInv, NEW t \in Tasks, disk_write(t)
    PROVE  CacheInv'
<1> DEFINE b == buf[t]
           k == block[b]
<1>1. /\ pc[t] \in {"flush", "relse"} /\ b \in Buffers /\ k \in Blocks
      /\ UNCHANGED <<block, count, dirty, valid, data, lock, buffer_count, free_list>>
      /\ UNCHANGED <<wait_list, want, buf, latest, raced, panicked>>
  BY CountFacts DEF disk_write, bufVars
<1>2. /\ disk' = [disk EXCEPT ![k] = data[b]]
      /\ \E p \in Written : pc' = [pc EXCEPT ![t] = p]
  BY DEF disk_write, Goto, Written
<1>3. buf' = buf /\ block' = block /\ buf[t] = b /\ block[b] = k
  BY <1>1
<1>4. Hashed' /\ RefCountExact' /\ OneBufferPerBlock' /\ NoDirtyReuse'
  BY <1>1, KeepReferences
<1>5. \A c \in Buffers : block[c] = k => c = b
  BY <1>1, CacheAssumption DEF CacheInv, OneBufferPerBlock
<1> HIDE DEF b, k
<1>6. TypeOK' /\ HistoryTypeOK'
  BY <1>1, <1>2 DEF CacheInv, TypeOK, HistoryTypeOK, Written
<1>7. Held'
  BY <1>1, <1>2 DEF CacheInv, TypeOK, Held, Written
<1>8. Released'
  BY <1>1 DEF CacheInv, Released
<1>9. LockedReading'
  BY <1>1, <1>2 DEF CacheInv, TypeOK, LockedReading, Written
<1>10. ValidExact'
  BY <1>1, <1>2 DEF CacheInv, TypeOK, ValidExact, Loaded, Written
<1>11. Coherent'
  <2>1. /\ disk'[k] = data[b] /\ valid[b]
        /\ \A j \in Blocks : j # k => disk'[j] = disk[j]
    BY <1>1, <1>2, <1>3 DEF CacheInv, TypeOK, ValidExact, Loaded
  <2>2. ASSUME NEW c \in Buffers, valid[c], block[c] \in Blocks \ raced
        PROVE  /\ data[c] = latest[block[c]]
               /\ ~ dirty[c] => disk'[block[c]] = latest[block[c]]
    <3>1. /\ data[c] = latest[block[c]]
          /\ ~ dirty[c] => disk[block[c]] = latest[block[c]]
      BY <2>2 DEF CacheInv, Coherent
    <3> QED
      BY <1>5, <2>1, <2>2, <3>1
  <2>3. ASSUME NEW j \in Blocks \ raced, \A c \in Buffers : block[c] = j => ~ valid[c]
        PROVE  disk'[j] = latest[j]
    BY <1>1, <1>3, <2>1, <2>3 DEF CacheInv, Coherent
  <2>4. ASSUME NEW u \in Tasks, pc'[u] \in Written, block[buf[u]] \in Blocks \ raced
        PROVE  disk'[block[buf[u]]] = data[buf[u]]
    <3>1. CASE u = t
      BY <1>3, <2>1, <3>1
    <3>2. CASE u # t
      <4>1. pc[u] \in Written
        BY <1>2, <2>4, <3>2 DEF CacheInv, TypeOK
      <4>2. buf[u] \in Buffers /\ disk[block[buf[u]]] = data[buf[u]]
        BY <2>4, <4>1, CountFacts DEF CacheInv, Coherent, Written
      <4> QED
        BY <1>5, <2>1, <2>4, <4>2
    <3> QED
      BY <3>1, <3>2
  <2> QED
    BY <1>1, <2>2, <2>3, <2>4 DEF Coherent
<1> QED
  BY <1>4, <1>6, <1>7, <1>8, <1>9, <1>10, <1>11 DEF CacheInv

(* bwrite returns: the buffer is clean and, unless the block was raced,    *)
(* what the disk holds is its last version.                                *)
LEMMA WriteDoneLemma ==
    ASSUME CacheInv, NEW t \in Tasks, write_done(t)
    PROVE  CacheInv'
<1> DEFINE b == buf[t]
           k == block[b]
<1>1. /\ pc[t] = "flushed" /\ b \in Buffers /\ k \in Blocks
      /\ UNCHANGED <<block, count, data, lock, buffer_count, free_list, wait_list, disk, want, buf,
                     latest, raced, panicked>>
  BY CountFacts DEF write_done, At
<1>2. /\ dirty' = [dirty EXCEPT ![b] = FALSE]
      /\ valid' = [valid EXCEPT ![b] = TRUE]
      /\ pc' = [pc EXCEPT ![t] = "using"]
  BY DEF write_done, Goto
<1>3. buf' = buf /\ block' = block /\ buf[t] = b /\ block[b] = k
  BY <1>1
<1>4. Hashed' /\ RefCountExact' /\ OneBufferPerBlock' /\ NoDirtyReuse'
  BY <1>1, KeepReferences
<1> HIDE DEF b, k
<1>5. valid[b] /\ \A c \in Buffers : valid'[c] <=> valid[c]
  BY <1>1, <1>2, <1>3 DEF CacheInv, TypeOK, ValidExact, Loaded
<1>6. ~ dirty'[b] /\ \A c \in Buffers : c # b => (dirty'[c] <=> dirty[c])
  BY <1>1, <1>2 DEF CacheInv, TypeOK
<1>7. TypeOK' /\ HistoryTypeOK'
  BY <1>1, <1>2 DEF CacheInv, TypeOK, HistoryTypeOK
<1>8. Held'
  BY <1>1, <1>2 DEF CacheInv, TypeOK, Held
<1>9. Released'
  BY <1>1, <1>6 DEF CacheInv, Released
<1>10. LockedReading'
  BY <1>1, <1>2 DEF CacheInv, TypeOK, LockedReading
<1>11. ValidExact'
  <2>1. \A u \in Tasks : pc[u] \in Loaded \cup {"reading"} => buf[u] \in Buffers
    BY CountFacts DEF Loaded
  <2> QED
    BY <1>1, <1>2, <1>5, <2>1 DEF CacheInv, TypeOK, ValidExact, Loaded
<1>12. Coherent'
  <2>1. ASSUME NEW c \in Buffers, valid'[c], block[c] \in Blocks \ raced
        PROVE  /\ data[c] = latest[block[c]]
               /\ ~ dirty'[c] => disk[block[c]] = latest[block[c]]
    <3>1. /\ data[c] = latest[block[c]]
          /\ ~ dirty[c] => disk[block[c]] = latest[block[c]]
      BY <1>5, <2>1 DEF CacheInv, Coherent
    <3>2. k \notin raced => disk[k] = data[b]
      BY <1>1, <1>3 DEF CacheInv, Coherent, Written
    <3> QED
      BY <1>3, <1>6, <2>1, <3>1, <3>2
  <2>2. ASSUME NEW j \in Blocks \ raced, \A c \in Buffers : block[c] = j => ~ valid'[c]
        PROVE  disk[j] = latest[j]
    BY <1>5, <2>2 DEF CacheInv, Coherent
  <2>3. \A u \in Tasks : pc'[u] \in Written => pc[u] \in Written
    BY <1>1, <1>2 DEF CacheInv, TypeOK, Written
  <2> QED
    BY <1>1, <2>1, <2>2, <2>3 DEF CacheInv, Coherent
<1> QED
  BY <1>4, <1>7, <1>8, <1>9, <1>10, <1>11, <1>12 DEF CacheInv

(* The end of brelse: the last reference puts the buffer, which is clean   *)
(* by then, on the free list.                                              *)
LEMMA ReleaseLemma ==
    ASSUME CacheInv, NEW t \in Tasks, panicked = "no", release(t),
           UNCHANGED <<block, data, lock, buffer_count, disk, latest, raced>>,
           \/ /\ pc[t] = "using" /\ ~ dirty[buf[t]]
              /\ UNCHANGED <<dirty, valid>>
           \/ /\ pc[t] = "relsed"
              /\ dirty' = [dirty EXCEPT ![buf[t]] = FALSE]
              /\ valid' = [valid EXCEPT ![buf[t]] = TRUE]
    PROVE  CacheInv'
<1> DEFINE b == buf[t]
           k == block[b]
<1>1. pc[t] \in {"using", "relsed"} /\ b \in Buffers /\ k \in Blocks
  BY CountFacts
<1>2. /\ count' = [count EXCEPT ![b] = @ - 1]
      /\ buf' = [buf EXCEPT ![t] = NoBuffer]
      /\ want' = [want EXCEPT ![t] = NoBlock]
      /\ pc' = [pc EXCEPT ![t] = "out"]
  BY DEF release, Goto
<1>3. \/ /\ count[b] > 1
         /\ free_list' = free_list /\ wait_list' = wait_list /\ panicked' = panicked
      \/ /\ count[b] = 1
         /\ free_list' = <<b>> \o free_list
         /\ wait_list' = IF wait_list = <<>> THEN <<>> ELSE Front(wait_list)
         /\ panicked' \in {"no", "unlink"}
  BY DEF release
<1>4. valid[b] /\ \A c \in Buffers : valid'[c] <=> valid[c]
  BY <1>1 DEF CacheInv, TypeOK, ValidExact, Loaded
<1>5. ~ dirty'[b] /\ \A c \in Buffers : c # b => (dirty'[c] <=> dirty[c])
  BY <1>1 DEF CacheInv, TypeOK
<1>6. k \notin raced => disk[k] = latest[k]
  <2>1. k \notin raced => /\ data[b] = latest[k]
                          /\ ~ dirty[b] => disk[k] = latest[k]
                          /\ pc[t] = "relsed" => disk[k] = data[b]
    BY <1>1, <1>4 DEF CacheInv, Coherent, Written
  <2>2. ~ dirty[b] \/ pc[t] = "relsed"
    OBVIOUS
  <2> HIDE DEF b, k
  <2> QED
    BY <2>1, <2>2
<1>7. buf[t] = b /\ block[b] = k
  OBVIOUS
<1>8. /\ dirty' \in [Buffers -> BOOLEAN]
      /\ valid' \in [Buffers -> BOOLEAN]
  BY DEF CacheInv, TypeOK
<1> HIDE DEF b, k
<1>9. \A c \in Buffers : count'[c] = Cardinality(Holders(buf', c))
  <2>1. \A c \in Buffers : Cardinality(Holders(buf', c)) =
            IF c = b THEN Cardinality(Holders(buf, c)) - 1 ELSE Cardinality(Holders(buf, c))
    <3>1. buf \in [Tasks -> Buffers \cup {NoBuffer}]
      BY DEF CacheInv, TypeOK
    <3>2. \A c \in Buffers : Cardinality(Holders([buf EXCEPT ![t] = NoBuffer], c)) =
              IF c = b THEN Cardinality(Holders(buf, c)) - 1 ELSE Cardinality(Holders(buf, c))
      BY ONLY <1>1, <1>7, <3>1, DropReference, t \in Tasks
    <3> QED
      BY ONLY <1>2, <3>2
  <2>2. \A c \in Buffers : count[c] = Cardinality(Holders(buf, c))
    BY CountFacts
  <2> QED
    BY <1>1, <1>2, <2>1, <2>2 DEF CacheInv, TypeOK
<1>10. \A c \in Buffers : count'[c] \in 0 .. Cardinality(Tasks)
  BY <1>9, HoldersBound
<1>11. b \notin ToSet(free_list)
  <2>1. count[b] # 0
    BY <1>1, <1>7, CountFacts
  <2> QED
    BY <2>1 DEF CacheInv, RefCountExact
<1>12. /\ free_list' \in Seq(Buffers)
       /\ IsInjective(free_list')
       /\ ToSet(free_list') = ToSet(free_list) \cup (IF count[b] = 1 THEN {b} ELSE {})
  <2>1. free_list \in Seq(Buffers) /\ IsInjective(free_list)
    BY DEF CacheInv, TypeOK, RefCountExact
  <2>2. CASE count[b] = 1
    <3>1. free_list' = <<b>> \o free_list
      BY <1>3, <2>2
    <3>2. /\ <<b>> \o free_list \in Seq(Buffers)
          /\ ToSet(<<b>> \o free_list) = ToSet(free_list) \cup {b}
          /\ IsInjective(<<b>> \o free_list)
      BY <1>1, <1>11, <2>1, PushSet
    <3> QED
      BY <2>2, <3>1, <3>2
  <2>3. CASE count[b] # 1
    BY <1>3, <2>1, <2>3
  <2> QED
    BY <2>2, <2>3
<1>13. wait_list' \in Seq(Tasks)
  BY <1>3, FrontSeq DEF CacheInv, TypeOK
<1>14. TypeOK' /\ HistoryTypeOK'
  <2>1. count' \in [Buffers -> 0 .. Cardinality(Tasks)]
    BY <1>2, <1>10 DEF CacheInv, TypeOK
  <2>2. TypeOK'
    BY <1>2, <1>8, <1>12, <1>13, <2>1 DEF CacheInv, TypeOK
  <2>3. HistoryTypeOK'
    BY <1>3 DEF CacheInv, HistoryTypeOK
  <2> QED
    BY <2>2, <2>3
<1>15. RefCountExact'
  <2>1. ToSet(free_list') = {c \in Buffers : count'[c] = 0 /\ block'[c] # NoBlock}
    <3>1. /\ ToSet(free_list) = {c \in Buffers : count[c] = 0 /\ block[c] # NoBlock}
          /\ block' = block /\ block[b] # NoBlock
      BY <1>1, <1>7, CacheAssumption DEF CacheInv, RefCountExact
    <3>2. /\ \A c \in Buffers : c # b => count'[c] = count[c]
          /\ count'[b] = 0 <=> count[b] = 1
          /\ count[b] # 0
      <4>1. count[b] \in Int /\ count[b] # 0
        BY <1>1, <1>7, CountFacts DEF CacheInv, TypeOK
      <4> QED
        BY <1>1, <1>2, <4>1 DEF CacheInv, TypeOK
    <3> QED
      BY <1>1, <1>12, <3>1, <3>2
  <2> QED
    BY <1>9, <1>12, <2>1 DEF RefCountExact, Holders
<1>16. Held'
  BY <1>1, <1>2 DEF CacheInv, TypeOK, Held
<1>17. Hashed'
  BY DEF CacheInv, Hashed
<1>18. Released'
  <2>1. \A c \in Buffers : c # b => count'[c] = count[c]
    BY <1>2 DEF CacheInv, TypeOK
  <2> QED
    BY <1>5, <2>1 DEF CacheInv, Released
<1>19. LockedReading'
  BY <1>1, <1>2, <1>7, CacheAssumption DEF CacheInv, TypeOK, LockedReading, Buffers, NoBuffer
<1>20. ValidExact'
  <2>1. \A u \in Tasks : pc[u] \in Loaded \cup {"reading"} => buf[u] \in Buffers
    BY CountFacts DEF Loaded
  <2> QED
    BY <1>1, <1>2, <1>4, <2>1 DEF CacheInv, TypeOK, ValidExact, Loaded
<1>21. OneBufferPerBlock'
  BY <1>1, <1>2 DEF CacheInv, TypeOK, OneBufferPerBlock
<1>22. NoDirtyReuse'
  BY <1>3 DEF NoDirtyReuse
<1>23. Coherent'
  <2>1. ASSUME NEW c \in Buffers, valid'[c], block[c] \in Blocks \ raced
        PROVE  /\ data[c] = latest[block[c]]
               /\ ~ dirty'[c] => disk[block[c]] = latest[block[c]]
    <3>1. /\ data[c] = latest[block[c]]
          /\ ~ dirty[c] => disk[block[c]] = latest[block[c]]
      BY <1>4, <2>1 DEF CacheInv, Coherent
    <3> QED
      BY <1>5, <1>6, <1>7, <2>1, <3>1
  <2>2. ASSUME NEW j \in Blocks \ raced, \A c \in Buffers : block[c] = j => ~ valid'[c]
        PROVE  disk[j] = latest[j]
    BY <1>4, <2>2 DEF CacheInv, Coherent
  <2>3. \A u \in Tasks : pc'[u] \in Written => pc[u] \in Written /\ buf'[u] = buf[u]
    BY <1>1, <1>2 DEF CacheInv, TypeOK, Written
  <2> QED
    BY <2>1, <2>2, <2>3 DEF CacheInv, Coherent
<1> QED
  BY <1>14, <1>15, <1>16, <1>17, <1>18, <1>19, <1>20, <1>21, <1>22, <1>23 DEF CacheInv

(* getblk finds the block in the hash table: one more reference, and the   *)
(* buffer is not free any more.                                            *)
LEMMA HitLemma ==
    ASSUME CacheInv, NEW t \in Tasks, NEW k \in Blocks, pc[t] = "out",
           NEW b \in Buffers, block[b] = k, get_from_hash_table(t, b),
           want' = [want EXCEPT ![t] = k], UNCHANGED <<disk, latest, raced>>
    PROVE  CacheInv'
<1>1. /\ count' = [count EXCEPT ![b] = @ + 1]
      /\ free_list' = RemoveFirst(free_list, b)
      /\ buf' = [buf EXCEPT ![t] = b]
      /\ pc' = [pc EXCEPT ![t] = "got"]
      /\ UNCHANGED <<block, dirty, valid, data, lock, buffer_count, wait_list, panicked>>
  BY DEF get_from_hash_table, Goto
<1>2. buf \in [Tasks -> Buffers \cup {NoBuffer}] /\ buf[t] = NoBuffer /\ b # NoBuffer
  BY CacheAssumption DEF CacheInv, TypeOK, Held, Buffers, NoBuffer
<1>3. \A c \in Buffers : count'[c] = Cardinality(Holders(buf', c))
  <2>1. \A c \in Buffers : Cardinality(Holders([buf EXCEPT ![t] = b], c)) =
            IF c = b THEN Cardinality(Holders(buf, c)) + 1 ELSE Cardinality(Holders(buf, c))
    BY ONLY <1>2, TakeReference, t \in Tasks, b \in Buffers
  <2>2. \A c \in Buffers : count[c] = Cardinality(Holders(buf, c))
    BY CountFacts
  <2> QED
    BY <1>1, <2>1, <2>2 DEF CacheInv, TypeOK
<1>4. \A c \in Buffers : count'[c] \in 0 .. Cardinality(Tasks)
  BY <1>3, HoldersBound
<1>5. /\ free_list' \in Seq(Buffers)
      /\ IsInjective(free_list')
      /\ ToSet(free_list') = ToSet(free_list) \ {b}
  BY <1>1, RemoveFirstSet DEF CacheInv, TypeOK, RefCountExact
<1>6. TypeOK' /\ HistoryTypeOK'
  <2>1. count' \in [Buffers -> 0 .. Cardinality(Tasks)]
    BY <1>1, <1>4 DEF CacheInv, TypeOK
  <2> QED
    BY <1>1, <1>5, <2>1 DEF CacheInv, TypeOK, HistoryTypeOK
<1>7. count[b] >= 0 /\ count'[b] = count[b] + 1 /\ \A c \in Buffers : c # b => count'[c] = count[c]
  BY <1>1 DEF CacheInv, TypeOK
<1>8. RefCountExact'
  <2>1. ToSet(free_list') = {c \in Buffers : count'[c] = 0 /\ block'[c] # NoBlock}
    <3>1. ToSet(free_list) = {c \in Buffers : count[c] = 0 /\ block[c] # NoBlock}
      BY DEF CacheInv, RefCountExact
    <3>2. count'[b] # 0
      BY <1>7 DEF CacheInv, TypeOK
    <3> QED
      BY <1>1, <1>5, <1>7, <3>1, <3>2
  <2> QED
    BY <1>3, <1>5, <2>1 DEF RefCountExact, Holders
<1>9. Held'
  BY <1>1, <1>2 DEF CacheInv, TypeOK, Held
<1>10. Hashed' /\ NoDirtyReuse'
  BY <1>1 DEF CacheInv, Hashed, NoDirtyReuse
<1>11. Released'
  <2>1. count'[b] # 0
    BY <1>7 DEF CacheInv, TypeOK
  <2> QED
    BY <1>1, <1>7, <2>1 DEF CacheInv, Released
<1>12. LockedReading'
  BY <1>1 DEF CacheInv, TypeOK, LockedReading
<1>13. ValidExact'
  BY <1>1 DEF CacheInv, TypeOK, ValidExact, Loaded
<1>14. OneBufferPerBlock'
  BY <1>1 DEF CacheInv, TypeOK, OneBufferPerBlock
<1>15. Coherent'
  <2>1. \A u \in Tasks : pc'[u] \in Written => pc[u] \in Written /\ buf'[u] = buf[u]
    BY <1>1 DEF CacheInv, TypeOK, Written
  <2> QED
    BY <1>1, <2>1 DEF CacheInv, Coherent
<1> QED
  BY <1>6, <1>8, <1>9, <1>10, <1>11, <1>12, <1>13, <1>14, <1>15 DEF CacheInv

(* getblk gives a buffer without references to a block that has none: a    *)
(* new one, or the last of the free list.  The old block of the buffer is  *)
(* on the disk, because the buffer is clean.                               *)
LEMMA RehashLemma ==
    ASSUME CacheInv, NEW t \in Tasks, NEW k \in Blocks, pc[t] = "out", panicked = "no",
           {b \in Buffers : block[b] = k} = {},
           want' = [want EXCEPT ![t] = k], UNCHANGED <<disk, latest, raced>>,
           NEW b, get_free_buffer(t, b, k),
           \/ /\ buffer_count < NBuffers /\ b = buffer_count + 1
              /\ buffer_count' = buffer_count + 1 /\ free_list' = free_list
           \/ /\ buffer_count = NBuffers /\ free_list # <<>> /\ b = Last(free_list)
              /\ free_list' = Front(free_list) /\ buffer_count' = buffer_count
    PROVE  CacheInv'
<1>1. /\ count' = [count EXCEPT ![b] = 1]
      /\ block' = [block EXCEPT ![b] = k]
      /\ valid' = [valid EXCEPT ![b] = FALSE]
      /\ buf' = [buf EXCEPT ![t] = b]
      /\ pc' = [pc EXCEPT ![t] = "got"]
      /\ UNCHANGED <<dirty, data, lock, wait_list>>
  BY DEF get_free_buffer, Goto
<1>2. /\ b \in Buffers /\ buffer_count' \in 0 .. NBuffers /\ b <= buffer_count'
      /\ \A c \in Buffers : c # b => (c > buffer_count' <=> c > buffer_count)
      /\ count[b] = 0
      /\ free_list' \in Seq(Buffers)
      /\ IsInjective(free_list')
      /\ ToSet(free_list') = ToSet(free_list) \ {b}
  <2>1. /\ free_list \in Seq(Buffers) /\ IsInjective(free_list)
        /\ ToSet(free_list) = {c \in Buffers : count[c] = 0 /\ block[c] # NoBlock}
        /\ buffer_count \in 0 .. NBuffers /\ NBuffers \in Nat
    BY CacheAssumption DEF CacheInv, TypeOK, RefCountExact
  <2>2. CASE buffer_count < NBuffers
    <3>1. /\ b = buffer_count + 1
          /\ buffer_count' = buffer_count + 1 /\ free_list' = free_list
      BY <2>1, <2>2
    <3>2. b \in Buffers /\ b > buffer_count
      BY <2>1, <2>2, <3>1 DEF Buffers
    <3>3. block[b] = NoBlock
      BY <3>2 DEF CacheInv, Hashed
    <3>4. \A u \in Tasks : buf[u] # b
      <4> SUFFICES ASSUME NEW u \in Tasks, buf[u] = b PROVE FALSE
        OBVIOUS
      <4>1. buf[u] # NoBuffer
        BY <3>2 DEF Buffers, NoBuffer
      <4>2. pc[u] \notin {"out", "waitbuf"}
        BY <4>1 DEF CacheInv, Held
      <4> QED
        BY <3>3, <4>2, CountFacts, CacheAssumption
    <3>5. count[b] = 0
      BY <3>2, <3>4, CountFacts
    <3>6. b \notin ToSet(free_list)
      BY <2>1, <3>3
    <3>7. \A c \in Buffers : c # b => (c > buffer_count' <=> c > buffer_count)
      BY <2>1, <3>1 DEF Buffers
    <3> QED
      BY <2>1, <2>2, <3>1, <3>2, <3>5, <3>6, <3>7
  <2>3. CASE ~ buffer_count < NBuffers
    <3>1. /\ free_list # <<>> /\ b = Last(free_list)
          /\ free_list' = Front(free_list) /\ buffer_count' = buffer_count
          /\ buffer_count = NBuffers
      BY <2>3
    <3>2. /\ b \in ToSet(free_list)
          /\ free_list' \in Seq(Buffers)
          /\ IsInjective(free_list')
          /\ ToSet(free_list') = ToSet(free_list) \ {b}
      BY ONLY <2>1, <3>1, FrontSet
    <3>3. b \in Buffers /\ b <= buffer_count'
      BY <2>1, <3>1, <3>2 DEF Buffers
    <3> QED
      BY <2>1, <3>1, <3>2, <3>3
  <2> QED
    BY <2>2, <2>3
<1>3. ~ dirty[b] /\ \A u \in Tasks : buf[u] # b
  BY <1>2, CountFacts DEF CacheInv, Released
<1>4. panicked' = "no"
  BY <1>2, <1>3 DEF get_free_buffer
<1>5. buf \in [Tasks -> Buffers \cup {NoBuffer}] /\ buf[t] = NoBuffer /\ b # NoBuffer
  BY <1>2, CacheAssumption DEF CacheInv, TypeOK, Held, Buffers, NoBuffer
<1>6. \A c \in Buffers : count'[c] = Cardinality(Holders(buf', c))
  <2>1. \A c \in Buffers : Cardinality(Holders([buf EXCEPT ![t] = b], c)) =
            IF c = b THEN Cardinality(Holders(buf, c)) + 1 ELSE Cardinality(Holders(buf, c))
    BY ONLY <1>2, <1>5, TakeReference, t \in Tasks
  <2>2. \A c \in Buffers : count[c] = Cardinality(Holders(buf, c))
    BY CountFacts
  <2>3. Cardinality(Holders(buf, b)) = 0
    BY <1>2, <2>2
  <2>4. count'[b] = 1 /\ \A c \in Buffers : c # b => count'[c] = count[c]
    BY <1>1, <1>2 DEF CacheInv, TypeOK
  <2>5. \A c \in Buffers : count'[c] = Cardinality(Holders([buf EXCEPT ![t] = b], c))
    <3> TAKE c \in Buffers
    <3>1. CASE c = b
      <4>1. Cardinality(Holders([buf EXCEPT ![t] = b], b)) = Cardinality(Holders(buf, b)) + 1
        BY ONLY <1>2, <2>1
      <4>2. Cardinality(Holders([buf EXCEPT ![t] = b], b)) = 1
        BY ONLY <2>3, <4>1
      <4> QED
        BY ONLY <2>4, <3>1, <4>2
    <3>2. CASE c # b
      BY <2>1, <2>2, <2>4, <3>2
    <3> QED
      BY <3>1, <3>2
  <2> QED
    BY ONLY <1>1, <2>5
<1>7. \A c \in Buffers : count'[c] \in 0 .. Cardinality(Tasks)
  BY <1>6, HoldersBound
<1>8. TypeOK' /\ HistoryTypeOK'
  <2>1. count' \in [Buffers -> 0 .. Cardinality(Tasks)]
    BY <1>1, <1>7 DEF CacheInv, TypeOK
  <2> QED
    BY <1>1, <1>2, <1>4, <2>1 DEF CacheInv, TypeOK, HistoryTypeOK
<1>9. /\ count'[b] = 1 /\ block'[b] = k /\ ~ valid'[b] /\ k # NoBlock
      /\ \A c \in Buffers : c # b => /\ count'[c] = count[c] /\ block'[c] = block[c]
                                     /\ valid'[c] = valid[c]
  BY <1>1, <1>2, CacheAssumption DEF CacheInv, TypeOK
<1>10. RefCountExact'
  <2>1. ToSet(free_list') = {c \in Buffers : count'[c] = 0 /\ block'[c] # NoBlock}
    <3>1. ToSet(free_list) = {c \in Buffers : count[c] = 0 /\ block[c] # NoBlock}
      BY DEF CacheInv, RefCountExact
    <3> QED
      BY <1>2, <1>9, <3>1
  <2> QED
    BY <1>2, <1>6, <2>1 DEF RefCountExact, Holders
<1>11. Held'
  BY <1>1, <1>5 DEF CacheInv, TypeOK, Held
<1>12. Hashed'
  <2>1. ASSUME NEW c \in Buffers PROVE block'[c] = NoBlock <=> c > buffer_count'
    <3>1. CASE c = b
      BY <1>2, <1>9, <3>1 DEF Buffers
    <3>2. CASE c # b
      BY <1>2, <1>9, <3>2 DEF CacheInv, Hashed
    <3> QED
      BY <3>1, <3>2
  <2> QED
    BY <2>1 DEF Hashed
<1>13. NoDirtyReuse'
  BY <1>4 DEF NoDirtyReuse
<1>14. Released'
  BY <1>1, <1>3, <1>9 DEF CacheInv, Released
<1>15. \A u \in Tasks : u # t => /\ pc'[u] = pc[u] /\ buf'[u] = buf[u] /\ want'[u] = want[u]
                                 /\ buf[u] # b
  BY <1>1, <1>3 DEF CacheInv, TypeOK
<1>16. pc'[t] = "got" /\ buf'[t] = b /\ want'[t] = k
  BY <1>1 DEF CacheInv, TypeOK
<1>17. LockedReading'
  BY <1>1, <1>15, <1>16 DEF CacheInv, LockedReading
<1>18. ValidExact'
  <2>1. \A u \in Tasks : pc[u] \in Loaded \cup {"reading"} => buf[u] \in Buffers
    BY CountFacts DEF Loaded
  <2> QED
    BY <1>9, <1>15, <1>16, <2>1 DEF CacheInv, ValidExact, Loaded
<1>19. OneBufferPerBlock'
  <2>1. ASSUME NEW c \in Buffers, NEW d \in Buffers, block'[c] = block'[d], block'[c] # NoBlock
        PROVE  c = d
    BY <1>9, <2>1 DEF CacheInv, OneBufferPerBlock
  <2>2. ASSUME NEW u \in Tasks, buf'[u] # NoBuffer PROVE block'[buf'[u]] = want'[u]
    <3>1. CASE u = t
      BY <1>9, <1>16, <3>1
    <3>2. CASE u # t
      <4>1. buf[u] # NoBuffer /\ buf[u] \in Buffers
        BY <1>15, <2>2, <3>2 DEF CacheInv, TypeOK
      <4> QED
        BY <1>9, <1>15, <3>2, <4>1 DEF CacheInv, OneBufferPerBlock
    <3> QED
      BY <3>1, <3>2
  <2> QED
    BY <2>1, <2>2 DEF OneBufferPerBlock
<1>20. Coherent'
  <2>1. ASSUME NEW c \in Buffers, valid'[c], block'[c] \in Blocks \ raced
        PROVE  /\ data[c] = latest[block'[c]]
               /\ ~ dirty[c] => disk[block'[c]] = latest[block'[c]]
    BY <1>9, <2>1 DEF CacheInv, Coherent
  <2>2. ASSUME NEW j \in Blocks \ raced, \A c \in Buffers : block'[c] = j => ~ valid'[c]
        PROVE  disk[j] = latest[j]
    <3>1. CASE block[b] = j /\ valid[b]
      BY <1>2, <1>3, <3>1 DEF CacheInv, Coherent
    <3>2. CASE ~ (block[b] = j /\ valid[b])
      <4>1. \A c \in Buffers : block[c] = j => ~ valid[c]
        BY <1>9, <2>2, <3>2
      <4> QED
        BY <4>1 DEF CacheInv, Coherent
    <3> QED
      BY <3>1, <3>2
  <2>3. ASSUME NEW u \in Tasks, pc'[u] \in Written, block'[buf'[u]] \in Blocks \ raced
        PROVE  disk[block'[buf'[u]]] = data[buf'[u]]
    <3>1. u # t
      BY <1>16, <2>3 DEF Written
    <3>2. pc[u] \in Written /\ buf[u] \in Buffers /\ buf'[u] = buf[u] /\ buf[u] # b
      BY <1>15, <2>3, <3>1, CountFacts DEF Written
    <3> QED
      BY <1>9, <2>3, <3>2 DEF CacheInv, Coherent
  <2> QED
    BY <1>1, <2>1, <2>2, <2>3 DEF Coherent
<1> QED
  BY <1>8, <1>10, <1>11, <1>12, <1>13, <1>14, <1>17, <1>18, <1>19, <1>20 DEF CacheInv

(* No buffer is left: the task waits, with no buffer.                      *)
LEMMA WaitLemma ==
    ASSUME CacheInv, NEW t \in Tasks, NEW k \in Blocks, pc[t] = "out",
           want' = [want EXCEPT ![t] = k], pc' = [pc EXCEPT ![t] = "waitbuf"],
           wait_list' = <<t>> \o wait_list,
           UNCHANGED <<bufVars, buf, panicked, disk, latest, raced>>
    PROVE  CacheInv'
<1>1. UNCHANGED <<block, count, dirty, valid, data, lock, buffer_count, free_list>>
  BY DEF bufVars
<1>2. wait_list' \in Seq(Tasks)
  BY PushSet DEF CacheInv, TypeOK
<1>3. buf[t] = NoBuffer
  BY DEF CacheInv, Held
<1>4. TypeOK' /\ HistoryTypeOK'
  BY <1>1, <1>2 DEF CacheInv, TypeOK, HistoryTypeOK
<1>5. Held' /\ LockedReading' /\ ValidExact'
  BY <1>1 DEF CacheInv, TypeOK, Held, LockedReading, ValidExact, Loaded
<1>6. Hashed' /\ Released' /\ RefCountExact' /\ NoDirtyReuse'
  BY <1>1 DEF CacheInv, Hashed, Released, RefCountExact, NoDirtyReuse
<1>7. OneBufferPerBlock'
  BY <1>1, <1>3 DEF CacheInv, TypeOK, OneBufferPerBlock
<1>8. Coherent'
  <2>1. \A u \in Tasks : pc'[u] \in Written => pc[u] \in Written
    BY DEF CacheInv, TypeOK, Written
  <2> QED
    BY <1>1, <2>1 DEF CacheInv, Coherent
<1> QED
  BY <1>4, <1>5, <1>6, <1>7, <1>8 DEF CacheInv

(* getblk: a hit, a miss with a buffer to take, or a wait.                 *)
LEMMA GetblkLemma ==
    ASSUME CacheInv, NEW t \in Tasks, NEW k \in Blocks, getblk(t, k)
    PROVE  CacheInv'
<1>1. /\ pc[t] = "out" /\ panicked = "no" /\ want' = [want EXCEPT ![t] = k]
      /\ UNCHANGED <<disk, latest, raced>>
  BY DEF getblk, At
<1>2. CASE \E b \in Buffers : block[b] = k /\ get_from_hash_table(t, b)
  BY <1>1, <1>2, HitLemma
<1>3. CASE {b \in Buffers : block[b] = k} = {} /\ Obtain(t, k)
  <2>1. CASE /\ buffer_count < NBuffers
             /\ buffer_count' = buffer_count + 1
             /\ get_free_buffer(t, buffer_count + 1, k)
             /\ free_list' = free_list
    BY <1>1, <1>3, <2>1, RehashLemma
  <2>2. CASE /\ buffer_count = NBuffers /\ free_list # <<>>
             /\ free_list' = Front(free_list)
             /\ get_free_buffer(t, Last(free_list), k)
             /\ buffer_count' = buffer_count
    BY <1>1, <1>3, <2>2, RehashLemma
  <2>3. CASE /\ wait_list' = <<t>> \o wait_list
             /\ pc' = [pc EXCEPT ![t] = "waitbuf"]
             /\ UNCHANGED <<bufVars, buf, panicked>>
    <3>1. UNCHANGED <<bufVars, buf, panicked, disk, latest, raced>>
      BY <1>1, <2>3
    <3> QED
      BY <1>1, <2>3, <3>1, WaitLemma
  <2> QED
    BY <1>3, <2>1, <2>2, <2>3 DEF Obtain, Goto
<1> QED
  BY <1>2, <1>3 DEF getblk

(* brelse: a dirty buffer is written first, a clean one is let go.         *)
LEMMA BrelseLemma ==
    ASSUME CacheInv, NEW t \in Tasks, brelse(t)
    PROVE  CacheInv'
<1>1. /\ pc[t] = "using" /\ panicked = "no"
      /\ UNCHANGED <<block, dirty, valid, data, lock, buffer_count, disk, latest, raced>>
  BY DEF brelse, At
<1>2. CASE /\ pc' = [pc EXCEPT ![t] = "relse"]
           /\ UNCHANGED <<count, buf, want, free_list, wait_list, panicked>>
  <2>1. UNCHANGED <<bufVars, wait_list, disk, want, buf, latest, raced, panicked>>
    BY <1>1, <1>2 DEF bufVars
  <2> QED
    BY <1>1, <1>2, <2>1, StartWriteLemma
<1>3. CASE ~ dirty[buf[t]] /\ release(t)
  BY <1>1, <1>3, ReleaseLemma
<1> QED
  BY <1>2, <1>3 DEF brelse, Goto

-----------------------------------------------------------------------------
(* The cache begins in its invariant.                                      *)
LEMMA CacheInit == Init => CacheInv
<1> SUFFICES ASSUME Init PROVE CacheInv
  OBVIOUS
<1>1. TypeOK /\ HistoryTypeOK
  <2>1. Cardinality(Tasks) \in Nat
    BY CacheAssumption, FS_CardinalityType
  <2> QED
    BY <2>1, CacheAssumption DEF Init, TypeOK, HistoryTypeOK, NoBuffer
<1>2. Held /\ Released /\ ValidExact /\ Coherent /\ NoDirtyReuse
  BY CacheAssumption DEF Init, Held, Released, ValidExact, Coherent, NoDirtyReuse, Loaded, Written
<1>3. LockedReading
  BY CacheAssumption DEF Init, LockedReading
<1>4. Hashed
  BY CacheAssumption DEF Init, Hashed, Buffers
<1>5. OneBufferPerBlock
  BY DEF Init, OneBufferPerBlock, NoBuffer
<1>6. RefCountExact
  <2>1. ASSUME NEW b \in Buffers PROVE count[b] = Cardinality({t \in Tasks : buf[t] = b})
    <3>1. {t \in Tasks : buf[t] = b} = {}
      BY CacheAssumption DEF Init, Buffers, NoBuffer
    <3> QED
      BY <3>1, FS_EmptySet DEF Init
  <2>2. IsInjective(free_list) /\ ToSet(free_list) = {}
    BY DEF Init, IsInjective, ToSet
  <2>3. {b \in Buffers : count[b] = 0 /\ block[b] # NoBlock} = {}
    BY DEF Init
  <2> QED
    BY <2>1, <2>2, <2>3 DEF RefCountExact
<1> QED
  BY <1>1, <1>2, <1>3, <1>4, <1>5, <1>6 DEF CacheInv

(* The inductive invariant holds of every state of the cache.              *)
LEMMA CacheInvariant == Spec => []CacheInv
<1>1. Init => CacheInv
  BY CacheInit
<1>2. CacheInv /\ [Next]_vars => CacheInv'
  <2> SUFFICES ASSUME CacheInv, [Next]_vars PROVE CacheInv'
    OBVIOUS
  <2>1. ASSUME NEW t \in Tasks, NEW k \in Blocks, getblk(t, k) PROVE CacheInv'
    BY <2>1, GetblkLemma
  <2>2. ASSUME NEW t \in Tasks, bread(t) PROVE CacheInv'
    BY <2>2, BreadLemma
  <2>3. ASSUME NEW t \in Tasks, read_done(t) PROVE CacheInv'
    BY <2>3, ReadDoneLemma
  <2>4. ASSUME NEW t \in Tasks, modify(t) PROVE CacheInv'
    BY <2>4, ModifyLemma
  <2>5. ASSUME NEW t \in Tasks, bwrite(t) PROVE CacheInv'
    BY <2>5, StartWriteLemma DEF bwrite, At, Goto
  <2>6. ASSUME NEW t \in Tasks, disk_write(t) PROVE CacheInv'
    BY <2>6, DiskWriteLemma
  <2>7. ASSUME NEW t \in Tasks, write_done(t) PROVE CacheInv'
    BY <2>7, WriteDoneLemma
  <2>8. ASSUME NEW t \in Tasks, brelse(t) PROVE CacheInv'
    BY <2>8, BrelseLemma
  <2>9. ASSUME NEW t \in Tasks, brelse_done(t) PROVE CacheInv'
    BY <2>9, ReleaseLemma DEF brelse_done, At
  <2>10. CASE UNCHANGED vars
    <3>1. UNCHANGED <<block, count, dirty, valid, data, lock, buffer_count, free_list, wait_list,
                      disk, pc, want, buf, latest, raced, panicked>>
      BY <2>10 DEF vars, bufVars
    <3> QED
      BY <3>1 DEF CacheInv, TypeOK, HistoryTypeOK, Held, Hashed, Released, LockedReading,
                  ValidExact, Coherent, RefCountExact, OneBufferPerBlock, NoDirtyReuse
  <2> QED
    BY <2>1, <2>2, <2>3, <2>4, <2>5, <2>6, <2>7, <2>8, <2>9, <2>10 DEF Next
<1> QED
  BY <1>1, <1>2, PTL DEF Spec

(* getblk, bread, bwrite and brelse keep count of the references to every  *)
(* buffer, a buffer is on the free list exactly when nobody refers to it,  *)
(* a block has one buffer, and a buffer is given to another block only     *)
(* when it is clean and unused: for any number of tasks and buffers.       *)
THEOREM CacheReferences == Spec => [](TypeOK /\ RefCountExact /\ OneBufferPerBlock /\ NoDirtyReuse)
<1>1. CacheInv => TypeOK /\ RefCountExact /\ OneBufferPerBlock /\ NoDirtyReuse
  BY DEF CacheInv
<1> QED
  BY <1>1, CacheInvariant, PTL

(* A task that uses a block after bread sees the last version that any     *)
(* task gave it, through every eviction and reload, unless the block was   *)
(* changed while it was written to the disk.                               *)
THEOREM CacheReadsLatest == Spec => []ReadsLatest
<1>1. CacheInv => ReadsLatest
  <2> SUFFICES ASSUME CacheInv, NEW t \in Tasks, pc[t] = "using", want[t] \notin raced
               PROVE  data[buf[t]] = latest[want[t]]
    BY DEF ReadsLatest
  <2>1. buf[t] \in Buffers /\ block[buf[t]] = want[t] /\ want[t] \in Blocks
    BY CountFacts
  <2>2. valid[buf[t]]
    BY DEF CacheInv, ValidExact, Loaded
  <2> QED
    BY <2>1, <2>2 DEF CacheInv, Coherent
<1> QED
  BY <1>1, CacheInvariant, PTL
=============================================================================
