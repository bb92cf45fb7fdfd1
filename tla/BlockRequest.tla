---------------------------- MODULE BlockRequest ----------------------------
(***************************************************************************)
(* The request queue of a block device, kernel/device.c: device_request,   *)
(* do_request and request_nextreq.  Requests are kept sorted by sector;    *)
(* the task whose request finds the list empty serves it at once, every    *)
(* other one blocks until a finishing task picks it as the next in the     *)
(* current direction of travel (an elevator).                              *)
(*                                                                         *)
(* A task has one request at a time.  do_request waits for the disk, so    *)
(* other tasks enter device_request while one is being served.  A task     *)
(* that is not blocked may take its next step at any time.                 *)
(***************************************************************************)
EXTENDS Integers, FiniteSets, Sequences, SequencesExt

CONSTANTS Requesters,   \* tasks that use the device
          Sectors,      \* start sectors, partition offset included
          MaxRequests,  \* bound on the requests issued
          NoRequest     \* NULL

ASSUME RequestAssumption == /\ Sectors \subseteq Nat
                            /\ MaxRequests \in Nat
                            /\ NoRequest \notin Requesters

VARIABLES list,         \* device->request_list, as the tasks that issued them
          idx,          \* req->idx of a task's request
          direct,       \* device->direct
          stage,        \* where a task is: "none", "queued" (blocked) or "active" (in do_request)
          issued        \* requests issued so far

requestVars == <<list, idx, direct, stage, issued>>

RequestInit == /\ list = <<>>
               /\ idx \in [Requesters -> {0}]
               /\ direct = "UP"
               /\ stage = [t \in Requesters |-> "none"]
               /\ issued = 0

-----------------------------------------------------------------------------
list_insert_sort_append(t, i) == Append(list, t)

\* list_insert_sort by idx: before the first request with a larger one.
list_insert_sort(t, i) ==
    LET larger == {k \in 1 .. Len(list) : idx[list[k]] > i}
        anchor == IF larger = {} THEN Len(list) + 1
                  ELSE CHOOSE k \in larger : \A j \in larger : k <= j
    IN  InsertAt(list, anchor, t)

\* The position in the list of the request of t.
Pos(t) == CHOOSE k \in 1 .. Len(list) : list[k] = t

\* request_nextreq turns round at the end of the list ...
Turned(t) ==
    IF direct = "UP" /\ Pos(t) = Len(list) THEN "DOWN"
    ELSE IF direct = "DOWN" /\ Pos(t) = 1 THEN "UP"
    ELSE direct

request_nextreq_first(t) ==
    LET others == SelectSeq(list, LAMBDA u : u # t)
    IN  IF others = <<>> THEN NoRequest ELSE others[1]

request_nextreq_no_turn(t) ==
    LET k == IF direct = "UP" THEN Pos(t) + 1 ELSE Pos(t) - 1
    IN  IF k \in 1 .. Len(list) THEN list[k] ELSE NoRequest

\* ... and takes the neighbour in that direction, if there is one.
request_nextreq(t) ==
    LET k == IF Turned(t) = "UP" THEN Pos(t) + 1 ELSE Pos(t) - 1
    IN  IF k \in 1 .. Len(list) THEN list[k] ELSE NoRequest

device_request_no_wait(t, i) ==
    /\ stage[t] = "none" /\ issued < MaxRequests
    /\ issued' = issued + 1
    /\ idx' = [idx EXCEPT ![t] = i]
    /\ list' = list_insert_sort(t, i)
    /\ stage' = [stage EXCEPT ![t] = "active"]
    /\ UNCHANGED direct

\* device_request up to do_request: enter the list, wait if it was not empty.
device_request(t, i) ==
    /\ stage[t] = "none" /\ issued < MaxRequests
    /\ issued' = issued + 1
    /\ idx' = [idx EXCEPT ![t] = i]
    /\ list' = list_insert_sort(t, i)
    /\ stage' = [stage EXCEPT ![t] = IF list = <<>> THEN "active" ELSE "queued"]
    /\ UNCHANGED direct

\* do_request returns: choose the successor, leave the list, wake it.
do_request(t) ==
    /\ stage[t] = "active"
    /\ LET next == request_nextreq(t)
       IN  /\ direct' = Turned(t)
           /\ list' = RemoveAt(list, Pos(t))
           /\ stage' = [u \in Requesters |-> IF u = t THEN "none"
                                             ELSE IF u = next THEN "active" ELSE stage[u]]
    /\ UNCHANGED <<idx, issued>>

RequestNext == \E t \in Requesters : do_request(t) \/ \E i \in Sectors : device_request(t, i)

RequestSpec == RequestInit /\ [][RequestNext]_requestVars

\* The disk answers every request and a task that was woken gets the CPU.
Fairness == \A t \in Requesters : WF_requestVars(do_request(t))

FairSpec == RequestSpec /\ Fairness

-----------------------------------------------------------------------------
(* One request is being served whenever the list is not empty, and never   *)
(* two: device_request trusts that whoever found the list non-empty will   *)
(* be woken by the task ahead of it.                                       *)
OneActive ==
    /\ list # <<>> => \E t \in Requesters : stage[t] = "active"
    /\ \A t, u \in Requesters : stage[t] = "active" /\ stage[u] = "active" => t = u

(* The list is sorted and holds each unfinished request once.  A request   *)
(* with no task blocked on it would be dereferenced as NULL when chosen.   *)
ListExact ==
    /\ IsInjective(list)
    /\ ToSet(list) = {t \in Requesters : stage[t] # "none"}
    /\ \A j, k \in 1 .. Len(list) : j < k => idx[list[j]] <= idx[list[k]]

\* A step in which t finishes its request and n is chosen as its successor.
SweepStep ==
    \A t, n \in Requesters :
       stage[t] = "active" /\ stage'[t] = "none" /\ stage[n] = "queued" /\ stage'[n] = "active" =>
          LET between(a, b) == {u \in Requesters \ {n} : /\ stage[u] = "queued"
                                                         /\ a < idx[u] /\ idx[u] < b}
              ahead == {u \in Requesters : stage[u] = "queued" /\
                           IF direct = "UP" THEN idx[u] > idx[t] ELSE idx[u] < idx[t]}
          IN  /\ IF direct' = "UP"
                 THEN idx[n] >= idx[t] /\ between(idx[t], idx[n]) = {}
                 ELSE idx[n] <= idx[t] /\ between(idx[n], idx[t]) = {}
              /\ direct' # direct => ahead = {}

(* The successor is the nearest request in the direction of travel, and    *)
(* the direction changes only when none is left ahead: the head sweeps.    *)
SweepsInOrder == [][SweepStep]_requestVars

(* No request is stranded: once tasks stop issuing new ones, every request *)
(* in the list is served.                                                  *)
EveryRequestServed == \A t \in Requesters : stage[t] # "none" ~> stage[t] = "none"
=============================================================================
