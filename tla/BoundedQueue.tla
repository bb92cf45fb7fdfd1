---------------------------- MODULE BoundedQueue ----------------------------
(***************************************************************************)
(* What lib/fifo.c promises its users (keyboard, serial line, pipes): a    *)
(* queue of at most Capacity bytes that forgets its oldest byte rather     *)
(* than refuse a new one.                                                  *)
(***************************************************************************)
EXTENDS Integers, Sequences

CONSTANTS Capacity, Bytes, NoByte

VARIABLES queue,    \* the bytes stored, oldest first
          got       \* the byte returned last

Init == queue = <<>> /\ got = NoByte

Put(b) == /\ queue' = IF Len(queue) = Capacity THEN Append(Tail(queue), b)
                      ELSE Append(queue, b)
          /\ got' = got

Get == /\ queue # <<>>
       /\ got' = Head(queue)
       /\ queue' = Tail(queue)

Next == Get \/ \E b \in Bytes : Put(b)

Spec == Init /\ [][Next]_<<queue, got>>
=============================================================================
