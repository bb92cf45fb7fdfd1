-------------------------------- MODULE Fifo --------------------------------
(***************************************************************************)
(* The ring buffer of lib/fifo.c: head is where the next byte goes, tail   *)
(* where the oldest one is, one cell stays empty to tell full from empty.  *)
(***************************************************************************)
EXTENDS Integers, Sequences

CONSTANTS Length,   \* fifo->length
          Bytes,    \* the values of a byte
          NoByte    \* nothing has been returned yet

ASSUME FifoAssumption == Length \in Nat \ {0, 1} /\ NoByte \notin Bytes

VARIABLES buf,      \* fifo->buf
          head,     \* fifo->head
          tail,     \* fifo->tail
          got       \* the byte fifo_get returned last

fifoVars == <<buf, head, tail, got>>

Cells == 0 .. Length - 1

fifo_next(pos) == (pos + 1) % Length

fifo_full == fifo_next(head) = tail

fifo_empty == head = tail

fifo_init == head = 0 /\ tail = 0 /\ got = NoByte

\* The memory of a new buffer holds anything.
FifoInit == buf \in [Cells -> Bytes] /\ fifo_init

fifo_get == /\ ~fifo_empty
            /\ got' = buf[tail]
            /\ tail' = fifo_next(tail)
            /\ UNCHANGED <<buf, head>>

fifo_put_no_drop(b) == /\ buf' = [buf EXCEPT ![head] = b]
                       /\ head' = fifo_next(head)
                       /\ UNCHANGED <<tail, got>>

\* One turn of the loop makes room, since one byte is dropped.
fifo_put(b) == /\ tail' = IF fifo_full THEN fifo_next(tail) ELSE tail
               /\ buf' = [buf EXCEPT ![head] = b]
               /\ head' = fifo_next(head)
               /\ UNCHANGED got

FifoNext == fifo_get \/ \E b \in Bytes : fifo_put(b)

FifoSpec == FifoInit /\ [][FifoNext]_fifoVars

-----------------------------------------------------------------------------
RingTypeOK == /\ buf \in [Cells -> Bytes]
              /\ head \in Cells /\ tail \in Cells
              /\ got \in Bytes \cup {NoByte}

\* The number of bytes stored and the bytes themselves, oldest first.
CountOf(h, t) == IF t <= h THEN h - t ELSE h - t + Length

ContentOf(bf, h, t) == [i \in 1 .. CountOf(h, t) |-> bf[(t + i - 1) % Length]]

Content == ContentOf(buf, head, tail)

Q == INSTANCE BoundedQueue WITH Capacity <- Length - 1, queue <- Content

(* The ring buffer is a queue of Length - 1 bytes that drops the oldest    *)
(* one when it is full: no byte is lost, repeated or reordered otherwise,  *)
(* wherever head and tail stand in the ring.                               *)
ImplementsQueue == Q!Spec
=============================================================================
