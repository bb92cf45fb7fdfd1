-------------------------------- MODULE Pipe --------------------------------
(***************************************************************************)
(* A pipe, fs/pipe.c: pipe_read and pipe_write over the ring buffer of     *)
(* Fifo.tla with one slot for a waiting reader and one for a waiting       *)
(* writer, under the scheduling contract of Tasks.tla.  A transfer runs    *)
(* byte by byte without giving the CPU away except where it blocks.  The   *)
(* n-th byte written has the value n; 0 is what the page held before.      *)
(***************************************************************************)
EXTENDS Tasks, Fifo, FiniteSets

CONSTANTS Ends,     \* pairs: tasks that inherited the read end, the write end
          Counts,   \* the counts passed to read and write
          MaxBytes, \* bound on the bytes sent
          NoTask    \* NULL

ASSUME PipeAssumption ==
    /\ IsFiniteSet(Tasks)
    /\ \A e \in Ends : e[1] \cup e[2] \subseteq Tasks \ {Idle}
    /\ MaxBytes \in Nat /\ Bytes = 0 .. MaxBytes
    /\ Counts \subseteq Nat \ {0}
    /\ NoTask \notin Tasks

VARIABLES readers,      \* who inherited files[0] of sys_pipe
          writers,      \* who inherited files[1]
          rxwaiter,     \* inode->rxwaiter
          txwaiter,     \* inode->txwaiter
          pc,           \* "user", "read", "write", or "rwait", "wwait" after task_block
          left,         \* bytes a transfer still has to move
          sent,         \* history: bytes written so far
          received,     \* history: the bytes read, in order
          panicked      \* an assertion has failed

ends == <<readers, writers>>
slots == <<rxwaiter, txwaiter>>
vars == <<taskVars, fifoVars, ends, slots, pc, left, sent, received, panicked>>

Init == /\ AllReady
        /\ \E e \in Ends : readers = e[1] /\ writers = e[2]
        /\ fifo_init /\ buf = [c \in Cells |-> 0]
        /\ rxwaiter = NoTask /\ txwaiter = NoTask
        /\ pc = [t \in Tasks |-> "user"]
        /\ left = [t \in Tasks |-> 0]
        /\ sent = 0 /\ received = <<>>
        /\ panicked = FALSE

On(t, where) == t = running /\ pc[t] = where /\ ~panicked

-----------------------------------------------------------------------------
sys_read(t, n) ==
    /\ On(t, "user") /\ t \in readers
    /\ pc' = [pc EXCEPT ![t] = "read"]
    /\ left' = [left EXCEPT ![t] = n]
    /\ UNCHANGED <<taskVars, fifoVars, ends, slots, sent, received, panicked>>

\* Bytes that writes under way still have to send: the task and the n-th last byte.
Unsent == {x \in Tasks \X (1 .. MaxBytes) : pc[x[1]] \in {"write", "wwait"} /\ x[2] <= left[x[1]]}

sys_write(t, n) ==
    /\ On(t, "user") /\ t \in writers /\ sent + Cardinality(Unsent) + n <= MaxBytes
    /\ pc' = [pc EXCEPT ![t] = "write"]
    /\ left' = [left EXCEPT ![t] = n]
    /\ UNCHANGED <<taskVars, fifoVars, ends, slots, sent, received, panicked>>

\* One byte moved: the transfer goes on or returns to the program.
Moved(t, loop) == /\ left' = [left EXCEPT ![t] = @ - 1]
                  /\ pc' = [pc EXCEPT ![t] = IF left[t] = 1 THEN "user" ELSE loop]

Notify_slot_only(w) == UNCHANGED taskVars

\* The other side's waiter, if any, is made READY.
Notify(w) == /\ state' = IF w = NoTask THEN state ELSE Unblock(state, {w})
             /\ UNCHANGED running

Panic == /\ panicked' = TRUE
         /\ UNCHANGED <<taskVars, fifoVars, ends, slots, pc, left, sent, received>>

\* Leave the CPU, named in the slot the caller has just filled.
task_block(t, where) == /\ pc' = [pc EXCEPT ![t] = where]
                        /\ schedule(Suspend(state, t, "BLOCKED"))
                        /\ UNCHANGED <<fifoVars, ends, left, sent, received, panicked>>

\* fifo_get asserts that there is a byte; the reader stores it and wakes the writer.
take(t) ==
    \/ fifo_empty /\ Panic
    \/ /\ fifo_get
       /\ received' = Append(received, got')
       /\ Notify(txwaiter) /\ txwaiter' = NoTask
       /\ Moved(t, "read")
       /\ UNCHANGED <<ends, rxwaiter, sent, panicked>>

\* The loop of pipe_read: block once if the fifo is empty, then take a byte.
pipe_read(t) ==
    \/ /\ On(t, "read") /\ fifo_empty
       /\ \/ rxwaiter # NoTask /\ Panic
          \/ /\ rxwaiter = NoTask /\ rxwaiter' = t
             /\ task_block(t, "rwait")
             /\ UNCHANGED txwaiter
    \/ On(t, "read") /\ ~fifo_empty /\ take(t)
    \/ On(t, "rwait") /\ take(t)

give_keeps_slot(t) ==
    /\ sent' = sent + 1
    /\ fifo_put(sent + 1)
    /\ Notify(rxwaiter)
    /\ Moved(t, "write")
    /\ UNCHANGED <<ends, slots, received, panicked>>

give(t) ==
    /\ sent' = sent + 1
    /\ fifo_put(sent + 1)
    /\ Notify(rxwaiter) /\ rxwaiter' = NoTask
    /\ Moved(t, "write")
    /\ UNCHANGED <<ends, txwaiter, received, panicked>>

pipe_write_no_wait(t) == On(t, "write") /\ give(t)

\* The loop of pipe_write: block once if the fifo is full, then give a byte.
pipe_write(t) ==
    \/ /\ On(t, "write") /\ fifo_full
       /\ \/ txwaiter # NoTask /\ Panic
          \/ /\ txwaiter = NoTask /\ txwaiter' = t
             /\ task_block(t, "wwait")
             /\ UNCHANGED rxwaiter
    \/ On(t, "write") /\ ~fifo_full /\ give(t)
    \/ On(t, "wwait") /\ give(t)

\* A program outside the kernel can lose the CPU at any time.
preempt == /\ pc[running] = "user" /\ ~panicked
           /\ schedule(state)
           /\ UNCHANGED <<fifoVars, ends, slots, pc, left, sent, received, panicked>>

Next == \/ preempt
        \/ \E t \in Tasks : \/ pipe_read(t) \/ pipe_write(t)
                            \/ \E n \in Counts : sys_read(t, n) \/ sys_write(t, n)

Spec == Init /\ [][Next]_vars

-----------------------------------------------------------------------------
\* The use the two slots of the inode are made for.
OneEach == (\A r, s \in readers : r = s) /\ (\A v, w \in writers : v = w)

Seen == received \o Content

(* Between one reader and one writer every byte sent is read once and in   *)
(* order, or is still in the pipe, whatever counts the two use and wherever*)
(* the ring wraps: fifo_put's dropping of old bytes never happens.  However*)
(* many tasks share the pipe, no byte is read twice or overtaken, and none *)
(* that was never written is read.                                         *)
NothingLost ==
    /\ OneEach => Seen = [n \in 1 .. sent |-> n]
    /\ \A i, j \in 1 .. Len(Seen) : Seen[i] > 0 /\ (i < j => Seen[i] < Seen[j])

(* A side blocks only while the other one has something to do: a waiting   *)
(* reader is blocked in its slot with the pipe empty, a waiting writer     *)
(* with the pipe full, so they never wait for each other.                  *)
WaitersJustified ==
    \A t \in Tasks : state[t] = "BLOCKED" =>
        \/ pc[t] = "rwait" /\ rxwaiter = t /\ fifo_empty
        \/ pc[t] = "wwait" /\ txwaiter = t /\ fifo_full

(* pipe.c lines 21 and 43 and fifo.c line 30: between one reader and one   *)
(* writer the waiter's slot is free when a task blocks, and a woken reader *)
(* finds a byte.                                                           *)
AssertionsHold == OneEach => ~panicked
=============================================================================
