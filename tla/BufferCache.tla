---------------------------- MODULE BufferCache ----------------------------
(***************************************************************************)
(* The block buffer cache, kernel/buffer.c: getblk, bread, bwrite and      *)
(* brelse over a pool of buffers with a hash table, a free list in LRU     *)
(* order and a list of tasks that wait for a buffer.  One device; a block  *)
(* holds a version number, the version of its last write.                  *)
(*                                                                         *)
(* device_request takes time: a task gives the CPU away there, between the *)
(* moment the data goes to or comes from the disk and the moment it acts   *)
(* on the result.  Every other step is atomic.  bf->lock is the lock of    *)
(* Mutex.tla, reduced to its holder.                                       *)
(***************************************************************************)
EXTENDS Integers, FiniteSets, Sequences, SequencesExt

CONSTANTS Tasks,          \* tasks that use the file system
          Blocks,         \* block numbers
          NBuffers,       \* buffers that fit in the buffer memory
          MaxWrites,      \* bound on the modifications made
          NoTask, NoBlock \* NULL, EOF

Buffers == 1 .. NBuffers
NoBuffer == 0

ASSUME CacheAssumption == /\ IsFiniteSet(Tasks)
                          /\ NBuffers \in Nat \ {0} /\ MaxWrites \in Nat
                          /\ NoTask \notin Tasks /\ NoBlock \notin Blocks

VARIABLES block, count, dirty, valid, data,   \* the fields of a buffer_t
          lock,           \* holder of bf->lock
          buffer_count,   \* buffers taken from the buffer memory so far
          free_list,      \* released buffers, most recent first
          wait_list,      \* tasks waiting for a buffer, most recent first
          disk,           \* the contents of the device
          pc,             \* where a task is
          want, buf,      \* the block it asked for, the buffer it holds
          latest,         \* history: the last version written to a block
          raced,          \* history: blocks changed while being written to the disk
          panicked        \* "no", or which assertion has failed

bufVars == <<block, count, dirty, valid, data, lock, buffer_count, free_list>>
vars == <<bufVars, wait_list, disk, pc, want, buf, latest, raced, panicked>>

Init ==
    /\ block = [b \in Buffers |-> NoBlock]
    /\ count = [b \in Buffers |-> 0]
    /\ dirty = [b \in Buffers |-> FALSE]
    /\ valid = [b \in Buffers |-> FALSE]
    /\ data = [b \in Buffers |-> 0]
    /\ lock = [b \in Buffers |-> NoTask]
    /\ buffer_count = 0
    /\ free_list = <<>>
    /\ wait_list = <<>>
    /\ disk = [k \in Blocks |-> 0]
    /\ pc = [t \in Tasks |-> "out"]
    /\ want = [t \in Tasks |-> NoBlock]
    /\ buf = [t \in Tasks |-> NoBuffer]
    /\ latest = [k \in Blocks |-> 0]
    /\ raced = {}
    /\ panicked = "no"

At(t, where) == pc[t] = where /\ panicked = "no"
Goto(t, where) == pc' = [pc EXCEPT ![t] = where]

-----------------------------------------------------------------------------
get_from_hash_table_still_free(t, b) ==
    /\ count' = [count EXCEPT ![b] = @ + 1]
    /\ buf' = [buf EXCEPT ![t] = b]
    /\ Goto(t, "got")
    /\ UNCHANGED <<block, dirty, valid, data, lock, buffer_count, free_list, wait_list, panicked>>

\* getblk on a hit: leave the free list, take a reference.
get_from_hash_table(t, b) ==
    /\ count' = [count EXCEPT ![b] = @ + 1]
    /\ free_list' = RemoveFirst(free_list, b)
    /\ buf' = [buf EXCEPT ![t] = b]
    /\ Goto(t, "got")
    /\ UNCHANGED <<block, dirty, valid, data, lock, buffer_count, wait_list, panicked>>

get_free_buffer_still_valid(t, b, k) ==
    /\ count' = [count EXCEPT ![b] = 1]
    /\ block' = [block EXCEPT ![b] = k]
    /\ buf' = [buf EXCEPT ![t] = b]
    /\ Goto(t, "got")
    /\ UNCHANGED <<valid, dirty, data, lock, wait_list, panicked>>

\* getblk on a miss with buffer b: rehash it for the block.
get_free_buffer(t, b, k) ==
    /\ panicked' = IF count[b] # 0 \/ dirty[b] THEN "reuse" ELSE "no"
    /\ count' = [count EXCEPT ![b] = 1]
    /\ block' = [block EXCEPT ![b] = k]
    /\ valid' = [valid EXCEPT ![b] = FALSE]
    /\ buf' = [buf EXCEPT ![t] = b]
    /\ Goto(t, "got")
    /\ UNCHANGED <<dirty, data, lock, wait_list>>

\* The body of get_free_buffer's loop: a new buffer while memory lasts, else
\* the least recently released one, else wait.  (A waiter never comes back:
\* see release.)
Obtain(t, k) ==
    \/ /\ buffer_count < NBuffers
       /\ buffer_count' = buffer_count + 1
       /\ get_free_buffer(t, buffer_count + 1, k)
       /\ UNCHANGED free_list
    \/ /\ buffer_count = NBuffers /\ free_list # <<>>
       /\ free_list' = Front(free_list)
       /\ get_free_buffer(t, Last(free_list), k)
       /\ UNCHANGED buffer_count
    \/ /\ buffer_count = NBuffers /\ free_list = <<>>
       /\ wait_list' = <<t>> \o wait_list
       /\ Goto(t, "waitbuf")
       /\ UNCHANGED <<bufVars, buf, panicked>>

getblk_no_lookup(t, k) ==
    /\ At(t, "out")
    /\ want' = [want EXCEPT ![t] = k]
    /\ Obtain(t, k)
    /\ UNCHANGED <<disk, latest, raced>>

getblk(t, k) ==
    /\ At(t, "out")
    /\ want' = [want EXCEPT ![t] = k]
    /\ LET hits == {b \in Buffers : block[b] = k}
       IN  \/ \E b \in hits : get_from_hash_table(t, b)
           \/ hits = {} /\ Obtain(t, k)
    /\ UNCHANGED <<disk, latest, raced>>

-----------------------------------------------------------------------------
\* bread after getblk: a valid buffer is returned as it is; otherwise one task
\* reads the block under the lock and the others wait and look again.
bread(t) ==
    /\ At(t, "got")
    /\ LET b == buf[t]
       IN  \/ valid[b] /\ Goto(t, "using") /\ UNCHANGED lock
           \/ /\ ~valid[b] /\ lock[b] = NoTask
              /\ lock' = [lock EXCEPT ![b] = t]
              /\ Goto(t, "reading")
    /\ UNCHANGED <<block, count, dirty, valid, data, buffer_count, free_list, wait_list,
                   disk, want, buf, latest, raced, panicked>>

\* The read request completes.
read_done(t) ==
    /\ At(t, "reading")
    /\ LET b == buf[t]
       IN  /\ data' = [data EXCEPT ![b] = disk[block[b]]]
           /\ dirty' = [dirty EXCEPT ![b] = FALSE]
           /\ valid' = [valid EXCEPT ![b] = TRUE]
           /\ lock' = [lock EXCEPT ![b] = NoTask]
    /\ Goto(t, "using")
    /\ UNCHANGED <<block, count, buffer_count, free_list, wait_list, disk, want, buf, latest, raced, panicked>>

\* The file system changes the block in memory and marks it dirty.
modify(t) ==
    /\ At(t, "using")
    /\ LET k == block[buf[t]]
           others == {latest[j] : j \in Blocks}
           top == CHOOSE n \in others : \A m \in others : m <= n
       IN  /\ top < MaxWrites
           /\ latest' = [latest EXCEPT ![k] = top + 1]
           /\ data' = [data EXCEPT ![buf[t]] = top + 1]
    /\ dirty' = [dirty EXCEPT ![buf[t]] = TRUE]
    /\ raced' = IF \E u \in Tasks : pc[u] \in {"flushed", "relsed"} /\ buf[u] = buf[t]
                THEN raced \cup {block[buf[t]]} ELSE raced
    /\ UNCHANGED <<block, count, valid, lock, buffer_count, free_list, wait_list, disk, pc, want,
                   buf, panicked>>

\* bwrite, called to flush a buffer in use or by brelse: nothing to do if it
\* is clean, else wait for the disk.
bwrite(t) == /\ At(t, "using") /\ dirty[buf[t]]
             /\ Goto(t, "flush")
             /\ UNCHANGED <<bufVars, wait_list, disk, want, buf, latest, raced, panicked>>

\* The driver sends the data of the buffer to the disk ...
disk_write(t) ==
    /\ pc[t] \in {"flush", "relse"} /\ panicked = "no"
    /\ disk' = [disk EXCEPT ![block[buf[t]]] = data[buf[t]]]
    /\ Goto(t, IF pc[t] = "flush" THEN "flushed" ELSE "relsed")
    /\ UNCHANGED <<bufVars, wait_list, want, buf, latest, raced, panicked>>

\* ... and when the disk has answered, bwrite marks it clean.
write_done(t) ==
    /\ At(t, "flushed")
    /\ dirty' = [dirty EXCEPT ![buf[t]] = FALSE]
    /\ valid' = [valid EXCEPT ![buf[t]] = TRUE]
    /\ Goto(t, "using")
    /\ UNCHANGED <<block, count, data, lock, buffer_count, free_list, wait_list, disk, want, buf,
                   latest, raced, panicked>>

-----------------------------------------------------------------------------
release_drops_twice(t) ==
    LET b == buf[t]
    IN  /\ count' = [count EXCEPT ![b] = @ - 2]
        /\ buf' = [buf EXCEPT ![t] = NoBuffer]
        /\ want' = [want EXCEPT ![t] = NoBlock]
        /\ Goto(t, "out")
        /\ free_list' = IF count[b] = 2 THEN <<b>> \o free_list ELSE free_list
        /\ UNCHANGED <<wait_list, panicked>>

\* brelse without the write: drop the reference; the last one puts the buffer
\* on the free list and wakes a waiter.  list_popback has already unlinked the
\* task when task_unblock unlinks it, so list_remove's assertion fails.
release(t) ==
    LET b == buf[t]
    IN  /\ count' = [count EXCEPT ![b] = @ - 1]
        /\ buf' = [buf EXCEPT ![t] = NoBuffer]
        /\ want' = [want EXCEPT ![t] = NoBlock]
        /\ Goto(t, "out")
        /\ \/ /\ count[b] > 1
              /\ UNCHANGED <<free_list, wait_list, panicked>>
           \/ /\ count[b] = 1
              /\ free_list' = <<b>> \o free_list
              /\ wait_list' = IF wait_list = <<>> THEN <<>> ELSE Front(wait_list)
              /\ panicked' = IF wait_list = <<>> THEN "no" ELSE "unlink"

brelse_no_write(t) ==
    /\ At(t, "using") /\ release(t)
    /\ UNCHANGED <<block, dirty, valid, data, lock, buffer_count, disk, latest, raced>>

brelse(t) ==
    /\ At(t, "using")
    /\ \/ dirty[buf[t]] /\ Goto(t, "relse") /\ UNCHANGED <<count, buf, want, free_list, wait_list, panicked>>
       \/ ~dirty[buf[t]] /\ release(t)
    /\ UNCHANGED <<block, dirty, valid, data, lock, buffer_count, disk, latest, raced>>

\* brelse goes on when its bwrite is done.
brelse_done(t) ==
    /\ At(t, "relsed")
    /\ dirty' = [dirty EXCEPT ![buf[t]] = FALSE]
    /\ valid' = [valid EXCEPT ![buf[t]] = TRUE]
    /\ release(t)
    /\ UNCHANGED <<block, data, lock, buffer_count, disk, latest, raced>>

Next == \E t \in Tasks : \/ \E k \in Blocks : getblk(t, k)
                         \/ bread(t) \/ read_done(t) \/ modify(t) \/ bwrite(t)
                         \/ disk_write(t) \/ write_done(t) \/ brelse(t) \/ brelse_done(t)

Spec == Init /\ [][Next]_vars

-----------------------------------------------------------------------------
TypeOK ==
    /\ block \in [Buffers -> Blocks \cup {NoBlock}]
    /\ count \in [Buffers -> 0 .. Cardinality(Tasks)]
    /\ dirty \in [Buffers -> BOOLEAN] /\ valid \in [Buffers -> BOOLEAN]
    /\ data \in [Buffers -> 0 .. MaxWrites] /\ disk \in [Blocks -> 0 .. MaxWrites]
    /\ lock \in [Buffers -> Tasks \cup {NoTask}]
    /\ buffer_count \in 0 .. NBuffers
    /\ free_list \in Seq(Buffers) /\ wait_list \in Seq(Tasks)
    /\ buf \in [Tasks -> Buffers \cup {NoBuffer}]
    /\ want \in [Tasks -> Blocks \cup {NoBlock}]
    /\ pc \in [Tasks -> {"out", "waitbuf", "got", "reading", "using", "flush", "flushed",
                         "relse", "relsed"}]

(* Every reference is counted, and a buffer is on the free list exactly    *)
(* when it has been used and nobody refers to it: recycling never takes a  *)
(* buffer from under a task.                                               *)
RefCountExact ==
    /\ \A b \in Buffers : count[b] = Cardinality({t \in Tasks : buf[t] = b})
    /\ IsInjective(free_list)
    /\ ToSet(free_list) = {b \in Buffers : count[b] = 0 /\ block[b] # NoBlock}

(* A block has one buffer, and a task holds the buffer of its block.       *)
OneBufferPerBlock ==
    /\ \A b, c \in Buffers : block[b] = block[c] /\ block[b] # NoBlock => b = c
    /\ \A t \in Tasks : buf[t] # NoBuffer => block[buf[t]] = want[t]

(* Whoever uses a block sees the last version anyone gave it, through      *)
(* every eviction and reload, unless it was changed during a write.        *)
ReadsLatest ==
    \A t \in Tasks : pc[t] = "using" /\ want[t] \notin raced
                        => data[buf[t]] = latest[want[t]]

(* A buffer is given to another block only when nobody refers to it and it *)
(* has been written: the assertions of getblk hold.                        *)
NoDirtyReuse == panicked # "reuse"

(* docs/49: changed data is dirty until it is written back; so a clean     *)
(* buffer always agrees with the disk.                                     *)
ChangesReachDisk ==
    \A b \in Buffers : valid[b] /\ ~dirty[b] => data[b] = disk[block[b]]
=============================================================================
