------------------------------- MODULE Zones -------------------------------
(***************************************************************************)
(* The contents of inodes on a disk: the zone bitmap, the direct and the   *)
(* indirect blocks of an inode (fs/bmap.c), and what read, write, lseek    *)
(* and truncation do with them (fs/inode.c, fs/file.c).                    *)
(*                                                                         *)
(* A call gives the processor up wherever it waits for the disk: when it   *)
(* has taken or freed a bit of a map (bwrite), and when it reads a block   *)
(* (bread).  A block holds BLOCK_CELLS cells; a cell is a pointer to a     *)
(* zone, a directory entry or a unit of data, and nr is its number or      *)
(* value.  What the buffer cache does is the business of BufferCache: here *)
(* a block has one contents.                                               *)
(***************************************************************************)
EXTENDS Integers, Sequences, FiniteSets, SequencesExt

CONSTANTS Tasks,
          NInodes,          \* inodes of the file system; 1 is the root directory
          NZones, FirstZone,\* its data zones and the first one's number (firstdatazone)
          BLOCK_BITS,       \* bits of one block of a map
          BLOCK_CELLS,      \* BLOCK_SIZE, BLOCK_INDEXES and BLOCK_DENTRIES
          DIRECT_BLOCK,
          Workloads         \* what programs do, see below

Inodes == 1 .. NInodes
Zones == FirstZone .. FirstZone + NZones - 1
Blocks == 1 .. FirstZone + NZones - 1        \* super block, maps and inodes, then the zones
ZoneSlots == 0 .. DIRECT_BLOCK + 1           \* the indices of desc->zone
Blank == "blank"                             \* the name of a cell that never was an entry
Zero == [nr |-> 0, name |-> Blank]
Hole == 0                                    \* what text has where nothing was written

\* A workload.  calls: which calls are made; max: how many all together;
\* paths, flags, lens, values: with which path names, flags of open, lengths
\* and units of data;
\* size: how far a file may grow; shared: may two processes have a file open;
\* disk: what the disk held in every cell before mkfs; beyond: do the programs
\* go on once something is stale.
ASSUME ZonesAssumption ==
    /\ {NInodes, NZones, FirstZone, BLOCK_BITS, DIRECT_BLOCK} \subseteq Nat \ {0}
    /\ BLOCK_CELLS \in Nat /\ BLOCK_CELLS > 1
    /\ Inodes \subseteq Blocks
    /\ \A w \in Workloads : /\ DOMAIN w = {"calls", "max", "paths", "flags", "lens", "values", "size",
                                           "shared", "disk", "beyond"}
                            /\ w.values \subseteq Blocks
                            /\ w.disk \in Blocks \cup {0} /\ w.beyond \in BOOLEAN
                            /\ w.max \in Nat /\ w.lens \subseteq Nat \ {0}
                            /\ w.size <= BLOCK_CELLS * (DIRECT_BLOCK + BLOCK_CELLS + BLOCK_CELLS * BLOCK_CELLS)

VARIABLES zmap, imap,       \* zones and inodes whose bit is set
          desc,             \* inode_desc_t: type (of mode), size, nlinks, zone
          block,            \* the contents of a block; those before the zones are only there
                            \* for pointers that lead astray
          file,             \* the open file of a process: inode, offset, write access; or Closed
          pc,               \* where a process is; User: in its program
          text,             \* history: the data written to an inode since it was made or truncated
          workload, calls,  \* the workload; calls made so far
          halted,           \* "no", or why the kernel has stopped: "full", "assert", "unmapped"
          stale             \* history: an index block or an inode began with pointers that
                            \* its last owner, or the disk's, had left in it

zoneVars == <<zmap, imap, desc, block, file, pc, text, workload, calls, halted, stale>>

User == [at |-> "user"]
Closed == [inode |-> 0, offset |-> 0, write |-> FALSE]

\* What mkfs (devmkfs) leaves on the disk: the bit before the first zone's is
\* taken, the root directory is in the first zone, and the other zones are as
\* they were.  So is the inode table, which is taken to have been blank: with
\* pointers left in it the root itself would begin in a foreign zone.
Dots(self, parent) == [c \in 0 .. BLOCK_CELLS - 1 |->
    CASE c = 0 -> [nr |-> self, name |-> "."] [] c = 1 -> [nr |-> parent, name |-> ".."] [] OTHER -> Zero]

devmkfs ==
    /\ zmap = {FirstZone - 1, FirstZone} /\ imap = {1}
    /\ desc = [n \in Inodes |-> [type |-> IF n = 1 THEN "dir" ELSE "none",
                                 size |-> IF n = 1 THEN 2 ELSE 0,
                                 nlinks |-> IF n = 1 THEN 2 ELSE 0,
                                 zone |-> [k \in ZoneSlots |-> IF n = 1 /\ k = 0 THEN FirstZone ELSE 0]]]
    /\ block = [z \in Blocks |-> IF z = FirstZone THEN Dots(1, 1)
                                ELSE [c \in 0 .. BLOCK_CELLS - 1 |-> [Zero EXCEPT !.nr = workload.disk]]]

ZonesInit == /\ workload \in Workloads /\ calls = 0 /\ halted = "no" /\ stale = FALSE
             /\ devmkfs
             /\ file = [t \in Tasks |-> Closed]
             /\ pc = [t \in Tasks |-> User]
             /\ text = [n \in Inodes |-> << >>]

\* A process makes a call that the workload has.
Calls(t, c) == /\ pc[t] = User /\ halted = "no" /\ c \in workload.calls
               /\ calls < workload.max /\ calls' = calls + 1
               /\ stale => workload.beyond
               /\ UNCHANGED workload

At(t, where) == pc[t].at = where /\ halted = "no" /\ UNCHANGED <<calls, workload>>
Goto(t, frame) == pc' = [pc EXCEPT ![t] = frame]
Panic(why) == halted' = why /\ UNCHANGED <<zmap, imap, desc, block, file, pc, text, stale>>

Lowest(S) == CHOOSE x \in S : \A y \in S : x <= y

-----------------------------------------------------------------------------
\* The index in every array that bmap goes through on its way to block b.
Path(b) ==
    LET one == b - DIRECT_BLOCK
        two == one - BLOCK_CELLS
    IN  IF one < 0 THEN <<b>>
        ELSE IF two < 0 THEN <<DIRECT_BLOCK, one>>
        ELSE <<DIRECT_BLOCK + 1, two \div BLOCK_CELLS, two % BLOCK_CELLS>>

\* bmap without create: the zone at the end of the path, 0 if there is none.
Lookup(n, b) ==
    LET path == Path(b)
        at[i \in 1 .. 3] == IF i = 1 THEN desc[n].zone[path[1]]
                           ELSE IF at[i - 1] = 0 THEN 0 ELSE block[at[i - 1]][path[i]].nr
    IN  at[Len(path)]

\* bmap with create, on behalf of the frame then, which gets the zone.  array
\* is the zone of the array that is looked at, 0 the inode's own.
Bmap(n, b, then) == [at |-> "bmap", inode |-> n, path |-> Path(b), array |-> 0, z |-> 0, then |-> then]

\* The next array, or back to the caller.
Descend(p, z) == IF Len(p.path) = 1 THEN [p.then EXCEPT !.z = z]
                 ELSE [p EXCEPT !.at = "bmap", !.path = Tail(@), !.array = z, !.z = 0]

\* A plausible slip: the clear bit is found and not set.
balloc_unmarked(t) ==
    /\ Goto(t, [pc[t] EXCEPT !.at = "balloc", !.z = Lowest(Zones \ zmap)])
    /\ UNCHANGED <<zmap, imap, desc, block, file, text, halted, stale>>

\* balloc: the first clear bit; the map's block is written before it returns.
balloc(t) ==
    LET free == Zones \ zmap
    IN  \/ free = {} /\ Panic("full")
        \/ /\ free # {}
           /\ zmap' = zmap \cup {Lowest(free)}
           /\ Goto(t, [pc[t] EXCEPT !.at = "balloc", !.z = Lowest(free)])
           /\ UNCHANGED <<imap, desc, block, file, text, halted, stale>>

\* The element of the array that bmap looks at.
Slot(p) == IF p.array = 0 THEN desc[p.inode].zone[Head(p.path)] ELSE block[p.array][Head(p.path)].nr

bmap(t) ==
    /\ At(t, "bmap")
    /\ \/ Slot(pc[t]) = 0 /\ balloc(t)
       \/ /\ Slot(pc[t]) # 0
          /\ Goto(t, [pc[t] EXCEPT !.at = "brelse"])
          /\ UNCHANGED <<zmap, imap, desc, block, file, text, halted, stale>>

\* balloc has returned: the zone goes into the array, whatever is there by now.
\* Nobody clears it, even if it is to be the next array.
bmap_store(t) ==
    LET p == pc[t]
        i == Head(p.path)
    IN  /\ At(t, "balloc")
        /\ IF p.array = 0
           THEN desc' = [desc EXCEPT ![p.inode].zone[i] = p.z] /\ UNCHANGED block
           ELSE block' = [block EXCEPT ![p.array][i].nr = p.z] /\ UNCHANGED desc
        /\ Goto(t, [p EXCEPT !.at = "brelse"])
        /\ stale' = (stale \/ (Len(p.path) > 1 /\ \E c \in 0 .. BLOCK_CELLS - 1 : block[p.z][c].nr # 0))
        /\ UNCHANGED <<zmap, imap, file, text, halted>>

\* brelse has written the array's block, if it was dirty: the array is read
\* again, and may hold another task's zone.
bmap_next(t) ==
    /\ At(t, "brelse")
    /\ Goto(t, Descend(pc[t], Slot(pc[t])))
    /\ UNCHANGED <<zmap, imap, desc, block, file, text, halted, stale>>

-----------------------------------------------------------------------------
\* What a file holds once len units v are written at offset o, which may lie
\* past its end.
Overlay(s, o, len, v) ==
    [i \in 1 .. IF o + len > Len(s) THEN o + len ELSE Len(s) |->
        IF i > o /\ i <= o + len THEN v ELSE IF i <= Len(s) THEN s[i] ELSE Hole]

\* inode_write's loop: the block of the offset is mapped, or the call is over.
WriteLoop(n, off, left, v) ==
    IF left = 0 THEN User
    ELSE Bmap(n, off \div BLOCK_CELLS, [at |-> "write", inode |-> n, off |-> off, left |-> left, val |-> v, z |-> 0])

sys_write(t, len, v) ==
    LET f == file[t]
    IN  /\ Calls(t, "write")
        /\ f.inode # 0 /\ f.write /\ desc[f.inode].type = "file"
        /\ f.offset + len <= workload.size
        /\ Goto(t, WriteLoop(f.inode, f.offset, len, v))
        /\ text' = [text EXCEPT ![f.inode] = Overlay(@, f.offset, len, v)]
        /\ UNCHANGED <<zmap, imap, desc, block, file, halted, stale>>

MinOf(a, b) == IF a < b THEN a ELSE b

\* A plausible slip: a write that does not begin at a block's start takes a whole block's length.
write_block_whole(t) ==
    LET p == pc[t]
        start == p.off % BLOCK_CELLS
        chars == MinOf(BLOCK_CELLS, p.left)
    IN  /\ At(t, "write")
        /\ block' = [block EXCEPT ![p.z] =
               [c \in DOMAIN @ |-> IF c >= start /\ c < start + chars THEN [nr |-> p.val, name |-> Blank] ELSE @[c]]]
        /\ desc' = [desc EXCEPT ![p.inode].size = IF @ < p.off + chars THEN p.off + chars ELSE @]
        /\ Goto(t, WriteLoop(p.inode, p.off + chars, p.left - chars, p.val))
        /\ file' = IF p.left = chars THEN [file EXCEPT ![t].offset = p.off + chars] ELSE file
        /\ UNCHANGED <<zmap, imap, text, halted, stale>>

\* One round: the block's part of the data is copied, the size updated.
write_block(t) ==
    LET p == pc[t]
        start == p.off % BLOCK_CELLS
        chars == MinOf(BLOCK_CELLS - start, p.left)
    IN  /\ At(t, "write")
        /\ block' = [block EXCEPT ![p.z] =
               [c \in DOMAIN @ |-> IF c >= start /\ c < start + chars THEN [nr |-> p.val, name |-> Blank] ELSE @[c]]]
        /\ desc' = [desc EXCEPT ![p.inode].size = IF @ < p.off + chars THEN p.off + chars ELSE @]
        /\ Goto(t, WriteLoop(p.inode, p.off + chars, p.left - chars, p.val))
        /\ file' = IF p.left = chars THEN [file EXCEPT ![t].offset = p.off + chars] ELSE file
        /\ UNCHANGED <<zmap, imap, text, halted, stale>>

\* sys_read of a file or a directory: nothing at its end, else a block after another.
sys_read(t, len) ==
    LET f == file[t]
        left == MinOf(len, desc[f.inode].size - f.offset)
    IN  /\ Calls(t, "read")
        /\ f.inode # 0 /\ desc[f.inode].type # "dev" /\ left > 0
        /\ Goto(t, [at |-> "read", inode |-> f.inode, off |-> f.offset, left |-> left])
        /\ UNCHANGED <<zmap, imap, desc, block, file, text, halted, stale>>

\* One round of inode_read, with its assertion that the block exists.
read_block(t) ==
    LET p == pc[t]
        chars == MinOf(BLOCK_CELLS - (p.off % BLOCK_CELLS), p.left)
    IN  /\ At(t, "read")
        /\ \/ Lookup(p.inode, p.off \div BLOCK_CELLS) = 0 /\ Panic("unmapped")
           \/ /\ Lookup(p.inode, p.off \div BLOCK_CELLS) # 0
              /\ Goto(t, IF p.left = chars THEN User ELSE [p EXCEPT !.off = @ + chars, !.left = @ - chars])
              /\ file' = IF p.left = chars THEN [file EXCEPT ![t].offset = p.off + chars] ELSE file
              /\ UNCHANGED <<zmap, imap, desc, block, text, halted, stale>>

\* SEEK_SET, SEEK_CUR and SEEK_END: o from the beginning, the offset, the end,
\* also past the end.  No program of a workload seeks to before the beginning.
sys_lseek(t, o, whence) ==
    LET f == file[t]
        to == o + CASE whence = "SET" -> 0 [] whence = "CUR" -> f.offset [] whence = "END" -> desc[f.inode].size
    IN  /\ Calls(t, "lseek")
        /\ f.inode # 0
        /\ to \in 0 .. workload.size \ {f.offset}
        /\ file' = [file EXCEPT ![t].offset = to]
        /\ UNCHANGED <<zmap, imap, desc, block, pc, text, halted, stale>>

sys_close(t) == /\ Calls(t, "close") /\ file[t] # Closed
                /\ file' = [file EXCEPT ![t] = Closed]
                /\ UNCHANGED <<zmap, imap, desc, block, pc, text, halted, stale>>

-----------------------------------------------------------------------------
Truncate(n, then) == [at |-> "truncate", inode |-> n, slot |-> 0, todo |-> << >>, then |-> then]

\* The pointers in zone z that are not null, in their order.
Children(z) == SelectSeq([c \in 1 .. BLOCK_CELLS |-> block[z][c - 1].nr], LAMBDA x : x # 0)

\* What inode_bfree frees for a slot, in its order: what an index block points to, and then the block.
Subtree(n, k) ==
    LET z == desc[n].zone[k]
        cs == Children(z)
        trees[i \in 0 .. Len(cs)] == IF i = 0 THEN << >> ELSE trees[i - 1] \o Children(cs[i]) \o <<cs[i]>>
    IN  CASE k < DIRECT_BLOCK -> <<z>>
          [] k = DIRECT_BLOCK -> cs \o <<z>>
          [] OTHER -> trees[Len(cs)] \o <<z>>

\* bfree looks for the bit in the first map that idx does not exceed; the
\* map's bits begin at the number BLOCK_BITS * i + FirstZone - 1.
bfree_map(idx) == Lowest({i \in 0 .. (FirstZone + NZones) : idx <= BLOCK_BITS * (i + 1)})
BitSet(idx) == LET low == BLOCK_BITS * bfree_map(idx) + FirstZone - 1
               IN  idx \in low .. low + BLOCK_BITS - 1 /\ idx \in zmap

\* The next slot that holds a zone is taken up; after the last one the inode
\* is empty.
inode_truncate(t) ==
    LET p == pc[t]
        left == {k \in ZoneSlots : desc[p.inode].zone[k] # 0}
    IN  /\ At(t, "truncate")
        /\ \/ /\ desc[p.inode].type = "dev"
              /\ Goto(t, p.then)
              /\ UNCHANGED <<zmap, imap, desc, block, file, text, halted, stale>>
           \/ /\ desc[p.inode].type # "dev" /\ left = {}
              /\ desc' = [desc EXCEPT ![p.inode].size = 0]
              /\ text' = [text EXCEPT ![p.inode] = << >>]
              /\ Goto(t, p.then)
              /\ UNCHANGED <<zmap, imap, block, file, halted, stale>>
           \/ /\ desc[p.inode].type # "dev" /\ left # {}
              /\ Goto(t, [p EXCEPT !.at = "bfree", !.slot = Lowest(left), !.todo = Subtree(p.inode, Lowest(left))])
              /\ UNCHANGED <<zmap, imap, desc, block, file, text, halted, stale>>

\* bfree of one zone, with its assertion; then the map is written.
bfree(t) ==
    LET zs == pc[t].todo
    IN  /\ At(t, "bfree") /\ zs # << >>
        /\ \/ ~BitSet(Head(zs)) /\ Panic("assert")
           \/ /\ BitSet(Head(zs))
              /\ zmap' = zmap \ {Head(zs)}
              /\ Goto(t, [pc[t] EXCEPT !.todo = Tail(zs)])
              /\ UNCHANGED <<imap, desc, block, file, text, halted, stale>>

\* The slot's zones are free: its pointer is cleared.
truncate_slot(t) ==
    /\ At(t, "bfree") /\ pc[t].todo = << >>
    /\ desc' = [desc EXCEPT ![pc[t].inode].zone[pc[t].slot] = 0]
    /\ Goto(t, [pc[t] EXCEPT !.at = "truncate"])
    /\ UNCHANGED <<zmap, imap, block, file, text, halted, stale>>

ZonesNext(t) ==
    \/ bmap(t) \/ bmap_store(t) \/ bmap_next(t) \/ write_block(t) \/ read_block(t)
    \/ inode_truncate(t) \/ bfree(t) \/ truncate_slot(t)
    \/ \E len \in workload.lens :
          sys_read(t, len) \/ \E v \in workload.values : sys_write(t, len, v)
    \/ \E o \in -1 .. workload.size, w \in {"SET", "CUR", "END"} : sys_lseek(t, o, w)
    \/ sys_close(t)
=============================================================================
