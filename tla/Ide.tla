-------------------------------- MODULE Ide --------------------------------
(***************************************************************************)
(* The IDE driver, kernel/ide.c: one controller with its disks, the        *)
(* partitions found on them, and programmed transfers of whole sectors.    *)
(* A transfer holds the controller's lock (Mutex.tla) and is suspended     *)
(* once per sector until ide_handler wakes it.                             *)
(*                                                                         *)
(* System calls run with interrupts off, so the handler runs only while a  *)
(* program or the idle task is on the CPU.  The state in which Mutex.tla   *)
(* waits for a device, WAITING, is here the wait in ctrl->waiter.  What    *)
(* the drive itself does is external: it works on the command it was given *)
(* by the drive that was selected last, and interrupts for each sector.    *)
(***************************************************************************)
EXTENDS Mutex

CONSTANTS Disks,        \* disk->total_lba as IDENTIFY reports it, of each disk
          MaxLba,       \* the largest size that is believed
          PartTable,    \* the boot sector of a disk: a sequence of [start, count]
          Counts,       \* sectors per transfer
          MaxWritten    \* bound on the sectors written, all told

\* The boot sector describes the disk it is on.
ASSUME IdeAssumption == /\ DOMAIN PartTable = DOMAIN Disks
                        /\ \A d \in DOMAIN Disks :
                              /\ Disks[d] \in Nat
                              /\ \A p \in DOMAIN PartTable[d] :
                                    LET e == PartTable[d][p]
                                    IN  {e.start, e.count} \subseteq Nat /\ e.start + e.count <= Disks[d]
                        /\ MaxLba \in Nat /\ MaxWritten \in Nat
                        /\ Counts \subseteq Nat \ {0}

VARIABLES waiter,       \* ctrl->waiter
          active,       \* ctrl->active: the drive that is selected
          drive,        \* the drive at work: command, sector, sectors left, phase
          irq,          \* its interrupt is pending
          medium,       \* what is on the disks
          op,           \* the transfer a task is in, or NoOp
          written       \* number of sectors written

ideVars == <<waiter, active, drive, irq, medium, op, written>>

NoOp == [cmd |-> "none"]
Quiet == [cmd |-> "none", lba |-> 0, left |-> 0, phase |-> "idle", data |-> <<>>]

\* ide_identify: a disk of size 0 or of an absurd size does not exist.
ide_identify(d) == IF Disks[d] > MaxLba THEN 0 ELSE Disks[d]

\* ide_part_init: the entries of the boot sector in use, for a disk that exists.
ide_part_init(d) ==
    IF ide_identify(d) = 0 THEN {}
    ELSE {p \in DOMAIN PartTable[d] : PartTable[d][p].count # 0}

\* ide_install: every disk and every partition is a device, with its first
\* sector and its number of sectors.
ide_install ==
    {[disk |-> d, start |-> 0, count |-> ide_identify(d)] :
        d \in {e \in DOMAIN Disks : ide_identify(e) # 0}}
    \cup UNION {{[disk |-> d, start |-> PartTable[d][p].start, count |-> PartTable[d][p].count] :
                    p \in ide_part_init(d)} : d \in DOMAIN Disks}

\* The identification commands of ide_ctrl_init may have left an interrupt
\* pending.  A sector never written holds 0.
ide_ctrl_init ==
    /\ waiter = NoTask /\ active = 0
    /\ drive = Quiet /\ irq \in BOOLEAN
    /\ medium = [d \in DOMAIN Disks |-> [s \in 0 .. Disks[d] - 1 |-> 0]]
    /\ op = [t \in Tasks |-> NoOp]
    /\ written = 0

-----------------------------------------------------------------------------
\* The task is on the CPU, inside its transfer and past lock_acquire.
At(t, where) == t = running /\ op[t] # NoOp /\ pc[t] = "run" /\ op[t].at = where

\* The size ide_pio_ioctl and ide_pio_part_ioctl answer for a device.
ide_pio_ioctl(dev) == dev.count

\* ide_pio_part_read and ide_pio_part_write add the start of the partition.
ide_pio_part(dev, lba) == dev.start + lba

\* ide_pio_read and ide_pio_write: take the lock.  The sectors of the n-th
\* write hold n.  The driver takes any lba; only sectors that the device has
\* are asked for here, as by a file system made on it (devmkfs counts its
\* blocks by ide_pio_ioctl).  What the drive does with others is its business.
ide_pio(t, dev, cmd, lba, count) ==
    /\ op[t] = NoOp /\ lba + count <= ide_pio_ioctl(dev)
    /\ lock_acquire(t)
    /\ cmd = "write" => written + count <= MaxWritten
    /\ written' = IF cmd = "write" THEN written + count ELSE written
    /\ op' = [op EXCEPT ![t] = [cmd |-> cmd, at |-> "issue", disk |-> dev.disk, lba |-> ide_pio_part(dev, lba),
                                count |-> count, buf |-> IF cmd = "write" THEN [k \in 1 .. count |-> written + k] ELSE <<>>,
                                done |-> 0]]
    /\ UNCHANGED <<waiter, active, drive, irq, medium>>

ide_pio_retry(t) == lock_retry(t) /\ UNCHANGED ideVars

\* Register the caller, give the CPU away until the interrupt.  (A task that is
\* not RUNNING, which only task_exit is, polls instead: see Process.)
Await(t) == /\ waiter' = t
            /\ schedule(Suspend(state, t, "WAITING"))
            /\ UNCHANGED <<lockVars, pc, depth>>

\* ide_select_drive, ide_select_sector and the command, for a write with the
\* first sector; then the first wait.
ide_command(t) ==
    LET o == op[t]
    IN  /\ At(t, "issue")
        /\ active' = o.disk
        /\ drive' = [cmd |-> o.cmd, lba |-> o.lba, left |-> o.count, phase |-> "busy",
                     data |-> IF o.cmd = "write" THEN <<o.buf[1]>> ELSE <<>>]
        /\ op' = [op EXCEPT ![t].at = "sector"]
        /\ Await(t)
        /\ UNCHANGED <<irq, medium, written>>

\* A plausible slip: the drive is not asked before its data are taken.
ide_busy_wait_not(o) == TRUE

\* ide_busy_wait: DRQ before a sector is read; not BSY after one was written.
ide_busy_wait(o) == IF o.cmd = "read" THEN drive.phase = "ready" ELSE drive.phase # "busy"

\* The rest of the loop's body, after the wait: a sector is taken from the
\* drive or the next one is given to it; the last one ends the transfer.
ide_sector(t) ==
    LET o == op[t]
        done == o.done + 1
        got == IF o.cmd = "read" THEN [op EXCEPT ![t].done = done, ![t].buf = Append(@, drive.data[1])]
               ELSE [op EXCEPT ![t].done = done]
    IN  /\ At(t, "sector") /\ ide_busy_wait(o)
        /\ drive' = IF done = o.count THEN Quiet
                    ELSE [drive EXCEPT !.phase = "busy",
                                       !.data = IF o.cmd = "write" THEN <<o.buf[done + 1]>> ELSE <<>>]
        /\ \/ done < o.count /\ op' = got /\ Await(t)
           \/ done = o.count /\ op' = [got EXCEPT ![t].at = "done"] /\ UNCHANGED <<vars, waiter>>
        /\ UNCHANGED <<active, irq, medium, written>>

\* lock_release, and back to the caller.
ide_pio_return(t) == /\ At(t, "done")
                     /\ lock_release(t)
                     /\ op' = [op EXCEPT ![t] = NoOp]
                     /\ UNCHANGED <<waiter, active, drive, irq, medium, written>>

\* The selected drive finishes with a sector and raises its interrupt (external).
drive_works ==
    /\ drive.phase = "busy"
    /\ irq' = TRUE
    /\ \/ /\ drive.cmd = "read"
          /\ drive' = [drive EXCEPT !.phase = "ready", !.data = <<medium[active][drive.lba]>>,
                                    !.lba = @ + 1, !.left = @ - 1]
          /\ UNCHANGED medium
       \/ /\ drive.cmd = "write"
          /\ medium' = [medium EXCEPT ![active][drive.lba] = drive.data[1]]
          /\ drive' = [drive EXCEPT !.phase = "ready", !.lba = @ + 1, !.left = @ - 1, !.data = <<>>]
    /\ UNCHANGED <<vars, waiter, active, op, written>>

\* A plausible slip: the waiter stays registered.
ide_handler_keeps ==
    /\ irq /\ op[running] = NoOp
    /\ irq' = FALSE
    /\ IF waiter = NoTask THEN UNCHANGED state ELSE state' = Unblock(state, {waiter})
    /\ UNCHANGED <<running, lockVars, pc, depth, waiter, active, drive, medium, op, written>>

ide_handler ==
    /\ irq /\ op[running] = NoOp
    /\ irq' = FALSE
    /\ IF waiter = NoTask THEN UNCHANGED state ELSE state' = Unblock(state, {waiter})
    /\ waiter' = NoTask
    /\ UNCHANGED <<running, lockVars, pc, depth, active, drive, medium, op, written>>

\* A program loses the CPU.
ide_preempt == op[running] = NoOp /\ task_yield /\ UNCHANGED ideVars

IdeNext ==
    \/ ide_handler \/ drive_works \/ ide_preempt
    \/ \E t \in Tasks :
          \/ \E dev \in ide_install, cmd \in {"read", "write"}, n \in Counts :
                \E lba \in 0 .. dev.count - n : ide_pio(t, dev, cmd, lba, n)
          \/ ide_pio_retry(t) \/ ide_command(t) \/ ide_sector(t) \/ ide_pio_return(t)

-----------------------------------------------------------------------------
(* A transfer moves the right sectors of the right disk in their order,    *)
(* whatever early, late or left-over interrupts do: the part of the buffer *)
(* already read is what the medium holds, the part already written is on   *)
(* the medium, and nobody else's transfer is under way in between.         *)
TransferIntact ==
    \A t \in Tasks : op[t] # NoOp =>
        \A k \in 1 .. op[t].done : medium[op[t].disk][op[t].lba + k - 1] = op[t].buf[k]
=============================================================================
