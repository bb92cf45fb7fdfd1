# A TLA+ model of the Yui OS kernel

Yui OS is a small 32-bit x86 kernel in C: one CPU, preemptive tasks, paging
with copy on write, a Minix file system on an IDE disk behind a buffer cache,
and the system calls of a Unix. This project models the parts of it that keep
shared state, checks them with TLC on small instances and proves with TLAPS
what the runs check, for every size of the instance, except in the directories. All paths below are relative to the repository's
`src/` directory (`kernel/task.c`, `fs/inode.c`, ...) unless they begin with
`docs/`.

## How the kernel interleaves

Everything rests on one observation. System calls and interrupt handlers enter
through interrupt gates, so the kernel runs with interrupts off. The CPU
changes hands only inside `schedule()`. Kernel code is therefore atomic between
two calls that may reach `schedule()`: `task_yield`, `task_block`,
`task_sleep`, and what uses them (`mutex_lock`, `mutex_unlock`, a full request
queue, waiting for the disk, an empty pipe). What can go wrong is what a task
has read before such a call and uses after it. `Tasks.tla` states this as a
contract; the other modules place their step boundaries exactly at those calls.

## Inventory

| Component | State | Operations | Interacts through |
|---|---|---|---|
| Scheduling (`kernel/task.c`, `clock.c`, `thread.c`) | `task_table`, `running_task()`, `ticks`, `jiffies`, `sleep_list` | `schedule`, `task_search`, `task_yield`, `task_block`, `task_unblock`, `task_sleep`, `task_wakeup`, `clock_handler`, `idle_thread` | called by everything that waits |
| Locks (`kernel/mutex.c`) | flag, wait list, holder, repeat count | `mutex_lock`, `mutex_unlock`, `lock_acquire`, `lock_release` | drivers and buffers hold them across waits |
| Processes (`kernel/task.c`) | `task_table`, `ppid`, `waitpid`, state | `task_fork`, `task_exit`, `task_waitpid` | exit calls the file system, which may block |
| Block requests (`kernel/device.c`) | sorted request list, direction | `device_request`, `do_request`, `request_nextreq` | tasks block in it, the finishing one wakes the next |
| Buffer cache (`kernel/buffer.c`) | buffers, hash table, free list, wait list | `getblk`, `bread`, `bwrite`, `brelse` | gives the CPU away in `device_request` |
| Ring buffer (`lib/fifo.c`) | `buf`, `head`, `tail` | `fifo_get`, `fifo_put`, `fifo_full`, `fifo_empty` | keyboard, serial line, pipes |
| Pipes (`fs/pipe.c`) | ring, `rxwaiter`, `txwaiter` | `pipe_read`, `pipe_write` | the two ends block and wake each other |
| User memory (`kernel/memory.c`, `execve.c`) | `memory_map`, `free_pages`, page tables, `brk`, `end`, `vmap` | `page_fault`, `copy_pde`, `free_pde`, `sys_brk`, `sys_mmap`, `sys_munmap`, `sys_execve` | fork, exit and execve |
| Open files, inodes in memory (`fs/file.c`, `inode.c`, `namei.c`) | descriptors, `file_table`, `inode_table` | `sys_open`, `sys_close`, `dup`, `dup2`, `sys_pipe`, `sys_chdir`, `sys_chroot`, `iget`, `iput` | fork and exit; waits for the disk in `iget`, `iput` |
| Inode contents (`fs/inode.c`, `bmap.c`, `file.c`) | zones, zone and inode bitmaps, offsets | `inode_read`, `inode_write`, `inode_truncate`, `bmap`, `balloc`, `bfree`, `ialloc`, `ifree`, `read`, `write`, `lseek` | buffer cache; waits between test and set |
| Directories (`fs/namei.c`) | directory entries, link counts, working directories and their paths | `mkdir`, `rmdir`, `link`, `unlink`, `mknod`, `open`, `creat`, `chdir`, path lookup | inode contents |
| Mounting (`fs/super.c`) | `super_table`, mount points | `read_super`, `put_super`, `sys_mount`, `sys_umount` | inode table, buffer cache |
| IDE driver (`kernel/ide.c`) | the waiter of a controller, the selected drive | `ide_pio_read`, `ide_pio_write`, `ide_handler` | its lock, its interrupt |
| Keyboard, serial line (`kernel/keyboard.c`, `serial.c`) | key state, rings, waiters | handlers, `read`, `write` | ring buffer, locks, interrupts |
| Console (`kernel/console.c`) | cursor, start of the screen, video memory | `console_write`, `console_clear` | none |
| Kernel heap, bitmaps (`kernel/arena.c`, `memory.c`, `lib/bitmap.c`) | arenas, free blocks, bits | `alloc_kpage`, `free_kpage`, `kmalloc`, `kfree`, `bitmap_scan` | used by fork, exit, pipe, execve, requests |
| Boot, descriptors, RTC, C library, user programs | set up once or none | | |

### What is hard, and what makes each part correct

* **Scheduling.** `ticks` is the time slice of a runnable task and the expiry of
  a sleeping one; `sleep_list` is only looked at up to the first entry not due.
  Correct: the list is sorted and exact, nobody sleeps too long or too short, a
  slice is respected, and exactly one task is RUNNING.
* **Locks.** The woken task competes again for the flag; nesting is counted.
  Correct: mutual exclusion, exact wait list, no lost wakeup.
* **Processes.** A task can exit between a parent's scan and its wait; children
  are handed to the grandparent; `task_exit` can block half way. Correct: a
  waiter has somebody to wait for, only a parent reaps, and a dead task is dead.
* **Block requests.** The successor is chosen from a list that changed while the
  disk worked. Correct: one request at a time, a sorted sweep, none stranded.
* **Buffer cache.** Tasks share buffers across waits for the disk, evict them
  and run out of them. Correct: exact counts, one buffer per block, every reader
  sees the last change, nothing dirty is reused.
* **Pipes.** One waiter slot per side, and a ring that silently drops its oldest
  byte. Correct: nothing lost or reordered, no mutual waiting.
* **User memory.** Pages shared by fork, counted in a byte, copied on a fault,
  released along five paths. Correct: counts exact, what is in a private page
  changes only by its own process's writes from the moment the process has it, the
  bitmap of the mmap area agrees with the page tables.
* **Kernel heap.** A page is cut into blocks when the free list of a size is
  empty and given back with its last block, whatever the order in which blocks
  were freed. Correct: no block of a page that was given back is on a free list,
  no block is handed out twice, no page leaks.
* **Files.** The same inode is reached through descriptors, directories,
  programs, mount points and calls that wait. Correct: both tables of counts
  exact, one entry per inode number.
* **Inode contents and directories.** Zones and inodes are freed and reused; the
  code waits for the disk between taking a bit and using it, never clears what it
  takes, and `rmdir` frees a directory before it removes its entry. Correct, as long
  as no index block and no inode begins with pointers of its earlier life: bitmaps
  exact, no zone with two owners, a read returns what was written, link counts equal
  the entries, and the path a process keeps as text names its working directory.
* **IDE, keyboard, serial line.** A task registers itself as the waiter and
  suspends; the interrupt may be early, late or left over. Correct: a task that
  waits for the drive, a key or a received byte can count on its interrupt, and a
  transfer moves its own sectors. A task that waits to send on the serial line
  cannot: no interrupt is enabled for it (`serial.c:120`).
* **Console.** The screen is a window that moves through video memory and is
  copied to its start at the end. Correct: what is seen is what a terminal shows.

`PROJECT.json` lists the hazards at their lines, with the properties aimed at them.

## Modules

| Module | Models | Built on |
|---|---|---|
| `Tasks` | the scheduling contract: which steps the task table can take | |
| `Scheduler` | `task.c` and `clock.c`: the code's choice of task, slices, sleeping | refines `Tasks` |
| `Mutex` | `mutex.c` with holders that yield and wait | extends `Tasks` |
| `Ide` | `ide.c`: transfers under the controller's lock, its interrupt, disks and partitions | extends `Mutex` |
| `CharDevices` | `keyboard.c` and `serial.c` | extends `Mutex`, `Fifo` |
| `Screen` | abstract: a terminal of a few lines and a cursor | |
| `Console` | `console.c` in video memory | refines `Screen` |
| `Drivers` | a bare lock, the IDE driver, a character device or the console | composes the four |
| `Process` | fork, exit and waitpid | refines `Tasks` |
| `BlockRequest` | the elevator of `device.c` | |
| `BufferCache` | `buffer.c` over a disk that takes time | |
| `BoundedQueue` | abstract: a queue that forgets its oldest byte when full | |
| `Fifo` | `fifo.c` | refines `BoundedQueue` |
| `Pipe` | `pipe.c` over the ring itself | extends `Tasks`, `Fifo` |
| `Ranks` | the n-th member of a set of numbers, part of a list in its order | |
| `Memory` | `memory.c`, and what fork, exit and execve do to an address space | extends `Ranks` |
| `KernelHeap` | `arena.c`, `bitmap.c`, the kernel's pages of `memory.c` | extends `Ranks` |
| `AllMemory` | user memory or the kernel's | composes `Memory`, `KernelHeap` |
| `Files` | descriptors, files and inodes in memory, super blocks and mounting | |
| `Zones` | `bmap.c`, contents of inodes, read, write and lseek | |
| `Directories` | `namei.c`: names, links and paths on top of the contents | extends `Zones` |
| `SequenceLemmas` | what the operations on `lib/list.c`'s lists, as sequences, do to a list and its set of entries; how counts of references change | |
| `Scheduler_proofs`, `Process_proofs`, `Files_proofs` | theorems | extend the module named |
| `Drivers_proofs` | theorems about `Tasks`, `Mutex`, the devices and `Console` | extends `Drivers` |
| `BlockLayer_proofs` | theorems about the request queue and the buffer cache | extends `BlockRequest`, `BufferCache` |
| `Pipe_proofs` | theorems about `Fifo` and `Pipe` | extends `Pipe` |
| `AllMemory_proofs` | theorems about user memory and the kernel's | extends `AllMemory` |
| `MC*` | values of the constants for TLC | extend the module named |

Definitions keep the names of the C functions. A definition whose name ends in
a suffix such as `_no_wrap` or `_uncounted` is a plausible slip in the function
it is named after; `PROJECT.json` pairs each with the property that notices it.
Variables marked *history* in a module are not in the program; they remember
what a property needs.

Notes on the correspondence:

* **Tasks.** `READY`, `RUNNING` and three kinds of waiting. `schedule(st)` picks
  any READY task other than the caller, or idle if there is none: the weakest
  promise that `task_search` keeps. `Wake`, `Yield` and `Block` are the three
  things a step can do to the table.
* **Scheduler.** One action per system call or interrupt. `clock_handler` is the
  whole handler: `task_wakeup`, the count of jiffies, the charge to the running
  task, `schedule()` at zero. The order of two READY tasks is exactly that of
  `task_search`, a scan in slot order with an `||` of two comparisons, written as a
  recursive function of the number of entries looked at.
* **Mutex.** The loop of `mutex_lock` is one action per turn, and `lock_acquire`
  sets holder and count in the same step as the turn that succeeds, since nothing
  gives up the CPU in between.
* **Process.** `task_exit` sets DIED, then releases files. On a busy disk
  `device_request` blocks the task and overwrites its state; `exit_block` is that
  path and `exit_resume` what follows. `waitpid` for no child dereferences NULL,
  and the page fault handler ends the process.
* **BlockRequest.** Its specification is `RequestSpec`, so that it can stand beside
  that of the buffer cache. `do_request` stands for the time the disk needs and for
  everything `device_request` does after it.
* **BufferCache.** The hash table is the function from blocks to buffers. A write
  is three steps: asked for, data sent, answered. The lock of a buffer is its
  holder. `brelse` unlinks a waiter twice, and `list_remove` asserts: the model
  has that panic (`panicked = "unlink"`).
* **Pipe.** Bytes are numbered as they are written, so that order and loss are
  visible; the ring is that of `Fifo`, index arithmetic included. Who inherited
  which end is chosen at the start; `OneEach` is the case of at most one task at
  each, the only one in which the assertions of the code can be expected to hold.
* **Memory.** A page's contents are the number of the last write to it, and a page
  that is freed keeps them: `link_page` hands it on as it is. Only page tables are
  filled when they are taken. A fault and the access that follows are two steps. `kernel_write` is a store by a system
  call, which the write bit does not stop because `CR0.WP` is never set; `mmap` at
  an address rewrites the bits of whatever is there. `bypassed` records when
  either reaches a page that another process still shares. Loading a program is
  one step per page, because the disk is waited for in between.
* **Files.** A path stands for the inode number it resolves to. `iget` publishes
  the inode and then waits; `iput` waits and then takes the reference away. The
  last steps of `chdir`, `chroot` and `execve` are one operator, `replace`.
  `mount` and `umount` move between the two inodes of a mount point; `iget` of a
  directory that is mounted on goes on to the root of what is mounted there.
  Two waits are left out: that of `fit_inode`'s `iput` before it uses `sb->iroot`
  (`inode.c:116`), so that no `umount` falls into it, and that of `inode_open`'s
  `brelse` and `iput` of the directory before `open` takes a descriptor and a file
  (`namei.c:596`).
* **Ide.** The controller's lock is that of `Mutex`; WAITING is the wait in
  `ctrl->waiter`. The drive (external) works on what the selected drive was told
  and interrupts once per sector; an interrupt of the identification at boot may
  still be pending. The driver accepts any sector; the model's callers ask for those
  the device has. A task that is not RUNNING polls instead of waiting; only
  `task_exit` calls the driver so, and that path is in `Process`.
* **CharDevices.** A run has the keyboard or one direction of the serial line.
  Scan codes come as prefix, make and break; the keymap is a constant. A handler
  puts into the ring of `Fifo` and wakes the waiter.
* **Console.** Video memory is a function from addresses to characters; `screen`
  and the cursor are addresses in it, as in the code. The refinement reads the
  lines from `screen` on.
* **KernelHeap.** The bits of a map are a set of pages. A block is its page and
  its index. The order of a free list is kept, since it decides which page a
  block comes from. `HeapExact` speaks of the runs of pages handed out, of the pages
  cut into blocks and of the large blocks together (`Extents`).
* **Zones.** A block holds cells: pointers, entries or data. `bmap` is up to three
  steps per level, because `balloc` waits for its map block to be written and
  `brelse` for the array's block, after which the code reads the array again.
  Truncation frees a zone per step, since `bfree` waits for the map as well. A zone
  keeps what its last owner left in it, or what the disk held before `mkfs`; so does
  the `zone` array of an inode. `stale` records that an index block was made from a
  zone that holds something, or a file or directory from an inode that has pointers;
  from then on nothing is claimed. A pointer that leads astray may name a block
  before the data zones: storing there changes the block and not the maps or inodes
  of the model. `lseek` goes anywhere up to the workload's bound, past the end of the
  file as well. The arithmetic of `bfree` and `balloc` on map blocks is kept.
* **Directories.** One action per part of a call between two waits: look up, take
  an inode, write the entry, release. A path is a sequence of names with `.` and
  `..`; `task->pwd` is kept as the text the code keeps.

## Runs

Nine runs pass, three show a disagreement between the code and its own comments,
assertions or documents. Sizes are distinct states.

| Run | Instance | Checks |
|---|---|---|
| `scheduler` (100 k) | idle and three tasks, priorities 1, 2, 2, 3, sleeps of 0, 1 and 3 ticks, 5 ticks | `TypeOK`, `SleepListExact`, `SliceRespected`, `SleepsLongEnough`, `ImplementsTasks` |
| `drivers` (792 k) | idle and three tasks; nesting 2; two disks with a partition, transfers of 1 and 2 sectors; a ring of three cells, two letter keys, shift and caps lock; a screen of 2 by 2 in video memory of 9 cells | `WaitersExact`, `LockExact`, `NoLostWakeup`, `InterruptWillCome`, `TransferIntact`, `ImplementsScreen` |
| `process` (161 k) | five slots, init and two children | `ParentAlive`, `WaiterHasLiveChild`, `CleanExitIsFinal`, `ReapedByParent`, `ImplementsTasks` |
| `block_request` (37 k) | four tasks, three sectors, six requests | `OneActive`, `ListExact`, `SweepsInOrder`, `EveryRequestServed` |
| `buffer_cache` (103 k) | three tasks, four blocks, two buffers, three changes | `TypeOK`, `RefCountExact`, `OneBufferPerBlock`, `ReadsLatest`, `NoDirtyReuse` |
| `pipe` (153 k) | one or two tasks at each end, a ring of four cells, counts 1, 2, 5, nine bytes | `NothingLost`, `WaitersJustified`, `AssertionsHold`, `ImplementsQueue` |
| `memory` (1.1 M) | two processes, four user pages under three tables, six physical pages; four kernel pages, two block sizes, five things allocated at a time | `RefsExact`, `Isolation`, `MapAreaExact`, `HeapExact` |
| `files` (2 M) | two processes, three descriptors, three files, five inodes, one mountable file system | `FileCountExact`, `InodeCountExact`, `OneInodePerNumber` |
| `filesystem` (426 k) | two processes, four inodes, ten zones, blocks of two cells, two direct zones, two names | `ZonesExact`, `ReadsBack`, `LinksExact`, `PwdExact` |

Why the bounds are enough:

* *scheduler*: two tasks sleep with different expiries while a third one's slice
  ends, sleeps tie and cross, and each slice runs out at least once within five
  ticks.
* *drivers*: three contenders and idle are a holder, a woken task and an
  overtaker; a transfer of two sectors has a wait at its start and one between
  its sectors; the ring of three cells fills and drops with three key events; nine
  cells of video memory are two screens and a rest, so that the screen moves, is
  copied to the start and moves again.
* *process*: a grandparent, a parent and a child are what reparenting
  distinguishes; the table also fills, where `get_free_task` panics.
* *block_request*: four requests around three sectors give equal sectors, both
  ends and both directions; six requests let new ones arrive during a sweep.
* *buffer_cache*: fewer buffers than tasks and than blocks, so that hits, misses,
  eviction, sharing and waiting for a buffer all happen.
* *pipe*: the ring holds three bytes; counts below and above it, and enough bytes
  to go round the ring three times.
* *memory*: six frames run out in every kind of request; the heap can grow and
  shrink by one page above the image; both kinds of mapping happen at a free and
  at a used address. A kernel page holds three blocks of one size or one of the
  other, so pages fill, empty and change their size, and large requests take one
  page or two.
* *files*: three workloads: a pipe and a file; two directories and a program
  beside the root directory; a file system mounted on a directory and programs
  that go into it and leave it. The tables just run out.
* *filesystem*: five workloads of five or six calls: programs that make, link and
  remove names, device nodes included; programs that write and remove small files
  and so recycle inodes and zones, both on a disk that was not blank; the same with
  files that need an index block, on a blank disk; a file that grows into its double
  indirect blocks, with seeks past its end; two programs that extend one file. Zones
  and inodes run out; index blocks made from recycled zones and files and directories
  made from the inode of a device's node happen.

Restraints on what the programs do, each a case in which the code gives no
guarantee that could be stated:

* In `filesystem` one call that changes names is under way at a time: `namei.c`
  has no lock on a directory. Reads and writes of files do interleave with it.
  Programs do not remove or truncate a file that is open, do not write to the
  directory that `open("/")` returns, and do not seek to before the beginning of a
  file, which is asserted for `SEEK_SET` and `SEEK_CUR` (for `SEEK_END` the sum is
  unsigned and the assertion at `file.c:211` always true). They stop once something
  stale was taken; the run `file_rewrite` is about a program that goes on. The disk
  of `devmkfs` may hold anything in its zones, but its inode table is blank.
* In `files` one `mount` or `umount` is under way at a time, and its own `iput`s
  do not wait. A refused `umount` of a busy file system gives the super block up
  all the same (`super.c:218`), after which nothing about it can be relied on: the
  model ends there.
* In `drivers` and `memory` the parts run one at a time. They share no state
  beyond the task table, and the contract of `Tasks` is what each relies on.

Deadlock is checked in `scheduler`. The other runs switch it off because the
system may really stop: the bounded programs end, a device is never spoken to
again, or a failed assertion halts the kernel.

**Fairness.** One property needs it: `EveryRequestServed`, under weak fairness of
`do_request`. The disk answers every command, and the task that was woken is
READY, with nothing to hold it back but other tasks' slices. Nothing is assumed
about tasks issuing requests. The bound on requests matters: a task that always
asks again for the sector just served can hold the elevator there.

### Disagreements the runs show

* `process_exit`: `task_exit` sets DIED and then calls code that may block
  (`task.c:520`); the task ends READY and is never reaped. `CleanExitIsFinal` is
  the guarantee for an exit that does not block.
* `buffer_lost_update`: a change made while `bwrite` waits is marked clean
  without having been written (`buffer.c:182`). `ReadsLatest` excludes exactly
  the blocks that were changed so (`raced`).
* `file_rewrite`: neither `balloc` nor `bmap` clears a zone that becomes an index
  block (`bmap.c:183`), so a file that is truncated and written again follows the
  pointers of its earlier life; the next truncation frees a zone whose bit is
  clear and fails the assertion at `bmap.c:62`. `ZonesExact` is the guarantee as
  long as every index block was made from a zone that held nothing and every file
  and directory from an inode without pointers (`stale`).

Other behaviours the models contain, without a run of their own:

* A task woken from sleep has `ticks = 0`; the clock's decrement takes it to -1 and
  the test for 0 (`clock.c:64`) never holds again. `SliceRespected` is the
  guarantee that remains.
* The comment at `mutex.c:60` says that yielding guarantees the woken task the
  mutex; any READY task may be picked and take it.
* `task_search` can return idle while another task is READY (`task.c:94`; compare
  `docs/35.基础任务.md:5`).
* The elevator serves neighbours although `device.c:221` says first come, first
  served.
* A task that waits for a buffer halts the kernel when it is woken
  (`buffer.c:208`).
* Two readers of a pipe fail the assertion of `pipe.c:21` or of `fifo.c:30`.
* `execve` ignores that its `brk` was refused (`execve.c:429`), and the next
  `execve` leaves the old pages in place.
* A process that is given a page finds in it what its last owner wrote: neither
  `put_page` (`memory.c:176`) nor `link_page` (`memory.c:378`) clears it.
  `Isolation` is the guarantee from then on.
* `free_pages` does not count the pages the kernel takes for itself
  (`memory.c:262`), so `brk` can promise too much.
* A second `iget` returns an inode whose block has not arrived (`inode.c:145`).
* `umount` looks for other inodes of the file system and not for other users of
  its root directory (`super.c:206`): a process can stay in it.
* Two programs that extend one file lose a block, and an index block that is
  overwritten so leaves a hole on which a later read fails the assertion at
  `inode.c:232`.
* A write past the end of a file leaves a hole, since `lseek` allows any offset
  (`file.c:204`); a read fails the assertion at `inode.c:232` on a block that is
  missing, and finds what the zone's last owner left in the rest of the hole.
  `ReadsBack` is the guarantee for what was written.
* A device's node keeps its number in `zone[0]` when it is removed, since truncation
  skips it (`inode.c:350`); a file or directory made from its inode takes that for
  its first zone (`inode.c:164`).
* `mkfs` clears the maps and the root's block only (`super.c:278`): an index block of
  the new file system follows what the disk held before.
* `bfree` chooses a map block by `BLOCK_BITS * (i + 1)` although the bits of map
  `i` begin `firstdatazone - 1` later (`bmap.c:50`); disks of one map block, as in
  the run, do not meet it.
* The descriptor `sys_creat` returns cannot be written to (`file.c:77`).
* Caps lock is a state of the key and not of the letter: the test at
  `keyboard.c:345` is true for every key.
* `serial_init` does not enable the interrupt for an empty transmitter; a writer
  that waits is woken by the interrupt of a received byte.
* The console clears one line more than it scrolls (`console.c:130`).

## Proofs

Each theorem holds for every value of the constants that the module's named
assumption allows; the run checks the same formula on one instance.

| Theorem | For | Establishes |
|---|---|---|
| `Drivers_proofs!TaskContract` | any set of tasks | types, `OneRunning`, `IdleRunnable` |
| `Scheduler_proofs!SchedulerSafe` | any table of at least two tasks, any priorities and durations | `TypeOK`, `SleepListExact`, `SliceRespected` |
| `Scheduler_proofs!SleepTheorem` | the same | `SleepsLongEnough` |
| `Scheduler_proofs!SchedulerImplementsTasks` | the same | `ImplementsTasks`: the code keeps the contract the other models start from |
| `Drivers_proofs!LockInvariant` | any tasks, any nesting bound | the inductive invariant of the lock |
| `Drivers_proofs!MutualExclusion`, `WaitListExact`, `WakeupNotLost` | the same | `LockExact`, `WaitersExact`, `NoLostWakeup` of the bare lock |
| `Drivers_proofs!DriversInvariant` | the same, any disks, partitions and keys | the inductive invariant of the drivers |
| `Drivers_proofs!LocksSafe` | the same | the three properties of the lock in the hands of the drivers |
| `Drivers_proofs!InterruptAlwaysComes` | the same | `InterruptWillCome`, which excepts the serial writer |
| `Drivers_proofs!TransfersIntact` | the same | `TransferIntact` |
| `Drivers_proofs!ConsoleImplementsScreen` | any size of the screen and of video memory | `ImplementsScreen` |
| `Process_proofs!ProcessFamily` | any table of at least two tasks | `WaiterHasLiveChild`, `ParentAlive`, `CleanExitIsFinal` |
| `Process_proofs!ReapTheorem` | the same | `ReapedByParent` |
| `Process_proofs!ProcessImplementsTasks` | the same | `ImplementsTasks` |
| `BlockLayer_proofs!RequestQueueSafe` | any tasks, sectors and number of requests | `OneActive`, `ListExact` |
| `BlockLayer_proofs!RequestSweeps` | the same | `SweepsInOrder` |
| `BlockLayer_proofs!CacheReferences` | any finite set of tasks, any blocks, buffers and changes | `TypeOK`, `RefCountExact`, `OneBufferPerBlock`, `NoDirtyReuse` |
| `BlockLayer_proofs!CacheReadsLatest` | the same | `ReadsLatest` |
| `Pipe_proofs!FifoTypeOK`, `FifoImplementsQueue` | any ring of at least two cells, any bytes | the ring alone is typed and implements the queue |
| `Pipe_proofs!PipeWaits` | any finite set of tasks at the two ends, any ring and counts | `WaitersJustified`, `AssertionsHold` |
| `Pipe_proofs!PipeDelivers` | the same | `NothingLost` |
| `Pipe_proofs!PipeImplementsQueue` | the same | `ImplementsQueue` |
| `AllMemory_proofs!MemoryInvariant` | any finite set of processes, any areas and physical pages | the inductive invariant of user memory |
| `AllMemory_proofs!RefsAlwaysExact` | the same | `RefsExact` |
| `AllMemory_proofs!PrivatePagesIsolated` | the same | `Isolation` |
| `AllMemory_proofs!MapAreaAlwaysExact` | the same | `MapAreaExact` |
| `AllMemory_proofs!HeapAlwaysExact` | any number and size of kernel pages, any block sizes | `HeapExact` |
| `Files_proofs!FilesInvariant` | any finite set of processes, any tables and workloads | the inductive invariant of open files |
| `Files_proofs!FileCountsAlwaysExact` | the same | `FileCountExact` |
| `Files_proofs!InodeCountsAlwaysExact` | the same | `InodeCountExact` |
| `Files_proofs!OneInodeAlways` | the same | `OneInodePerNumber` |

The inductive invariants, and why each part is needed:

* *Tasks.* Types, `OneRunning` and `IdleRunnable` together are inductive: a
  dispatched task is READY or idle, and idle is runnable because no step suspends
  it. `ScheduleLemma` says what `schedule` does to a table; every proof about
  tasks that wait cites it.
* *Scheduler.* `SchedInv` joins the three properties with `OneRunning` and
  `IdleRunnable`. `ticks` is one field with two meanings; that the caller of
  `schedule()` is the only RUNNING task keeps it off `sleep_list`, so the refill
  of a slice never moves an expiry. `SearchLemma` shows that the loop of
  `task_search` returns a READY task, or idle if there is none, whatever the tick
  counts: that the recursive function of the loop exists, and what it returns,
  both by the least turn that would go wrong. `FirstLarger` splits a sorted list
  at a key; it serves both `list_insert_sort` and `task_wakeup`, which stops at
  the first entry not due and so takes exactly those due.
* *Mutex.* None of the three properties is inductive alone. That the list is
  exact needs `OneRunning`, to know that the task that joins it was not in it, and
  that idle is in no list needs `pc[Idle] = "run"`. That no wakeup is lost needs
  the exact list, since the task `mutex_unlock` takes off it must be in the loop
  of `mutex_lock`. Mutual exclusion needs that a task in that loop holds nothing.
* *Drivers.* To the invariant of the lock the IDE driver adds that the task past
  `lock_acquire` is the one in a transfer (`TransferLocked`), how far that transfer
  is (`ProgressExact`), and what the drive does meanwhile (`DriveExact`): it works on
  the task's next sector or has it ready. Only with this is a left-over interrupt
  harmless: the woken task finds the drive busy with its own sector and waits again.
  The character devices need the same tie between the lock and the call, and that a
  reader waits on an empty ring only.
* *Console.* `Good` relates the cursor's address to its line and column and keeps
  the screen inside video memory. Each control character is one lemma: what it does
  to the visible cells is what the terminal does. The case that matters is the end of
  the memory, where `memcpy` moves the screen to the start.
* *Process.* `ParentAlive` is kept when a task exits because its children go to
  its own parent, which is alive and is not one of the children. The second half
  needs `Tree`: the parents have ranks that decrease towards idle. `ExitExact`
  relates DIED to where in `task_exit` a task is, since a task that blocks there
  comes back READY; it separates the clean exits from the stalled ones.
* *BlockRequest.* `OneActive` and `ListExact` need each other: the successor is
  taken from the list, and the list is exact because only the active task leaves
  it. The sweep follows from the order of the list around the finishing request.
* *BufferCache.* A buffer's count is a cardinality, so the lemmas say how taking
  and dropping a reference changes the set of its holders. `Held` ties the
  reference to where in the code a task is, `Hashed` the hash table to the buffers
  taken from memory, `LockedReading` the lock to the one reader. `Coherent` says
  where the last version of a block is: in its valid buffer, on the disk if that
  buffer is clean, on the disk alone if there is none, and on the disk from the
  moment the driver has sent it. It excepts the blocks in `raced`, as
  `ReadsLatest` does.
* *Fifo.* The refinement maps the ring to the sequence of its cells from tail to
  head. The work is arithmetic modulo the length: `NextLemma` and `CellLemma` turn
  remainders into a case distinction, and `GetStep` and `PutStep` compare the
  sequences position by position. The dropping of a byte is the case of a full
  ring.
* *Pipe.* `SlotsExact` says that a slot names a task blocked for it, `Roles` that
  only those who inherited an end use it. `WaitersJustified` holds for any number
  of tasks. That no assertion fails needs `WokenFinds`, which holds with at most
  one reader and one writer only: what a task was woken for is still there when it
  runs. `SeenExact` is `NothingLost` with the numbers already sent as a bound.
  `Bounded` is about the model's bound on bytes.

* *Memory.* `AllRefsExact` extends `RefsExact` to the kernel's own pages, so that no
  process is ever given one. `DeadEmpty` makes fork start from an empty address
  space. `Isolation` needs `CopyOnWrite`: of two entries that refer to one page, both
  are shared on purpose or neither may be written. It excepts what `bypassed`
  records, as `Isolation` does. A page that is linked or made a page table was free,
  and `FreeUnused` says that nobody has an entry for it. The counts are cardinalities of sets of pairs of a
  process and a page; the lemmas count a row when fork, exit and execve change all
  of one process's entries.
* *KernelHeap.* `Owned` says that the set bits are the pages of the runs and of the
  arenas, and that these do not overlap. `PageOK` accounts for the blocks of one
  page: each is a caller's or in the free list of the page's size, and `count` is the
  number of free ones. When the last block of a page comes back, the count shows
  that all blocks of the page are in the list; removing them keeps the others and
  their order (`Kept`).
* *Files.* A count is the number of times a function has a value: one function for
  the descriptors, and for inodes one each for files, for what processes hold, for
  calls that wait, for the inode such a call will keep, for the device's node and
  for the super block. Every action changes these functions at one or two points,
  which is what the counting lemmas are about; `fork` adds a whole row. `Places`
  says what a waiting call has with it; a slot whose inode waits in `iput` counts no
  more (`Leaving`), which is what makes the counts exact across the wait. `Mounts`
  follows a mount step by step: its super block is empty while the call reads, and
  marked directories belong to it. `DeviceStays` is needed since `umount` compares
  with the device's node. A process that does not exist refers to nothing
  (`GoneEmpty`), so that the child of a fork starts from zero.

TLC agrees with the invariants on the instances of the runs, with `Owned` and
`PageOK` taken over the pages and block numbers there are; all but `Tree`, which asks
for a rank among all functions to the numbers.

The proofs assume what the modules assume by name: `IdleAssumption` (idle is in
the table), `SchedulerAssumption` (at least two tasks, positive priorities, idle
does not sleep), `MutexAssumption` (NULL is not a task, the bound on nesting is
positive), `ProcessAssumption` (at least two entries, idle is no user process),
`RequestAssumption`, `CacheAssumption` and `PipeAssumption` (NULL is not a task,
bounds are numbers; the last two also that the task table is finite, without which
a count of references means nothing), `FifoAssumption` (at least two cells),
`IdeAssumption` (a partition lies on its disk: `ide_part_init` takes the partition
table as it finds it), `CharAssumption` (the keymap has the keys the code names),
`ConsoleAssumption` (video memory is larger than the screen by more than a line),
`MemoryAssumption` and `FilesAssumption` (a finite task table, tables of the sizes
named; two inodes are taken from boot on) and `HeapAssumption` (a page holds at
least one block of every size, which `arena_init` computes).

**Only model-checked.**

* `EveryRequestServed`: liveness under fairness is out of the prover's reach.
* `LinksExact` and `PwdExact` of `Directories`: what can be reached from the root, and
  where a path of any length leads, is induction over data. The provers can use no
  induction rule, and every use would be an argument of its own.
* `ZonesExact` and `ReadsBack`: an inode has at most three levels, so that no
  induction is needed, but the zones that a call has taken and not yet entered are
  in frames nested in frames (`then`), and the guarantee rests on `stale` and on the
  restraints on programs above. Their inductive invariant has not been worked out.
* The three runs that show a disagreement are counterexamples.

No module that is proved about uses a `RECURSIVE` operator. Loops are recursive
functions there (`task_search`); where a proof needs what one computes, it argues
by a least counterexample (`SequenceLemmas!LeastNat`).

## Not modelled, and why

Boot, descriptor tables, port I/O, RTC and calendar arithmetic, string handling
and formatting: they run once or keep no state. Of the device table the models
have what is behind it: the queue, and the disks and partitions installed.
`stat` copies fields. The RAM disk is a copy behind the same request queue. `mkfs`
writes a fresh file system in one go: what it leaves is the initial state of
`Zones`. Of `execve` the checks of the ELF header and the layout of the arguments
are left out, and of directories the comparison of names and their length. User programs are not modelled either: the
models let a program make any system call at any time. The width of `jiffies` is
not modelled, so the comparison of signed with unsigned expiries after 2^31 ticks
(`list.c:107`) is out of reach; so is what lies behind the buffer that a scan of a
full inode map runs past (`bmap.c:87`), and the page directory that `cr3` still
uses after `free_pde` (`memory.c:521`).

## Plan

The order is by importance: what other code relies on comes first.

1. *Done*: the scheduling contract and the scheduler, locks, processes, the disk's
   queue, the buffer cache, the ring and pipes, user memory, open files.
2. *Done*: the IDE driver, keyboard, serial line and console; the contents of
   inodes; directories and paths; mounting; the kernel's pages and heap.
3. *Left to model*: two calls on one directory at a time, and two mounts at a time
   (`super.c:82`), each against what remains true; a disk whose zone map has two
   blocks.

Abstract specifications still worth stating: the disk as one atomic block store
that `BufferCache` implements for blocks not in `raced`; an address space as
private memory that `Memory` implements while `bypassed` is false.

Theorems still worth proving: `ZonesExact` for inodes without index blocks, where
no chain has to be followed, and `LinksExact` from it; liveness of the request queue
with a prover that has fairness.
