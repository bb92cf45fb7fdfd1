------------------------------- MODULE Files -------------------------------
(***************************************************************************)
(* Open files: the descriptors of every process (task->files), file_table  *)
(* (fs/file.c) and inode_table (fs/inode.c), with open, close, dup, dup2,  *)
(* pipe, fork, exit, and the inodes a process holds as its working         *)
(* directory, its root directory and its program.                          *)
(*                                                                         *)
(* iget waits for the disk when the inode is not in memory, iput when its  *)
(* buffer is dirty; other processes run meanwhile.  A path name stands for *)
(* the inode number it resolves to.  The first descriptor, file and inode  *)
(* number stand for what is set up at boot: standard descriptors with a    *)
(* device's file, which idle shares for ever, and the root directory.      *)
(*                                                                         *)
(* A second file system can be mounted on a directory and unmounted        *)
(* (fs/super.c); its super block refers to two inodes.  The node of its    *)
(* device is the second inode.  One mount or umount is under way at a      *)
(* time, and their own iputs find clean buffers.                           *)
(***************************************************************************)
EXTENDS Integers, FiniteSets, Sequences

CONSTANTS Tasks, First,   \* processes; the one that exists at the start
          NFds,           \* descriptors of a process
          NFiles,         \* entries of file_table
          NInodes,        \* entries of inode_table
          Numbers,        \* inode numbers on the device: 1 is the root directory, 2 the console
          Dirs, Regular,  \* those of directories and of regular files
          Mountable, MountRoot, \* those on the second device, that of its root directory
          Held,           \* which of Pwd, Root, Exec a process has
          Workloads       \* what programs may use: inode numbers, and slots to fill

Fds == 1 .. NFds
FileSlots == 1 .. NFiles
InodeSlots == 1 .. NInodes
None == 0
Std == 1                          \* STDIN_FILENO, its file
Pwd == -3
Root == -2
Exec == -1
Mnt == -4                         \* an inode wanted by mount, by umount
Umnt == -5
DeviceNode == 2                   \* the inode of the second device's node
Slots == Held \cup Fds            \* whatever a process refers to, in the order exit gives it up

ASSUME FilesAssumption == /\ First \in Tasks /\ IsFiniteSet(Tasks)
                          /\ {NFds, NFiles, NInodes} \subseteq Nat \ {0} /\ NInodes > 1
                          /\ Held \subseteq {Pwd, Root, Exec}
                          /\ Workloads \subseteq [numbers : SUBSET Numbers, slots : SUBSET (Held \cup {None, Mnt, Umnt})]
                          /\ Numbers \subseteq Nat \ {0}
                          /\ Mountable \subseteq Numbers \ {1, 2} /\ MountRoot \in Mountable
                          /\ Dirs \subseteq Numbers /\ Regular \subseteq Numbers /\ Dirs \cap Regular = {}

VARIABLES files,          \* task->files: an entry of file_table or None
          held,           \* task->ipwd, task->iroot and task->iexec: an inode or None
          fcount, finode, \* file->count, file->inode
          kind,           \* "free" (dev is EOF), "disk" or "pipe"
          nr, icount,     \* inode->nr, inode->count
          loaded,         \* inode->desc points into the inode's block
          mount,          \* inode->mount: the second device is mounted here
          super,          \* the super block of the second device
          pc,             \* where a process is, see At
          workload,       \* which calls the programs of this system make
          halted          \* the kernel has panicked, or goes on with a super block it has freed

inodeVars == <<kind, nr, icount, loaded>>
mountVars == <<mount, super>>
NoSuper == [used |-> FALSE, iroot |-> None, imount |-> None]
vars == <<files, held, fcount, finode, inodeVars, mountVars, pc, workload, halted>>

\* A process is in its program, waits for the disk in iget or in iput, is in
\* task_exit (on its way or waiting in iput), or is gone.  inode is the one it
\* waits for, slot what it wants it for (None: a new descriptor) and new the
\* inode or descriptor that will fill the slot after iput.
At(where, i, s, n) == [at |-> where, inode |-> i, slot |-> s, new |-> n]
User == At("user", None, None, None)
Exiting == At("exit", None, None, None)
Gone == At("gone", None, None, None)

\* The references that are never given up: to the root directory two of its
\* super block and two of idle, to the standard file one of idle.
KernelRefs(i) == IF i = 1 THEN 4 ELSE 0
IdleRefs(f) == IF f = Std THEN 1 ELSE 0

Init == /\ files = [t \in Tasks |-> [d \in Fds |-> IF t = First /\ d = Std THEN Std ELSE None]]
        /\ held = [t \in Tasks |-> [r \in Held |-> IF t = First /\ r # Exec THEN 1 ELSE None]]
        /\ fcount = [f \in FileSlots |-> IF f = Std THEN 1 + IdleRefs(Std) ELSE 0]
        /\ finode = [f \in FileSlots |-> IF f = Std THEN 2 ELSE None]
        /\ kind = [i \in InodeSlots |-> IF i <= 2 THEN "disk" ELSE "free"]
        /\ nr = [i \in InodeSlots |-> IF i <= 2 THEN i ELSE 0]
        /\ icount = [i \in InodeSlots |-> CASE i = 1 -> KernelRefs(1) + Cardinality(Held \ {Exec}) [] i = 2 -> 1 [] OTHER -> 0]
        /\ loaded = [i \in InodeSlots |-> i <= 2]
        /\ mount = [i \in InodeSlots |-> FALSE]
        /\ super = NoSuper
        /\ pc = [t \in Tasks |-> IF t = First THEN User ELSE Gone]
        /\ workload \in Workloads
        /\ halted = FALSE

Runs(t) == pc[t] = User /\ ~halted
Panic == halted' = TRUE /\ UNCHANGED <<files, held, fcount, finode, inodeVars, mountVars, pc, workload>>

Lowest(S) == CHOOSE x \in S : \A y \in S : x <= y
FreeFds(t) == {d \in Fds \ {Std} : files[t][d] = None}       \* task_get_fd
FreeFiles == {f \in FileSlots \ {Std} : fcount[f] = 0}       \* get_file
FreeInodes == {i \in InodeSlots : kind[i] = "free"}         \* get_free_inode

-----------------------------------------------------------------------------
\* iput without the wait: the last reference frees the entry.  None is NULL.
\* (What a free entry still holds is never read; here it is cleared.)
iput(i) ==
    LET last == i # None /\ icount[i] = 1
    IN  /\ icount' = IF i = None THEN icount ELSE [icount EXCEPT ![i] = @ - 1]
        /\ kind' = IF last THEN [kind EXCEPT ![i] = "free"] ELSE kind
        /\ nr' = IF last THEN [nr EXCEPT ![i] = 0] ELSE nr
        /\ loaded' = IF last THEN [loaded EXCEPT ![i] = FALSE] ELSE loaded

\* A plausible slip: the new descriptor shares the file without being counted.
dupfd_uncounted(t, fs, fc, src, dst) ==
    LET free == {d \in dst .. NFds : fs[t][d] = None}
    IN  /\ fcount' = fc
        /\ files' = IF fs[t][src] = None \/ free = {} THEN fs
                    ELSE [fs EXCEPT ![t][Lowest(free)] = fs[t][src]]

\* dupfd(src, dst) after dst was closed: the first free descriptor from dst on.
dupfd(t, fs, fc, src, dst) ==
    LET free == {d \in dst .. NFds : fs[t][d] = None}
    IN  IF fs[t][src] = None \/ free = {}
        THEN files' = fs /\ fcount' = fc
        ELSE /\ files' = [fs EXCEPT ![t][Lowest(free)] = fs[t][src]]
             /\ fcount' = [fc EXCEPT ![fs[t][src]] = @ + 1]

\* The slot s is empty now, and new takes its place.
Refill(t, s, new, fc) ==
    IF s = None
    THEN fcount' = fc /\ UNCHANGED <<files, held>>
    ELSE IF s \in Fds
    THEN /\ LET fs == [files EXCEPT ![t][s] = None]
            IN  IF new = None THEN files' = fs /\ fcount' = fc ELSE dupfd(t, fs, fc, new, s)
         /\ UNCHANGED held
    ELSE /\ held' = [held EXCEPT ![t][s] = new]
         /\ fcount' = fc
         /\ UNCHANGED files

\* The inode that slot s of t refers to.
InodeOf(t, s) == IF s \in Held THEN held[t][s]
                 ELSE IF files[t][s] = None THEN None ELSE finode[files[t][s]]

\* put_file's new count.
put_file(f) == [fcount EXCEPT ![f] = @ - 1]

\* Give up the inode i, the one of slot s (None: of no slot): put_file's count
\* first, then iput, if need be after a wait for the disk.
Release(t, s, i, new, wait, done) ==
    LET f == IF s \in Fds THEN files[t][s] ELSE None
        fc == IF f = None THEN fcount ELSE put_file(f)
        keep == f # None /\ fcount[f] > 1
    IN  /\ \/ /\ IF keep THEN UNCHANGED inodeVars ELSE iput(i)
              /\ Refill(t, s, new, fc)
              /\ pc' = [pc EXCEPT ![t] = done]
           \/ /\ ~keep /\ i # None /\ kind[i] = "disk"
              /\ pc' = [pc EXCEPT ![t] = At(wait, i, s, new)]
              /\ fcount' = fc
              /\ UNCHANGED <<files, held, inodeVars>>
        /\ finode' = IF f # None /\ ~keep THEN [finode EXCEPT ![f] = None] ELSE finode
        /\ UNCHANGED <<mountVars, workload, halted>>

\* The disk has taken the buffer: iput and its caller go on.
iput_done(t) ==
    LET p == pc[t]
    IN  /\ p.at \in {"iput", "xput"} /\ ~halted
        /\ iput(p.inode)
        /\ Refill(t, p.slot, p.new, fcount)
        /\ pc' = [pc EXCEPT ![t] = IF p.at = "iput" THEN User ELSE Exiting]
        /\ UNCHANGED <<finode, mountVars, workload, halted>>

-----------------------------------------------------------------------------
\* What is done with the inode i once iget has returned it, s telling what for:
\* open takes a descriptor and a file, chdir, chroot and execve have blocks to
\* read or to write first (namei's directories, the program's header).  open
\* takes them at once: that inode_open may wait in between, to give back the
\* directory, is left out, the inode it has by then being counted either way.
GotInode(t, i, s) ==
    \/ /\ s = None /\ FreeFds(t) # {} /\ FreeFiles # {}
       /\ files' = [files EXCEPT ![t][Lowest(FreeFds(t))] = Lowest(FreeFiles)]
       /\ fcount' = [fcount EXCEPT ![Lowest(FreeFiles)] = 1]
       /\ finode' = [finode EXCEPT ![Lowest(FreeFiles)] = i]
       /\ pc' = [pc EXCEPT ![t] = User]
       /\ UNCHANGED <<held, mountVars, workload, halted>>
    \/ /\ s # None
       /\ pc' = [pc EXCEPT ![t] = At("iget", i, s, None)]
       /\ UNCHANGED <<files, held, fcount, finode, mountVars, workload, halted>>
    \/ s = None /\ (FreeFds(t) = {} \/ FreeFiles = {}) /\ halted' = TRUE
       /\ UNCHANGED <<files, held, fcount, finode, mountVars, pc, workload>>

\* A plausible slip: the table is not searched.
find_inode_none(n) == {}

find_inode(n) == {i \in InodeSlots : kind[i] = "disk" /\ nr[i] = n}

\* get_super, of the device that the inode number n is on: it has one.
HasSuper(n) == n \in Mountable => super.used

\* The process is in a directory of the second device.  Only then can it name
\* an inode of that device when it is not mounted.
InMounted(t) == Pwd \in Held /\ held[t][Pwd] # None /\ nr[held[t][Pwd]] \in Mountable

\* One mount or umount at a time.
Mounting(t) == pc[t].slot \in {Mnt, Umnt} \/ pc[t].at \in {"super", "mroot"}

\* fit_inode: the root of the file system that is mounted on i, instead of i.
\* Its iput of i is taken not to wait, so that no umount comes between that and
\* the use of super.iroot.
fit_inode(i) == IF mount[i] THEN super.iroot ELSE i

\* iget: a known inode is returned at once, another one is entered in the
\* table and its block is read.  open, chdir, chroot and execve begin with it,
\* mount (which holds the device's node already) and umount.
iget(t, n, s) ==
    LET known == find_inode(n)
        node == IF s = Mnt THEN {DeviceNode} ELSE {}
        counted(i) == [j \in InodeSlots |-> icount[j] + Cardinality({i} \cap {j}) + Cardinality(node \cap {j})]
    IN  /\ Runs(t)
        /\ s \in {Mnt, Umnt} => \A u \in Tasks : ~Mounting(u)
        /\ HasSuper(n) \/ InMounted(t)
        /\ \/ ~HasSuper(n) /\ Panic
           \/ \E i \in known :
                /\ HasSuper(n)
                /\ icount' = counted(fit_inode(i))
                /\ GotInode(t, fit_inode(i), s)
                /\ UNCHANGED <<kind, nr, loaded>>
           \/ HasSuper(n) /\ known = {} /\ FreeInodes = {} /\ Panic
           \/ /\ HasSuper(n) /\ known = {} /\ FreeInodes # {}
              /\ LET i == Lowest(FreeInodes)
                 IN  /\ kind' = [kind EXCEPT ![i] = "disk"]
                     /\ nr' = [nr EXCEPT ![i] = n]
                     /\ icount' = counted(i)
                     /\ loaded' = [loaded EXCEPT ![i] = FALSE]
                     /\ pc' = [pc EXCEPT ![t] = At("bread", i, s, None)]
              /\ UNCHANGED <<files, held, fcount, finode, mountVars, workload, halted>>

iget_done(t) ==
    /\ pc[t].at = "bread" /\ ~halted
    /\ loaded' = [loaded EXCEPT ![pc[t].inode] = TRUE]
    /\ GotInode(t, pc[t].inode, pc[t].slot)
    /\ UNCHANGED <<kind, nr, icount>>

\* The inode has the type that the call wants.
RightType(s, i) == nr[i] \in IF s = Exec THEN Regular ELSE Dirs

\* chdir, chroot and execve take the inode and give the old one up, or roll
\* back: a wrong type, or a directory the process is in already.  The type
\* read from an inode that is not loaded is arbitrary.
replace(t) ==
    LET p == pc[t]
        same == p.slot # Exec /\ held[t][p.slot] = p.inode
    IN  /\ p.at = "iget" /\ p.slot \in Held /\ ~halted
        /\ \/ /\ same \/ ~RightType(p.slot, p.inode) \/ ~loaded[p.inode]
              /\ Release(t, None, p.inode, None, "iput", User)
           \/ /\ ~same /\ (RightType(p.slot, p.inode) \/ ~loaded[p.inode])
              /\ Release(t, p.slot, held[t][p.slot], p.inode, "iput", User)

-----------------------------------------------------------------------------
\* What the table of inodes is after iput of each of the inodes in the
\* sequence refs.
Drop(refs) ==
    LET left(i) == icount[i] - Cardinality({k \in DOMAIN refs : refs[k] = i})
        gone == {i \in InodeSlots : icount[i] > 0 /\ left(i) = 0}
    IN  /\ icount' = [i \in InodeSlots |-> left(i)]
        /\ kind' = [i \in InodeSlots |-> IF i \in gone THEN "free" ELSE kind[i]]
        /\ nr' = [i \in InodeSlots |-> IF i \in gone THEN 0 ELSE nr[i]]
        /\ loaded' = [i \in InodeSlots |-> i \notin gone /\ loaded[i]]

\* mount or umount returns: the super block, the marked inodes, what is put.
MountReturns(t, sb, marks, refs) ==
    /\ Drop(refs)
    /\ super' = sb /\ mount' = marks
    /\ pc' = [pc EXCEPT ![t] = User]
    /\ UNCHANGED <<files, held, fcount, finode, workload, halted>>

\* sys_mount has both inodes.  It rolls back, also if the super block is in use
\* (read_super and put_super leave its count as it was), or begins to read.
sys_mount(t) ==
    LET d == pc[t].inode
        refused == nr[d] \notin Dirs \/ icount[d] # 1 \/ mount[d] \/ super.used
    IN  /\ pc[t].at = "iget" /\ pc[t].slot = Mnt /\ ~halted
        /\ \/ refused /\ MountReturns(t, super, mount, <<DeviceNode, d>>)
           \/ /\ ~refused
              /\ pc' = [pc EXCEPT ![t].at = "super"]
              /\ UNCHANGED <<files, held, fcount, finode, inodeVars, mountVars, workload, halted>>

\* read_super has its blocks and takes the super block; then iget of the root
\* directory, if need be from the disk.
read_super(t) ==
    LET known == find_inode(MountRoot)
        i == IF known # {} THEN Lowest(known) ELSE Lowest(FreeInodes)
    IN  /\ pc[t].at = "super" /\ ~halted
        /\ \/ known = {} /\ FreeInodes = {} /\ Panic
           \/ /\ known # {} \/ FreeInodes # {}
              /\ super' = [super EXCEPT !.used = TRUE]
              /\ icount' = [icount EXCEPT ![i] = @ + 1]
              /\ kind' = [kind EXCEPT ![i] = "disk"] /\ nr' = [nr EXCEPT ![i] = MountRoot]
              /\ pc' = [pc EXCEPT ![t].at = "mroot", ![t].new = i]
              /\ UNCHANGED <<files, held, fcount, finode, loaded, mount, workload, halted>>

\* sys_mount has the root directory.
mount_done(t) ==
    LET p == pc[t]
    IN  /\ p.at = "mroot" /\ ~halted
        /\ loaded' = [loaded EXCEPT ![p.new] = TRUE]
        /\ icount' = [icount EXCEPT ![DeviceNode] = @ - 1]
        /\ super' = [used |-> TRUE, iroot |-> p.new, imount |-> p.inode]
        /\ mount' = [mount EXCEPT ![p.inode] = TRUE]
        /\ pc' = [pc EXCEPT ![t] = User]
        /\ UNCHANGED <<files, held, fcount, finode, kind, nr, workload, halted>>

\* put_super, of the only reference: the super block is free.
put_super == NoSuper

\* umount of the file system whose root directory is i, or which is on the
\* device of the node i; refs: what the caller has to give up.  No super block
\* is a NULL pointer.  A file system with another inode in use is refused, but
\* its super block is put: it is free, with pointers to the inodes it has put
\* and a mark on the directory.  The model ends there.
umount(t, i, refs) ==
    LET known == {j \in InodeSlots : kind[j] = "disk" /\ nr[j] \in Mountable}
        mounted == i = DeviceNode \/ nr[i] = MountRoot
    IN  \/ ~mounted /\ MountReturns(t, super, mount, refs)
        \/ mounted /\ (~super.used \/ Cardinality(known) > 1) /\ Panic
        \/ /\ mounted /\ super.used /\ Cardinality(known) <= 1
           /\ MountReturns(t, put_super, [mount EXCEPT ![super.imount] = FALSE],
                           refs \o <<super.iroot, super.imount>>)

sys_umount(t) == /\ pc[t].at = "iget" /\ pc[t].slot = Umnt /\ ~halted
                 /\ umount(t, pc[t].inode, <<pc[t].inode>>)
umount_device(t) == /\ Runs(t) /\ Umnt \in workload.slots /\ \A u \in Tasks : ~Mounting(u)
                    /\ umount(t, DeviceNode, << >>)

-----------------------------------------------------------------------------
sys_close(t, d) == /\ Runs(t) /\ files[t][d] # None
                   /\ Release(t, d, InodeOf(t, d), None, "iput", User)

sys_dup(t, d) == /\ Runs(t)
                 /\ dupfd(t, files, fcount, d, 1)
                 /\ UNCHANGED <<held, finode, inodeVars, mountVars, pc, workload, halted>>

\* dup2 closes newfd, whatever oldfd is, and then dups.
sys_dup2(t, old, new) ==
    /\ Runs(t)
    /\ IF files[t][new] = None
       THEN dupfd(t, files, fcount, old, new) /\ UNCHANGED <<held, finode, inodeVars, mountVars, pc, workload, halted>>
       ELSE Release(t, new, InodeOf(t, new), old, "iput", User)

\* The count get_pipe_inode gives the inode.
PipeRefs == 2

\* pipe: one inode, two files, two descriptors.
sys_pipe(t) ==
    LET a == Lowest(FreeFiles)
        b == Lowest(FreeFiles \ {a})
        r == Lowest(FreeFds(t))
        w == Lowest(FreeFds(t) \ {r})
        i == Lowest(FreeInodes)
        enough == FreeInodes # {} /\ Cardinality(FreeFds(t)) > 1 /\ Cardinality(FreeFiles) > 1
    IN  /\ Runs(t)
        /\ \/ ~enough /\ Panic
           \/ /\ enough
              /\ files' = [files EXCEPT ![t][r] = a, ![t][w] = b]
              /\ fcount' = [fcount EXCEPT ![a] = 1, ![b] = 1]
              /\ finode' = [finode EXCEPT ![a] = i, ![b] = i]
              /\ kind' = [kind EXCEPT ![i] = "pipe"]
              /\ icount' = [icount EXCEPT ![i] = PipeRefs]
              /\ UNCHANGED <<held, nr, loaded, mountVars, pc, workload, halted>>

\* The number of times the function g has the value x.
Uses(g, x) == Cardinality({s \in DOMAIN g : g[s] = x})

\* A plausible slip: the child's inodes are not counted.
task_fork_no_inodes(t, c) ==
    /\ Runs(t) /\ pc[c] = Gone
    /\ files' = [files EXCEPT ![c] = files[t]]
    /\ held' = [held EXCEPT ![c] = held[t]]
    /\ fcount' = [f \in FileSlots |-> fcount[f] + Uses(files[t], f)]
    /\ pc' = [pc EXCEPT ![c] = User]
    /\ UNCHANGED <<finode, inodeVars, mountVars, workload, halted>>

task_fork(t, c) ==
    /\ Runs(t) /\ pc[c] = Gone
    /\ files' = [files EXCEPT ![c] = files[t]]
    /\ held' = [held EXCEPT ![c] = held[t]]
    /\ fcount' = [f \in FileSlots |-> fcount[f] + Uses(files[t], f)]
    /\ icount' = [i \in InodeSlots |-> icount[i] + Uses(held[t], i)]
    /\ pc' = [pc EXCEPT ![c] = User]
    /\ UNCHANGED <<finode, kind, nr, loaded, mountVars, workload, halted>>

task_exit(t) == /\ Runs(t)
                /\ pc' = [pc EXCEPT ![t] = Exiting]
                /\ UNCHANGED <<files, held, fcount, finode, inodeVars, mountVars, workload, halted>>

\* The references go one by one: working directory, root, program, descriptors.
exit_step(t) ==
    LET left == {s \in Slots : InodeOf(t, s) # None}
        next == Lowest(left)
    IN  /\ pc[t] = Exiting /\ ~halted
        /\ \/ left # {} /\ Release(t, next, InodeOf(t, next), None, "xput", Exiting)
           \/ /\ left = {}
              /\ pc' = [pc EXCEPT ![t] = Gone]
              /\ UNCHANGED <<files, held, fcount, finode, inodeVars, mountVars, workload, halted>>

\* The calls that work on descriptors beside open.
DescriptorCalls(t) ==
    /\ None \in workload.slots
    /\ \/ \E d \in Fds : sys_dup(t, d) \/ \E e \in Fds : sys_dup2(t, d, e)
       \/ sys_pipe(t)

Next == \E t \in Tasks :
    \/ \E n \in workload.numbers, s \in workload.slots : iget(t, n, s)
    \/ iget_done(t) \/ replace(t) \/ iput_done(t)
    \/ sys_mount(t) \/ read_super(t) \/ mount_done(t) \/ sys_umount(t) \/ umount_device(t)
    \/ \E d \in Fds : sys_close(t, d)
    \/ DescriptorCalls(t)
    \/ \E c \in Tasks : task_fork(t, c)
    \/ task_exit(t) \/ exit_step(t)

Spec == Init /\ [][Next]_vars

-----------------------------------------------------------------------------
\* A slot whose inode waits in iput is on its way out.
Leaving(t, s) == pc[t].at \in {"iput", "xput"} /\ pc[t].slot = s

(* file->count is the number of descriptors that share the file, over all  *)
(* processes: a file is neither closed under a descriptor nor leaked.      *)
FileCountExact ==
    \A f \in FileSlots :
        LET S == {x \in Tasks \X Fds : files[x[1]][x[2]] = f /\ ~Leaving(x[1], x[2])}
        IN  fcount[f] = Cardinality(S) + IdleRefs(f)

(* inode->count is the number of files, processes, calls under way and     *)
(* mounted file systems that refer to the inode, as long as the kernel has *)
(* not stopped in a panic; the entry is free exactly when there is none.   *)
InodeCountExact ==
  halted \/
    \A i \in InodeSlots :
        LET byFile == {f \in FileSlots : fcount[f] > 0 /\ finode[f] = i}
            byTask == {x \in Tasks \X Held : held[x[1]][x[2]] = i /\ ~Leaving(x[1], x[2])}
            byCall == {t \in Tasks : pc[t].inode = i}
            byNew == {t \in Tasks :
                        \/ pc[t].at = "iput" /\ pc[t].slot \in Held /\ pc[t].new = i
                        \/ pc[t].at = "mroot" /\ pc[t].new = i
                        \/ pc[t].slot = Mnt /\ i = DeviceNode}
            bySuper == {x \in {<<"root", super.iroot>>, <<"mount", super.imount>>} : super.used /\ x[2] = i}
        IN  /\ icount[i] = Cardinality(byFile) + Cardinality(byTask) + Cardinality(byCall)
                           + Cardinality(byNew) + Cardinality(bySuper) + KernelRefs(i)
            /\ kind[i] = "free" <=> icount[i] = 0

(* An inode number has one entry in memory, so that every process sees the *)
(* same size and blocks of a file.                                         *)
OneInodePerNumber ==
    \A i, j \in InodeSlots : kind[i] = "disk" /\ kind[j] = "disk" /\ nr[i] = nr[j] => i = j
=============================================================================
