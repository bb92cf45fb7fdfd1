---------------------------- MODULE Directories ----------------------------
(***************************************************************************)
(* Directories and path names (fs/namei.c) over the zones of Zones: mkdir, *)
(* rmdir, link, unlink, mknod, open, chdir, with the inode bitmap          *)
(* (fs/bmap.c) and new_inode (fs/inode.c).                                 *)
(*                                                                         *)
(* The code has no lock on a directory: of the calls that look up names    *)
(* one is under way at a time here, while other processes read and write   *)
(* the files they have open.  Every process is privileged or owns the      *)
(* files, so that permission only looks at nlinks.  A call that fails      *)
(* changes nothing and is left out.                                        *)
(***************************************************************************)
EXTENDS Zones

CONSTANT Names              \* names of entries, beside "." and ".."; a path name is
                            \* [abs, names], abs telling that it begins with "/"

DeviceNumber == 1           \* what mknod stores in zone[0]

ASSUME DirectoriesAssumption ==
    \A w \in Workloads : \A p \in w.paths :
        p.abs \in BOOLEAN /\ p.names \in Seq(Names \cup {".", ".."}) /\ (p.abs \/ p.names # << >>)

VARIABLES ipwd, pwd         \* task->ipwd; task->pwd, the names between its separators

vars == <<zoneVars, ipwd, pwd>>

Init == /\ ZonesInit
        /\ ipwd = [t \in Tasks |-> 1]
        /\ pwd = [t \in Tasks |-> << >>]

-----------------------------------------------------------------------------
EntryZone(d, i) == Lookup(d, i \div BLOCK_CELLS)
Cell(z, c) == IF z = 0 THEN Zero ELSE block[z][c]
Entry(d, i) == Cell(EntryZone(d, i), i % BLOCK_CELLS)
Entries(d) == {i \in 0 .. desc[d].size - 1 : Entry(d, i).nr # 0}

\* find_entry: the slots of d whose entry is in use and has the name.  (At the
\* root of the disk ".." leads to where the disk is mounted: the root itself.)
find_entry(d, name) == {i \in Entries(d) : Entry(d, i).name = name}

\* The inode that find_entry and iget lead to, 0 if there is no such entry.
Number(d, slots) == IF slots = {} THEN 0 ELSE Entry(d, Lowest(slots)).nr
Child(d, name) == Number(d, find_entry(d, name))

permission(n) == desc[n].nlinks # 0

\* named: from the root or the working directory along all names but the last.
named(t, path) ==
    LET into(n) == IF n # 0 /\ desc[n].type = "dir" /\ permission(n) THEN n ELSE 0
        step(d, name) == IF d = 0 THEN 0 ELSE into(Child(d, name))
        walk[i \in 0 .. Len(path.names)] ==
            IF i = 0 THEN IF path.abs THEN 1 ELSE ipwd[t] ELSE step(walk[i - 1], path.names[i])
    IN  walk[IF path.names = << >> THEN 0 ELSE Len(path.names) - 1]

namei(t, path) ==
    LET leaf(d) == IF d = 0 \/ path.names = << >> THEN d ELSE Child(d, Last(path.names))
    IN  leaf(named(t, path))

\* The process is in a call that looks up names.
InNamei(t) == LET p == pc[t]
              IN  ~ \/ p.at \in {"user", "write", "read"}
                    \/ p.at \in {"bmap", "balloc", "brelse"} /\ p.then.at = "write"

\* t makes call c, on the entry the path's last name stands for in directory d,
\* which it may write.
Names1(t, c) == Calls(t, c) /\ \A u \in Tasks : ~InNamei(u)
InDir(t, path, d) == d # 0 /\ path.names # << >> /\ permission(d)

\* The inode is open, or somebody's working directory: inode->count is above
\* the one of the call itself.
InUse(n) == n = 1 \/ \E t \in Tasks : ipwd[t] = n \/ file[t].inode = n

\* What the programs of the workloads leave alone: removing or truncating a
\* file that is open, writing to "/", and, but for some workloads, opening a
\* file twice.
Spared(n) == n # 0 /\ \E t \in Tasks : file[t].inode = n
OpenSpares(path, n, flags) == /\ Spared(n) => workload.shared /\ "TRUNC" \notin flags
                              /\ path.names = << >> => flags = {}

-----------------------------------------------------------------------------
\* add_entry: the first free slot, or a new one at the end, whose block bmap
\* makes if need be.
AddEntry(d, name, call, arg) ==
    LET free == (0 .. desc[d].size) \ Entries(d)
        i == Lowest(free)
    IN  Bmap(d, i \div BLOCK_CELLS,
             [at |-> "entry", dir |-> d, slot |-> i, name |-> name, call |-> call, arg |-> arg, new |-> 0, z |-> 0])

\* mkdir, mknod and link (of an inode, arg, that is no directory): the path's
\* directory has no such entry yet.
creating_call(t, path, call, arg) ==
    LET d == named(t, path)
    IN  /\ Names1(t, call)
        /\ call = "link" => arg # 0 /\ desc[arg].type # "dir"
        /\ InDir(t, path, d) /\ Child(d, Last(path.names)) = 0
        /\ Goto(t, AddEntry(d, Last(path.names), call, arg))
        /\ UNCHANGED <<zmap, imap, desc, block, file, text, halted, stale, ipwd, pwd>>

sys_mkdir(t, path) == creating_call(t, path, "mkdir", 0)
sys_mknod(t, path) == creating_call(t, path, "mknod", 0)
sys_link(t, old, path) == creating_call(t, path, "link", namei(t, old))

\* The new entry is named; it gets its number at once for link, and after
\* ialloc, which waits for the disk, for the others.
add_entry(t) ==
    LET p == pc[t]
        free == Inodes \ imap
        nr == IF p.call = "link" THEN p.arg ELSE 0
    IN  /\ At(t, "entry")
        /\ \/ p.call # "link" /\ free = {} /\ Panic("full")
           \/ /\ p.call = "link" \/ free # {}
              /\ block' = [block EXCEPT ![p.z][p.slot % BLOCK_CELLS] = [nr |-> nr, name |-> p.name]]
              /\ desc' = LET grown == [desc EXCEPT ![p.dir].size = IF @ <= p.slot THEN p.slot + 1 ELSE @]
                         IN  IF p.call = "link" THEN [grown EXCEPT ![p.arg].nlinks = @ + 1] ELSE grown
              /\ imap' = IF p.call = "link" THEN imap ELSE imap \cup {Lowest(free)}
              /\ Goto(t, IF p.call = "link" THEN User ELSE [p EXCEPT !.at = "ialloc", !.new = Lowest(free)])
              /\ UNCHANGED <<zmap, file, text, halted, stale>>
        /\ UNCHANGED <<ipwd, pwd>>

\* sys_open's last part: a file with its offset at the start, or at the end for O_APPEND.
Opened(n, flags) == [inode |-> n, offset |-> IF "APPEND" \in flags THEN desc[n].size ELSE 0, write |-> "WRITE" \in flags]
OpenFrame(n, flags) == [at |-> "open", inode |-> n, flags |-> flags]

\* new_inode and what its caller makes of it: the pointers in zone are those
\* that the inode's last owner has left.
Made(n, type, size, nlinks) == [desc EXCEPT ![n] = [@ EXCEPT !.type = type, !.size = size, !.nlinks = nlinks]]

new_inode(t) ==
    LET p == pc[t]
        n == p.new
    IN  /\ At(t, "ialloc")
        /\ block' = [block EXCEPT ![p.z][p.slot % BLOCK_CELLS].nr = n]
        /\ text' = [text EXCEPT ![n] = << >>]
        /\ stale' = (stale \/ (p.call # "mknod" /\ \E k \in ZoneSlots : desc[n].zone[k] # 0))
        /\ \/ /\ p.call = "mkdir"
              /\ desc' = [Made(n, "dir", 2, 2) EXCEPT ![p.dir].nlinks = @ + 1]
              /\ Goto(t, Bmap(n, 0, [at |-> "dots", inode |-> n, parent |-> p.dir, z |-> 0]))
           \/ /\ p.call = "mknod"
              /\ desc' = [Made(n, "dev", 0, 1) EXCEPT ![n].zone[0] = DeviceNumber]
              /\ Goto(t, User)
           \/ /\ p.call = "open"
              /\ desc' = Made(n, "file", 0, 1)
              /\ Goto(t, IF "TRUNC" \in p.arg THEN Truncate(n, OpenFrame(n, p.arg)) ELSE OpenFrame(n, p.arg))
        /\ UNCHANGED <<zmap, imap, file, halted, ipwd, pwd>>

\* mkdir's directory has its block: "." and "..".
mkdir_dots(t) ==
    LET p == pc[t]
        dots == Dots(p.inode, p.parent)
    IN  /\ At(t, "dots")
        /\ block' = [block EXCEPT ![p.z] = [c \in DOMAIN @ |-> IF c < 2 THEN dots[c] ELSE @[c]]]
        /\ Goto(t, User)
        /\ UNCHANGED <<zmap, imap, desc, file, text, halted, stale, ipwd, pwd>>

\* open: an existing inode (truncated for O_TRUNC, which wants write access) or
\* a new file for O_CREAT.
sys_open(t, path, flags) ==
    LET d == named(t, path)
        n == namei(t, path)
        writes == flags \cap {"WRITE", "TRUNC"} # {}
    IN  /\ Names1(t, "open") /\ file[t] = Closed
        /\ OpenSpares(path, n, flags)
        /\ \/ n # 0 /\ path.names = << >> /\ Goto(t, OpenFrame(n, flags))
           \/ /\ n # 0 /\ path.names # << >> /\ permission(n) /\ ~(desc[n].type = "dir" /\ writes)
              /\ Goto(t, IF "TRUNC" \in flags THEN Truncate(n, OpenFrame(n, flags)) ELSE OpenFrame(n, flags))
           \/ /\ n = 0 /\ "CREAT" \in flags /\ InDir(t, path, d)
              /\ Goto(t, AddEntry(d, Last(path.names), "open", flags))
        /\ UNCHANGED <<zmap, imap, desc, block, file, text, halted, stale, ipwd, pwd>>

open_done(t) ==
    /\ At(t, "open")
    /\ file' = [file EXCEPT ![t] = Opened(pc[t].inode, pc[t].flags)]
    /\ Goto(t, User)
    /\ UNCHANGED <<zmap, imap, desc, block, text, halted, stale, ipwd, pwd>>

-----------------------------------------------------------------------------
Ifree(n, then) == [at |-> "ifree", inode |-> n, then |-> then]

\* ifree, with its assertion, as far as its wait for the disk.
ifree(t) ==
    LET n == pc[t].inode
    IN  /\ At(t, "ifree")
        /\ \/ n \notin imap /\ Panic("assert")
           \/ /\ n \in imap
              /\ imap' = imap \ {n}
              /\ Goto(t, pc[t].then)
              /\ UNCHANGED <<zmap, desc, block, file, text, halted, stale>>
        /\ UNCHANGED <<ipwd, pwd>>

\* unlink: the entry goes first, and with the last link the file, or the
\* device's node, whose zone[0] stays as it is.
sys_unlink(t, path) ==
    LET d == named(t, path)
        i == Lowest(find_entry(d, Last(path.names)))
        n == namei(t, path)
    IN  /\ Names1(t, "unlink") /\ InDir(t, path, d)
        /\ n # 0 /\ desc[n].type # "dir"
        /\ ~Spared(n)
        /\ block' = [block EXCEPT ![EntryZone(d, i)][i % BLOCK_CELLS].nr = 0]
        /\ desc' = [desc EXCEPT ![n].nlinks = @ - 1]
        /\ Goto(t, IF desc[n].nlinks = 1 THEN Truncate(n, Ifree(n, User)) ELSE User)
        /\ UNCHANGED <<zmap, imap, file, text, halted, stale, ipwd, pwd>>

\* A plausible slip: what the directory holds is not looked at.
is_empty_always(n) == TRUE

is_empty(n) == desc[n].size >= 2 /\ desc[n].zone[0] # 0 /\ Cardinality(Entries(n)) = 2

\* rmdir: the directory's zones and its inode go first, its entry last.
sys_rmdir(t, path) ==
    LET d == named(t, path)
        i == Lowest(find_entry(d, Last(path.names)))
        n == namei(t, path)
    IN  /\ Names1(t, "rmdir") /\ InDir(t, path, d)
        /\ n # 0 /\ n # d /\ desc[n].type = "dir" /\ ~InUse(n) /\ is_empty(n)
        /\ \/ desc[n].nlinks # 2 /\ Panic("assert")
           \/ /\ desc[n].nlinks = 2
              /\ Goto(t, Truncate(n, Ifree(n, [at |-> "rmdir", inode |-> n, dir |-> d, slot |-> i])))
              /\ UNCHANGED <<zmap, imap, desc, block, file, text, halted, stale>>
        /\ UNCHANGED <<ipwd, pwd>>

rmdir_done(t) ==
    LET p == pc[t]
    IN  /\ At(t, "rmdir")
        /\ desc' = [desc EXCEPT ![p.inode].nlinks = 0, ![p.dir].nlinks = @ - 1]
        /\ block' = [block EXCEPT ![EntryZone(p.dir, p.slot)][p.slot % BLOCK_CELLS].nr = 0]
        /\ Goto(t, User)
        /\ UNCHANGED <<zmap, imap, file, text, halted, stale, ipwd, pwd>>

-----------------------------------------------------------------------------
\* A plausible slip: ".." is added like any other name.
abspath_keeps_dots(s, path) ==
    (IF path.abs THEN << >> ELSE s) \o SelectSeq(path.names, LAMBDA name : name # ".")

\* abspath: the names of s, the working directory's path, and then those of path.
abspath(s, path) ==
    LET step(q, name) == CASE name = "." -> q
                           [] name = ".." -> IF q = << >> THEN q ELSE Front(q)
                           [] OTHER -> Append(q, name)
        walk[i \in 0 .. Len(path.names)] ==
            IF i = 0 THEN IF path.abs THEN << >> ELSE s ELSE step(walk[i - 1], path.names[i])
    IN  walk[Len(path.names)]

sys_chdir(t, path) ==
    LET n == namei(t, path)
    IN  /\ Names1(t, "chdir")
        /\ n # 0 /\ desc[n].type = "dir" /\ n # ipwd[t]
        /\ ipwd' = [ipwd EXCEPT ![t] = n]
        /\ pwd' = [pwd EXCEPT ![t] = abspath(@, path)]
        /\ UNCHANGED <<zmap, imap, desc, block, file, pc, text, halted, stale>>

Next == \E t \in Tasks :
    \/ ZonesNext(t) /\ UNCHANGED <<ipwd, pwd>>
    \/ add_entry(t) \/ new_inode(t) \/ mkdir_dots(t) \/ open_done(t) \/ ifree(t) \/ rmdir_done(t)
    \/ \E path \in workload.paths :
          \/ sys_mkdir(t, path) \/ sys_mknod(t, path) \/ sys_unlink(t, path) \/ sys_rmdir(t, path) \/ sys_chdir(t, path)
          \/ \E old \in workload.paths : sys_link(t, old, path)
          \/ \E flags \in workload.flags : sys_open(t, path, flags)

Spec == Init /\ [][Next]_vars

-----------------------------------------------------------------------------
Quiet == \A t \in Tasks : pc[t] = User
NamesQuiet == \A t \in Tasks : ~InNamei(t)
InUseDirs == {n \in imap : desc[n].type = "dir"}

\* The slots of inodes in use that hold zones, and these zones: of a slot that
\* is being freed, those whose turn has not come.
Owners == {x \in imap \X ZoneSlots : desc[x[1]].type \in {"file", "dir"} /\ desc[x[1]].zone[x[2]] # 0}
Freeing(x) == {t \in Tasks : pc[t].at = "bfree" /\ pc[t].inode = x[1] /\ pc[t].slot = x[2]}
ZonesOf(x) == IF Freeing(x) = {} THEN Subtree(x[1], x[2]) ELSE pc[CHOOSE t \in Freeing(x) : TRUE].todo

(* Every zone that an inode leads to, directly or through index blocks, is *)
(* marked as used and belongs to that place alone, at every moment and     *)
(* also while two processes extend one file (balloc, bmap, inode_bfree);   *)
(* no bitmap assertion fails.  When no call is under way and no file was   *)
(* shared, no other zone is marked: none is lost.  All this as long as     *)
(* every index block was made from a zone that held nothing and every file *)
(* and directory from an inode without pointers; neither is ever cleared.  *)
ZonesExact ==
    LET held == {<<x, ZonesOf(x)>> : x \in Owners}
    IN  ~stale =>
        /\ halted # "assert"
        /\ \A h \in held : IsInjective(h[2]) /\ ToSet(h[2]) \subseteq zmap \cap Zones
        /\ \A h, k \in held : h[1] # k[1] => ToSet(h[2]) \cap ToSet(k[2]) = {}
        /\ Quiet /\ ~workload.shared /\ halted = "no" =>
               zmap = {FirstZone - 1} \cup UNION {ToSet(h[2]) : h \in held}

\* Nothing was ever written to block b of inode n.
NeverWritten(n, b) == \A i \in DOMAIN text[n] : (i - 1) \div BLOCK_CELLS = b => text[n][i] = Hole

(* What was written to a file, over block and index boundaries and in any  *)
(* order of seeks, is what its blocks hold, and its size reaches to the    *)
(* last of it.  inode_read's assertion that a block exists fails at most   *)
(* on a block nothing was written to: one that a seek past the end has     *)
(* left out.  The rest of a hole may read as anything.  Again as long as   *)
(* nothing stale was taken.                                                *)
ReadsBack ==
    ~workload.shared /\ ~stale =>
        /\ \A t \in Tasks :
              LET p == pc[t]
              IN  p.at = "read" /\ Lookup(p.inode, p.off \div BLOCK_CELLS) = 0
                      => NeverWritten(p.inode, p.off \div BLOCK_CELLS)
        /\ Quiet /\ halted = "no" =>
              \A n \in imap : desc[n].type = "file" =>
                  /\ desc[n].size = Len(text[n])
                  /\ \A i \in DOMAIN text[n] : text[n][i] # Hole => Entry(n, i - 1).nr = text[n][i]

(* Between the calls that look up names the file system is a tree: nlinks  *)
(* is the number of entries that lead to the inode, the inodes in use are  *)
(* those that can be reached from the root, no directory has a name twice, *)
(* and ".." leads to the directory that has the entry.  As long as nothing *)
(* stale was taken.                                                        *)
LinksExact ==
    NamesQuiet /\ halted = "no" /\ ~stale =>
        LET links == UNION {{[dir |-> d, slot |-> i, entry |-> Entry(d, i)] : i \in Entries(d)} : d \in InUseDirs}
            \* The inodes at most k levels below the root.
            below[k \in 0 .. NInodes] ==
                IF k = 0 THEN {1} ELSE below[k - 1] \cup {x.entry.nr : x \in {y \in links : y.dir \in below[k - 1]}}
        IN  /\ \A n \in imap : desc[n].nlinks = Cardinality({x \in links : x.entry.nr = n})
            /\ \A x, y \in links : x.dir = y.dir /\ x.entry.name = y.entry.name => x = y
            /\ \A x \in links : x.entry.nr \in imap
            /\ \A x \in links : x.entry.nr \in InUseDirs /\ x.entry.name \notin {".", ".."}
                                    => Child(x.entry.nr, "..") = x.dir
            /\ imap \subseteq below[NInodes]

(* The assertions of bfree, ifree and sys_rmdir hold: only zones and       *)
(* inodes in use are freed.                                                *)
AssertionsHold == halted # "assert"

(* The path that getcwd returns leads from the root to the working         *)
(* directory, whatever directories have come and gone (abspath, rmdir), as *)
(* long as nothing stale was taken.                                        *)
PwdExact ==
    NamesQuiet /\ ~stale => \A t \in Tasks : namei(t, [abs |-> TRUE, names |-> pwd[t]]) = ipwd[t]
=============================================================================
