-------------------------- MODULE Files_proofs --------------------------
(***************************************************************************)
(* Open files and inodes in memory, for any number of processes,           *)
(* descriptors, files and inodes and any workload: the counts of files and *)
(* inodes are the numbers of their references, and an inode number has one *)
(* entry, whatever waits for the disk in iget and iput.                    *)
(*                                                                         *)
(* A count is the number of times that a function, the references of one   *)
(* kind, has a value.  A step changes these functions at single points.    *)
(***************************************************************************)
EXTENDS Files, SequenceLemmas

OptInode == InodeSlots \cup {None}

\* Where a process can be, with what it waits for there.
Places == {User, Exiting, Gone}
   \cup [at : {"bread"}, inode : InodeSlots, slot : {None, Mnt, Umnt} \cup Held, new : {None}]
   \cup [at : {"iget"}, inode : InodeSlots, slot : {Mnt, Umnt} \cup Held, new : {None}]
   \cup [at : {"iput"}, inode : InodeSlots, slot : {None}, new : {None}]
   \cup [at : {"iput"}, inode : InodeSlots, slot : Held, new : InodeSlots]
   \cup [at : {"iput"}, inode : InodeSlots, slot : Fds, new : Fds \cup {None}]
   \cup [at : {"xput"}, inode : InodeSlots, slot : Slots, new : {None}]
   \cup [at : {"super"}, inode : InodeSlots, slot : {Mnt}, new : {None}]
   \cup [at : {"mroot"}, inode : InodeSlots, slot : {Mnt}, new : InodeSlots]

FilesTypeOK == /\ files \in [Tasks -> [Fds -> FileSlots \cup {None}]]
               /\ held \in [Tasks -> [Held -> OptInode]]
               /\ fcount \in [FileSlots -> Nat] /\ finode \in [FileSlots -> OptInode]
               /\ kind \in [InodeSlots -> {"free", "disk", "pipe"}]
               /\ nr \in [InodeSlots -> Nat] /\ icount \in [InodeSlots -> Nat]
               /\ mount \in [InodeSlots -> BOOLEAN] /\ loaded \in [InodeSlots -> BOOLEAN]
               /\ super \in [used : BOOLEAN, iroot : OptInode, imount : OptInode]
               /\ pc \in [Tasks -> Places]
               /\ workload \in Workloads /\ halted \in BOOLEAN

\* The descriptors that count for a file.
Open == [x \in Tasks \X Fds |-> IF Leaving(x[1], x[2]) THEN None ELSE files[x[1]][x[2]]]
FileCounts == \A f \in FileSlots : fcount[f] = Uses(Open, f) + IdleRefs(f)

\* What counts for an inode: files, processes, calls under way (the inode a
\* call waits for, the one it will keep, the device's node) and the super block.
NewOf(p) == IF (p.at = "iput" /\ p.slot \in Held) \/ p.at = "mroot" THEN p.new ELSE None
NodeOf(p) == IF p.slot = Mnt THEN DeviceNode ELSE None
FileRef == [f \in FileSlots |-> IF fcount[f] > 0 THEN finode[f] ELSE None]
TaskRef == [x \in Tasks \X Held |-> IF Leaving(x[1], x[2]) THEN None ELSE held[x[1]][x[2]]]
CallRef == [t \in Tasks |-> pc[t].inode]
NewRef == [t \in Tasks |-> NewOf(pc[t])]
NodeRef == [t \in Tasks |-> NodeOf(pc[t])]
SuperRef == [k \in {"root", "mount"} |-> IF k = "root" THEN super.iroot ELSE super.imount]
Total(i) == Uses(FileRef, i) + Uses(TaskRef, i) + Uses(CallRef, i) + Uses(NewRef, i)
            + Uses(NodeRef, i) + Uses(SuperRef, i) + KernelRefs(i)
InodeCounts == \A i \in InodeSlots : icount[i] = Total(i) /\ (kind[i] = "free" <=> icount[i] = 0)

\* A process that is gone refers to nothing.
GoneEmpty == \A t \in Tasks : pc[t] = Gone => /\ \A d \in Fds : files[t][d] = None
                                              /\ \A r \in Held : held[t][r] = None

\* A file that is open has an inode; the standard file is never closed.
OpenFiles == /\ \A f \in FileSlots : fcount[f] > 0 => finode[f] # None
             /\ finode[Std] = DeviceNode

\* One call mounts or unmounts at a time, and the super block is what it has
\* made of it so far.
Mounts == /\ \A t, u \in Tasks : Mounting(t) /\ Mounting(u) => t = u
          /\ \A i \in InodeSlots : mount[i] => super.used /\ i = super.imount /\ super.iroot # None
          /\ ~super.used => super = NoSuper
          /\ \A t \in Tasks : pc[t].at = "super" => ~super.used
          /\ \A t \in Tasks : pc[t].at = "mroot" =>
                /\ super.used /\ super.iroot = None /\ super.imount = None
                /\ pc[t].new # DeviceNode

\* The node of the second device stays in memory.
DeviceStays == nr[DeviceNode] = DeviceNode /\ kind[DeviceNode] = "disk"

RunInv == InodeCounts /\ GoneEmpty /\ OpenFiles /\ Mounts /\ DeviceStays

FilesInv == FilesTypeOK /\ FileCounts /\ OneInodePerNumber /\ (halted \/ RunInv)

-----------------------------------------------------------------------------
\* Counting.

\* 1 if the reference a counts for v.
Same(a, v) == IF a = v THEN 1 ELSE 0

(* A reference is replaced: only the old and the new value count           *)
(* differently.                                                            *)
LEMMA UsesPut ==
    ASSUME NEW X, IsFiniteSet(X), NEW g, DOMAIN g = X, NEW a \in X, NEW v,
           NEW h, DOMAIN h = X, h[a] = v, \A x \in X : x # a => h[x] = g[x], NEW i
    PROVE  /\ Uses(g, i) \in Nat /\ Uses(h, i) \in Nat
           /\ Uses(h, i) = Uses(g, i) - Same(g[a], i) + Same(v, i)
<1> DEFINE A == {s \in X : g[s] = i}
           B == {s \in X : h[s] = i}
<1>1. Uses(g, i) = Cardinality(A) /\ Uses(h, i) = Cardinality(B)
  BY DEF Uses
<1>2. A \in SUBSET X /\ B \in SUBSET X
  OBVIOUS
<1>3. IsFiniteSet(A) /\ IsFiniteSet(B) /\ Cardinality(A) \in Nat /\ Cardinality(B) \in Nat
  BY <1>2, FS_Subset, FS_CardinalityType
<1>4. \A y : y # a => (y \in A <=> y \in B)
  OBVIOUS
<1>5. (a \in A <=> g[a] = i) /\ (a \in B <=> v = i)
  OBVIOUS
<1> HIDE DEF A, B
<1>6. /\ a \in A /\ a \in B => Cardinality(B) = Cardinality(A)
      /\ a \notin A /\ a \notin B => Cardinality(B) = Cardinality(A)
      /\ a \in A /\ a \notin B => Cardinality(B) = Cardinality(A) - 1
      /\ a \notin A /\ a \in B => Cardinality(B) = Cardinality(A) + 1
  BY <1>3, <1>4, SwapCount
<1>7. Cardinality(B) = Cardinality(A) - Same(g[a], i) + Same(v, i)
  BY <1>3, <1>5, <1>6 DEF Same
<1> QED
  BY <1>1, <1>3, <1>7

(* A value that a reference has is counted.                                *)
LEMMA UsesSome ==
    ASSUME NEW X, IsFiniteSet(X), NEW g, DOMAIN g = X, NEW i
    PROVE  /\ Uses(g, i) \in Nat
           /\ \A a \in X : g[a] = i => Uses(g, i) > 0
           /\ (\A a \in X : g[a] # i) => Uses(g, i) = 0
<1> DEFINE A == {s \in X : g[s] = i}
<1>1. Uses(g, i) = Cardinality(A)
  BY DEF Uses
<1>2. A \in SUBSET X
  OBVIOUS
<1>3. IsFiniteSet(A) /\ Cardinality(A) \in Nat /\ (Cardinality(A) = 0 <=> A = {})
  BY <1>2, FS_Subset, FS_CardinalityType, FS_EmptySet
<1>4. ASSUME NEW a \in X, g[a] = i PROVE Uses(g, i) > 0
  <2>1. a \in A
    BY <1>4
  <2> QED
    BY <1>1, <1>3, <2>1
<1>5. (\A a \in X : g[a] # i) => A = {}
  OBVIOUS
<1> QED
  BY <1>1, <1>3, <1>4, <1>5

\* The references p are those of o, with the ones of g for the process c,
\* which had none to i.
RowAdded(T, D, c, g, o, p, i) ==
    /\ DOMAIN g = D /\ DOMAIN o = T \X D /\ DOMAIN p = T \X D
    /\ \A d \in D : o[<<c, d>>] # i /\ p[<<c, d>>] = g[d]
    /\ \A t \in T, d \in D : t # c => p[<<t, d>>] = o[<<t, d>>]

(* The references of a process that had none become those of g.            *)
LEMMA UsesRow ==
    ASSUME NEW T, NEW D, IsFiniteSet(T), IsFiniteSet(D), NEW c \in T, NEW g, NEW o, NEW p, NEW i,
           RowAdded(T, D, c, g, o, p, i)
    PROVE  Uses(p, i) = Uses(o, i) + Uses(g, i) /\ Uses(o, i) \in Nat /\ Uses(g, i) \in Nat
<1>0. /\ DOMAIN g = D /\ DOMAIN o = T \X D /\ DOMAIN p = T \X D
      /\ \A d \in D : o[<<c, d>>] # i /\ p[<<c, d>>] = g[d]
      /\ \A t \in T, d \in D : t # c => p[<<t, d>>] = o[<<t, d>>]
  BY DEF RowAdded
<1> DEFINE A == {s \in T \X D : o[s] = i}
           B == {s \in T \X D : p[s] = i}
           R == {d \in D : g[d] = i}
           P == {c} \X R
<1>1. Uses(o, i) = Cardinality(A) /\ Uses(p, i) = Cardinality(B) /\ Uses(g, i) = Cardinality(R)
  BY <1>0 DEF Uses
<1>2. IsFiniteSet(T \X D)
  BY FS_Product
<1>3. A \in SUBSET (T \X D) /\ R \in SUBSET D
  OBVIOUS
<1>4. IsFiniteSet(A) /\ IsFiniteSet(R) /\ Cardinality(A) \in Nat /\ Cardinality(R) \in Nat
  BY <1>2, <1>3, FS_Subset, FS_CardinalityType
<1>5. IsFiniteSet({c}) /\ Cardinality({c}) = 1
  BY FS_Singleton
<1>6. IsFiniteSet(P) /\ Cardinality(P) = Cardinality({c}) * Cardinality(R)
  BY <1>4, <1>5, FS_Product
<1>7. Cardinality(P) = Cardinality(R)
  BY <1>4, <1>5, <1>6
<1>8. A \cap P = {}
  BY <1>0
<1>9. B = A \cup P
  <2>1. \A t \in T, d \in D : <<t, d>> \in B <=> <<t, d>> \in A \/ <<t, d>> \in P
    <3> TAKE t \in T, d \in D
    <3>1. CASE t = c
      BY <1>0, <3>1
    <3>2. CASE t # c
      BY <1>0, <3>2
    <3> QED
      BY <3>1, <3>2
  <2>2. \A s \in B \cup A \cup P : \E t \in T, d \in D : s = <<t, d>>
    OBVIOUS
  <2> QED
    BY <2>1, <2>2
<1> HIDE DEF A, B, R, P
<1>10. Cardinality(B) = Cardinality(A) + Cardinality(P)
  BY <1>4, <1>6, <1>8, <1>9, DisjointCount
<1> QED
  BY <1>1, <1>4, <1>7, <1>10

-----------------------------------------------------------------------------
\* The sets the model is built from.

(* What the sets contain, and that they are finite and apart.              *)
LEMMA Consts ==
    /\ IsFiniteSet(Tasks) /\ IsFiniteSet(Fds) /\ IsFiniteSet(FileSlots) /\ IsFiniteSet(Held)
    /\ IsFiniteSet(Tasks \X Fds) /\ IsFiniteSet(Tasks \X Held) /\ IsFiniteSet({"root", "mount"})
    /\ First \in Tasks
    /\ Std \in Fds /\ Std \in FileSlots /\ 1 \in InodeSlots /\ DeviceNode \in InodeSlots
    /\ DeviceNode = 2 /\ None = 0 /\ Std = 1 /\ Mnt = -4 /\ Umnt = -5
    /\ None \notin Fds /\ None \notin FileSlots /\ None \notin InodeSlots /\ None \notin Held
    /\ Mnt \notin Held /\ Umnt \notin Held /\ Mnt \notin Fds /\ Umnt \notin Fds
    /\ Fds \subseteq Nat /\ FileSlots \subseteq Nat /\ InodeSlots \subseteq Nat
    /\ Held \subseteq {-3, -2, -1} /\ \A s \in Held : s \notin Fds
    /\ MountRoot \in Nat \ {0} /\ MountRoot # DeviceNode
    /\ \A w \in Workloads : w.numbers \subseteq Nat \ {0} /\ w.slots \subseteq Held \cup {None, Mnt, Umnt}
<1>1. /\ First \in Tasks /\ IsFiniteSet(Tasks)
      /\ NFds \in Nat \ {0} /\ NFiles \in Nat \ {0} /\ NInodes \in Nat /\ NInodes > 1
      /\ Held \subseteq {-3, -2, -1}
  BY FilesAssumption DEF Pwd, Root, Exec
<1>2. Fds = 1 .. NFds /\ FileSlots = 1 .. NFiles /\ InodeSlots = 1 .. NInodes
      /\ DeviceNode = 2 /\ None = 0 /\ Std = 1 /\ Mnt = -4 /\ Umnt = -5
  BY DEF Fds, FileSlots, InodeSlots, DeviceNode, None, Std, Mnt, Umnt
<1>3. IsFiniteSet(Fds) /\ IsFiniteSet(FileSlots)
  <2>1. IsFiniteSet(1 .. NFds) /\ IsFiniteSet(1 .. NFiles)
    BY <1>1, FS_Interval
  <2> QED
    BY <1>2, <2>1
<1>4. IsFiniteSet(Held)
  <2>1. IsFiniteSet({-3}) /\ IsFiniteSet({-2}) /\ IsFiniteSet({-1}) /\ IsFiniteSet({"root"}) /\ IsFiniteSet({"mount"})
    BY FS_Singleton
  <2>2. IsFiniteSet({-3} \cup {-2})
    BY <2>1, FS_Union
  <2>3. IsFiniteSet(({-3} \cup {-2}) \cup {-1})
    BY <2>1, <2>2, FS_Union
  <2>4. Held \in SUBSET (({-3} \cup {-2}) \cup {-1})
    BY <1>1
  <2> QED
    BY <2>3, <2>4, FS_Subset
<1>5. IsFiniteSet(Tasks \X Fds) /\ IsFiniteSet(Tasks \X Held)
  BY <1>1, <1>3, <1>4, FS_Product
<1>6. IsFiniteSet({"root", "mount"})
  <2>1. IsFiniteSet({"root"}) /\ IsFiniteSet({"mount"})
    BY FS_Singleton
  <2>2. IsFiniteSet({"root"} \cup {"mount"})
    BY <2>1, FS_Union
  <2>3. {"root"} \cup {"mount"} = {"root", "mount"}
    OBVIOUS
  <2> QED
    BY <2>2, <2>3
<1>7. /\ Std \in Fds /\ Std \in FileSlots /\ 1 \in InodeSlots /\ DeviceNode \in InodeSlots
      /\ None \notin Fds /\ None \notin FileSlots /\ None \notin InodeSlots /\ None \notin Held
      /\ Mnt \notin Held /\ Umnt \notin Held /\ Mnt \notin Fds /\ Umnt \notin Fds
      /\ Fds \subseteq Nat /\ FileSlots \subseteq Nat /\ InodeSlots \subseteq Nat
      /\ \A s \in Held : s \notin Fds
  BY <1>1, <1>2
<1>8. MountRoot \in Nat \ {0} /\ MountRoot # DeviceNode
  BY <1>2, FilesAssumption
<1>9. \A w \in Workloads : w.numbers \subseteq Nat \ {0} /\ w.slots \subseteq Held \cup {None, Mnt, Umnt}
  BY FilesAssumption
<1> QED
  BY <1>1, <1>2, <1>3, <1>4, <1>5, <1>6, <1>7, <1>8, <1>9, Zenon

(* The first entry of a table that will do.                                *)
LEMMA LowestLemma ==
    ASSUME NEW S \in SUBSET Int, S # {}, \A x \in S : x >= -3
    PROVE  Lowest(S) \in S
<1> DEFINE N == {k \in Nat : k - 3 \in S}
<1>1. PICK e \in S : e >= -3
  OBVIOUS
<1>2. e + 3 \in N
  <2>1. e + 3 \in Nat /\ (e + 3) - 3 = e
    BY <1>1
  <2> QED
    BY <1>1, <2>1
<1>3. PICK m \in N : \A k \in N : m <= k
  <2>1. N \in SUBSET Nat /\ N # {}
    BY <1>2
  <2> QED
    BY <2>1, LeastNat
<1>4. m - 3 \in S
  OBVIOUS
<1>5. \A y \in S : m - 3 <= y
  <2> TAKE y \in S
  <2>1. y + 3 \in Nat /\ (y + 3) - 3 = y
    OBVIOUS
  <2>2. m <= y + 3
    BY <1>3, <2>1
  <2> QED
    BY <2>1, <2>2
<1> QED
  BY <1>4, <1>5 DEF Lowest

(* The same for any set of natural numbers.                                *)
LEMMA LowestNat ==
    ASSUME NEW S \in SUBSET Nat, S # {}
    PROVE  Lowest(S) \in S
<1>1. S \in SUBSET Int /\ \A x \in S : x >= -3
  OBVIOUS
<1> QED
  BY <1>1, LowestLemma

\* The places where a process waits for the disk with an inode.
Busy == {"bread", "iget", "iput", "xput", "super", "mroot"}

(* What a process has with it, by the place where it is.                   *)
LEMMA PlaceFacts ==
    ASSUME NEW p \in Places
    PROVE  /\ p = At(p.at, p.inode, p.slot, p.new)
           /\ p.at \in Busy \cup {"user", "exit", "gone"}
           /\ p.inode \in OptInode
           /\ p.at \in Busy => p.inode \in InodeSlots
           /\ p.at \notin Busy => p.inode = None /\ p.slot = None /\ p.new = None
           /\ p.at = "user" <=> p = User
           /\ p.at = "exit" <=> p = Exiting
           /\ p.at = "gone" <=> p = Gone
           /\ p.at = "bread" => p.slot \in {None, Mnt, Umnt} \cup Held /\ p.new = None
           /\ p.at = "iget" => p.slot \in {Mnt, Umnt} \cup Held /\ p.new = None
           /\ p.at = "iput" => \/ p.slot = None /\ p.new = None
                               \/ p.slot \in Held /\ p.new \in InodeSlots
                               \/ p.slot \in Fds /\ p.new \in Fds \cup {None}
           /\ p.at = "xput" => p.slot \in Held \cup Fds /\ p.new = None
           /\ p.at = "super" => p.slot = Mnt /\ p.new = None
           /\ p.at = "mroot" => p.slot = Mnt /\ p.new \in InodeSlots
<1> USE DEF At, Busy
<1>1. CASE p \in {User, Exiting, Gone}
  BY <1>1 DEF User, Exiting, Gone, OptInode
<1>2. CASE p \in [at : {"bread"}, inode : InodeSlots, slot : {None, Mnt, Umnt} \cup Held, new : {None}]
  BY <1>2 DEF User, Exiting, Gone, OptInode
<1>3. CASE p \in [at : {"iget"}, inode : InodeSlots, slot : {Mnt, Umnt} \cup Held, new : {None}]
  BY <1>3 DEF User, Exiting, Gone, OptInode
<1>4. CASE p \in [at : {"iput"}, inode : InodeSlots, slot : {None}, new : {None}]
  BY <1>4 DEF User, Exiting, Gone, OptInode
<1>5. CASE p \in [at : {"iput"}, inode : InodeSlots, slot : Held, new : InodeSlots]
  BY <1>5 DEF User, Exiting, Gone, OptInode
<1>6. CASE p \in [at : {"iput"}, inode : InodeSlots, slot : Fds, new : Fds \cup {None}]
  BY <1>6 DEF User, Exiting, Gone, OptInode
<1>7. CASE p \in [at : {"xput"}, inode : InodeSlots, slot : Slots, new : {None}]
  BY <1>7 DEF User, Exiting, Gone, OptInode, Slots
<1>8. CASE p \in [at : {"super"}, inode : InodeSlots, slot : {Mnt}, new : {None}]
  BY <1>8 DEF User, Exiting, Gone, OptInode
<1>9. CASE p \in [at : {"mroot"}, inode : InodeSlots, slot : {Mnt}, new : InodeSlots]
  BY <1>9 DEF User, Exiting, Gone, OptInode
<1> QED
  BY <1>1, <1>2, <1>3, <1>4, <1>5, <1>6, <1>7, <1>8, <1>9 DEF Places

(* The fields of a place.                                                  *)
LEMMA AtFields ==
    ASSUME NEW w, NEW i, NEW s, NEW n
    PROVE  /\ At(w, i, s, n).at = w /\ At(w, i, s, n).inode = i
           /\ At(w, i, s, n).slot = s /\ At(w, i, s, n).new = n
BY DEF At

(* The fields of the places without an inode.                              *)
LEMMA UserFields ==
    /\ User.at = "user" /\ User.inode = None /\ User.slot = None /\ User.new = None
    /\ Exiting.at = "exit" /\ Exiting.inode = None /\ Exiting.slot = None /\ Exiting.new = None
    /\ Gone.at = "gone" /\ Gone.inode = None /\ Gone.slot = None /\ Gone.new = None
    /\ User \in Places /\ Exiting \in Places /\ Gone \in Places
BY DEF User, Exiting, Gone, At, Places

(* The places that a call can go to.                                       *)
LEMMA PlaceMembers ==
    ASSUME NEW i \in InodeSlots
    PROVE  /\ \A s \in Held \cup {None, Mnt, Umnt} : At("bread", i, s, None) \in Places
           /\ \A s \in Held \cup {Mnt, Umnt} : At("iget", i, s, None) \in Places
           /\ At("iput", i, None, None) \in Places
           /\ \A s \in Held, n \in InodeSlots : At("iput", i, s, n) \in Places
           /\ \A s \in Fds, n \in Fds \cup {None} : At("iput", i, s, n) \in Places
           /\ \A s \in Held \cup Fds : At("xput", i, s, None) \in Places
           /\ At("super", i, Mnt, None) \in Places
           /\ \A n \in InodeSlots : At("mroot", i, Mnt, n) \in Places
<1> USE DEF At, Places
<1>1. \A s \in Held \cup {None, Mnt, Umnt} : At("bread", i, s, None) \in Places
  OBVIOUS
<1>2. \A s \in Held \cup {Mnt, Umnt} : At("iget", i, s, None) \in Places
  OBVIOUS
<1>3. At("iput", i, None, None) \in Places /\ At("super", i, Mnt, None) \in Places
  OBVIOUS
<1>4. \A s \in Held, n \in InodeSlots : At("iput", i, s, n) \in Places
  OBVIOUS
<1>5. \A s \in Fds, n \in Fds \cup {None} : At("iput", i, s, n) \in Places
  OBVIOUS
<1>6. \A s \in Held \cup Fds : At("xput", i, s, None) \in Places
  BY DEF Slots
<1>7. \A n \in InodeSlots : At("mroot", i, Mnt, n) \in Places
  OBVIOUS
<1> QED
  BY <1>1, <1>2, <1>3, <1>4, <1>5, <1>6, <1>7

-----------------------------------------------------------------------------
\* How the references change.

(* The functions of references are over fixed sets.                        *)
LEMMA RefDomains ==
    /\ DOMAIN Open = Tasks \X Fds /\ DOMAIN TaskRef = Tasks \X Held /\ DOMAIN FileRef = FileSlots
    /\ DOMAIN CallRef = Tasks /\ DOMAIN NewRef = Tasks /\ DOMAIN NodeRef = Tasks
    /\ DOMAIN SuperRef = {"root", "mount"}
    /\ DOMAIN Open' = Tasks \X Fds /\ DOMAIN TaskRef' = Tasks \X Held /\ DOMAIN FileRef' = FileSlots
    /\ DOMAIN CallRef' = Tasks /\ DOMAIN NewRef' = Tasks /\ DOMAIN NodeRef' = Tasks
    /\ DOMAIN SuperRef' = {"root", "mount"}
BY DEF Open, TaskRef, FileRef, CallRef, NewRef, NodeRef, SuperRef

(* The references one by one, before and after a step.                     *)
LEMMA RefValues ==
    /\ \A t \in Tasks, d \in Fds :
          /\ Open[<<t, d>>] = IF Leaving(t, d) THEN None ELSE files[t][d]
          /\ Open'[<<t, d>>] = IF Leaving(t, d)' THEN None ELSE files'[t][d]
    /\ \A t \in Tasks, r \in Held :
          /\ TaskRef[<<t, r>>] = IF Leaving(t, r) THEN None ELSE held[t][r]
          /\ TaskRef'[<<t, r>>] = IF Leaving(t, r)' THEN None ELSE held'[t][r]
    /\ \A f \in FileSlots : /\ FileRef[f] = IF fcount[f] > 0 THEN finode[f] ELSE None
                            /\ FileRef'[f] = IF fcount'[f] > 0 THEN finode'[f] ELSE None
    /\ SuperRef["root"] = super.iroot /\ SuperRef["mount"] = super.imount
    /\ SuperRef'["root"] = super'.iroot /\ SuperRef'["mount"] = super'.imount
BY DEF Open, TaskRef, FileRef, SuperRef

(* The numbers of references are numbers.                                  *)
LEMMA UsesNat ==
    ASSUME NEW i
    PROVE  /\ Uses(Open, i) \in Nat /\ Uses(FileRef, i) \in Nat /\ Uses(TaskRef, i) \in Nat
           /\ Uses(CallRef, i) \in Nat /\ Uses(NewRef, i) \in Nat /\ Uses(NodeRef, i) \in Nat
           /\ Uses(SuperRef, i) \in Nat /\ KernelRefs(i) \in Nat /\ IdleRefs(i) \in Nat
<1>1. KernelRefs(i) \in Nat /\ IdleRefs(i) \in Nat
  BY DEF KernelRefs, IdleRefs
<1>2. Uses(Open, i) \in Nat
  BY Consts, RefDomains, UsesSome
<1>3. Uses(FileRef, i) \in Nat
  BY Consts, RefDomains, UsesSome
<1>4. Uses(TaskRef, i) \in Nat
  BY Consts, RefDomains, UsesSome
<1>5. Uses(CallRef, i) \in Nat /\ Uses(NewRef, i) \in Nat /\ Uses(NodeRef, i) \in Nat
  BY Consts, RefDomains, UsesSome
<1>6. Uses(SuperRef, i) \in Nat
  BY Consts, RefDomains, UsesSome
<1> QED
  BY <1>1, <1>2, <1>3, <1>4, <1>5, <1>6

(* A process goes from one place to another.                               *)
LEMMA PcPut ==
    ASSUME FilesTypeOK, NEW t \in Tasks, NEW q, pc' = [pc EXCEPT ![t] = q], NEW i
    PROVE  /\ Uses(CallRef, i)' = Uses(CallRef, i) - Same(pc[t].inode, i) + Same(q.inode, i)
           /\ Uses(NewRef, i)' = Uses(NewRef, i) - Same(NewOf(pc[t]), i) + Same(NewOf(q), i)
           /\ Uses(NodeRef, i)' = Uses(NodeRef, i) - Same(NodeOf(pc[t]), i) + Same(NodeOf(q), i)
<1>1. pc'[t] = q /\ \A u \in Tasks : u # t => pc'[u] = pc[u]
  BY DEF FilesTypeOK
<1>2. IsFiniteSet(Tasks)
  BY Consts
<1>3. /\ CallRef[t] = pc[t].inode /\ CallRef'[t] = q.inode
      /\ \A u \in Tasks : u # t => CallRef'[u] = CallRef[u]
      /\ DOMAIN CallRef = Tasks /\ DOMAIN CallRef' = Tasks
  BY <1>1 DEF CallRef
<1>4. /\ NewRef[t] = NewOf(pc[t]) /\ NewRef'[t] = NewOf(q)
      /\ \A u \in Tasks : u # t => NewRef'[u] = NewRef[u]
      /\ DOMAIN NewRef = Tasks /\ DOMAIN NewRef' = Tasks
  BY <1>1 DEF NewRef
<1>5. /\ NodeRef[t] = NodeOf(pc[t]) /\ NodeRef'[t] = NodeOf(q)
      /\ \A u \in Tasks : u # t => NodeRef'[u] = NodeRef[u]
      /\ DOMAIN NodeRef = Tasks /\ DOMAIN NodeRef' = Tasks
  BY <1>1 DEF NodeRef
<1>6. Uses(CallRef', i) = Uses(CallRef, i) - Same(CallRef[t], i) + Same(q.inode, i)
  BY <1>2, <1>3, UsesPut
<1>7. Uses(NewRef', i) = Uses(NewRef, i) - Same(NewRef[t], i) + Same(NewOf(q), i)
  BY <1>2, <1>4, UsesPut
<1>8. Uses(NodeRef', i) = Uses(NodeRef, i) - Same(NodeRef[t], i) + Same(NodeOf(q), i)
  BY <1>2, <1>5, UsesPut
<1>9. Uses(CallRef, i)' = Uses(CallRef', i) /\ Uses(NewRef, i)' = Uses(NewRef', i) /\ Uses(NodeRef, i)' = Uses(NodeRef', i)
  BY DEF Uses
<1> QED
  BY <1>3, <1>4, <1>5, <1>6, <1>7, <1>8, <1>9

(* One descriptor, one inode of a process, one file changes.               *)
LEMMA OpenPut ==
    ASSUME NEW t \in Tasks, NEW d \in Fds, NEW i,
           \A u \in Tasks, e \in Fds : ~(u = t /\ e = d) => Open'[<<u, e>>] = Open[<<u, e>>]
    PROVE  Uses(Open, i)' = Uses(Open, i) - Same(Open[<<t, d>>], i) + Same(Open'[<<t, d>>], i)
<1>1. \A x \in Tasks \X Fds : x # <<t, d>> => Open'[x] = Open[x]
  OBVIOUS
<1>2. <<t, d>> \in Tasks \X Fds /\ IsFiniteSet(Tasks \X Fds) /\ DOMAIN Open = Tasks \X Fds /\ DOMAIN Open' = Tasks \X Fds
  BY Consts, RefDomains
<1>3. Uses(Open', i) = Uses(Open, i) - Same(Open[<<t, d>>], i) + Same(Open'[<<t, d>>], i)
  BY <1>1, <1>2, UsesPut
<1> QED
  BY <1>3 DEF Uses

(* One directory or program of a process changes.                          *)
LEMMA TaskPut ==
    ASSUME NEW t \in Tasks, NEW r \in Held, NEW i,
           \A u \in Tasks, e \in Held : ~(u = t /\ e = r) => TaskRef'[<<u, e>>] = TaskRef[<<u, e>>]
    PROVE  Uses(TaskRef, i)' = Uses(TaskRef, i) - Same(TaskRef[<<t, r>>], i) + Same(TaskRef'[<<t, r>>], i)
<1>1. \A x \in Tasks \X Held : x # <<t, r>> => TaskRef'[x] = TaskRef[x]
  OBVIOUS
<1>2. <<t, r>> \in Tasks \X Held /\ IsFiniteSet(Tasks \X Held) /\ DOMAIN TaskRef = Tasks \X Held /\ DOMAIN TaskRef' = Tasks \X Held
  BY Consts, RefDomains
<1>3. Uses(TaskRef', i) = Uses(TaskRef, i) - Same(TaskRef[<<t, r>>], i) + Same(TaskRef'[<<t, r>>], i)
  BY <1>1, <1>2, UsesPut
<1> QED
  BY <1>3 DEF Uses

(* One file changes.                                                       *)
LEMMA FilePut ==
    ASSUME NEW f \in FileSlots, NEW i, \A g \in FileSlots : g # f => FileRef'[g] = FileRef[g]
    PROVE  Uses(FileRef, i)' = Uses(FileRef, i) - Same(FileRef[f], i) + Same(FileRef'[f], i)
<1>1. IsFiniteSet(FileSlots) /\ DOMAIN FileRef = FileSlots /\ DOMAIN FileRef' = FileSlots
  BY Consts, RefDomains
<1>2. Uses(FileRef', i) = Uses(FileRef, i) - Same(FileRef[f], i) + Same(FileRef'[f], i)
  BY <1>1, UsesPut
<1> QED
  BY <1>2 DEF Uses

(* None of them changes.                                                   *)
LEMMA OpenSame ==
    ASSUME NEW i, \A u \in Tasks, e \in Fds : Open'[<<u, e>>] = Open[<<u, e>>]
    PROVE  Uses(Open, i)' = Uses(Open, i)
<1>1. \A x \in Tasks \X Fds : Open'[x] = Open[x]
  OBVIOUS
<1>2. {s \in DOMAIN Open' : Open'[s] = i} = {s \in DOMAIN Open : Open[s] = i}
  BY <1>1, RefDomains
<1> QED
  BY <1>2 DEF Uses

(* The directories and programs of the processes stay.                     *)
LEMMA TaskSame ==
    ASSUME NEW i, \A u \in Tasks, e \in Held : TaskRef'[<<u, e>>] = TaskRef[<<u, e>>]
    PROVE  Uses(TaskRef, i)' = Uses(TaskRef, i)
<1>1. \A x \in Tasks \X Held : TaskRef'[x] = TaskRef[x]
  OBVIOUS
<1>2. {s \in DOMAIN TaskRef' : TaskRef'[s] = i} = {s \in DOMAIN TaskRef : TaskRef[s] = i}
  BY <1>1, RefDomains
<1> QED
  BY <1>2 DEF Uses

(* The files stay.                                                         *)
LEMMA FileSame ==
    ASSUME NEW i, \A f \in FileSlots : FileRef'[f] = FileRef[f]
    PROVE  Uses(FileRef, i)' = Uses(FileRef, i)
<1>1. {s \in DOMAIN FileRef' : FileRef'[s] = i} = {s \in DOMAIN FileRef : FileRef[s] = i}
  BY RefDomains
<1> QED
  BY <1>1 DEF Uses

(* The super block stays.                                                  *)
LEMMA SuperSame ==
    ASSUME NEW i, super' = super
    PROVE  Uses(SuperRef, i)' = Uses(SuperRef, i)
BY DEF Uses, SuperRef

(* The two references of the super block.                                  *)
LEMMA SuperUses ==
    ASSUME NEW i
    PROVE  /\ Uses(SuperRef, i) = Same(super.iroot, i) + Same(super.imount, i)
           /\ Uses(SuperRef, i)' = Same(super'.iroot, i) + Same(super'.imount, i)
<1>1. ASSUME NEW a, NEW b, NEW g, g = [k \in {"root", "mount"} |-> IF k = "root" THEN a ELSE b]
      PROVE  Uses(g, i) = Same(a, i) + Same(b, i)
  <2> DEFINE A == {k \in {"root", "mount"} : g[k] = i}
  <2>0. g["root"] = a /\ g["mount"] = b /\ DOMAIN g = {"root", "mount"}
    BY <1>1
  <2>1. Uses(g, i) = Cardinality(A)
    BY <2>0 DEF Uses
  <2>2. /\ a = i /\ b = i => A = {"root", "mount"}
        /\ a = i /\ b # i => A = {"root"}
        /\ a # i /\ b = i => A = {"mount"}
        /\ a # i /\ b # i => A = {}
    BY <2>0
  <2>3. Cardinality({}) = 0 /\ Cardinality({"root"}) = 1 /\ Cardinality({"mount"}) = 1 /\ Cardinality({"root", "mount"}) = 2
    <3>1. IsFiniteSet({"root"}) /\ Cardinality({"root"}) = 1 /\ Cardinality({"mount"}) = 1 /\ Cardinality({}) = 0
      BY FS_Singleton, FS_EmptySet
    <3>2. "mount" \notin {"root"} /\ {"root"} \cup {"mount"} = {"root", "mount"}
      OBVIOUS
    <3>3. Cardinality({"root"} \cup {"mount"}) = Cardinality({"root"}) + 1
      BY <3>1, <3>2, FS_AddElement
    <3> QED
      BY <3>1, <3>2, <3>3
  <2> HIDE DEF A
  <2> QED
    BY <2>1, <2>2, <2>3 DEF Same
<1>2. Uses(SuperRef, i) = Same(super.iroot, i) + Same(super.imount, i)
  BY <1>1 DEF SuperRef
<1>3. Uses(SuperRef', i) = Same(super'.iroot, i) + Same(super'.imount, i)
  BY <1>1 DEF SuperRef
<1> QED
  BY <1>2, <1>3 DEF Uses

-----------------------------------------------------------------------------
\* The parts of a step that many actions share.

(* The numbers of references after a step are numbers.                     *)
LEMMA UsesNatNext ==
    ASSUME NEW i
    PROVE  /\ Uses(Open, i)' \in Nat /\ Uses(FileRef, i)' \in Nat /\ Uses(TaskRef, i)' \in Nat
           /\ Uses(CallRef, i)' \in Nat /\ Uses(NewRef, i)' \in Nat /\ Uses(NodeRef, i)' \in Nat
           /\ Uses(SuperRef, i)' \in Nat
<1>1. Uses(Open', i) \in Nat
  BY Consts, RefDomains, UsesSome
<1>2. Uses(FileRef', i) \in Nat
  BY Consts, RefDomains, UsesSome
<1>3. Uses(TaskRef', i) \in Nat
  BY Consts, RefDomains, UsesSome
<1>4. Uses(CallRef', i) \in Nat /\ Uses(NewRef', i) \in Nat /\ Uses(NodeRef', i) \in Nat
  BY Consts, RefDomains, UsesSome
<1>5. Uses(SuperRef', i) \in Nat
  BY Consts, RefDomains, UsesSome
<1> QED
  BY <1>1, <1>2, <1>3, <1>4, <1>5 DEF Uses

\* What a step makes of the table of inodes, apart from the counts.
TableOK == /\ kind' \in [InodeSlots -> {"free", "disk", "pipe"}] /\ nr' \in [InodeSlots -> Nat]
           /\ icount' \in [InodeSlots -> Nat] /\ loaded' \in [InodeSlots -> BOOLEAN]
           /\ OneInodePerNumber'
           /\ \A i \in InodeSlots : kind'[i] = "free" <=> icount'[i] = 0
           /\ icount'[DeviceNode] > 0 => DeviceStays'

(* The standard file keeps the device's node in memory.                    *)
LEMMA Assemble ==
    ASSUME FilesInv, ~halted, FilesTypeOK', FileCounts', OpenFiles', Mounts', GoneEmpty', TableOK,
           \A i \in InodeSlots : icount'[i] = Total(i)'
    PROVE  FilesInv'
<1>1. fcount'[Std] > 0
  <2>1. Std \in FileSlots
    BY Consts
  <2>2. fcount'[Std] = Uses(Open, Std)' + 1
    BY <2>1 DEF FileCounts, IdleRefs
  <2> QED
    BY <2>2, UsesNatNext
<1>2. FileRef'[Std] = DeviceNode
  BY <1>1, Consts, RefValues DEF OpenFiles
<1>3. Uses(FileRef', DeviceNode) > 0
  BY <1>2, Consts, RefDomains, UsesSome
<1>4. Total(DeviceNode)' > 0
  <2>1. Uses(FileRef, DeviceNode)' > 0
    BY <1>3 DEF Uses
  <2>2. KernelRefs(DeviceNode) \in Nat
    BY UsesNat
  <2> QED
    BY <2>1, <2>2, UsesNatNext DEF Total
<1>5. DeviceStays'
  BY <1>4, Consts DEF TableOK
<1> QED
  BY <1>5 DEF FilesInv, RunInv, InodeCounts, TableOK

(* The kernel stops: nothing else changes.                                 *)
LEMMA PanicStep ==
    ASSUME FilesInv, Panic
    PROVE  FilesInv'
<1>1. FilesTypeOK' /\ halted'
  BY DEF FilesInv, FilesTypeOK, Panic, inodeVars, mountVars
<1>2. OneInodePerNumber'
  BY DEF FilesInv, OneInodePerNumber, Panic, inodeVars
<1>3. FileCounts'
  <2>1. Open' = Open
    BY DEF Open, Leaving, Panic
  <2> QED
    BY <2>1 DEF FilesInv, FileCounts, Panic
<1> QED
  BY <1>1, <1>2, <1>3 DEF FilesInv

(* What a process leaves depends on where it is.                           *)
LEMMA LeaveLemma ==
    ASSUME FilesTypeOK, NEW t \in Tasks, NEW q, pc' = [pc EXCEPT ![t] = q]
    PROVE  /\ pc'[t] = q /\ \A u \in Tasks : u # t => pc'[u] = pc[u]
           /\ \A u \in Tasks : \A s : u # t => (Leaving(u, s)' <=> Leaving(u, s))
           /\ \A s : Leaving(t, s)' <=> q.at \in {"iput", "xput"} /\ q.slot = s
BY DEF FilesTypeOK, Leaving

MountPlace(p) == p.slot \in {Mnt, Umnt} \/ p.at \in {"super", "mroot"}

(* Nothing is mounted or unmounted in this step.                           *)
LEMMA KeepMounts ==
    ASSUME FilesTypeOK, Mounts, NEW t \in Tasks, NEW q, pc' = [pc EXCEPT ![t] = q],
           mount' = mount, super' = super,
           MountPlace(q) => MountPlace(pc[t]) \/ \A u \in Tasks : ~Mounting(u),
           q.at = "super" => ~super.used, q.at # "mroot"
    PROVE  Mounts'
<1>1. pc'[t] = q /\ \A u \in Tasks : u # t => pc'[u] = pc[u]
  BY LeaveLemma
<1>2. \A u \in Tasks : (Mounting(u)' <=> MountPlace(pc'[u])) /\ (Mounting(u) <=> MountPlace(pc[u]))
  BY DEF Mounting, MountPlace
<1>3. \A u, w \in Tasks : Mounting(u)' /\ Mounting(w)' => u = w
  <2> SUFFICES ASSUME NEW u \in Tasks, NEW w \in Tasks, MountPlace(pc'[u]), MountPlace(pc'[w]) PROVE u = w
    BY <1>2
  <2>1. \A x, y \in Tasks : MountPlace(pc[x]) /\ MountPlace(pc[y]) => x = y
    BY <1>2 DEF Mounts
  <2>2. CASE u # t /\ w # t
    BY <1>1, <2>1, <2>2
  <2>3. CASE u = t /\ w # t
    BY <1>1, <1>2, <2>1, <2>3
  <2>4. CASE u # t /\ w = t
    BY <1>1, <1>2, <2>1, <2>4
  <2> QED
    BY <2>2, <2>3, <2>4
<1>4. \A u \in Tasks : pc'[u].at = "super" => ~super.used
  BY <1>1 DEF Mounts
<1>5. \A u \in Tasks : pc'[u].at = "mroot" => pc'[u] = pc[u]
  BY <1>1
<1> QED
  BY <1>3, <1>4, <1>5 DEF Mounts

(* A process that does not end: those that are gone are as they were.      *)
LEMMA KeepGone ==
    ASSUME FilesTypeOK, GoneEmpty, NEW t \in Tasks, NEW q, pc' = [pc EXCEPT ![t] = q],
           \A u \in Tasks : u # t => files'[u] = files[u] /\ held'[u] = held[u],
           q = Gone => (\A d \in Fds : files'[t][d] = None) /\ (\A r \in Held : held'[t][r] = None)
    PROVE  GoneEmpty'
<1>1. pc'[t] = q /\ \A u \in Tasks : u # t => pc'[u] = pc[u]
  BY LeaveLemma
<1> SUFFICES ASSUME NEW u \in Tasks, pc'[u] = Gone
             PROVE  (\A d \in Fds : files'[u][d] = None) /\ (\A r \in Held : held'[u][r] = None)
  BY DEF GoneEmpty
<1>2. CASE u = t
  BY <1>1, <1>2
<1>3. CASE u # t
  BY <1>1, <1>3 DEF GoneEmpty
<1> QED
  BY <1>2, <1>3

(* The number of references to an inode after a step of t.                 *)
LEMMA StepTotal ==
    ASSUME FilesTypeOK, InodeCounts, NEW t \in Tasks, NEW q, pc' = [pc EXCEPT ![t] = q],
           NEW i \in InodeSlots
    PROVE  Total(i)' = icount[i] + (Uses(FileRef, i)' - Uses(FileRef, i)) + (Uses(TaskRef, i)' - Uses(TaskRef, i))
                       + (Uses(SuperRef, i)' - Uses(SuperRef, i))
                       - Same(pc[t].inode, i) + Same(q.inode, i) - Same(NewOf(pc[t]), i) + Same(NewOf(q), i)
                       - Same(NodeOf(pc[t]), i) + Same(NodeOf(q), i)
<1>1. icount[i] = Total(i) /\ icount[i] \in Nat
  BY DEF InodeCounts, FilesTypeOK
<1>2. \A x : Same(x, i) \in Nat
  BY DEF Same
<1>3. /\ Uses(CallRef, i)' = Uses(CallRef, i) - Same(pc[t].inode, i) + Same(q.inode, i)
      /\ Uses(NewRef, i)' = Uses(NewRef, i) - Same(NewOf(pc[t]), i) + Same(NewOf(q), i)
      /\ Uses(NodeRef, i)' = Uses(NodeRef, i) - Same(NodeOf(pc[t]), i) + Same(NodeOf(q), i)
  BY PcPut
<1>4. /\ Uses(FileRef, i)' \in Nat /\ Uses(TaskRef, i)' \in Nat /\ Uses(SuperRef, i)' \in Nat
      /\ Uses(FileRef, i) \in Nat /\ Uses(TaskRef, i) \in Nat
      /\ Uses(CallRef, i) \in Nat /\ Uses(NewRef, i) \in Nat /\ Uses(NodeRef, i) \in Nat
      /\ Uses(SuperRef, i) \in Nat /\ KernelRefs(i) \in Nat
  BY UsesNat, UsesNatNext
<1> QED
  BY <1>1, <1>2, <1>3, <1>4 DEF Total

(* The same for a step that leaves the super block alone.                  *)
LEMMA StepCounts ==
    ASSUME FilesTypeOK, InodeCounts, NEW t \in Tasks, NEW q, pc' = [pc EXCEPT ![t] = q], super' = super,
           NEW i \in InodeSlots
    PROVE  Total(i)' = icount[i] + (Uses(FileRef, i)' - Uses(FileRef, i)) + (Uses(TaskRef, i)' - Uses(TaskRef, i))
                       - Same(pc[t].inode, i) + Same(q.inode, i) - Same(NewOf(pc[t]), i) + Same(NewOf(q), i)
                       - Same(NodeOf(pc[t]), i) + Same(NodeOf(q), i)
<1>1. Uses(SuperRef, i)' = Uses(SuperRef, i) /\ Uses(SuperRef, i) \in Nat
  BY SuperSame, UsesNat
<1>2. icount[i] \in Nat /\ \A x : Same(x, i) \in Nat
  BY DEF FilesTypeOK, Same
<1>3. Uses(FileRef, i)' \in Nat /\ Uses(TaskRef, i)' \in Nat /\ Uses(FileRef, i) \in Nat /\ Uses(TaskRef, i) \in Nat
  BY UsesNat, UsesNatNext
<1>4. Total(i)' = icount[i] + (Uses(FileRef, i)' - Uses(FileRef, i)) + (Uses(TaskRef, i)' - Uses(TaskRef, i))
                       + (Uses(SuperRef, i)' - Uses(SuperRef, i))
                       - Same(pc[t].inode, i) + Same(q.inode, i) - Same(NewOf(pc[t]), i) + Same(NewOf(q), i)
                       - Same(NodeOf(pc[t]), i) + Same(NodeOf(q), i)
  BY StepTotal
<1> QED
  BY <1>1, <1>2, <1>3, <1>4

\* At p a process leaves none of its own references.
Calm(p) == p.at \in {"iput", "xput"} => p.slot = None

(* A step that changes only where t is, the table of inodes and what is     *)
(* mounted.                                                                *)
LEMMA MountStep ==
    ASSUME FilesInv, ~halted, NEW t \in Tasks, NEW q \in Places, pc' = [pc EXCEPT ![t] = q],
           Calm(pc[t]), Calm(q), files' = files, held' = held, fcount' = fcount, finode' = finode,
           mount' \in [InodeSlots -> BOOLEAN], super' \in [used : BOOLEAN, iroot : OptInode, imount : OptInode], Mounts',
           workload' = workload, halted' = halted,
           q = Gone => (\A d \in Fds : files[t][d] = None) /\ (\A r \in Held : held[t][r] = None),
           TableOK,
           \A i \in InodeSlots :
              icount'[i] = icount[i] - Same(pc[t].inode, i) + Same(q.inode, i) - Same(NewOf(pc[t]), i) + Same(NewOf(q), i)
                           - Same(NodeOf(pc[t]), i) + Same(NodeOf(q), i)
                           - Same(super.iroot, i) - Same(super.imount, i) + Same(super'.iroot, i) + Same(super'.imount, i)
    PROVE  FilesInv'
<1>1. FilesTypeOK /\ FileCounts /\ InodeCounts /\ GoneEmpty /\ OpenFiles /\ Mounts
  BY DEF FilesInv, RunInv
<1>2. FilesTypeOK'
  BY <1>1 DEF FilesTypeOK, TableOK
<1>3. \A s \in Fds \cup Held : ~Leaving(t, s) /\ ~Leaving(t, s)'
  BY <1>1, LeaveLemma, Consts DEF Calm, Leaving
<1>4. \A u \in Tasks, e \in Fds : Open'[<<u, e>>] = Open[<<u, e>>]
  <2> TAKE u \in Tasks, e \in Fds
  <2>1. u # t => (Leaving(u, e)' <=> Leaving(u, e))
    BY <1>1, LeaveLemma
  <2>2. u = t => ~Leaving(u, e) /\ ~Leaving(u, e)'
    BY <1>3
  <2> QED
    BY <2>1, <2>2, RefValues
<1>5. \A u \in Tasks, e \in Held : TaskRef'[<<u, e>>] = TaskRef[<<u, e>>]
  <2> TAKE u \in Tasks, e \in Held
  <2>1. u # t => (Leaving(u, e)' <=> Leaving(u, e))
    BY <1>1, LeaveLemma
  <2>2. u = t => ~Leaving(u, e) /\ ~Leaving(u, e)'
    BY <1>3
  <2> QED
    BY <2>1, <2>2, RefValues
<1>6. FileCounts'
  <2> SUFFICES ASSUME NEW f \in FileSlots PROVE fcount'[f] = Uses(Open, f)' + IdleRefs(f)
    BY DEF FileCounts
  <2> QED
    BY <1>1, <1>4, OpenSame DEF FileCounts
<1>7. OpenFiles'
  BY <1>1 DEF OpenFiles
<1>9. GoneEmpty'
  BY <1>1, KeepGone
<1>10. ASSUME NEW i \in InodeSlots PROVE icount'[i] = Total(i)'
  <2>1. Uses(TaskRef, i)' = Uses(TaskRef, i)
    BY <1>5, TaskSame
  <2>2. \A f \in FileSlots : FileRef'[f] = FileRef[f]
    BY RefValues
  <2>3. Uses(FileRef, i)' = Uses(FileRef, i)
    BY <2>2, FileSame
  <2>4. Total(i)' = icount[i] + (Uses(FileRef, i)' - Uses(FileRef, i)) + (Uses(TaskRef, i)' - Uses(TaskRef, i))
                       + (Uses(SuperRef, i)' - Uses(SuperRef, i))
                       - Same(pc[t].inode, i) + Same(q.inode, i) - Same(NewOf(pc[t]), i) + Same(NewOf(q), i)
                       - Same(NodeOf(pc[t]), i) + Same(NodeOf(q), i)
    BY <1>1, StepTotal
  <2>5. icount[i] \in Nat /\ \A x : Same(x, i) \in Nat
    BY <1>1 DEF FilesTypeOK, Same
  <2>6. Uses(FileRef, i) \in Nat /\ Uses(TaskRef, i) \in Nat
    BY UsesNat
  <2>7. /\ Uses(SuperRef, i) = Same(super.iroot, i) + Same(super.imount, i)
        /\ Uses(SuperRef, i)' = Same(super'.iroot, i) + Same(super'.imount, i)
    BY SuperUses
  <2> QED
    BY <2>1, <2>3, <2>4, <2>5, <2>6, <2>7
<1> QED
  BY <1>2, <1>6, <1>7, <1>9, <1>10, Assemble

(* A step that changes only where t is and the table of inodes.            *)
LEMMA QuietStep ==
    ASSUME FilesInv, ~halted, NEW t \in Tasks, NEW q \in Places, pc' = [pc EXCEPT ![t] = q],
           Calm(pc[t]), Calm(q), files' = files, held' = held, fcount' = fcount, finode' = finode,
           mount' = mount, super' = super, workload' = workload, halted' = halted,
           MountPlace(q) => MountPlace(pc[t]) \/ \A u \in Tasks : ~Mounting(u),
           q.at = "super" => ~super.used, q.at # "mroot",
           q = Gone => (\A d \in Fds : files[t][d] = None) /\ (\A r \in Held : held[t][r] = None),
           TableOK,
           \A i \in InodeSlots :
              icount'[i] = icount[i] - Same(pc[t].inode, i) + Same(q.inode, i) - Same(NewOf(pc[t]), i) + Same(NewOf(q), i)
                           - Same(NodeOf(pc[t]), i) + Same(NodeOf(q), i)
    PROVE  FilesInv'
<1>1. FilesTypeOK /\ Mounts
  BY DEF FilesInv, RunInv
<1>2. Mounts'
  BY <1>1, KeepMounts
<1>3. mount' \in [InodeSlots -> BOOLEAN] /\ super' \in [used : BOOLEAN, iroot : OptInode, imount : OptInode]
  BY <1>1 DEF FilesTypeOK
<1>4. ASSUME NEW i \in InodeSlots
      PROVE  icount'[i] = icount[i] - Same(pc[t].inode, i) + Same(q.inode, i) - Same(NewOf(pc[t]), i) + Same(NewOf(q), i)
                           - Same(NodeOf(pc[t]), i) + Same(NodeOf(q), i)
                           - Same(super.iroot, i) - Same(super.imount, i) + Same(super'.iroot, i) + Same(super'.imount, i)
  <2>1. icount[i] \in Nat /\ \A x : Same(x, i) \in Nat
    BY <1>1 DEF FilesTypeOK, Same
  <2> QED
    BY <2>1
<1> QED
  BY <1>2, <1>3, <1>4, MountStep

-----------------------------------------------------------------------------
\* The table of inodes.

(* A step that leaves the table of inodes alone.                           *)
LEMMA TableSame ==
    ASSUME FilesInv, ~halted, kind' = kind, nr' = nr, icount' = icount, loaded' \in [InodeSlots -> BOOLEAN]
    PROVE  TableOK
BY DEF FilesInv, RunInv, FilesTypeOK, TableOK, OneInodePerNumber, InodeCounts, DeviceStays

(* iput of an inode somebody refers to.                                    *)
LEMMA IputLemma ==
    ASSUME FilesInv, ~halted, NEW i \in OptInode, i # None => icount[i] > 0, iput(i)
    PROVE  TableOK /\ \A j \in InodeSlots : icount'[j] = icount[j] - Same(i, j)
<1>1. /\ FilesTypeOK /\ OneInodePerNumber /\ DeviceStays
      /\ \A j \in InodeSlots : kind[j] = "free" <=> icount[j] = 0
  BY DEF FilesInv, RunInv, InodeCounts
<1>2. CASE i = None
  <2>1. kind' = kind /\ nr' = nr /\ icount' = icount /\ loaded' = loaded
    BY <1>2 DEF iput
  <2>2. TableOK
    BY <2>1, <1>1, TableSame DEF FilesTypeOK
  <2>3. \A j \in InodeSlots : Same(i, j) = 0 /\ icount[j] \in Nat
    BY <1>1, <1>2, Consts DEF Same, FilesTypeOK
  <2> QED
    BY <2>1, <2>2, <2>3
<1>3. CASE i # None /\ icount[i] = 1
  <2>1. i \in InodeSlots
    BY <1>3 DEF OptInode
  <2>2. /\ kind' = [kind EXCEPT ![i] = "free"] /\ nr' = [nr EXCEPT ![i] = 0]
        /\ loaded' = [loaded EXCEPT ![i] = FALSE] /\ icount' = [icount EXCEPT ![i] = @ - 1]
    BY <1>3 DEF iput
  <2>3. /\ kind' \in [InodeSlots -> {"free", "disk", "pipe"}] /\ nr' \in [InodeSlots -> Nat]
        /\ icount' \in [InodeSlots -> Nat] /\ loaded' \in [InodeSlots -> BOOLEAN]
    BY <1>1, <1>3, <2>1, <2>2 DEF FilesTypeOK
  <2>4. /\ kind'[i] = "free" /\ icount'[i] = 0
        /\ \A j \in InodeSlots : j # i => kind'[j] = kind[j] /\ nr'[j] = nr[j] /\ icount'[j] = icount[j]
    BY <1>1, <1>3, <2>1, <2>2 DEF FilesTypeOK
  <2>5. OneInodePerNumber'
    BY <1>1, <2>4 DEF OneInodePerNumber
  <2>6. \A j \in InodeSlots : kind'[j] = "free" <=> icount'[j] = 0
    BY <1>1, <2>4
  <2>7. icount'[DeviceNode] > 0 => DeviceStays'
    BY <1>1, <2>4, Consts DEF DeviceStays
  <2>8. \A j \in InodeSlots : icount'[j] = icount[j] - Same(i, j)
    BY <1>1, <1>3, <2>4 DEF Same, FilesTypeOK
  <2> QED
    BY <2>3, <2>5, <2>6, <2>7, <2>8 DEF TableOK
<1>4. CASE i # None /\ icount[i] # 1
  <2>1. i \in InodeSlots /\ icount[i] \in Nat /\ icount[i] > 1
    BY <1>1, <1>4 DEF OptInode, FilesTypeOK
  <2>2. kind' = kind /\ nr' = nr /\ loaded' = loaded /\ icount' = [icount EXCEPT ![i] = @ - 1]
    BY <1>4 DEF iput
  <2>3. icount' \in [InodeSlots -> Nat] /\ icount'[i] = icount[i] - 1 /\ \A j \in InodeSlots : j # i => icount'[j] = icount[j]
    BY <1>1, <2>1, <2>2 DEF FilesTypeOK
  <2>4. \A j \in InodeSlots : kind'[j] = "free" <=> icount'[j] = 0
    BY <1>1, <2>1, <2>2, <2>3
  <2>5. OneInodePerNumber' /\ DeviceStays'
    BY <1>1, <2>2 DEF OneInodePerNumber, DeviceStays
  <2>6. \A j \in InodeSlots : icount'[j] = icount[j] - Same(i, j)
    BY <1>1, <2>3 DEF Same, FilesTypeOK
  <2> QED
    BY <1>1, <2>2, <2>3, <2>4, <2>5, <2>6 DEF TableOK, FilesTypeOK
<1> QED
  BY <1>2, <1>3, <1>4

(* iput of several.                                                        *)
LEMMA DropLemma ==
    ASSUME FilesInv, ~halted, NEW refs, Drop(refs),
           \A i \in InodeSlots : Uses(refs, i) \in Nat /\ Uses(refs, i) <= icount[i]
    PROVE  TableOK /\ \A j \in InodeSlots : icount'[j] = icount[j] - Uses(refs, j)
<1>1. /\ FilesTypeOK /\ OneInodePerNumber /\ DeviceStays
      /\ \A j \in InodeSlots : kind[j] = "free" <=> icount[j] = 0
  BY DEF FilesInv, RunInv, InodeCounts
<1> DEFINE gone == {i \in InodeSlots : icount[i] > 0 /\ icount[i] - Uses(refs, i) = 0}
<1>2. /\ icount' = [i \in InodeSlots |-> icount[i] - Uses(refs, i)]
      /\ kind' = [i \in InodeSlots |-> IF i \in gone THEN "free" ELSE kind[i]]
      /\ nr' = [i \in InodeSlots |-> IF i \in gone THEN 0 ELSE nr[i]]
      /\ loaded' = [i \in InodeSlots |-> i \notin gone /\ loaded[i]]
  BY DEF Drop, Uses
<1>3. \A j \in InodeSlots : icount'[j] = icount[j] - Uses(refs, j) /\ icount'[j] \in Nat
  BY <1>1, <1>2 DEF FilesTypeOK
<1>4. icount' \in [InodeSlots -> Nat]
  BY <1>2, <1>3
<1>5. \A j \in InodeSlots : kind'[j] = "free" <=> icount'[j] = 0
  BY <1>1, <1>2, <1>3 DEF FilesTypeOK
<1>6. kind' \in [InodeSlots -> {"free", "disk", "pipe"}] /\ nr' \in [InodeSlots -> Nat] /\ loaded' \in [InodeSlots -> BOOLEAN]
  BY <1>1, <1>2 DEF FilesTypeOK
<1>7. \A j \in InodeSlots : kind'[j] # "free" => kind'[j] = kind[j] /\ nr'[j] = nr[j]
  BY <1>2
<1>8. OneInodePerNumber'
  BY <1>1, <1>7 DEF OneInodePerNumber
<1>9. icount'[DeviceNode] > 0 => DeviceStays'
  BY <1>1, <1>3, <1>5, <1>7, Consts DEF DeviceStays
<1> QED
  BY <1>3, <1>4, <1>5, <1>6, <1>8, <1>9 DEF TableOK

(* More references to inodes in use.                                       *)
LEMMA AddLemma ==
    ASSUME FilesInv, ~halted, kind' = kind, nr' = nr, loaded' = loaded, icount' \in [InodeSlots -> Nat],
           \A j \in InodeSlots : icount'[j] >= icount[j] /\ (icount'[j] > icount[j] => kind[j] # "free")
    PROVE  TableOK
<1>1. /\ FilesTypeOK /\ OneInodePerNumber /\ DeviceStays
      /\ \A j \in InodeSlots : kind[j] = "free" <=> icount[j] = 0
  BY DEF FilesInv, RunInv, InodeCounts
<1>2. \A j \in InodeSlots : icount[j] \in Nat /\ icount'[j] \in Nat
  BY <1>1 DEF FilesTypeOK
<1>3. \A j \in InodeSlots : kind'[j] = "free" <=> icount'[j] = 0
  BY <1>1, <1>2
<1> QED
  BY <1>1, <1>3 DEF FilesTypeOK, TableOK, OneInodePerNumber, DeviceStays

(* A new entry i, for a number that has none or for a pipe.                *)
LEMMA EntryLemma ==
    ASSUME FilesInv, ~halted, NEW i \in InodeSlots, kind[i] = "free", NEW k \in {"disk", "pipe"}, NEW n \in Nat,
           k = "disk" => find_inode(n) = {},
           kind' = [kind EXCEPT ![i] = k], nr' = [nr EXCEPT ![i] = n], loaded' \in [InodeSlots -> BOOLEAN],
           icount' \in [InodeSlots -> Nat], icount'[i] > 0,
           \A j \in InodeSlots : j # i => icount'[j] >= icount[j] /\ (icount'[j] > icount[j] => kind[j] # "free")
    PROVE  TableOK
<1>1. /\ FilesTypeOK /\ OneInodePerNumber /\ DeviceStays
      /\ \A j \in InodeSlots : kind[j] = "free" <=> icount[j] = 0
  BY DEF FilesInv, RunInv, InodeCounts
<1>2. /\ kind'[i] = k /\ nr'[i] = n
      /\ \A j \in InodeSlots : j # i => kind'[j] = kind[j] /\ nr'[j] = nr[j]
  BY <1>1 DEF FilesTypeOK
<1>3. \A j \in InodeSlots : kind'[j] = "free" <=> icount'[j] = 0
  <2> TAKE j \in InodeSlots
  <2>1. icount[j] \in Nat /\ icount'[j] \in Nat
    BY <1>1 DEF FilesTypeOK
  <2> QED
    BY <1>1, <1>2, <2>1
<1>4. OneInodePerNumber'
  <2>1. k = "disk" => \A j \in InodeSlots : ~(kind[j] = "disk" /\ nr[j] = n)
    BY DEF find_inode
  <2> QED
    BY <1>1, <1>2, <2>1 DEF OneInodePerNumber
<1>5. DeviceStays'
  BY <1>1, <1>2, Consts DEF DeviceStays
<1> QED
  BY <1>1, <1>3, <1>4, <1>5 DEF FilesTypeOK, TableOK

(* An inode that somebody refers to is in use.                             *)
LEMMA Referred ==
    ASSUME FilesInv, ~halted, NEW i \in InodeSlots,
           \/ \E f \in FileSlots : FileRef[f] = i
           \/ \E u \in Tasks, r \in Held : TaskRef[<<u, r>>] = i
           \/ \E u \in Tasks : pc[u].inode = i \/ NewOf(pc[u]) = i
           \/ super.iroot = i \/ super.imount = i
    PROVE  icount[i] > 0 /\ kind[i] # "free"
<1>1. icount[i] = Total(i) /\ (kind[i] = "free" <=> icount[i] = 0)
  BY DEF FilesInv, RunInv, InodeCounts
<1>2. /\ Uses(FileRef, i) \in Nat /\ Uses(TaskRef, i) \in Nat
      /\ Uses(CallRef, i) \in Nat /\ Uses(NewRef, i) \in Nat /\ Uses(NodeRef, i) \in Nat
      /\ Uses(SuperRef, i) \in Nat /\ KernelRefs(i) \in Nat
  BY UsesNat
<1>3. ASSUME NEW f \in FileSlots, FileRef[f] = i PROVE Uses(FileRef, i) > 0
  BY <1>3, Consts, RefDomains, UsesSome
<1>4. ASSUME NEW u \in Tasks, NEW r \in Held, TaskRef[<<u, r>>] = i PROVE Uses(TaskRef, i) > 0
  <2>1. <<u, r>> \in Tasks \X Held
    OBVIOUS
  <2> QED
    BY <1>4, <2>1, Consts, RefDomains, UsesSome
<1>5. ASSUME NEW u \in Tasks, pc[u].inode = i PROVE Uses(CallRef, i) > 0
  <2>1. CallRef[u] = i
    BY <1>5 DEF CallRef
  <2> QED
    BY <2>1, Consts, RefDomains, UsesSome
<1>6. ASSUME NEW u \in Tasks, NewOf(pc[u]) = i PROVE Uses(NewRef, i) > 0
  <2>1. NewRef[u] = i
    BY <1>6 DEF NewRef
  <2> QED
    BY <2>1, Consts, RefDomains, UsesSome
<1>7. ASSUME super.iroot = i \/ super.imount = i PROVE Uses(SuperRef, i) > 0
  BY <1>7, SuperUses DEF Same
<1>8. Total(i) > 0
  <2>1. \/ Uses(FileRef, i) > 0 \/ Uses(TaskRef, i) > 0 \/ Uses(CallRef, i) > 0
        \/ Uses(NewRef, i) > 0 \/ Uses(SuperRef, i) > 0
    BY <1>3, <1>4, <1>5, <1>6, <1>7
  <2> QED
    BY <1>2, <2>1 DEF Total
<1> QED
  BY <1>1, <1>8

-----------------------------------------------------------------------------
\* iget and its callers.

(* A descriptor's file is open, and so is the standard file, for idle.     *)
LEMMA OpenCounted ==
    ASSUME FilesTypeOK, FileCounts, NEW t \in Tasks, NEW d \in Fds, files[t][d] # None, ~Leaving(t, d)
    PROVE  /\ files[t][d] \in FileSlots /\ Open[<<t, d>>] = files[t][d]
           /\ fcount[files[t][d]] \in Nat /\ fcount[files[t][d]] >= 1 + IdleRefs(files[t][d])
<1>1. PICK f : f = files[t][d]
  OBVIOUS
<1>2. f \in FileSlots
  BY <1>1 DEF FilesTypeOK
<1>3. Open[<<t, d>>] = f
  BY <1>1, RefValues
<1>4. <<t, d>> \in Tasks \X Fds
  OBVIOUS
<1>5. Uses(Open, f) > 0 /\ Uses(Open, f) \in Nat
  BY <1>3, <1>4, Consts, RefDomains, UsesSome
<1>6. fcount[f] = Uses(Open, f) + IdleRefs(f) /\ fcount[f] \in Nat /\ IdleRefs(f) \in Nat
  BY <1>2, UsesNat DEF FileCounts, FilesTypeOK
<1> QED
  BY <1>1, <1>2, <1>3, <1>5, <1>6

(* A process in its program or in exit waits for nothing.                  *)
LEMMA RunsPlace ==
    ASSUME NEW p, p \in {User, Exiting}
    PROVE  /\ p.inode = None /\ p.slot = None /\ p.new = None /\ NewOf(p) = None /\ NodeOf(p) = None
           /\ Calm(p) /\ ~MountPlace(p) /\ p # Gone /\ p.at \notin {"super", "mroot", "iput", "xput"} /\ p \in Places
BY UserFields, Consts DEF NewOf, NodeOf, Calm, MountPlace

(* One entry of one process's row changes.                                 *)
LEMMA RowPut ==
    ASSUME NEW T, NEW D, NEW V, NEW fs \in [T -> [D -> V]], NEW t \in T, NEW d \in D, NEW v \in V,
           NEW gs, gs = [fs EXCEPT ![t][d] = v]
    PROVE  /\ gs \in [T -> [D -> V]] /\ gs[t][d] = v
           /\ \A u \in T, e \in D : ~(u = t /\ e = d) => gs[u][e] = fs[u][e]
           /\ \A u \in T : u # t => gs[u] = fs[u]
<1>1. gs[t] = [fs[t] EXCEPT ![d] = v] /\ \A u \in T : u # t => gs[u] = fs[u]
  OBVIOUS
<1>2. fs[t] \in [D -> V] /\ DOMAIN gs = T
  OBVIOUS
<1>3. gs[t] \in [D -> V] /\ gs[t][d] = v /\ \A e \in D : e # d => gs[t][e] = fs[t][e]
  BY <1>1, <1>2
<1>4. gs = [u \in T |-> gs[u]]
  OBVIOUS
<1>5. \A u \in T : gs[u] \in [D -> V]
  BY <1>1, <1>3
<1> QED
  BY <1>1, <1>3, <1>4, <1>5

(* A reference counts once or not at all, and NULL never.                  *)
LEMMA SameFacts ==
    ASSUME NEW i \in InodeSlots
    PROVE  Same(None, i) = 0 /\ \A x : Same(x, i) \in {0, 1}
BY Consts DEF Same

(* The beginning of task_exit keeps the invariant.                         *)
LEMMA TaskExitStep ==
    ASSUME FilesInv, NEW t \in Tasks, task_exit(t)
    PROVE  FilesInv'
<1>1. pc[t] = User /\ ~halted
  BY DEF task_exit, Runs
<1>2. /\ pc' = [pc EXCEPT ![t] = Exiting] /\ files' = files /\ held' = held /\ fcount' = fcount /\ finode' = finode
      /\ kind' = kind /\ nr' = nr /\ icount' = icount /\ loaded' = loaded
      /\ mount' = mount /\ super' = super /\ workload' = workload /\ halted' = halted
  BY DEF task_exit, inodeVars, mountVars
<1>3. TableOK
  BY <1>1, <1>2, TableSame DEF FilesInv, FilesTypeOK
<1>4. \A i \in InodeSlots : icount'[i] = icount[i] - Same(User.inode, i) + Same(Exiting.inode, i) - Same(NewOf(User), i) + Same(NewOf(Exiting), i)
                           - Same(NodeOf(User), i) + Same(NodeOf(Exiting), i)
  BY <1>2, RunsPlace, SameFacts DEF FilesInv, FilesTypeOK
<1> QED
  BY <1>1, <1>2, <1>3, <1>4, RunsPlace, QuietStep

(* A process is gone when it has given up all its references.              *)
LEMMA ExitGoneStep ==
    ASSUME FilesInv, NEW t \in Tasks, pc[t] = Exiting, ~halted, pc' = [pc EXCEPT ![t] = Gone],
           \A s \in Slots : InodeOf(t, s) = None,
           UNCHANGED <<files, held, fcount, finode, inodeVars, mountVars, workload, halted>>
    PROVE  FilesInv'
<1>1. /\ files' = files /\ held' = held /\ fcount' = fcount /\ finode' = finode
      /\ kind' = kind /\ nr' = nr /\ icount' = icount /\ loaded' = loaded
      /\ mount' = mount /\ super' = super /\ workload' = workload /\ halted' = halted
  BY DEF inodeVars, mountVars
<1>2. TableOK
  BY <1>1, TableSame DEF FilesInv, FilesTypeOK
<1>3. Gone.inode = None /\ NewOf(Gone) = None /\ NodeOf(Gone) = None /\ Calm(Gone) /\ ~MountPlace(Gone)
      /\ Gone.at # "super" /\ Gone.at # "mroot" /\ Gone \in Places
  BY UserFields, Consts DEF NewOf, NodeOf, Calm, MountPlace
<1>4. \A i \in InodeSlots : icount'[i] = icount[i] - Same(Exiting.inode, i) + Same(Gone.inode, i) - Same(NewOf(Exiting), i) + Same(NewOf(Gone), i)
                           - Same(NodeOf(Exiting), i) + Same(NodeOf(Gone), i)
  BY <1>1, <1>3, RunsPlace, SameFacts DEF FilesInv, FilesTypeOK
<1>5. \A r \in Held : held[t][r] = None
  BY DEF Slots, InodeOf
<1>6. ASSUME NEW d \in Fds PROVE files[t][d] = None
  <2> SUFFICES ASSUME files[t][d] # None PROVE FALSE
    OBVIOUS
  <2>1. ~Leaving(t, d)
    BY RunsPlace DEF Leaving
  <2>2. FilesTypeOK /\ FileCounts /\ OpenFiles
    BY DEF FilesInv, RunInv
  <2>3. /\ files[t][d] \in FileSlots /\ fcount[files[t][d]] \in Nat /\ fcount[files[t][d]] >= 1 + IdleRefs(files[t][d])
        /\ IdleRefs(files[t][d]) \in Nat
    BY <2>1, <2>2, OpenCounted, UsesNat
  <2>4. finode[files[t][d]] # None
    BY <2>2, <2>3 DEF OpenFiles
  <2>5. InodeOf(t, d) = finode[files[t][d]]
    BY Consts DEF InodeOf
  <2> QED
    BY <2>4, <2>5 DEF Slots
<1> QED
  BY <1>1, <1>2, <1>3, <1>4, <1>5, <1>6, RunsPlace, QuietStep

(* open: a free descriptor and a free file; the inode's reference goes     *)
(* from the call to the file.                                              *)
LEMMA OpenStep ==
    ASSUME FilesInv, ~halted, NEW t \in Tasks, NEW i \in InodeSlots, pc[t].slot = None, pc[t].at # "mroot",
           FreeFds(t) # {}, FreeFiles # {},
           files' = [files EXCEPT ![t][Lowest(FreeFds(t))] = Lowest(FreeFiles)],
           fcount' = [fcount EXCEPT ![Lowest(FreeFiles)] = 1],
           finode' = [finode EXCEPT ![Lowest(FreeFiles)] = i],
           pc' = [pc EXCEPT ![t] = User],
           UNCHANGED <<held, mountVars, workload, halted>>,
           TableOK, \A j \in InodeSlots : icount'[j] = icount[j] + Same(i, j) - Same(pc[t].inode, j)
    PROVE  FilesInv'
<1>0. FilesTypeOK /\ FileCounts /\ InodeCounts /\ GoneEmpty /\ OpenFiles /\ Mounts
  BY DEF FilesInv, RunInv
<1>1. PICK d : d = Lowest(FreeFds(t))
  OBVIOUS
<1>2. PICK f : f = Lowest(FreeFiles)
  OBVIOUS
<1>3. d \in Fds /\ files[t][d] = None
  <2>1. FreeFds(t) \in SUBSET Nat
    BY Consts DEF FreeFds
  <2> QED
    BY <1>1, <2>1, LowestNat DEF FreeFds
<1>4. f \in FileSlots /\ f # Std /\ fcount[f] = 0
  <2>1. FreeFiles \in SUBSET Nat
    BY Consts DEF FreeFiles
  <2> QED
    BY <1>2, <2>1, LowestNat DEF FreeFiles
<1>5. /\ files' = [files EXCEPT ![t][d] = f] /\ fcount' = [fcount EXCEPT ![f] = 1] /\ finode' = [finode EXCEPT ![f] = i]
      /\ held' = held /\ mount' = mount /\ super' = super /\ workload' = workload /\ halted' = halted
  BY <1>1, <1>2 DEF mountVars
<1>6. FilesTypeOK'
  <2>1. files' \in [Tasks -> [Fds -> FileSlots \cup {None}]]
    <3>1. files \in [Tasks -> [Fds -> FileSlots \cup {None}]] /\ f \in FileSlots \cup {None}
      BY <1>0, <1>4 DEF FilesTypeOK
    <3> QED
      BY ONLY <1>3, <1>5, <3>1, RowPut, t \in Tasks
  <2>2. fcount' \in [FileSlots -> Nat] /\ finode' \in [FileSlots -> OptInode]
    BY <1>0, <1>4, <1>5 DEF FilesTypeOK, OptInode
  <2>3. pc' \in [Tasks -> Places]
    BY <1>0, UserFields DEF FilesTypeOK
  <2> QED
    BY <1>0, <1>5, <2>1, <2>2, <2>3 DEF FilesTypeOK, TableOK
<1>7. /\ \A u \in Tasks, e \in Fds : ~(u = t /\ e = d) => files'[u][e] = files[u][e]
      /\ files'[t][d] = f /\ \A u \in Tasks : u # t => files'[u] = files[u]
  BY <1>0, <1>3, <1>5 DEF FilesTypeOK
<1>8. \A s \in Fds \cup Held : ~Leaving(t, s) /\ ~Leaving(t, s)'
  BY <1>0, LeaveLemma, RunsPlace, Consts DEF Leaving
<1>9. \A u \in Tasks : u # t => \A s \in Fds \cup Held : Leaving(u, s)' <=> Leaving(u, s)
  BY <1>0, LeaveLemma
<1>10. \A u \in Tasks, e \in Fds : ~(u = t /\ e = d) => Open'[<<u, e>>] = Open[<<u, e>>]
  <2> SUFFICES ASSUME NEW u \in Tasks, NEW e \in Fds, ~(u = t /\ e = d) PROVE Open'[<<u, e>>] = Open[<<u, e>>]
    OBVIOUS
  <2>1. Leaving(u, e)' <=> Leaving(u, e)
    BY <1>8, <1>9
  <2> QED
    BY <1>7, <2>1, RefValues
<1>11. Open[<<t, d>>] = None /\ Open'[<<t, d>>] = f
  BY <1>3, <1>7, <1>8, RefValues
<1>12. FileCounts'
  <2> SUFFICES ASSUME NEW g \in FileSlots PROVE fcount'[g] = Uses(Open, g)' + IdleRefs(g)
    BY DEF FileCounts
  <2>1. Uses(Open, g)' = Uses(Open, g) - Same(Open[<<t, d>>], g) + Same(Open'[<<t, d>>], g)
    BY <1>3, <1>10, OpenPut
  <2>2. Uses(Open, g)' = Uses(Open, g) - Same(None, g) + Same(f, g)
    BY <1>11, <2>1
  <2>3. Uses(Open, g)' = Uses(Open, g) + Same(f, g)
    BY <2>2, Consts, UsesNat DEF Same
  <2>4. fcount[g] = Uses(Open, g) + IdleRefs(g) /\ IdleRefs(g) \in Nat /\ Uses(Open, g) \in Nat
    BY <1>0, UsesNat DEF FileCounts
  <2>5. fcount'[g] = fcount[g] + Same(f, g)
    BY <1>0, <1>4, <1>5 DEF Same, FilesTypeOK
  <2> QED
    BY <2>3, <2>4, <2>5 DEF Same
<1>13. OpenFiles'
  BY <1>0, <1>4, <1>5, Consts DEF OpenFiles, FilesTypeOK
<1>14. Mounts'
  <2>1. ~MountPlace(User) /\ User.at # "super" /\ User.at # "mroot"
    BY RunsPlace
  <2> QED
    BY <1>0, <1>5, <2>1, KeepMounts
<1>15. GoneEmpty'
  BY <1>0, <1>5, <1>7, RunsPlace, KeepGone
<1>16. ASSUME NEW j \in InodeSlots PROVE icount'[j] = Total(j)'
  <2>1. Uses(TaskRef, j)' = Uses(TaskRef, j)
    <3>1. \A u \in Tasks, e \in Held : TaskRef'[<<u, e>>] = TaskRef[<<u, e>>]
      <4> TAKE u \in Tasks, e \in Held
      <4>1. Leaving(u, e)' <=> Leaving(u, e)
        BY <1>8, <1>9
      <4> QED
        BY <1>5, <4>1, RefValues
    <3> QED
      BY <3>1, TaskSame
  <2>2. \A g \in FileSlots : g # f => FileRef'[g] = FileRef[g]
    BY <1>0, <1>4, <1>5, RefValues DEF FilesTypeOK
  <2>3. FileRef[f] = None /\ FileRef'[f] = i
    BY <1>0, <1>4, <1>5, RefValues DEF FilesTypeOK
  <2>4. Uses(FileRef, j)' = Uses(FileRef, j) - Same(None, j) + Same(i, j)
    BY <1>4, <2>2, <2>3, FilePut
  <2>5. Total(j)' = icount[j] + (Uses(FileRef, j)' - Uses(FileRef, j)) + (Uses(TaskRef, j)' - Uses(TaskRef, j))
                       - Same(pc[t].inode, j) + Same(User.inode, j) - Same(NewOf(pc[t]), j) + Same(NewOf(User), j)
                       - Same(NodeOf(pc[t]), j) + Same(NodeOf(User), j)
    <3>1. PICK q : q = User
      OBVIOUS
    <3>2. pc' = [pc EXCEPT ![t] = q] /\ super' = super
      BY <1>5, <3>1
    <3> QED
      BY ONLY <1>0, <3>1, <3>2, StepCounts, t \in Tasks, j \in InodeSlots
  <2>6. NewOf(pc[t]) = None /\ NodeOf(pc[t]) = None
    BY Consts DEF NewOf, NodeOf
  <2>7. User.inode = None /\ NewOf(User) = None /\ NodeOf(User) = None
    BY RunsPlace
  <2>8. icount[j] \in Nat /\ Uses(FileRef, j) \in Nat /\ Uses(TaskRef, j) \in Nat
    BY <1>0, UsesNat DEF FilesTypeOK
  <2> QED
    BY <2>1, <2>4, <2>5, <2>6, <2>7, <2>8, SameFacts
<1> QED
  BY <1>6, <1>12, <1>13, <1>14, <1>15, <1>16, Assemble

(* The kernel stops in a call that has changed the table of inodes.        *)
LEMMA HaltStep ==
    ASSUME FilesInv, halted' = TRUE, UNCHANGED <<files, held, fcount, finode, mountVars, pc, workload>>, TableOK
    PROVE  FilesInv'
<1>1. /\ files' = files /\ held' = held /\ fcount' = fcount /\ finode' = finode /\ pc' = pc
      /\ mount' = mount /\ super' = super /\ workload' = workload
  BY DEF mountVars
<1>2. FilesTypeOK'
  BY <1>1 DEF FilesInv, FilesTypeOK, TableOK
<1>3. Open' = Open
  BY <1>1 DEF Open, Leaving
<1>4. FileCounts'
  BY <1>1, <1>3 DEF FilesInv, FileCounts
<1> QED
  BY <1>2, <1>4 DEF FilesInv, TableOK

(* iget returns the inode i to its caller.                                 *)
LEMMA GotStep ==
    ASSUME FilesInv, ~halted, NEW t \in Tasks, NEW i \in InodeSlots, NEW s \in Held \cup {None, Mnt, Umnt},
           pc[t].at \in {"user", "bread"}, pc[t].at = "bread" => pc[t].slot = s,
           s \in {Mnt, Umnt} => MountPlace(pc[t]) \/ \A u \in Tasks : ~Mounting(u),
           GotInode(t, i, s), TableOK,
           \A j \in InodeSlots : icount'[j] = icount[j] + Same(i, j) - Same(pc[t].inode, j)
                                              + Same(NodeOf(At("iget", i, s, None)), j) - Same(NodeOf(pc[t]), j)
    PROVE  FilesInv'
<1>1. FilesTypeOK /\ pc[t] \in Places
  BY DEF FilesInv, FilesTypeOK
<1>2. pc[t].at = "user" => pc[t].slot = None
  BY <1>1, PlaceFacts DEF Busy
<1>3. Calm(pc[t]) /\ NewOf(pc[t]) = None
  BY DEF Calm, NewOf
<1>4. \A j \in InodeSlots : icount[j] \in Nat
  BY <1>1 DEF FilesTypeOK
<1>5. CASE s # None /\ pc' = [pc EXCEPT ![t] = At("iget", i, s, None)]
           /\ UNCHANGED <<files, held, fcount, finode, mountVars, workload, halted>>
  <2>1. PICK q : q = At("iget", i, s, None)
    OBVIOUS
  <2>2. q.at = "iget" /\ q.inode = i /\ q.slot = s /\ q.new = None
    BY <2>1, AtFields
  <2>3. q \in Places
    BY <1>5, <2>1, PlaceMembers
  <2>4. Calm(q) /\ NewOf(q) = None /\ (MountPlace(q) <=> s \in {Mnt, Umnt}) /\ q # Gone
    BY <2>2, UserFields DEF Calm, NewOf, MountPlace
  <2>5. /\ files' = files /\ held' = held /\ fcount' = fcount /\ finode' = finode
        /\ mount' = mount /\ super' = super /\ workload' = workload /\ halted' = halted
        /\ pc' = [pc EXCEPT ![t] = q]
    BY <1>5, <2>1 DEF mountVars
  <2>6. \A j \in InodeSlots :
              icount'[j] = icount[j] - Same(pc[t].inode, j) + Same(q.inode, j) - Same(NewOf(pc[t]), j) + Same(NewOf(q), j)
                           - Same(NodeOf(pc[t]), j) + Same(NodeOf(q), j)
    <3> TAKE j \in InodeSlots
    <3>1. icount'[j] = icount[j] + Same(i, j) - Same(pc[t].inode, j) + Same(NodeOf(q), j) - Same(NodeOf(pc[t]), j)
      BY <2>1
    <3> QED
      BY <1>3, <1>4, <2>2, <2>4, <3>1, SameFacts
  <2>7. q.at # "super" /\ q.at # "mroot"
    BY <2>2
  <2>8. MountPlace(q) => MountPlace(pc[t]) \/ \A u \in Tasks : ~Mounting(u)
    BY <2>4
  <2> QED
    BY ONLY FilesInv, ~halted, t \in Tasks, TableOK, <1>3, <2>3, <2>4, <2>5, <2>6, <2>7, <2>8, QuietStep
<1>6. CASE /\ s = None /\ FreeFds(t) # {} /\ FreeFiles # {}
           /\ files' = [files EXCEPT ![t][Lowest(FreeFds(t))] = Lowest(FreeFiles)]
           /\ fcount' = [fcount EXCEPT ![Lowest(FreeFiles)] = 1]
           /\ finode' = [finode EXCEPT ![Lowest(FreeFiles)] = i]
           /\ pc' = [pc EXCEPT ![t] = User]
           /\ UNCHANGED <<held, mountVars, workload, halted>>
  <2>1. pc[t].slot = None /\ pc[t].at # "mroot"
    BY <1>2, <1>6
  <2>2. NodeOf(At("iget", i, s, None)) = None /\ NodeOf(pc[t]) = None
    BY <1>6, <2>1, AtFields, Consts DEF NodeOf
  <2>3. \A j \in InodeSlots : icount'[j] = icount[j] + Same(i, j) - Same(pc[t].inode, j)
    BY <1>4, <2>2, SameFacts
  <2> QED
    BY ONLY FilesInv, ~halted, t \in Tasks, i \in InodeSlots, TableOK, <1>6, <2>1, <2>3, OpenStep
<1>7. CASE halted' = TRUE /\ UNCHANGED <<files, held, fcount, finode, mountVars, pc, workload>>
  BY <1>7, HaltStep
<1> QED
  BY <1>5, <1>6, <1>7 DEF GotInode

(* The count that iget adds for one inode.                                 *)
LEMMA CardSame ==
    ASSUME NEW i, NEW j
    PROVE  Cardinality({i} \cap {j}) = Same(i, j) /\ Cardinality({} \cap {j}) = 0
<1>1. Cardinality({j}) = 1 /\ Cardinality({}) = 0
  BY FS_Singleton, FS_EmptySet
<1>2. (i = j => {i} \cap {j} = {j}) /\ (i # j => {i} \cap {j} = {}) /\ {} \cap {j} = {}
  OBVIOUS
<1> QED
  BY <1>1, <1>2 DEF Same

(* The inode that iget has entered or found.                               *)
LEMMA IgetStep ==
    ASSUME FilesInv, NEW t \in Tasks, NEW n \in workload.numbers, NEW s \in workload.slots, iget(t, n, s)
    PROVE  FilesInv'
<1>0. ~halted /\ pc[t] = User
  BY DEF iget, Runs
<1>1. FilesTypeOK /\ InodeCounts /\ Mounts /\ DeviceStays
  BY <1>0 DEF FilesInv, RunInv
<1>2. n \in Nat \ {0} /\ s \in Held \cup {None, Mnt, Umnt}
  BY <1>1, Consts DEF FilesTypeOK
<1>3. /\ User.at = "user" /\ User.inode = None /\ NodeOf(User) = None /\ NewOf(User) = None /\ Calm(User)
  BY RunsPlace, UserFields
<1>4. s \in {Mnt, Umnt} => \A u \in Tasks : ~Mounting(u)
  BY DEF iget
<1> DEFINE node == IF s = Mnt THEN {DeviceNode} ELSE {}
           counted(i) == [j \in InodeSlots |-> icount[j] + Cardinality({i} \cap {j}) + Cardinality(node \cap {j})]
<1>5. \A i \in InodeSlots : counted(i) \in [InodeSlots -> Nat]
         /\ \A j \in InodeSlots : counted(i)[j] = icount[j] + Same(i, j) + Same(IF s = Mnt THEN DeviceNode ELSE None, j)
  <2> TAKE i \in InodeSlots
  <2>1. \A j \in InodeSlots : Cardinality(node \cap {j}) = Same(IF s = Mnt THEN DeviceNode ELSE None, j)
    <3> TAKE j \in InodeSlots
    <3>1. CASE s = Mnt
      BY <3>1, CardSame
    <3>2. CASE s # Mnt
      BY <3>2, CardSame, SameFacts
    <3> QED
      BY <3>1, <3>2
  <2>2. \A j \in InodeSlots : Cardinality({i} \cap {j}) = Same(i, j)
    BY CardSame
  <2>3. \A j \in InodeSlots : icount[j] \in Nat /\ \A x : Same(x, j) \in Nat
    BY <1>1 DEF FilesTypeOK, Same
  <2> QED
    BY <2>1, <2>2, <2>3
<1>6. CASE Panic
  BY <1>6, PanicStep
<1>7. ASSUME NEW i \in find_inode(n), icount' = counted(fit_inode(i)), GotInode(t, fit_inode(i), s), UNCHANGED <<kind, nr, loaded>>
      PROVE  FilesInv'
  <2>1. PICK k : k = fit_inode(i)
    OBVIOUS
  <2>2. k \in InodeSlots /\ kind[k] # "free"
    <3>1. i \in InodeSlots /\ kind[i] = "disk"
      BY DEF find_inode
    <3>2. CASE mount[i]
      <4>1. k = super.iroot /\ super.iroot # None /\ super.iroot \in OptInode
        BY <1>1, <2>1, <3>1, <3>2 DEF Mounts, fit_inode, FilesTypeOK
      <4>2. k \in InodeSlots
        BY <4>1 DEF OptInode
      <4> QED
        BY <1>0, <4>1, <4>2, Referred
    <3>3. CASE ~mount[i]
      BY <2>1, <3>1, <3>3 DEF fit_inode
    <3> QED
      BY <3>2, <3>3
  <2>3. icount' = counted(k) /\ GotInode(t, k, s) /\ kind' = kind /\ nr' = nr /\ loaded' = loaded
    BY <1>7, <2>1
  <2>4. /\ icount' \in [InodeSlots -> Nat]
        /\ \A j \in InodeSlots : icount'[j] = icount[j] + Same(k, j) + Same(IF s = Mnt THEN DeviceNode ELSE None, j)
    BY <1>5, <2>2, <2>3
  <2>5. TableOK
    <3>1. \A j \in InodeSlots : icount'[j] >= icount[j] /\ (icount'[j] > icount[j] => j = k \/ j = DeviceNode)
      BY <1>1, <2>4, Consts DEF Same, FilesTypeOK
    <3>2. kind[DeviceNode] # "free"
      BY <1>1 DEF DeviceStays
    <3> QED
      BY <1>0, <2>2, <2>3, <2>4, <3>1, <3>2, AddLemma
  <2>6. \A j \in InodeSlots : icount'[j] = icount[j] + Same(k, j) - Same(pc[t].inode, j)
                                              + Same(NodeOf(At("iget", k, s, None)), j) - Same(NodeOf(pc[t]), j)
    <3>1. NodeOf(At("iget", k, s, None)) = IF s = Mnt THEN DeviceNode ELSE None
      BY AtFields DEF NodeOf
    <3>2. pc[t].inode = None /\ NodeOf(pc[t]) = None
      BY <1>0, <1>3
    <3> TAKE j \in InodeSlots
    <3>3. icount[j] \in Nat
      BY <1>1 DEF FilesTypeOK
    <3> QED
      BY <2>4, <3>1, <3>2, <3>3, SameFacts
  <2>7. pc[t].at \in {"user", "bread"} /\ (pc[t].at = "bread" => pc[t].slot = s)
    BY <1>0, <1>3
  <2> QED
    BY ONLY FilesInv, <1>0, t \in Tasks, <1>2, <1>4, <2>2, <2>3, <2>5, <2>6, <2>7, GotStep
<1>8. ASSUME NEW i, i = Lowest(FreeInodes), find_inode(n) = {}, FreeInodes # {},
             kind' = [kind EXCEPT ![i] = "disk"], nr' = [nr EXCEPT ![i] = n], icount' = counted(i),
             loaded' = [loaded EXCEPT ![i] = FALSE], pc' = [pc EXCEPT ![t] = At("bread", i, s, None)],
             UNCHANGED <<files, held, fcount, finode, mountVars, workload, halted>>
      PROVE  FilesInv'
  <2>1. i \in InodeSlots /\ kind[i] = "free"
    <3>1. FreeInodes \in SUBSET Nat
      BY Consts DEF FreeInodes
    <3> QED
      BY <1>8, <3>1, LowestNat DEF FreeInodes
  <2>2. /\ icount' \in [InodeSlots -> Nat]
        /\ \A j \in InodeSlots : icount'[j] = icount[j] + Same(i, j) + Same(IF s = Mnt THEN DeviceNode ELSE None, j)
    BY <1>5, <1>8, <2>1
  <2>3. TableOK
    <3>1. \A j \in InodeSlots : j # i => icount'[j] >= icount[j] /\ (icount'[j] > icount[j] => j = DeviceNode)
      BY <1>1, <2>2, Consts DEF Same, FilesTypeOK
    <3>2. icount'[i] > 0
      BY <1>1, <2>1, <2>2 DEF Same, FilesTypeOK
    <3>3. kind[DeviceNode] # "free" /\ loaded' \in [InodeSlots -> BOOLEAN] /\ n \in Nat
      BY <1>1, <1>2, <1>8 DEF DeviceStays, FilesTypeOK
    <3> QED
      BY <1>0, <1>8, <2>1, <2>2, <3>1, <3>2, <3>3, EntryLemma
  <2>4. PICK q : q = At("bread", i, s, None)
    OBVIOUS
  <2>5. q.at = "bread" /\ q.inode = i /\ q.slot = s /\ q.new = None
    BY <2>4, AtFields
  <2>6. q \in Places
    BY <1>2, <2>1, <2>4, PlaceMembers
  <2>7. Calm(q) /\ NewOf(q) = None /\ (MountPlace(q) <=> s \in {Mnt, Umnt}) /\ q # Gone
        /\ NodeOf(q) = (IF s = Mnt THEN DeviceNode ELSE None)
    BY <2>5, UserFields DEF Calm, NewOf, NodeOf, MountPlace
  <2>8. /\ files' = files /\ held' = held /\ fcount' = fcount /\ finode' = finode
        /\ mount' = mount /\ super' = super /\ workload' = workload /\ halted' = halted
        /\ pc' = [pc EXCEPT ![t] = q]
    BY <1>8, <2>4 DEF mountVars
  <2>9. \A j \in InodeSlots :
              icount'[j] = icount[j] - Same(pc[t].inode, j) + Same(q.inode, j) - Same(NewOf(pc[t]), j) + Same(NewOf(q), j)
                           - Same(NodeOf(pc[t]), j) + Same(NodeOf(q), j)
    <3> TAKE j \in InodeSlots
    <3>1. icount[j] \in Nat
      BY <1>1 DEF FilesTypeOK
    <3>2. pc[t].inode = None /\ NewOf(pc[t]) = None /\ NodeOf(pc[t]) = None
      BY <1>0, <1>3
    <3> QED
      BY <2>2, <2>5, <2>7, <3>1, <3>2, SameFacts
  <2>10. q.at # "super" /\ q.at # "mroot" /\ Calm(pc[t])
    BY <1>0, <1>3, <2>5
  <2>11. MountPlace(q) => MountPlace(pc[t]) \/ \A u \in Tasks : ~Mounting(u)
    BY <1>4, <2>7
  <2> QED
    BY ONLY FilesInv, <1>0, t \in Tasks, <2>3, <2>6, <2>7, <2>8, <2>9, <2>10, <2>11, QuietStep
<1> HIDE DEF counted
<1>9. \/ Panic
      \/ \E i \in find_inode(n) : /\ icount' = counted(fit_inode(i)) /\ GotInode(t, fit_inode(i), s)
                                  /\ UNCHANGED <<kind, nr, loaded>>
      \/ \E i : /\ i = Lowest(FreeInodes) /\ find_inode(n) = {} /\ FreeInodes # {}
                /\ kind' = [kind EXCEPT ![i] = "disk"] /\ nr' = [nr EXCEPT ![i] = n] /\ icount' = counted(i)
                /\ loaded' = [loaded EXCEPT ![i] = FALSE] /\ pc' = [pc EXCEPT ![t] = At("bread", i, s, None)]
                /\ UNCHANGED <<files, held, fcount, finode, mountVars, workload, halted>>
  BY Zenon DEF iget, counted
<1> QED
  BY <1>6, <1>7, <1>8, <1>9

(* The end of the wait in iget keeps the invariant.                        *)
LEMMA IgetDoneStep ==
    ASSUME FilesInv, NEW t \in Tasks, iget_done(t)
    PROVE  FilesInv'
<1>1. ~halted /\ pc[t].at = "bread" /\ GotInode(t, pc[t].inode, pc[t].slot)
      /\ loaded' = [loaded EXCEPT ![pc[t].inode] = TRUE] /\ kind' = kind /\ nr' = nr /\ icount' = icount
  BY DEF iget_done
<1>2. FilesTypeOK /\ pc[t] \in Places
  BY DEF FilesInv, FilesTypeOK
<1>3. PICK i, s : i = pc[t].inode /\ s = pc[t].slot
  OBVIOUS
<1>4. i \in InodeSlots /\ s \in Held \cup {None, Mnt, Umnt}
  BY <1>1, <1>2, <1>3, PlaceFacts DEF Busy
<1>5. TableOK
  BY <1>1, <1>2, TableSame DEF FilesTypeOK
<1>6. NodeOf(At("iget", i, s, None)) = NodeOf(pc[t])
  BY <1>3, AtFields DEF NodeOf
<1>7. \A j \in InodeSlots : icount'[j] = icount[j] + Same(i, j) - Same(pc[t].inode, j)
                                              + Same(NodeOf(At("iget", i, s, None)), j) - Same(NodeOf(pc[t]), j)
  <2> TAKE j \in InodeSlots
  <2>1. icount[j] \in Nat /\ Same(i, j) \in Nat /\ Same(NodeOf(pc[t]), j) \in Nat
    BY <1>2 DEF FilesTypeOK, Same
  <2> QED
    BY <1>1, <1>3, <1>6, <2>1
<1>8. pc[t].at \in {"user", "bread"} /\ (pc[t].at = "bread" => pc[t].slot = s)
      /\ (s \in {Mnt, Umnt} => MountPlace(pc[t]))
  BY <1>1, <1>3 DEF MountPlace
<1>9. GotInode(t, i, s)
  BY <1>1, <1>3
<1> QED
  BY ONLY FilesInv, t \in Tasks, <1>1, <1>4, <1>5, <1>7, <1>8, <1>9, GotStep

-----------------------------------------------------------------------------
\* mount and umount.

(* A call's own references and those of the super block are counted.       *)
LEMMA CallCounted ==
    ASSUME FilesInv, ~halted, NEW t \in Tasks, NEW i \in InodeSlots
    PROVE  /\ icount[i] \in Nat
           /\ icount[i] >= Same(pc[t].inode, i) + Same(NewOf(pc[t]), i) + Same(NodeOf(pc[t]), i)
                           + Same(super.iroot, i) + Same(super.imount, i)
           /\ i = DeviceNode => icount[i] >= 1 + Same(NodeOf(pc[t]), i)
<1>0. FilesTypeOK /\ FileCounts /\ InodeCounts /\ OpenFiles
  BY DEF FilesInv, RunInv
<1>1. icount[i] = Total(i) /\ icount[i] \in Nat
  BY <1>0 DEF InodeCounts, FilesTypeOK
<1>2. /\ Uses(FileRef, i) \in Nat /\ Uses(TaskRef, i) \in Nat
      /\ Uses(CallRef, i) \in Nat /\ Uses(NewRef, i) \in Nat /\ Uses(NodeRef, i) \in Nat
      /\ Uses(SuperRef, i) \in Nat /\ KernelRefs(i) \in Nat
  BY UsesNat
<1>3. CallRef[t] = pc[t].inode /\ NewRef[t] = NewOf(pc[t]) /\ NodeRef[t] = NodeOf(pc[t])
  BY DEF CallRef, NewRef, NodeRef
<1>4. Uses(CallRef, i) >= Same(pc[t].inode, i)
  <2>1. pc[t].inode = i => Uses(CallRef, i) > 0
    BY <1>3, Consts, RefDomains, UsesSome
  <2> QED
    BY <1>2, <2>1 DEF Same
<1>5. Uses(NewRef, i) >= Same(NewOf(pc[t]), i)
  <2>1. NewOf(pc[t]) = i => Uses(NewRef, i) > 0
    BY <1>3, Consts, RefDomains, UsesSome
  <2> QED
    BY <1>2, <2>1 DEF Same
<1>6. Uses(NodeRef, i) >= Same(NodeOf(pc[t]), i)
  <2>1. NodeOf(pc[t]) = i => Uses(NodeRef, i) > 0
    BY <1>3, Consts, RefDomains, UsesSome
  <2> QED
    BY <1>2, <2>1 DEF Same
<1>7. Uses(SuperRef, i) = Same(super.iroot, i) + Same(super.imount, i)
  BY SuperUses
<1>8. i = DeviceNode => Uses(FileRef, i) > 0
  <2>1. fcount[Std] = Uses(Open, Std) + 1 /\ Uses(Open, Std) \in Nat
    BY <1>0, Consts, UsesNat DEF FileCounts, IdleRefs
  <2>2. FileRef[Std] = DeviceNode
    BY <1>0, <2>1, Consts, RefValues DEF OpenFiles
  <2> QED
    BY <2>2, Consts, RefDomains, UsesSome
<1>9. \A x : Same(x, i) \in Nat
  BY DEF Same
<1> QED
  BY <1>1, <1>2, <1>4, <1>5, <1>6, <1>7, <1>8, <1>9 DEF Total

(* One more reference.                                                     *)
LEMMA UsesMore ==
    ASSUME NEW D, IsFiniteSet(D), NEW x, x \notin D, NEW g, DOMAIN g = D \cup {x}, NEW h, DOMAIN h = D,
           \A k \in D : h[k] = g[k], NEW i
    PROVE  Uses(g, i) = Uses(h, i) + Same(g[x], i) /\ Uses(h, i) \in Nat
<1> DEFINE A == {k \in D : h[k] = i}
           B == {k \in D \cup {x} : g[k] = i}
<1>1. Uses(g, i) = Cardinality(B) /\ Uses(h, i) = Cardinality(A)
  BY DEF Uses
<1>2. A \in SUBSET D
  OBVIOUS
<1>3. IsFiniteSet(A) /\ Cardinality(A) \in Nat
  BY <1>2, FS_Subset, FS_CardinalityType
<1>4. x \notin A /\ B = IF g[x] = i THEN A \cup {x} ELSE A
  OBVIOUS
<1> HIDE DEF A, B
<1>5. Cardinality(A \cup {x}) = Cardinality(A) + 1
  BY <1>3, <1>4, FS_AddElement
<1> QED
  BY <1>1, <1>3, <1>4, <1>5 DEF Same

(* The references in a short sequence.                                     *)
LEMMA TupleUses ==
    ASSUME NEW i, NEW a, NEW b
    PROVE  /\ Uses(<< >>, i) = 0 /\ Uses(<<a>>, i) = Same(a, i)
           /\ Uses(<<a, b>>, i) = Same(a, i) + Same(b, i)
<1>1. /\ DOMAIN << >> = {} /\ DOMAIN <<a>> = {1} /\ DOMAIN <<a, b>> = {1} \cup {2}
      /\ <<a>>[1] = a /\ <<a, b>>[1] = a /\ <<a, b>>[2] = b
  OBVIOUS
<1>2. Uses(<< >>, i) = 0
  <2>1. {k \in DOMAIN << >> : << >>[k] = i} = {}
    BY <1>1
  <2> QED
    BY <2>1, FS_EmptySet DEF Uses
<1>3. Uses(<<a>>, i) = Same(a, i)
  <2>1. {k \in DOMAIN <<a>> : <<a>>[k] = i} = IF a = i THEN {1} ELSE {}
    BY <1>1
  <2>2. Cardinality({1}) = 1 /\ Cardinality({}) = 0
    BY FS_Singleton, FS_EmptySet
  <2> QED
    BY <2>1, <2>2 DEF Uses, Same
<1>4. Uses(<<a, b>>, i) = Uses(<<a>>, i) + Same(b, i)
  <2>1. IsFiniteSet({1}) /\ 2 \notin {1} /\ \A k \in {1} : <<a>>[k] = <<a, b>>[k]
    BY <1>1, FS_Singleton
  <2>2. PICK g, h, D : g = <<a, b>> /\ h = <<a>> /\ D = {1}
    OBVIOUS
  <2>3. IsFiniteSet(D) /\ 2 \notin D /\ DOMAIN g = D \cup {2} /\ DOMAIN h = D /\ \A k \in D : h[k] = g[k]
    BY <1>1, <2>1, <2>2
  <2>4. Uses(g, i) = Uses(h, i) + Same(g[2], i)
    BY ONLY <2>3, UsesMore
  <2> QED
    BY <1>1, <2>2, <2>4
<1> QED
  BY <1>2, <1>3, <1>4

(* The values of a sequence of three, counted.                             *)
LEMMA TripleUses ==
    ASSUME NEW i, NEW a, NEW b, NEW c
    PROVE  Uses(<<a, b, c>>, i) = Same(a, i) + Same(b, i) + Same(c, i)
<1>1. /\ DOMAIN <<a, b>> = {1} \cup {2} /\ DOMAIN <<a, b, c>> = ({1} \cup {2}) \cup {3}
      /\ <<a, b>>[1] = a /\ <<a, b>>[2] = b
      /\ <<a, b, c>>[1] = a /\ <<a, b, c>>[2] = b /\ <<a, b, c>>[3] = c
  OBVIOUS
<1>2. IsFiniteSet({1} \cup {2})
  BY FS_Singleton, FS_Union
<1>3. 3 \notin {1} \cup {2} /\ \A k \in {1} \cup {2} : <<a, b>>[k] = <<a, b, c>>[k]
  BY <1>1
<1>4. Uses(<<a, b, c>>, i) = Uses(<<a, b>>, i) + Same(<<a, b, c>>[3], i)
  <2>1. PICK g, h, D : g = <<a, b, c>> /\ h = <<a, b>> /\ D = {1} \cup {2}
    OBVIOUS
  <2>2. IsFiniteSet(D) /\ 3 \notin D /\ DOMAIN g = D \cup {3} /\ DOMAIN h = D /\ \A k \in D : h[k] = g[k]
    BY <1>1, <1>2, <1>3, <2>1
  <2>3. Uses(g, i) = Uses(h, i) + Same(g[3], i)
    BY ONLY <2>2, UsesMore
  <2> QED
    BY <2>1, <2>3
<1>5. Uses(<<a, b>>, i) = Same(a, i) + Same(b, i)
  BY TupleUses
<1> QED
  BY <1>1, <1>4, <1>5

(* At most t mounts or unmounts.                                           *)
LEMMA LoneMount ==
    ASSUME FilesTypeOK, NEW t \in Tasks, NEW q, pc' = [pc EXCEPT ![t] = q],
           \A u \in Tasks : u # t => ~Mounting(u),
           \A i \in InodeSlots : mount'[i] => super'.used /\ i = super'.imount /\ super'.iroot # None,
           ~super'.used => super' = NoSuper,
           q.at = "super" => ~super'.used,
           q.at = "mroot" => super'.used /\ super'.iroot = None /\ super'.imount = None /\ q.new # DeviceNode
    PROVE  Mounts'
<1>1. pc'[t] = q /\ \A u \in Tasks : u # t => pc'[u] = pc[u]
  BY LeaveLemma
<1>2. \A u \in Tasks : u # t => ~Mounting(u)' /\ pc'[u].at \notin {"super", "mroot"}
  BY <1>1 DEF Mounting
<1>3. \A u, w \in Tasks : Mounting(u)' /\ Mounting(w)' => u = w
  BY <1>2
<1>4. \A u \in Tasks : pc'[u].at = "super" => ~super'.used
  BY <1>1, <1>2
<1>5. \A u \in Tasks : pc'[u].at = "mroot" =>
                /\ super'.used /\ super'.iroot = None /\ super'.imount = None
                /\ pc'[u].new # DeviceNode
  BY <1>1, <1>2
<1> QED
  BY <1>3, <1>4, <1>5 DEF Mounts

(* mount or umount returns and has put the references that are left.       *)
LEMMA ReturnStep ==
    ASSUME FilesInv, ~halted, NEW t \in Tasks, NEW sb \in [used : BOOLEAN, iroot : OptInode, imount : OptInode],
           NEW marks \in [InodeSlots -> BOOLEAN], NEW refs,
           Calm(pc[t]), MountReturns(t, sb, marks, refs), Mounts',
           \A i \in InodeSlots :
              /\ Uses(refs, i) \in Nat
              /\ Uses(refs, i) = Same(pc[t].inode, i) + Same(NewOf(pc[t]), i) + Same(NodeOf(pc[t]), i)
                                 + Same(super.iroot, i) + Same(super.imount, i) - Same(sb.iroot, i) - Same(sb.imount, i)
    PROVE  FilesInv'
<1>1. /\ Drop(refs) /\ super' = sb /\ mount' = marks /\ pc' = [pc EXCEPT ![t] = User]
      /\ files' = files /\ held' = held /\ fcount' = fcount /\ finode' = finode /\ workload' = workload /\ halted' = halted
  BY DEF MountReturns
<1>2. \A i \in InodeSlots : Uses(refs, i) \in Nat /\ Uses(refs, i) <= icount[i]
  <2> TAKE i \in InodeSlots
  <2>1. icount[i] >= Same(pc[t].inode, i) + Same(NewOf(pc[t]), i) + Same(NodeOf(pc[t]), i)
                           + Same(super.iroot, i) + Same(super.imount, i) /\ icount[i] \in Nat
    BY CallCounted
  <2>2. \A x : Same(x, i) \in Nat
    BY DEF Same
  <2> QED
    BY <2>1, <2>2
<1>3. TableOK /\ \A j \in InodeSlots : icount'[j] = icount[j] - Uses(refs, j)
  BY <1>1, <1>2, DropLemma
<1>4. PICK q : q = User
  OBVIOUS
<1>5. q \in Places /\ Calm(q) /\ q # Gone /\ q.inode = None /\ NewOf(q) = None /\ NodeOf(q) = None
  BY <1>4, RunsPlace
<1>6. \A i \in InodeSlots :
         icount'[i] = icount[i] - Same(pc[t].inode, i) + Same(q.inode, i) - Same(NewOf(pc[t]), i) + Same(NewOf(q), i)
                           - Same(NodeOf(pc[t]), i) + Same(NodeOf(q), i)
                           - Same(super.iroot, i) - Same(super.imount, i) + Same(super'.iroot, i) + Same(super'.imount, i)
  <2> TAKE i \in InodeSlots
  <2>1. icount[i] \in Nat /\ Same(None, i) = 0 /\ \A x : Same(x, i) \in Nat
    BY SameFacts DEF FilesInv, FilesTypeOK, Same
  <2> QED
    BY <1>1, <1>3, <1>5, <2>1
<1>7. pc' = [pc EXCEPT ![t] = q]
  BY <1>1, <1>4
<1>8. mount' \in [InodeSlots -> BOOLEAN] /\ super' \in [used : BOOLEAN, iroot : OptInode, imount : OptInode]
  BY <1>1
<1> QED
  BY ONLY FilesInv, ~halted, t \in Tasks, Calm(pc[t]), Mounts', <1>1, <1>3, <1>5, <1>6, <1>7, <1>8, MountStep

(* sys_mount is refused, or begins to read the super block.                *)
LEMMA SysMountStep ==
    ASSUME FilesInv, NEW t \in Tasks, sys_mount(t)
    PROVE  FilesInv'
<1>0. pc[t].at = "iget" /\ pc[t].slot = Mnt /\ ~halted
  BY DEF sys_mount
<1>1. FilesTypeOK /\ Mounts /\ pc[t] \in Places
  BY <1>0 DEF FilesInv, FilesTypeOK, RunInv
<1>2. PICK d : d = pc[t].inode
  OBVIOUS
<1>3. d \in InodeSlots /\ pc[t].new = None /\ pc[t] = At("iget", d, Mnt, None)
  BY <1>0, <1>1, <1>2, PlaceFacts DEF Busy
<1>4. NewOf(pc[t]) = None /\ NodeOf(pc[t]) = DeviceNode /\ Calm(pc[t]) /\ MountPlace(pc[t])
  BY <1>0 DEF NewOf, NodeOf, Calm, MountPlace
<1>5. CASE MountReturns(t, super, mount, <<DeviceNode, d>>)
  <2>1. PICK q : q = User
    OBVIOUS
  <2>2. pc' = [pc EXCEPT ![t] = q] /\ mount' = mount /\ super' = super
    BY <1>5, <2>1 DEF MountReturns
  <2>3. ~MountPlace(q) /\ q.at # "super" /\ q.at # "mroot"
    BY <2>1, RunsPlace
  <2>4. Mounts'
    BY <1>1, <2>2, <2>3, KeepMounts
  <2>5. PICK refs : refs = <<DeviceNode, d>>
    OBVIOUS
  <2>6. \A i \in InodeSlots :
              /\ Uses(refs, i) \in Nat
              /\ Uses(refs, i) = Same(pc[t].inode, i) + Same(NewOf(pc[t]), i) + Same(NodeOf(pc[t]), i)
                                 + Same(super.iroot, i) + Same(super.imount, i) - Same(super.iroot, i) - Same(super.imount, i)
    <3> TAKE i \in InodeSlots
    <3>1. Uses(refs, i) = Same(DeviceNode, i) + Same(d, i)
      BY <2>5, TupleUses
    <3>2. \A x : Same(x, i) \in Nat
      BY DEF Same
    <3> QED
      BY <1>2, <1>4, <3>1, <3>2, SameFacts
  <2>7. super \in [used : BOOLEAN, iroot : OptInode, imount : OptInode] /\ mount \in [InodeSlots -> BOOLEAN]
    BY <1>1 DEF FilesTypeOK
  <2>8. MountReturns(t, super, mount, refs)
    BY <1>5, <2>5
  <2> QED
    BY ONLY FilesInv, t \in Tasks, <1>0, <1>4, <2>4, <2>6, <2>7, <2>8, ReturnStep
<1>6. CASE /\ ~super.used /\ pc' = [pc EXCEPT ![t].at = "super"]
           /\ UNCHANGED <<files, held, fcount, finode, inodeVars, mountVars, workload, halted>>
  <2>1. PICK q : q = At("super", d, Mnt, None)
    OBVIOUS
  <2>2. q.at = "super" /\ q.inode = d /\ q.slot = Mnt /\ q.new = None
    BY <2>1, AtFields
  <2>3. pc' = [pc EXCEPT ![t] = q]
    <3>1. [pc[t] EXCEPT !.at = "super"] = q
      BY <1>3, <2>1 DEF At
    <3> QED
      BY <1>1, <1>6, <3>1 DEF FilesTypeOK
  <2>4. q \in Places
    BY <1>3, <2>1, PlaceMembers
  <2>5. Calm(q) /\ NewOf(q) = None /\ NodeOf(q) = DeviceNode /\ q # Gone
    BY <2>2, UserFields DEF Calm, NewOf, NodeOf
  <2>6. /\ files' = files /\ held' = held /\ fcount' = fcount /\ finode' = finode
        /\ kind' = kind /\ nr' = nr /\ icount' = icount /\ loaded' = loaded
        /\ mount' = mount /\ super' = super /\ workload' = workload /\ halted' = halted
    BY <1>6 DEF inodeVars, mountVars
  <2>7. TableOK
    BY <1>0, <1>1, <2>6, TableSame DEF FilesTypeOK
  <2>8. \A j \in InodeSlots :
              icount'[j] = icount[j] - Same(pc[t].inode, j) + Same(q.inode, j) - Same(NewOf(pc[t]), j) + Same(NewOf(q), j)
                           - Same(NodeOf(pc[t]), j) + Same(NodeOf(q), j)
    <3> TAKE j \in InodeSlots
    <3>1. icount[j] \in Nat /\ \A x : Same(x, j) \in Nat
      BY <1>1 DEF FilesTypeOK, Same
    <3> QED
      BY <1>2, <1>4, <2>2, <2>5, <2>6, <3>1
  <2>9. q.at # "mroot" /\ (q.at = "super" => ~super.used)
    BY <1>6, <2>2
  <2> QED
    BY ONLY FilesInv, t \in Tasks, <1>0, <1>4, <2>3, <2>4, <2>5, <2>6, <2>7, <2>8, <2>9, QuietStep
<1> QED
  BY <1>2, <1>5, <1>6 DEF sys_mount

(* read_super, which takes the super block, keeps the invariant.           *)
LEMMA ReadSuperStep ==
    ASSUME FilesInv, NEW t \in Tasks, read_super(t)
    PROVE  FilesInv'
<1>0. pc[t].at = "super" /\ ~halted
  BY DEF read_super
<1>1. FilesTypeOK /\ Mounts /\ DeviceStays /\ pc[t] \in Places
  BY <1>0 DEF FilesInv, FilesTypeOK, RunInv
<1>2. PICK d : d = pc[t].inode
  OBVIOUS
<1>3. d \in InodeSlots /\ pc[t].new = None /\ pc[t].slot = Mnt /\ pc[t] = At("super", d, Mnt, None)
  BY <1>0, <1>1, <1>2, PlaceFacts DEF Busy
<1>4. NewOf(pc[t]) = None /\ NodeOf(pc[t]) = DeviceNode /\ Calm(pc[t]) /\ MountPlace(pc[t])
  BY <1>0, <1>3 DEF NewOf, NodeOf, Calm, MountPlace
<1>5. ~super.used /\ super = NoSuper /\ \A u \in Tasks : u # t => ~Mounting(u)
  BY <1>0, <1>1 DEF Mounts, Mounting
<1>6. CASE Panic
  BY <1>6, PanicStep
<1>7. ASSUME NEW i, i = (IF find_inode(MountRoot) # {} THEN Lowest(find_inode(MountRoot)) ELSE Lowest(FreeInodes)),
             find_inode(MountRoot) # {} \/ FreeInodes # {},
             super' = [super EXCEPT !.used = TRUE],
             icount' = [icount EXCEPT ![i] = @ + 1],
             kind' = [kind EXCEPT ![i] = "disk"], nr' = [nr EXCEPT ![i] = MountRoot],
             pc' = [pc EXCEPT ![t].at = "mroot", ![t].new = i],
             UNCHANGED <<files, held, fcount, finode, loaded, mount, workload, halted>>
      PROVE  FilesInv'
  <2>1. /\ i \in InodeSlots
        /\ \/ kind[i] = "disk" /\ nr[i] = MountRoot
           \/ kind[i] = "free" /\ find_inode(MountRoot) = {}
    <3>1. find_inode(MountRoot) \in SUBSET Nat /\ FreeInodes \in SUBSET Nat
      BY Consts DEF find_inode, FreeInodes
    <3>2. CASE find_inode(MountRoot) # {}
      <4>1. i \in find_inode(MountRoot)
        BY <1>7, <3>1, <3>2, LowestNat
      <4> QED
        BY <4>1 DEF find_inode
    <3>3. CASE find_inode(MountRoot) = {}
      <4>1. i \in FreeInodes
        BY <1>7, <3>1, <3>3, LowestNat
      <4> QED
        BY <3>3, <4>1 DEF FreeInodes
    <3> QED
      BY <3>2, <3>3
  <2>2. i # DeviceNode
    BY <1>1, <2>1, Consts DEF DeviceStays
  <2>3. /\ icount' \in [InodeSlots -> Nat] /\ icount'[i] = icount[i] + 1 /\ \A j \in InodeSlots : j # i => icount'[j] = icount[j]
        /\ \A j \in InodeSlots : icount[j] \in Nat
    BY <1>1, <1>7, <2>1 DEF FilesTypeOK
  <2>4. TableOK
    <3>1. CASE kind[i] = "disk" /\ nr[i] = MountRoot
      <4>1. kind' = kind /\ nr' = nr /\ loaded' = loaded
        BY <1>1, <1>7, <2>1, <3>1 DEF FilesTypeOK
      <4>2. \A j \in InodeSlots : icount'[j] >= icount[j] /\ (icount'[j] > icount[j] => kind[j] # "free")
        BY <2>3, <3>1
      <4> QED
        BY <1>0, <2>3, <4>1, <4>2, AddLemma
    <3>2. CASE kind[i] = "free" /\ find_inode(MountRoot) = {}
      <4>1. MountRoot \in Nat /\ loaded' \in [InodeSlots -> BOOLEAN] /\ icount'[i] > 0
        BY <1>1, <1>7, <2>1, <2>3, Consts DEF FilesTypeOK
      <4>2. \A j \in InodeSlots : j # i => icount'[j] >= icount[j] /\ (icount'[j] > icount[j] => kind[j] # "free")
        BY <2>3
      <4> QED
        BY <1>0, <1>7, <2>1, <2>3, <3>2, <4>1, <4>2, EntryLemma
    <3> QED
      BY <2>1, <3>1, <3>2
  <2>5. PICK q : q = At("mroot", d, Mnt, i)
    OBVIOUS
  <2>6. q.at = "mroot" /\ q.inode = d /\ q.slot = Mnt /\ q.new = i
    BY <2>5, AtFields
  <2>7. pc' = [pc EXCEPT ![t] = q]
    <3>1. [[pc[t] EXCEPT !.at = "mroot"] EXCEPT !.new = i] = q
      <4>1. PICK r : r = [pc[t] EXCEPT !.at = "mroot"]
        OBVIOUS
      <4>2. r = [at |-> "mroot", inode |-> d, slot |-> Mnt, new |-> None]
        BY <1>3, <4>1 DEF At
      <4>3. [r EXCEPT !.new = i] = [at |-> "mroot", inode |-> d, slot |-> Mnt, new |-> i]
        BY <4>2
      <4> QED
        BY <2>5, <4>1, <4>3 DEF At
    <3>2. pc'[t] = [[pc[t] EXCEPT !.at = "mroot"] EXCEPT !.new = i] /\ \A u \in Tasks : u # t => pc'[u] = pc[u]
      BY <1>1, <1>7 DEF FilesTypeOK
    <3>3. DOMAIN pc' = Tasks /\ pc' = [u \in DOMAIN pc' |-> pc'[u]] /\ pc = [u \in Tasks |-> pc[u]]
      BY <1>1, <1>7 DEF FilesTypeOK
    <3> QED
      BY <3>1, <3>2, <3>3
  <2>8. q \in Places
    BY <1>3, <2>1, <2>5, PlaceMembers
  <2>9. Calm(q) /\ NewOf(q) = i /\ NodeOf(q) = DeviceNode /\ q # Gone
    BY <2>6, UserFields DEF Calm, NewOf, NodeOf
  <2>10. super' = [used |-> TRUE, iroot |-> None, imount |-> None]
    BY <1>5, <1>7 DEF NoSuper
  <2>11. /\ files' = files /\ held' = held /\ fcount' = fcount /\ finode' = finode
        /\ mount' = mount /\ workload' = workload /\ halted' = halted
    BY <1>7
  <2>12. super'.used /\ super'.iroot = None /\ super'.imount = None /\ super.iroot = None /\ super.imount = None
    BY <1>5, <2>10 DEF NoSuper
  <2>13. Mounts'
    <3>1. \A j \in InodeSlots : ~mount'[j]
      BY <1>1, <1>5, <2>11 DEF Mounts
    <3> QED
      BY <1>1, <1>5, <2>2, <2>6, <2>7, <2>12, <3>1, LoneMount
  <2>14. mount' \in [InodeSlots -> BOOLEAN] /\ super' \in [used : BOOLEAN, iroot : OptInode, imount : OptInode]
    BY <1>1, <2>10, <2>11 DEF FilesTypeOK, OptInode
  <2>15. \A j \in InodeSlots :
              icount'[j] = icount[j] - Same(pc[t].inode, j) + Same(q.inode, j) - Same(NewOf(pc[t]), j) + Same(NewOf(q), j)
                           - Same(NodeOf(pc[t]), j) + Same(NodeOf(q), j)
                           - Same(super.iroot, j) - Same(super.imount, j) + Same(super'.iroot, j) + Same(super'.imount, j)
    <3> TAKE j \in InodeSlots
    <3>1. icount'[j] = icount[j] + Same(i, j) /\ icount[j] \in Nat
      BY <2>3 DEF Same
    <3> QED
      BY <1>2, <1>4, <2>6, <2>9, <2>12, <3>1, SameFacts
  <2> QED
    BY ONLY FilesInv, t \in Tasks, <1>0, <1>4, <2>4, <2>7, <2>8, <2>9, <2>11, <2>13, <2>14, <2>15, MountStep
<1> QED
  BY <1>6, <1>7 DEF read_super

(* The end of mount keeps it.                                              *)
LEMMA MountDoneStep ==
    ASSUME FilesInv, NEW t \in Tasks, mount_done(t)
    PROVE  FilesInv'
<1>0. pc[t].at = "mroot" /\ ~halted
  BY DEF mount_done
<1>1. FilesTypeOK /\ Mounts /\ DeviceStays /\ pc[t] \in Places /\ OneInodePerNumber
      /\ \A j \in InodeSlots : kind[j] = "free" <=> icount[j] = 0
  BY <1>0 DEF FilesInv, FilesTypeOK, RunInv, InodeCounts
<1>2. PICK d, n : d = pc[t].inode /\ n = pc[t].new
  OBVIOUS
<1>3. d \in InodeSlots /\ n \in InodeSlots /\ pc[t].slot = Mnt
  BY <1>0, <1>1, <1>2, PlaceFacts DEF Busy
<1>4. NewOf(pc[t]) = n /\ NodeOf(pc[t]) = DeviceNode /\ Calm(pc[t])
  BY <1>0, <1>2, <1>3 DEF NewOf, NodeOf, Calm
<1>5. super.iroot = None /\ super.imount = None /\ \A u \in Tasks : u # t => ~Mounting(u)
  BY <1>0, <1>1 DEF Mounts, Mounting
<1>6. /\ loaded' = [loaded EXCEPT ![n] = TRUE] /\ icount' = [icount EXCEPT ![DeviceNode] = @ - 1]
      /\ super' = [used |-> TRUE, iroot |-> n, imount |-> d] /\ mount' = [mount EXCEPT ![d] = TRUE]
      /\ pc' = [pc EXCEPT ![t] = User]
      /\ files' = files /\ held' = held /\ fcount' = fcount /\ finode' = finode /\ kind' = kind /\ nr' = nr
      /\ workload' = workload /\ halted' = halted
  BY <1>2 DEF mount_done
<1>7. PICK q : q = User
  OBVIOUS
<1>8. q \in Places /\ Calm(q) /\ q # Gone /\ q.inode = None /\ NewOf(q) = None /\ NodeOf(q) = None /\ q.at # "super" /\ q.at # "mroot"
  BY <1>7, RunsPlace
<1>9. pc' = [pc EXCEPT ![t] = q]
  BY <1>6, <1>7
<1>10. icount[DeviceNode] \in Nat /\ icount[DeviceNode] >= 2
  BY <1>0, <1>4, CallCounted, Consts DEF Same
<1>11. icount' \in [InodeSlots -> Nat] /\ \A j \in InodeSlots : icount'[j] = icount[j] - Same(DeviceNode, j)
  BY <1>1, <1>6, <1>10, Consts DEF FilesTypeOK, Same
<1>12. TableOK
  <2>1. \A j \in InodeSlots : kind'[j] = "free" <=> icount'[j] = 0
    <3> TAKE j \in InodeSlots
    <3>1. icount[j] \in Nat
      BY <1>1 DEF FilesTypeOK
    <3> QED
      BY <1>1, <1>6, <1>10, <1>11, <3>1 DEF Same
  <2> QED
    BY <1>1, <1>6, <1>11, <2>1 DEF TableOK, FilesTypeOK, OneInodePerNumber, DeviceStays
<1>13. super'.used /\ super'.iroot = n /\ super'.imount = d
  BY <1>6
<1>14. Mounts'
  <2>1. \A j \in InodeSlots : mount'[j] => j = d
    BY <1>1, <1>5, <1>6 DEF Mounts, FilesTypeOK
  <2>2. n # None
    BY <1>3, Consts
  <2> QED
    BY <1>1, <1>5, <1>8, <1>9, <1>13, <2>1, <2>2, LoneMount
<1>15. mount' \in [InodeSlots -> BOOLEAN] /\ super' \in [used : BOOLEAN, iroot : OptInode, imount : OptInode]
  BY <1>1, <1>3, <1>6 DEF FilesTypeOK, OptInode
<1>16. \A j \in InodeSlots :
              icount'[j] = icount[j] - Same(pc[t].inode, j) + Same(q.inode, j) - Same(NewOf(pc[t]), j) + Same(NewOf(q), j)
                           - Same(NodeOf(pc[t]), j) + Same(NodeOf(q), j)
                           - Same(super.iroot, j) - Same(super.imount, j) + Same(super'.iroot, j) + Same(super'.imount, j)
  <2> TAKE j \in InodeSlots
  <2>1. icount[j] \in Nat
    BY <1>1 DEF FilesTypeOK
  <2> QED
    BY <1>2, <1>4, <1>5, <1>8, <1>11, <1>13, <2>1, SameFacts
<1> QED
  BY ONLY FilesInv, t \in Tasks, <1>0, <1>4, <1>6, <1>8, <1>9, <1>12, <1>14, <1>15, <1>16, MountStep

(* umount by a caller whose own references are in refs; more are those     *)
(* with the super block's.                                                 *)
LEMMA UmountStep ==
    ASSUME FilesInv, ~halted, NEW t \in Tasks, NEW refs, NEW more,
           \/ MountReturns(t, super, mount, refs) \/ Panic
           \/ MountReturns(t, NoSuper, [mount EXCEPT ![super.imount] = FALSE], more),
           Calm(pc[t]), \A u \in Tasks : u # t => ~Mounting(u),
           \A j \in InodeSlots :
              /\ Uses(refs, j) = Same(pc[t].inode, j) + Same(NewOf(pc[t]), j) + Same(NodeOf(pc[t]), j)
              /\ Uses(more, j) = Uses(refs, j) + Same(super.iroot, j) + Same(super.imount, j)
    PROVE  FilesInv'
<1>1. FilesTypeOK /\ Mounts
  BY DEF FilesInv, RunInv
<1>2. super \in [used : BOOLEAN, iroot : OptInode, imount : OptInode] /\ mount \in [InodeSlots -> BOOLEAN]
  BY <1>1 DEF FilesTypeOK
<1>3. PICK q : q = User
  OBVIOUS
<1>4. ~MountPlace(q) /\ q.at # "super" /\ q.at # "mroot"
  BY <1>3, RunsPlace
<1>5. CASE MountReturns(t, super, mount, refs)
  <2>1. pc' = [pc EXCEPT ![t] = q] /\ mount' = mount /\ super' = super
    BY <1>3, <1>5 DEF MountReturns
  <2>2. Mounts'
    BY <1>1, <1>4, <2>1, KeepMounts
  <2>3. \A j \in InodeSlots :
              /\ Uses(refs, j) \in Nat
              /\ Uses(refs, j) = Same(pc[t].inode, j) + Same(NewOf(pc[t]), j) + Same(NodeOf(pc[t]), j)
                                 + Same(super.iroot, j) + Same(super.imount, j) - Same(super.iroot, j) - Same(super.imount, j)
    BY SameFacts
  <2> QED
    BY ONLY FilesInv, ~halted, t \in Tasks, Calm(pc[t]), <1>2, <1>5, <2>2, <2>3, ReturnStep
<1>6. CASE Panic
  BY <1>6, PanicStep
<1>7. CASE MountReturns(t, NoSuper, [mount EXCEPT ![super.imount] = FALSE], more)
  <2>1. PICK sb, marks : sb = NoSuper /\ marks = [mount EXCEPT ![super.imount] = FALSE]
    OBVIOUS
  <2>2. MountReturns(t, sb, marks, more)
    BY <1>7, <2>1
  <2>3. sb \in [used : BOOLEAN, iroot : OptInode, imount : OptInode] /\ marks \in [InodeSlots -> BOOLEAN]
        /\ sb.iroot = None /\ sb.imount = None /\ ~sb.used
    BY <1>2, <2>1 DEF NoSuper, OptInode
  <2>4. pc' = [pc EXCEPT ![t] = q] /\ mount' = marks /\ super' = sb
    BY <1>3, <2>2 DEF MountReturns
  <2>5. \A j \in InodeSlots : ~mount'[j]
    BY <1>1, <1>2, <2>1, <2>4 DEF Mounts
  <2>6. super' = NoSuper
    BY <2>1, <2>4
  <2>7. Mounts'
    BY <1>1, <1>4, <2>4, <2>5, <2>6, LoneMount
  <2>8. \A j \in InodeSlots :
              /\ Uses(more, j) \in Nat
              /\ Uses(more, j) = Same(pc[t].inode, j) + Same(NewOf(pc[t]), j) + Same(NodeOf(pc[t]), j)
                                 + Same(super.iroot, j) + Same(super.imount, j) - Same(sb.iroot, j) - Same(sb.imount, j)
    <3> TAKE j \in InodeSlots
    <3>1. Same(sb.iroot, j) = 0 /\ Same(sb.imount, j) = 0
      BY <2>3, SameFacts
    <3>2. \A x : Same(x, j) \in Nat
      BY DEF Same
    <3>3. /\ Uses(refs, j) = Same(pc[t].inode, j) + Same(NewOf(pc[t]), j) + Same(NodeOf(pc[t]), j)
          /\ Uses(more, j) = Uses(refs, j) + Same(super.iroot, j) + Same(super.imount, j)
      BY Zenon
    <3> QED
      BY ONLY <3>1, <3>2, <3>3
  <2> QED
    BY ONLY FilesInv, ~halted, t \in Tasks, Calm(pc[t]), <2>2, <2>3, <2>7, <2>8, ReturnStep
<1> QED
  BY <1>5, <1>6, <1>7

(* umount of a path keeps it.                                              *)
LEMMA SysUmountStep ==
    ASSUME FilesInv, NEW t \in Tasks, sys_umount(t)
    PROVE  FilesInv'
<1>0. pc[t].at = "iget" /\ pc[t].slot = Umnt /\ ~halted
  BY DEF sys_umount
<1>1. FilesTypeOK /\ Mounts
  BY <1>0 DEF FilesInv, RunInv
<1>2. PICK d, refs, more : d = pc[t].inode /\ refs = <<d>> /\ more = <<d, super.iroot, super.imount>>
  OBVIOUS
<1>3. umount(t, d, refs)
  BY <1>2 DEF sys_umount
<1>4. more = refs \o <<super.iroot, super.imount>>
  <2>1. \A a, b, c : <<a, b, c>> = <<a>> \o <<b, c>>
    OBVIOUS
  <2> QED
    BY <1>2, <2>1
<1>5. NewOf(pc[t]) = None /\ NodeOf(pc[t]) = None /\ Calm(pc[t]) /\ Mounting(t)
  BY <1>0, Consts DEF NewOf, NodeOf, Calm, Mounting
<1>6. \A u \in Tasks : u # t => ~Mounting(u)
  BY <1>1, <1>5 DEF Mounts
<1>7. \A j \in InodeSlots :
              /\ Uses(refs, j) = Same(pc[t].inode, j) + Same(NewOf(pc[t]), j) + Same(NodeOf(pc[t]), j)
              /\ Uses(more, j) = Uses(refs, j) + Same(super.iroot, j) + Same(super.imount, j)
  <2> TAKE j \in InodeSlots
  <2>1. Uses(refs, j) = Same(d, j) /\ Uses(more, j) = Same(d, j) + Same(super.iroot, j) + Same(super.imount, j)
    <3>1. PICK x, y : x = super.iroot /\ y = super.imount
      OBVIOUS
    <3>2. Uses(<<d>>, j) = Same(d, j)
      BY TupleUses
    <3>3. Uses(<<d, x, y>>, j) = Same(d, j) + Same(x, j) + Same(y, j)
      BY TripleUses
    <3> QED
      BY <1>2, <3>1, <3>2, <3>3
  <2> QED
    BY <1>2, <1>5, <2>1, SameFacts
<1>8. \/ MountReturns(t, super, mount, refs) \/ Panic
      \/ MountReturns(t, NoSuper, [mount EXCEPT ![super.imount] = FALSE], more)
  BY ONLY <1>3, <1>4, Zenon DEF umount, put_super
<1> QED
  BY ONLY FilesInv, t \in Tasks, <1>0, <1>5, <1>6, <1>7, <1>8, UmountStep

(* umount of the device keeps it.                                          *)
LEMMA UmountDeviceStep ==
    ASSUME FilesInv, NEW t \in Tasks, umount_device(t)
    PROVE  FilesInv'
<1>0. pc[t] = User /\ ~halted
  BY DEF umount_device, Runs
<1>7. \A u \in Tasks : u # t => ~Mounting(u)
  BY DEF umount_device
<1>8. ~halted
  BY <1>0
<1>9. Calm(pc[t])
  BY <1>0, RunsPlace
<1>1. PICK refs, more : refs = << >> /\ more = <<super.iroot, super.imount>>
  OBVIOUS
<1>2. umount(t, DeviceNode, refs)
  BY <1>1 DEF umount_device
<1>3. more = refs \o <<super.iroot, super.imount>>
  <2>1. \A b, c : <<b, c>> = << >> \o <<b, c>>
    OBVIOUS
  <2> QED
    BY <1>1, <2>1
<1>4. NewOf(pc[t]) = None /\ NodeOf(pc[t]) = None /\ Calm(pc[t]) /\ pc[t].inode = None
  BY <1>0, RunsPlace
<1>5. \A j \in InodeSlots :
              /\ Uses(refs, j) = Same(pc[t].inode, j) + Same(NewOf(pc[t]), j) + Same(NodeOf(pc[t]), j)
              /\ Uses(more, j) = Uses(refs, j) + Same(super.iroot, j) + Same(super.imount, j)
  <2> TAKE j \in InodeSlots
  <2>1. Uses(refs, j) = 0 /\ Uses(more, j) = Same(super.iroot, j) + Same(super.imount, j)
    BY <1>1, TupleUses
  <2> QED
    BY <1>4, <2>1, SameFacts
<1>6. \/ MountReturns(t, super, mount, refs) \/ Panic
      \/ MountReturns(t, NoSuper, [mount EXCEPT ![super.imount] = FALSE], more)
  BY ONLY <1>2, <1>3, Zenon DEF umount, put_super
<1> QED
  BY ONLY FilesInv, <1>8, t \in Tasks, <1>9, <1>5, <1>6, <1>7, UmountStep

-----------------------------------------------------------------------------
\* Descriptors and the inodes a process holds.

\* The descriptors fs of a call of t that is about to end, what counts of them
\* for files, O, and the counts fc.
Before(t, fs, fc, O) ==
    /\ fs \in [Tasks -> [Fds -> FileSlots \cup {None}]] /\ fc \in [FileSlots -> Nat]
    /\ DOMAIN O = Tasks \X Fds /\ \A e \in Fds : O[<<t, e>>] = fs[t][e]
    /\ \A u \in Tasks, e \in Fds : u # t => O[<<u, e>>] = IF Leaving(u, e)' THEN None ELSE fs[u][e]
    /\ \A e \in Fds : ~Leaving(t, e)'
    /\ \A f \in FileSlots : fc[f] = Uses(O, f) + IdleRefs(f)
After(t, fs, fc) ==
    /\ files' \in [Tasks -> [Fds -> FileSlots \cup {None}]] /\ fcount' \in [FileSlots -> Nat]
    /\ \A u \in Tasks : u # t => files'[u] = fs[u]
    /\ FileCounts' /\ \A f \in FileSlots : fcount'[f] > 0 <=> fc[f] > 0

(* A call ends with the descriptors and the counts it has.                 *)
LEMMA SameCounts ==
    ASSUME NEW t \in Tasks, NEW fs, NEW fc, NEW O, Before(t, fs, fc, O), files' = fs, fcount' = fc
    PROVE  After(t, fs, fc)
<1>1. \A u \in Tasks, e \in Fds : Open'[<<u, e>>] = O[<<u, e>>]
  <2> TAKE u \in Tasks, e \in Fds
  <2>1. Open'[<<u, e>>] = IF Leaving(u, e)' THEN None ELSE fs[u][e]
    BY RefValues
  <2> QED
    BY <2>1 DEF Before
<1>2. \A x \in Tasks \X Fds : Open'[x] = O[x]
  BY <1>1
<1>3. ASSUME NEW f \in FileSlots PROVE fcount'[f] = Uses(Open, f)' + IdleRefs(f)
  <2>1. {x \in DOMAIN Open' : Open'[x] = f} = {x \in DOMAIN O : O[x] = f}
    BY <1>2, RefDomains DEF Before
  <2>2. Uses(Open, f)' = Uses(O, f)
    BY <2>1 DEF Uses
  <2> QED
    BY <2>2 DEF Before
<1> QED
  BY <1>3 DEF FileCounts, Before, After

(* dupfd: the new descriptor counts for a file that is open already.       *)
LEMMA DupCounts ==
    ASSUME NEW t \in Tasks, NEW fs, NEW fc, NEW src \in Fds, NEW dst \in Fds, dupfd(t, fs, fc, src, dst),
           NEW O, Before(t, fs, fc, O)
    PROVE  After(t, fs, fc)
<1> USE DEF Before
<1>0. IsFiniteSet(Tasks \X Fds) /\ DOMAIN Open' = Tasks \X Fds
  BY Consts, RefDomains
<1>1. CASE files' = fs /\ fcount' = fc
  BY <1>1, SameCounts
<1>2. ASSUME NEW d, NEW v, d \in Fds, fs[t][d] = None, v = fs[t][src], v # None,
             files' = [fs EXCEPT ![t][d] = v], fcount' = [fc EXCEPT ![v] = @ + 1]
      PROVE  After(t, fs, fc)
  <2>1. v \in FileSlots
    BY <1>2
  <2>2. v \in FileSlots \cup {None}
    BY <2>1
  <2>3. /\ files' \in [Tasks -> [Fds -> FileSlots \cup {None}]] /\ files'[t][d] = v
        /\ \A u \in Tasks, e \in Fds : ~(u = t /\ e = d) => files'[u][e] = fs[u][e]
        /\ \A u \in Tasks : u # t => files'[u] = fs[u]
    BY ONLY Before(t, fs, fc, O), t \in Tasks, <1>2, <2>2, RowPut
  <2>4. fcount' \in [FileSlots -> Nat] /\ \A f \in FileSlots : fcount'[f] = fc[f] + Same(v, f)
    BY <1>2, <2>1 DEF Same
  <2>5. /\ <<t, d>> \in Tasks \X Fds /\ O[<<t, d>>] = None /\ Open'[<<t, d>>] = v
        /\ \A x \in Tasks \X Fds : x # <<t, d>> => Open'[x] = O[x]
    <3>1. Open'[<<t, d>>] = v
      BY <1>2, <2>3, RefValues
    <3>2. \A u \in Tasks, e \in Fds : ~(u = t /\ e = d) => Open'[<<u, e>>] = O[<<u, e>>]
      <4> SUFFICES ASSUME NEW u \in Tasks, NEW e \in Fds, ~(u = t /\ e = d) PROVE Open'[<<u, e>>] = O[<<u, e>>]
        OBVIOUS
      <4>1. Open'[<<u, e>>] = IF Leaving(u, e)' THEN None ELSE fs[u][e]
        BY <2>3, RefValues
      <4> QED
        BY <4>1
    <3> QED
      BY <1>2, <3>1, <3>2
  <2>6. ASSUME NEW f \in FileSlots PROVE fcount'[f] = Uses(Open, f)' + IdleRefs(f)
    <3>1. Uses(Open', f) = Uses(O, f) - Same(None, f) + Same(v, f) /\ Uses(O, f) \in Nat
      BY <1>0, <2>5, UsesPut
    <3>2. Same(None, f) = 0 /\ Same(v, f) \in Nat /\ IdleRefs(f) \in Nat
      BY Consts, UsesNat DEF Same
    <3>3. Uses(Open, f)' = Uses(O, f) + Same(v, f)
      BY <3>1, <3>2 DEF Uses
    <3>4. fcount'[f] = fc[f] + Same(v, f) /\ fc[f] = Uses(O, f) + IdleRefs(f)
      BY <2>4
    <3> QED
      BY <3>1, <3>2, <3>3, <3>4
  <2>7. fc[v] > 0
    <3>1. <<t, src>> \in Tasks \X Fds /\ O[<<t, src>>] = v
      BY <1>2
    <3>2. Uses(O, v) > 0 /\ Uses(O, v) \in Nat
      BY <1>0, <3>1, UsesSome
    <3>3. fc[v] = Uses(O, v) + IdleRefs(v) /\ IdleRefs(v) \in Nat
      BY <2>1, UsesNat
    <3> QED
      BY <3>2, <3>3
  <2>8. \A f \in FileSlots : fcount'[f] > 0 <=> fc[f] > 0
    BY <2>4, <2>7 DEF Same
  <2>9. FileCounts'
    BY <2>6 DEF FileCounts
  <2> QED
    BY <2>3, <2>4, <2>8, <2>9 DEF After
<1> DEFINE free == {d \in dst .. NFds : fs[t][d] = None}
<1>3. CASE ~(fs[t][src] = None \/ free = {})
  <2>1. free \subseteq Fds /\ free \in SUBSET Nat
    <3>1. dst \in 1 .. NFds /\ NFds \in Nat /\ Fds = 1 .. NFds
      BY FilesAssumption DEF Fds
    <3> QED
      BY <3>1
  <2>2. Lowest(free) \in free
    BY <1>3, <2>1, LowestNat
  <2>3. Lowest(free) \in Fds /\ fs[t][Lowest(free)] = None
    BY <2>1, <2>2
  <2>4. files' = [fs EXCEPT ![t][Lowest(free)] = fs[t][src]] /\ fcount' = [fc EXCEPT ![fs[t][src]] = @ + 1]
    BY <1>3 DEF dupfd
  <2> QED
    BY <1>2, <1>3, <2>3, <2>4
<1>4. CASE fs[t][src] = None \/ free = {}
  BY <1>1, <1>4 DEF dupfd
<1> QED
  BY <1>3, <1>4

(* The slot s of t is empty; what takes its place.                         *)
LEMMA RefillFd ==
    ASSUME FilesTypeOK, NEW t \in Tasks, NEW s \in Fds, NEW new \in Fds \cup {None}, NEW fc \in [FileSlots -> Nat],
           Refill(t, s, new, fc), NEW q \in {User, Exiting}, pc' = [pc EXCEPT ![t] = q],
           \A e \in Fds : e # s => ~Leaving(t, e),
           \A f \in FileSlots : fc[f] = Uses(Open, f) - Same(Open[<<t, s>>], f) + IdleRefs(f)
    PROVE  After(t, files, fc) /\ held' = held
<1>1. PICK fs : fs = [files EXCEPT ![t][s] = None]
  OBVIOUS
<1>2. PICK O : O = [x \in Tasks \X Fds |-> IF x = <<t, s>> THEN None ELSE Open[x]]
  OBVIOUS
<1>3. /\ fs \in [Tasks -> [Fds -> FileSlots \cup {None}]] /\ fs[t][s] = None
      /\ \A u \in Tasks, e \in Fds : ~(u = t /\ e = s) => fs[u][e] = files[u][e]
      /\ \A u \in Tasks : u # t => fs[u] = files[u]
  <2>1. files \in [Tasks -> [Fds -> FileSlots \cup {None}]] /\ None \in FileSlots \cup {None}
    BY DEF FilesTypeOK
  <2> QED
    BY ONLY t \in Tasks, s \in Fds, <1>1, <2>1, RowPut
<1>4. DOMAIN O = Tasks \X Fds /\ \A u \in Tasks, e \in Fds : O[<<u, e>>] = IF u = t /\ e = s THEN None ELSE Open[<<u, e>>]
  BY <1>2
<1>5. \A e \in Fds : O[<<t, e>>] = fs[t][e]
  BY <1>3, <1>4, RefValues
<1>6. q.at \notin {"iput", "xput"}
  BY RunsPlace
<1>7. \A e \in Fds : ~Leaving(t, e)'
  BY <1>6, LeaveLemma
<1>8. \A u \in Tasks, e \in Fds : u # t => O[<<u, e>>] = IF Leaving(u, e)' THEN None ELSE fs[u][e]
  <2> SUFFICES ASSUME NEW u \in Tasks, NEW e \in Fds, u # t PROVE O[<<u, e>>] = IF Leaving(u, e)' THEN None ELSE fs[u][e]
    OBVIOUS
  <2>1. Leaving(u, e)' <=> Leaving(u, e)
    BY LeaveLemma
  <2>2. O[<<u, e>>] = Open[<<u, e>>] /\ fs[u][e] = files[u][e]
    BY <1>3, <1>4
  <2> QED
    BY <2>1, <2>2, RefValues
<1>9. ASSUME NEW f \in FileSlots PROVE fc[f] = Uses(O, f) + IdleRefs(f)
  <2>1. IsFiniteSet(Tasks \X Fds) /\ DOMAIN Open = Tasks \X Fds /\ <<t, s>> \in Tasks \X Fds
    BY Consts, RefDomains
  <2>2. O[<<t, s>>] = None /\ \A x \in Tasks \X Fds : x # <<t, s>> => O[x] = Open[x]
    BY <1>2
  <2>3. Uses(O, f) = Uses(Open, f) - Same(Open[<<t, s>>], f) + Same(None, f) /\ Uses(Open, f) \in Nat
    <3>1. PICK P : P = Open
      OBVIOUS
    <3>2. DOMAIN P = Tasks \X Fds /\ DOMAIN O = Tasks \X Fds /\ \A x \in Tasks \X Fds : x # <<t, s>> => O[x] = P[x]
      BY <1>4, <2>1, <2>2, <3>1
    <3>3. Uses(O, f) = Uses(P, f) - Same(P[<<t, s>>], f) + Same(None, f) /\ Uses(P, f) \in Nat
      BY ONLY <2>1, <2>2, <3>2, UsesPut
    <3> QED
      BY <3>1, <3>3
  <2>4. Same(None, f) = 0 /\ Same(Open[<<t, s>>], f) \in Nat /\ IdleRefs(f) \in Nat
    BY Consts, UsesNat DEF Same
  <2> QED
    BY <2>3, <2>4
<1>10. /\ held' = held
       /\ IF new = None THEN files' = fs /\ fcount' = fc ELSE dupfd(t, fs, fc, new, s)
  BY <1>1, Consts DEF Refill
<1>11. Before(t, fs, fc, O)
  BY <1>3, <1>4, <1>5, <1>7, <1>8, <1>9 DEF Before
<1>12. After(t, fs, fc)
  <2>1. CASE new # None
    <3>1. dupfd(t, fs, fc, new, s) /\ new \in Fds
      BY <1>10, <2>1
    <3> QED
      BY <1>11, <3>1, DupCounts
  <2>2. CASE new = None
    <3>1. files' = fs /\ fcount' = fc
      BY <1>10, <2>2
    <3> QED
      BY <1>11, <3>1, SameCounts
  <2> QED
    BY <2>1, <2>2
<1> QED
  BY <1>3, <1>10, <1>12 DEF After

\* What a step of t that goes to q does to the counts, beside what the files
\* refer to (from a to b) and the processes (from c to d).
CountsTo(t, q, a, b, c, d) ==
    \A i \in InodeSlots :
        icount'[i] = icount[i] - Same(a, i) + Same(b, i) - Same(c, i) + Same(d, i)
                     - Same(pc[t].inode, i) + Same(q.inode, i) - Same(NewOf(pc[t]), i) + Same(NewOf(q), i)
                     - Same(NodeOf(pc[t]), i) + Same(NodeOf(q), i)

\* At p a process leaves only references of the set S.
LeavesOnly(p, S) == p.at \in {"iput", "xput"} => p.slot \in S \cup {None}

\* A step of t that goes to q and neither mounts nor unmounts.
Goes(t, q) == /\ q \in Places /\ q # Gone /\ ~MountPlace(q) /\ pc' = [pc EXCEPT ![t] = q]
              /\ mount' = mount /\ super' = super /\ workload' = workload /\ halted' = halted

(* The inode that t holds as r changes.                                    *)
LEMMA TaskStep ==
    ASSUME FilesInv, ~halted, NEW t \in Tasks, NEW q, Goes(t, q), NEW r \in Held,
           LeavesOnly(pc[t], {r}), LeavesOnly(q, {r}),
           files' = files, fcount' = fcount, finode' = finode,
           held' \in [Tasks -> [Held -> OptInode]],
           \A u \in Tasks, e \in Held : ~(u = t /\ e = r) => held'[u][e] = held[u][e],
           \A u \in Tasks : u # t => held'[u] = held[u],
           TableOK, CountsTo(t, q, None, None, TaskRef[<<t, r>>], TaskRef'[<<t, r>>])
    PROVE  FilesInv'
<1>0. FilesTypeOK /\ FileCounts /\ InodeCounts /\ GoneEmpty /\ OpenFiles /\ Mounts
  BY DEF FilesInv, RunInv
<1>1. /\ q \in Places /\ q # Gone /\ ~MountPlace(q) /\ pc' = [pc EXCEPT ![t] = q]
      /\ mount' = mount /\ super' = super /\ workload' = workload /\ halted' = halted
  BY DEF Goes
<1>2. FilesTypeOK'
  BY <1>0, <1>1 DEF FilesTypeOK, TableOK
<1>3. \A s \in Fds \cup Held : s # r => ~Leaving(t, s) /\ ~Leaving(t, s)'
  <2> SUFFICES ASSUME NEW s \in Fds \cup Held, s # r PROVE ~Leaving(t, s) /\ ~Leaving(t, s)'
    OBVIOUS
  <2>1. s # None
    BY Consts
  <2>2. ~Leaving(t, s)
    BY <2>1 DEF LeavesOnly, Leaving
  <2>3. ~Leaving(t, s)'
    <3>1. Leaving(t, s)' <=> q.at \in {"iput", "xput"} /\ q.slot = s
      BY <1>0, <1>1, LeaveLemma
    <3> QED
      BY <2>1, <3>1 DEF LeavesOnly
  <2> QED
    BY <2>2, <2>3
<1>4. \A u \in Tasks, e \in Fds : Open'[<<u, e>>] = Open[<<u, e>>]
  <2> TAKE u \in Tasks, e \in Fds
  <2>1. u # t => (Leaving(u, e)' <=> Leaving(u, e))
    BY <1>0, <1>1, LeaveLemma
  <2>2. u = t => ~Leaving(u, e) /\ ~Leaving(u, e)'
    BY <1>3, Consts
  <2> QED
    BY <2>1, <2>2, RefValues
<1>5. \A u \in Tasks, e \in Held : ~(u = t /\ e = r) => TaskRef'[<<u, e>>] = TaskRef[<<u, e>>]
  <2> SUFFICES ASSUME NEW u \in Tasks, NEW e \in Held, ~(u = t /\ e = r) PROVE TaskRef'[<<u, e>>] = TaskRef[<<u, e>>]
    OBVIOUS
  <2>1. u # t => (Leaving(u, e)' <=> Leaving(u, e))
    BY <1>0, <1>1, LeaveLemma
  <2>2. u = t => ~Leaving(u, e) /\ ~Leaving(u, e)'
    BY <1>3
  <2>3. held'[u][e] = held[u][e]
    OBVIOUS
  <2> QED
    BY <2>1, <2>2, <2>3, RefValues
<1>6. FileCounts'
  <2> SUFFICES ASSUME NEW f \in FileSlots PROVE fcount'[f] = Uses(Open, f)' + IdleRefs(f)
    BY DEF FileCounts
  <2> QED
    BY <1>0, <1>4, OpenSame DEF FileCounts
<1>7. OpenFiles'
  BY <1>0 DEF OpenFiles
<1>8. Mounts'
  <2>1. q.at # "super" /\ q.at # "mroot"
    BY <1>1 DEF MountPlace
  <2> QED
    BY <1>0, <1>1, <2>1, KeepMounts
<1>9. GoneEmpty'
  BY <1>0, <1>1, KeepGone
<1>10. ASSUME NEW i \in InodeSlots PROVE icount'[i] = Total(i)'
  <2>1. Uses(TaskRef, i)' = Uses(TaskRef, i) - Same(TaskRef[<<t, r>>], i) + Same(TaskRef'[<<t, r>>], i)
    BY <1>5, TaskPut
  <2>2. \A f \in FileSlots : FileRef'[f] = FileRef[f]
    BY RefValues
  <2>3. Uses(FileRef, i)' = Uses(FileRef, i)
    BY <2>2, FileSame
  <2>4. Total(i)' = icount[i] + (Uses(FileRef, i)' - Uses(FileRef, i)) + (Uses(TaskRef, i)' - Uses(TaskRef, i))
                       - Same(pc[t].inode, i) + Same(q.inode, i) - Same(NewOf(pc[t]), i) + Same(NewOf(q), i)
                       - Same(NodeOf(pc[t]), i) + Same(NodeOf(q), i)
    BY <1>0, <1>1, StepCounts
  <2>5. icount[i] \in Nat /\ Same(None, i) = 0 /\ \A x : Same(x, i) \in Nat
    BY <1>0, SameFacts DEF FilesTypeOK, Same
  <2>6. Uses(FileRef, i) \in Nat /\ Uses(TaskRef, i) \in Nat
    BY UsesNat
  <2>7. icount'[i] = icount[i] - Same(None, i) + Same(None, i) - Same(TaskRef[<<t, r>>], i) + Same(TaskRef'[<<t, r>>], i)
                     - Same(pc[t].inode, i) + Same(q.inode, i) - Same(NewOf(pc[t]), i) + Same(NewOf(q), i)
                     - Same(NodeOf(pc[t]), i) + Same(NodeOf(q), i)
    BY DEF CountsTo
  <2> QED
    BY ONLY <2>1, <2>3, <2>4, <2>5, <2>6, <2>7
<1> QED
  BY <1>2, <1>6, <1>7, <1>8, <1>9, <1>10, Assemble

(* Descriptors of t change, and what the file f refers to.                 *)
LEMMA FdStep ==
    ASSUME FilesInv, ~halted, NEW t \in Tasks, NEW q, Goes(t, q),
           LeavesOnly(pc[t], Fds), LeavesOnly(q, Fds), held' = held,
           files' \in [Tasks -> [Fds -> FileSlots \cup {None}]], fcount' \in [FileSlots -> Nat],
           finode' \in [FileSlots -> OptInode],
           \A u \in Tasks : u # t => files'[u] = files[u],
           FileCounts', OpenFiles',
           NEW f \in FileSlots, \A g \in FileSlots : g # f => FileRef'[g] = FileRef[g],
           TableOK, CountsTo(t, q, FileRef[f], FileRef'[f], None, None)
    PROVE  FilesInv'
<1>0. FilesTypeOK /\ FileCounts /\ InodeCounts /\ GoneEmpty /\ OpenFiles /\ Mounts
  BY DEF FilesInv, RunInv
<1>1. /\ q \in Places /\ q # Gone /\ ~MountPlace(q) /\ pc' = [pc EXCEPT ![t] = q]
      /\ mount' = mount /\ super' = super /\ workload' = workload /\ halted' = halted
  BY DEF Goes
<1>2. FilesTypeOK'
  BY <1>0, <1>1 DEF FilesTypeOK, TableOK
<1>3. \A s \in Held : ~Leaving(t, s) /\ ~Leaving(t, s)'
  <2> TAKE s \in Held
  <2>1. s # None /\ s \notin Fds
    BY Consts
  <2>2. ~Leaving(t, s)
    BY <2>1 DEF LeavesOnly, Leaving
  <2>3. ~Leaving(t, s)'
    <3>1. Leaving(t, s)' <=> q.at \in {"iput", "xput"} /\ q.slot = s
      BY <1>0, <1>1, LeaveLemma
    <3> QED
      BY <2>1, <3>1 DEF LeavesOnly
  <2> QED
    BY <2>2, <2>3
<1>4. \A u \in Tasks, e \in Held : TaskRef'[<<u, e>>] = TaskRef[<<u, e>>]
  <2> TAKE u \in Tasks, e \in Held
  <2>1. u # t => (Leaving(u, e)' <=> Leaving(u, e))
    BY <1>0, <1>1, LeaveLemma
  <2>2. u = t => ~Leaving(u, e) /\ ~Leaving(u, e)'
    BY <1>3
  <2> QED
    BY <2>1, <2>2, RefValues
<1>5. Mounts'
  <2>1. q.at # "super" /\ q.at # "mroot"
    BY <1>1 DEF MountPlace
  <2> QED
    BY <1>0, <1>1, <2>1, KeepMounts
<1>6. GoneEmpty'
  BY <1>0, <1>1, KeepGone
<1>7. ASSUME NEW i \in InodeSlots PROVE icount'[i] = Total(i)'
  <2>1. Uses(TaskRef, i)' = Uses(TaskRef, i)
    BY <1>4, TaskSame
  <2>2. Uses(FileRef, i)' = Uses(FileRef, i) - Same(FileRef[f], i) + Same(FileRef'[f], i)
    BY FilePut
  <2>3. Total(i)' = icount[i] + (Uses(FileRef, i)' - Uses(FileRef, i)) + (Uses(TaskRef, i)' - Uses(TaskRef, i))
                       - Same(pc[t].inode, i) + Same(q.inode, i) - Same(NewOf(pc[t]), i) + Same(NewOf(q), i)
                       - Same(NodeOf(pc[t]), i) + Same(NodeOf(q), i)
    BY <1>0, <1>1, StepCounts
  <2>4. icount[i] \in Nat /\ Same(None, i) = 0 /\ \A x : Same(x, i) \in Nat
    BY <1>0, SameFacts DEF FilesTypeOK, Same
  <2>5. Uses(FileRef, i) \in Nat /\ Uses(TaskRef, i) \in Nat
    BY UsesNat
  <2>6. icount'[i] = icount[i] - Same(FileRef[f], i) + Same(FileRef'[f], i) - Same(None, i) + Same(None, i)
                     - Same(pc[t].inode, i) + Same(q.inode, i) - Same(NewOf(pc[t]), i) + Same(NewOf(q), i)
                     - Same(NodeOf(pc[t]), i) + Same(NodeOf(q), i)
    BY DEF CountsTo
  <2> QED
    BY ONLY <2>1, <2>2, <2>3, <2>4, <2>5, <2>6
<1> QED
  BY <1>2, <1>5, <1>6, <1>7, Assemble

(* The place that Release leads to when it need not wait.                  *)
LEMMA GoesDone ==
    ASSUME FilesTypeOK, NEW t \in Tasks, NEW q \in {User, Exiting}, pc' = [pc EXCEPT ![t] = q],
           mount' = mount, super' = super, workload' = workload, halted' = halted
    PROVE  /\ Goes(t, q) /\ q.inode = None /\ NewOf(q) = None /\ NodeOf(q) = None /\ \A S : LeavesOnly(q, S)
           /\ \A s : ~Leaving(t, s)'
<1>1. q.at \notin {"iput", "xput"} /\ q.inode = None /\ NewOf(q) = None /\ NodeOf(q) = None
  BY RunsPlace
<1>2. \A s : ~Leaving(t, s)'
  BY <1>1, LeaveLemma
<1> QED
  BY <1>1, <1>2, RunsPlace DEF Goes, LeavesOnly

(* A call gives up the inode it has got.                                   *)
LEMMA RollbackStep ==
    ASSUME FilesInv, ~halted, NEW t \in Tasks, NEW i, i = pc[t].inode, pc[t].at = "iget", pc[t].slot \in Held,
           Release(t, None, i, None, "iput", User)
    PROVE  FilesInv'
<1>0. FilesTypeOK /\ pc[t] \in Places
  BY DEF FilesInv, FilesTypeOK
<1>1. i \in InodeSlots /\ i \in OptInode
  BY <1>0, PlaceFacts DEF Busy, OptInode
<1>2. NewOf(pc[t]) = None /\ NodeOf(pc[t]) = None /\ Calm(pc[t])
  BY Consts DEF NewOf, NodeOf, Calm
<1>3. mount' = mount /\ super' = super /\ workload' = workload /\ halted' = halted /\ finode' = finode
  BY Consts DEF Release, mountVars
<1>4. icount[i] > 0
  BY <1>1, Referred
<1>5. CASE iput(i) /\ Refill(t, None, None, fcount) /\ pc' = [pc EXCEPT ![t] = User]
  <2>1. TableOK /\ \A j \in InodeSlots : icount'[j] = icount[j] - Same(i, j)
    BY <1>1, <1>4, <1>5, IputLemma
  <2>2. files' = files /\ held' = held /\ fcount' = fcount
    BY <1>5 DEF Refill
  <2>3. PICK q : q = User
    OBVIOUS
  <2>4. q \in Places /\ Calm(q) /\ q # Gone /\ q.inode = None /\ NewOf(q) = None /\ NodeOf(q) = None
        /\ ~MountPlace(q) /\ q.at # "super" /\ q.at # "mroot"
    BY <2>3, RunsPlace
  <2>5. pc' = [pc EXCEPT ![t] = q]
    BY <1>5, <2>3
  <2>6. \A j \in InodeSlots :
              icount'[j] = icount[j] - Same(pc[t].inode, j) + Same(q.inode, j) - Same(NewOf(pc[t]), j) + Same(NewOf(q), j)
                           - Same(NodeOf(pc[t]), j) + Same(NodeOf(q), j)
    <3> TAKE j \in InodeSlots
    <3>1. icount[j] \in Nat
      BY <1>0 DEF FilesTypeOK
    <3> QED
      BY <1>2, <2>1, <2>4, <3>1, SameFacts
  <2> QED
    BY ONLY FilesInv, ~halted, t \in Tasks, <1>2, <1>3, <2>1, <2>2, <2>4, <2>5, <2>6, QuietStep
<1>6. CASE pc' = [pc EXCEPT ![t] = At("iput", i, None, None)] /\ fcount' = fcount /\ UNCHANGED <<files, held, inodeVars>>
  <2>1. files' = files /\ held' = held /\ kind' = kind /\ nr' = nr /\ icount' = icount /\ loaded' = loaded
        /\ fcount' = fcount
    BY <1>6 DEF inodeVars
  <2>2. TableOK
    BY <1>0, <2>1, TableSame DEF FilesTypeOK
  <2>3. PICK q : q = At("iput", i, None, None)
    OBVIOUS
  <2>4. q.at = "iput" /\ q.inode = i /\ q.slot = None /\ q.new = None /\ q \in Places
    BY <1>1, <2>3, AtFields, PlaceMembers
  <2>5. Calm(q) /\ q # Gone /\ NewOf(q) = None /\ NodeOf(q) = None /\ ~MountPlace(q) /\ q.at # "super" /\ q.at # "mroot"
    BY <2>4, UserFields, Consts DEF Calm, NewOf, NodeOf, MountPlace
  <2>6. pc' = [pc EXCEPT ![t] = q]
    BY <1>6, <2>3
  <2>7. \A j \in InodeSlots :
              icount'[j] = icount[j] - Same(pc[t].inode, j) + Same(q.inode, j) - Same(NewOf(pc[t]), j) + Same(NewOf(q), j)
                           - Same(NodeOf(pc[t]), j) + Same(NodeOf(q), j)
    <3> TAKE j \in InodeSlots
    <3>1. icount[j] \in Nat
      BY <1>0 DEF FilesTypeOK
    <3> QED
      BY <1>2, <2>1, <2>4, <2>5, <3>1, SameFacts
  <2> QED
    BY ONLY FilesInv, ~halted, t \in Tasks, <1>2, <1>3, <2>1, <2>2, <2>4, <2>5, <2>6, <2>7, QuietStep
<1> QED
  BY <1>5, <1>6, Consts DEF Release

\* Which waits and continuations belong together.
Pair(p, new, wait, done) ==
    \/ p.at \in {"user", "iget"} /\ wait = "iput" /\ done = User
    \/ p.at = "exit" /\ new = None /\ wait = "xput" /\ done = Exiting

(* A process gives up the inode it holds as r for the new one it has got,  *)
(* or for none.                                                            *)
LEMMA ReleaseHeld ==
    ASSUME FilesInv, ~halted, NEW t \in Tasks, NEW r \in Held, NEW old, old = held[t][r], NEW new, new = pc[t].inode,
           pc[t].at \in {"iget", "exit"}, pc[t].at = "iget" => pc[t].slot = r, NEW wait, NEW done, Pair(pc[t], new, wait, done),
           Release(t, r, old, new, wait, done)
    PROVE  FilesInv'
<1>0. FilesTypeOK /\ pc[t] \in Places
  BY DEF FilesInv, FilesTypeOK
<1>1. old \in OptInode /\ new \in OptInode
  BY <1>0, PlaceFacts DEF FilesTypeOK
<1>2. pc[t].at = "iget" => new \in InodeSlots
  BY <1>0, PlaceFacts DEF Busy
<1>3. pc[t].slot \in {None, r}
  BY <1>0, PlaceFacts DEF Busy
<1>4. NewOf(pc[t]) = None /\ NodeOf(pc[t]) = None /\ LeavesOnly(pc[t], {r}) /\ ~Leaving(t, r)
  BY <1>3, Consts DEF NewOf, NodeOf, LeavesOnly, Leaving
<1>5. TaskRef[<<t, r>>] = old
  BY <1>4, RefValues
<1>6. r \notin Fds /\ r # None
  BY Consts
<1>7. mount' = mount /\ super' = super /\ workload' = workload /\ halted' = halted /\ finode' = finode
  BY <1>6 DEF Release, mountVars
<1>8. old # None => icount[old] > 0
  BY <1>1, <1>5, Referred DEF OptInode
<1>9. \A j \in InodeSlots : icount[j] \in Nat
  BY <1>0 DEF FilesTypeOK
<1>10. CASE iput(old) /\ Refill(t, r, new, fcount) /\ pc' = [pc EXCEPT ![t] = done]
  <2>1. TableOK /\ \A j \in InodeSlots : icount'[j] = icount[j] - Same(old, j)
    BY <1>1, <1>8, <1>10, IputLemma
  <2>2. files' = files /\ held' = [held EXCEPT ![t][r] = new] /\ fcount' = fcount
    BY <1>6, <1>10 DEF Refill
  <2>3. /\ held' \in [Tasks -> [Held -> OptInode]] /\ held'[t][r] = new
        /\ \A u \in Tasks, e \in Held : ~(u = t /\ e = r) => held'[u][e] = held[u][e]
        /\ \A u \in Tasks : u # t => held'[u] = held[u]
    <3>1. held \in [Tasks -> [Held -> OptInode]]
      BY <1>0 DEF FilesTypeOK
    <3> QED
      BY ONLY t \in Tasks, r \in Held, <1>1, <2>2, <3>1, RowPut
  <2>4. done \in {User, Exiting}
    BY DEF Pair
  <2>5. /\ Goes(t, done) /\ done.inode = None /\ NewOf(done) = None /\ NodeOf(done) = None /\ LeavesOnly(done, {r})
        /\ ~Leaving(t, r)'
    BY <1>0, <1>7, <1>10, <2>4, GoesDone
  <2>6. TaskRef'[<<t, r>>] = new
    BY <2>3, <2>5, RefValues
  <2>7. CountsTo(t, done, None, None, TaskRef[<<t, r>>], TaskRef'[<<t, r>>])
    <3> SUFFICES ASSUME NEW i \in InodeSlots
                 PROVE  icount'[i] = icount[i] - Same(None, i) + Same(None, i) - Same(old, i) + Same(new, i)
                     - Same(new, i) + Same(None, i) - Same(None, i) + Same(None, i) - Same(None, i) + Same(None, i)
      BY <1>4, <1>5, <2>5, <2>6 DEF CountsTo
    <3> QED
      BY <1>9, <2>1, SameFacts
  <2> QED
    BY ONLY FilesInv, ~halted, t \in Tasks, r \in Held, <1>4, <1>7, <2>1, <2>2, <2>3, <2>5, <2>7, TaskStep
<1>11. CASE old # None /\ pc' = [pc EXCEPT ![t] = At(wait, old, r, new)] /\ fcount' = fcount /\ UNCHANGED <<files, held, inodeVars>>
  <2>1. files' = files /\ held' = held /\ kind' = kind /\ nr' = nr /\ icount' = icount /\ loaded' = loaded
        /\ fcount' = fcount
    BY <1>11 DEF inodeVars
  <2>2. TableOK
    BY <1>0, <2>1, TableSame DEF FilesTypeOK
  <2>3. PICK q : q = At(wait, old, r, new)
    OBVIOUS
  <2>4. q.at = wait /\ q.inode = old /\ q.slot = r /\ q.new = new /\ wait \in {"iput", "xput"}
    BY <2>3, AtFields DEF Pair
  <2>5. q \in Places
    <3>1. old \in InodeSlots
      BY <1>1, <1>11 DEF OptInode
    <3>2. \/ pc[t].at = "iget" /\ wait = "iput" /\ new \in InodeSlots
          \/ new = None /\ wait = "xput"
      BY <1>2 DEF Pair
    <3> QED
      BY <2>3, <3>1, <3>2, PlaceMembers
  <2>6. q # Gone /\ NewOf(q) = new /\ NodeOf(q) = None /\ ~MountPlace(q) /\ LeavesOnly(q, {r})
    <3>1. wait = "xput" => new = None
      BY DEF Pair
    <3> QED
      BY <2>4, <3>1, UserFields, Consts DEF NewOf, NodeOf, MountPlace, LeavesOnly
  <2>7. Goes(t, q)
    BY <1>7, <1>11, <2>3, <2>5, <2>6 DEF Goes
  <2>8. TaskRef'[<<t, r>>] = None
    <3>1. Leaving(t, r)'
      BY <1>0, <2>4, <2>7, LeaveLemma DEF Goes
    <3> QED
      BY <3>1, RefValues
  <2>9. CountsTo(t, q, None, None, TaskRef[<<t, r>>], TaskRef'[<<t, r>>])
    <3> SUFFICES ASSUME NEW i \in InodeSlots
                 PROVE  icount'[i] = icount[i] - Same(None, i) + Same(None, i) - Same(old, i) + Same(None, i)
                     - Same(new, i) + Same(old, i) - Same(None, i) + Same(new, i) - Same(None, i) + Same(None, i)
      BY <1>4, <1>5, <2>4, <2>6, <2>8 DEF CountsTo
    <3> QED
      BY <1>9, <2>1, SameFacts
  <2>10. /\ held' \in [Tasks -> [Held -> OptInode]]
         /\ \A u \in Tasks, e \in Held : ~(u = t /\ e = r) => held'[u][e] = held[u][e]
         /\ \A u \in Tasks : u # t => held'[u] = held[u]
    BY <1>0, <2>1 DEF FilesTypeOK
  <2> QED
    BY ONLY FilesInv, ~halted, t \in Tasks, r \in Held, <1>4, <1>7, <2>1, <2>2, <2>6, <2>7, <2>9, <2>10, TaskStep
<1> QED
  BY <1>6, <1>10, <1>11 DEF Release

(* A process gives up the descriptor d, and new is dupped to it.           *)
LEMMA ReleaseFd ==
    ASSUME FilesInv, ~halted, NEW t \in Tasks, NEW d \in Fds, files[t][d] # None, NEW new \in Fds \cup {None},
           pc[t] \in {User, Exiting}, NEW wait, NEW done, Pair(pc[t], new, wait, done),
           Release(t, d, InodeOf(t, d), new, wait, done)
    PROVE  FilesInv'
<1>0. FilesTypeOK /\ FileCounts /\ OpenFiles
  BY DEF FilesInv, RunInv
<1>1. /\ NewOf(pc[t]) = None /\ NodeOf(pc[t]) = None /\ pc[t].inode = None
      /\ LeavesOnly(pc[t], Fds) /\ \A e : ~Leaving(t, e)
  BY RunsPlace DEF LeavesOnly, Leaving
<1>2. PICK f : f = files[t][d]
  OBVIOUS
<1>3. f \in FileSlots /\ f # None /\ Open[<<t, d>>] = f /\ fcount[f] \in Nat /\ fcount[f] >= 1 + IdleRefs(f) /\ IdleRefs(f) \in Nat
  BY <1>0, <1>1, <1>2, OpenCounted, UsesNat
<1>4. PICK i : i = finode[f]
  OBVIOUS
<1>5. i \in InodeSlots /\ i # None /\ InodeOf(t, d) = i /\ FileRef[f] = i
  <2>1. i \in OptInode /\ i # None
    BY <1>0, <1>3, <1>4 DEF FilesTypeOK, OpenFiles
  <2>2. d \notin Held
    BY Consts
  <2> QED
    BY <1>2, <1>3, <1>4, <2>1, <2>2, RefValues DEF OptInode, InodeOf
<1>6. PICK fc : fc = [fcount EXCEPT ![f] = @ - 1]
  OBVIOUS
<1>7. fc \in [FileSlots -> Nat] /\ \A g \in FileSlots : fc[g] = fcount[g] - Same(f, g)
  BY <1>0, <1>3, <1>6 DEF FilesTypeOK, Same
<1>8. \A g \in FileSlots : fc[g] = Uses(Open, g) - Same(Open[<<t, d>>], g) + IdleRefs(g)
  <2> TAKE g \in FileSlots
  <2>1. fcount[g] = Uses(Open, g) + IdleRefs(g) /\ Uses(Open, g) \in Nat /\ IdleRefs(g) \in Nat /\ Same(f, g) \in Nat
    BY <1>0, UsesNat DEF FileCounts, Same
  <2>2. fc[g] = fcount[g] - Same(f, g)
    BY <1>7
  <2> QED
    BY <1>3, <2>1, <2>2
<1>9. /\ mount' = mount /\ super' = super /\ workload' = workload /\ halted' = halted
      /\ \/ fcount[f] > 1 /\ UNCHANGED inodeVars /\ Refill(t, d, new, fc) /\ pc' = [pc EXCEPT ![t] = done] /\ finode' = finode
         \/ ~(fcount[f] > 1) /\ iput(i) /\ Refill(t, d, new, fc) /\ pc' = [pc EXCEPT ![t] = done]
            /\ finode' = [finode EXCEPT ![f] = None]
         \/ ~(fcount[f] > 1) /\ pc' = [pc EXCEPT ![t] = At(wait, i, d, new)] /\ fcount' = fc
            /\ UNCHANGED <<files, held, inodeVars>> /\ finode' = [finode EXCEPT ![f] = None]
  BY <1>2, <1>3, <1>5, <1>6 DEF Release, put_file, mountVars
<1>10. \A j \in InodeSlots : icount[j] \in Nat
  BY <1>0 DEF FilesTypeOK
<1>11. done \in {User, Exiting}
  BY DEF Pair
\* The last descriptor of the file.
<1>12. ASSUME ~(fcount[f] > 1), finode' = [finode EXCEPT ![f] = None], \A g \in FileSlots : fcount'[g] > 0 <=> fc[g] > 0
       PROVE  /\ finode' \in [FileSlots -> OptInode] /\ OpenFiles' /\ FileRef'[f] = None
              /\ \A g \in FileSlots : g # f => FileRef'[g] = FileRef[g]
  <2>1. fcount[f] = 1 /\ f # Std
    BY <1>3, <1>12 DEF IdleRefs
  <2>2. fc[f] = 0 /\ \A g \in FileSlots : g # f => fc[g] = fcount[g]
    BY <1>0, <1>3, <1>7, <2>1 DEF Same, FilesTypeOK
  <2>3. /\ finode' \in [FileSlots -> OptInode] /\ finode'[f] = None
        /\ \A g \in FileSlots : g # f => finode'[g] = finode[g]
    BY <1>0, <1>3, <1>12 DEF FilesTypeOK, OptInode
  <2>4. FileRef'[f] = None
    BY <1>3, <2>3, RefValues
  <2>5. \A g \in FileSlots : g # f => FileRef'[g] = FileRef[g]
    BY <1>12, <2>2, <2>3, RefValues
  <2>6. OpenFiles'
    BY <1>0, <1>3, <1>12, <2>1, <2>2, <2>3, Consts DEF OpenFiles
  <2> QED
    BY <2>3, <2>4, <2>5, <2>6
<1>13. icount[i] > 0
  BY <1>3, <1>5, Referred
<1>14. CASE fcount[f] > 1 /\ UNCHANGED inodeVars /\ Refill(t, d, new, fc) /\ pc' = [pc EXCEPT ![t] = done] /\ finode' = finode
  <2>1. After(t, files, fc) /\ held' = held
    BY <1>0, <1>1, <1>7, <1>8, <1>11, <1>14, RefillFd
  <2>2. /\ Goes(t, done) /\ done.inode = None /\ NewOf(done) = None /\ NodeOf(done) = None /\ LeavesOnly(done, Fds)
    BY <1>0, <1>9, <1>11, <1>14, GoesDone
  <2>3. kind' = kind /\ nr' = nr /\ icount' = icount /\ loaded' = loaded
    BY <1>14 DEF inodeVars
  <2>4. TableOK
    BY <1>0, <2>3, TableSame DEF FilesTypeOK
  <2>5. \A g \in FileSlots : fcount'[g] > 0 <=> fcount[g] > 0
    <3> TAKE g \in FileSlots
    <3>1. fcount'[g] > 0 <=> fc[g] > 0
      BY <2>1 DEF After
    <3>2. fc[g] = fcount[g] - Same(f, g) /\ fcount[g] \in Nat
      BY <1>0, <1>7 DEF FilesTypeOK
    <3> QED
      BY <1>14, <3>1, <3>2 DEF Same
  <2>6. \A g \in FileSlots : FileRef'[g] = FileRef[g]
    BY <1>14, <2>5, RefValues
  <2>7. OpenFiles' /\ finode' \in [FileSlots -> OptInode]
    BY <1>0, <1>14, <2>5 DEF OpenFiles, FilesTypeOK
  <2>8. CountsTo(t, done, FileRef[f], FileRef'[f], None, None)
    <3> SUFFICES ASSUME NEW j \in InodeSlots
                 PROVE  icount'[j] = icount[j] - Same(i, j) + Same(i, j) - Same(None, j) + Same(None, j)
                     - Same(None, j) + Same(None, j) - Same(None, j) + Same(None, j) - Same(None, j) + Same(None, j)
      BY <1>1, <1>3, <1>5, <2>2, <2>6 DEF CountsTo
    <3> QED
      BY <1>10, <2>3, SameFacts
  <2>9. /\ files' \in [Tasks -> [Fds -> FileSlots \cup {None}]] /\ fcount' \in [FileSlots -> Nat]
        /\ (\A u \in Tasks : u # t => files'[u] = files[u]) /\ FileCounts'
    BY <2>1 DEF After
  <2>10. \A g \in FileSlots : g # f => FileRef'[g] = FileRef[g]
    BY <2>6
  <2> QED
    BY ONLY FilesInv, ~halted, t \in Tasks, <1>1, <1>3, <2>1, <2>2, <2>4, <2>7, <2>8, <2>9, <2>10, FdStep
<1>15. CASE ~(fcount[f] > 1) /\ iput(i) /\ Refill(t, d, new, fc) /\ pc' = [pc EXCEPT ![t] = done]
            /\ finode' = [finode EXCEPT ![f] = None]
  <2>1. After(t, files, fc) /\ held' = held
    BY <1>0, <1>1, <1>7, <1>8, <1>11, <1>15, RefillFd
  <2>2. /\ Goes(t, done) /\ done.inode = None /\ NewOf(done) = None /\ NodeOf(done) = None /\ LeavesOnly(done, Fds)
    BY <1>0, <1>9, <1>11, <1>15, GoesDone
  <2>3. TableOK /\ \A j \in InodeSlots : icount'[j] = icount[j] - Same(i, j)
    BY <1>5, <1>13, <1>15, IputLemma DEF OptInode
  <2>4. /\ files' \in [Tasks -> [Fds -> FileSlots \cup {None}]] /\ fcount' \in [FileSlots -> Nat]
        /\ (\A u \in Tasks : u # t => files'[u] = files[u]) /\ FileCounts'
        /\ \A g \in FileSlots : fcount'[g] > 0 <=> fc[g] > 0
    BY <2>1 DEF After
  <2>5. /\ finode' \in [FileSlots -> OptInode] /\ OpenFiles' /\ FileRef'[f] = None
        /\ \A g \in FileSlots : g # f => FileRef'[g] = FileRef[g]
    BY <1>12, <1>15, <2>4
  <2>6. CountsTo(t, done, FileRef[f], FileRef'[f], None, None)
    <3> SUFFICES ASSUME NEW j \in InodeSlots
                 PROVE  icount'[j] = icount[j] - Same(i, j) + Same(None, j) - Same(None, j) + Same(None, j)
                     - Same(None, j) + Same(None, j) - Same(None, j) + Same(None, j) - Same(None, j) + Same(None, j)
      BY <1>1, <1>5, <2>2, <2>5 DEF CountsTo
    <3> QED
      BY <1>10, <2>3, SameFacts
  <2> QED
    BY ONLY FilesInv, ~halted, t \in Tasks, <1>1, <1>3, <2>1, <2>2, <2>3, <2>4, <2>5, <2>6, FdStep
<1>16. CASE ~(fcount[f] > 1) /\ pc' = [pc EXCEPT ![t] = At(wait, i, d, new)] /\ fcount' = fc
            /\ UNCHANGED <<files, held, inodeVars>> /\ finode' = [finode EXCEPT ![f] = None]
  <2>1. files' = files /\ held' = held /\ kind' = kind /\ nr' = nr /\ icount' = icount /\ loaded' = loaded /\ fcount' = fc
    BY <1>16 DEF inodeVars
  <2>2. TableOK
    BY <1>0, <2>1, TableSame DEF FilesTypeOK
  <2>3. PICK q : q = At(wait, i, d, new)
    OBVIOUS
  <2>4. q.at = wait /\ q.inode = i /\ q.slot = d /\ q.new = new /\ wait \in {"iput", "xput"} /\ (wait = "xput" => new = None)
    BY <2>3, AtFields DEF Pair
  <2>5. q \in Places
    BY <1>5, <2>3, <2>4, PlaceMembers
  <2>6. q # Gone /\ NewOf(q) = None /\ NodeOf(q) = None /\ ~MountPlace(q) /\ LeavesOnly(q, Fds)
    BY <2>4, UserFields, Consts DEF NewOf, NodeOf, MountPlace, LeavesOnly
  <2>7. Goes(t, q)
    BY <1>9, <1>16, <2>3, <2>5, <2>6 DEF Goes
  <2>8. pc' = [pc EXCEPT ![t] = q]
    BY <2>7 DEF Goes
  <2>9. FileCounts'
    <3>1. \A u \in Tasks, e \in Fds : ~(u = t /\ e = d) => Open'[<<u, e>>] = Open[<<u, e>>]
      <4> SUFFICES ASSUME NEW u \in Tasks, NEW e \in Fds, ~(u = t /\ e = d) PROVE Open'[<<u, e>>] = Open[<<u, e>>]
        OBVIOUS
      <4>1. u # t => (Leaving(u, e)' <=> Leaving(u, e))
        BY <1>0, <2>8, LeaveLemma
      <4>2. u = t => ~Leaving(u, e) /\ ~Leaving(u, e)'
        <5>1. Leaving(t, e)' <=> q.at \in {"iput", "xput"} /\ q.slot = e
          BY <1>0, <2>8, LeaveLemma
        <5> QED
          BY <1>1, <2>4, <5>1
      <4> QED
        BY <2>1, <4>1, <4>2, RefValues
    <3>2. Open'[<<t, d>>] = None
      <4>1. Leaving(t, d)'
        BY <1>0, <2>4, <2>8, LeaveLemma
      <4> QED
        BY <4>1, RefValues
    <3> SUFFICES ASSUME NEW g \in FileSlots PROVE fcount'[g] = Uses(Open, g)' + IdleRefs(g)
      BY DEF FileCounts
    <3>3. Uses(Open, g)' = Uses(Open, g) - Same(Open[<<t, d>>], g) + Same(Open'[<<t, d>>], g)
      BY <3>1, OpenPut
    <3>4. Same(None, g) = 0 /\ Same(f, g) \in Nat /\ Uses(Open, g) \in Nat /\ IdleRefs(g) \in Nat
      BY Consts, UsesNat DEF Same
    <3> QED
      BY <1>3, <1>8, <2>1, <3>2, <3>3, <3>4
  <2>10. /\ finode' \in [FileSlots -> OptInode] /\ OpenFiles' /\ FileRef'[f] = None
         /\ \A g \in FileSlots : g # f => FileRef'[g] = FileRef[g]
    BY <1>12, <1>16, <2>1
  <2>11. CountsTo(t, q, FileRef[f], FileRef'[f], None, None)
    <3> SUFFICES ASSUME NEW j \in InodeSlots
                 PROVE  icount'[j] = icount[j] - Same(i, j) + Same(None, j) - Same(None, j) + Same(None, j)
                     - Same(None, j) + Same(i, j) - Same(None, j) + Same(None, j) - Same(None, j) + Same(None, j)
      BY <1>1, <1>5, <2>4, <2>6, <2>10 DEF CountsTo
    <3> QED
      BY <1>10, <2>1, SameFacts
  <2>12. /\ files' \in [Tasks -> [Fds -> FileSlots \cup {None}]] /\ fcount' \in [FileSlots -> Nat]
         /\ (\A u \in Tasks : u # t => files'[u] = files[u])
    BY <1>0, <1>7, <2>1 DEF FilesTypeOK
  <2> QED
    BY ONLY FilesInv, ~halted, t \in Tasks, <1>1, <1>3, <2>1, <2>2, <2>6, <2>7, <2>9, <2>10, <2>11, <2>12, FdStep
<1> QED
  BY <1>9, <1>14, <1>15, <1>16

(* iput goes on when the disk has taken the buffer.                        *)
LEMMA IputDoneStep ==
    ASSUME FilesInv, NEW t \in Tasks, iput_done(t)
    PROVE  FilesInv'
<1>0. pc[t].at \in {"iput", "xput"} /\ ~halted
  BY DEF iput_done
<1>1. FilesTypeOK /\ FileCounts /\ OpenFiles /\ pc[t] \in Places
  BY <1>0 DEF FilesInv, FilesTypeOK, RunInv
<1>2. PICK i, s, new, q : i = pc[t].inode /\ s = pc[t].slot /\ new = pc[t].new /\ q = (IF pc[t].at = "iput" THEN User ELSE Exiting)
  OBVIOUS
<1>3. /\ iput(i) /\ Refill(t, s, new, fcount) /\ pc' = [pc EXCEPT ![t] = q] /\ finode' = finode
      /\ mount' = mount /\ super' = super /\ workload' = workload /\ halted' = halted
  BY <1>2 DEF iput_done, mountVars
<1>4. i \in InodeSlots /\ i \in OptInode
  BY <1>0, <1>1, <1>2, PlaceFacts DEF Busy, OptInode
<1>5. icount[i] > 0
  BY <1>0, <1>2, <1>4, Referred
<1>6. TableOK /\ \A j \in InodeSlots : icount'[j] = icount[j] - Same(i, j)
  BY <1>0, <1>3, <1>4, <1>5, IputLemma
<1>7. q \in {User, Exiting}
  BY <1>2
<1>8. /\ Goes(t, q) /\ q.inode = None /\ NewOf(q) = None /\ NodeOf(q) = None /\ (\A S : LeavesOnly(q, S))
      /\ \A e : ~Leaving(t, e)'
  BY <1>1, <1>3, <1>7, GoesDone
<1>9. \A j \in InodeSlots : icount[j] \in Nat
  BY <1>1 DEF FilesTypeOK
<1>10. \/ s = None \/ (s \in Held /\ new \in OptInode /\ NewOf(pc[t]) = new) \/ (s \in Fds /\ new \in Fds \cup {None})
  <2>1. pc[t].at = "iput" => \/ s = None
                             \/ s \in Held /\ new \in InodeSlots
                             \/ s \in Fds /\ new \in Fds \cup {None}
    BY <1>1, <1>2, PlaceFacts
  <2>2. pc[t].at = "xput" => s \in Held \cup Fds /\ new = None
    BY <1>1, <1>2, PlaceFacts
  <2>3. NewOf(pc[t]) = IF pc[t].at = "iput" /\ s \in Held THEN new ELSE None
    BY <1>0, <1>2 DEF NewOf
  <2> QED
    BY <1>0, <2>1, <2>2, <2>3 DEF OptInode
<1>11. CASE s = None
  <2>1. files' = files /\ held' = held /\ fcount' = fcount
    BY <1>3, <1>11 DEF Refill
  <2>2. NewOf(pc[t]) = None /\ NodeOf(pc[t]) = None /\ Calm(pc[t])
    BY <1>0, <1>2, <1>11, Consts DEF NewOf, NodeOf, Calm
  <2>3. q \in Places /\ Calm(q) /\ q # Gone /\ ~MountPlace(q) /\ q.at # "super" /\ q.at # "mroot"
    BY <1>7, RunsPlace
  <2>4. \A j \in InodeSlots :
              icount'[j] = icount[j] - Same(pc[t].inode, j) + Same(q.inode, j) - Same(NewOf(pc[t]), j) + Same(NewOf(q), j)
                           - Same(NodeOf(pc[t]), j) + Same(NodeOf(q), j)
    <3> SUFFICES ASSUME NEW j \in InodeSlots
                 PROVE  icount'[j] = icount[j] - Same(i, j) + Same(None, j) - Same(None, j) + Same(None, j)
                           - Same(None, j) + Same(None, j)
      BY <1>2, <1>8, <2>2
    <3> QED
      BY <1>6, <1>9, SameFacts
  <2> QED
    BY ONLY FilesInv, <1>0, t \in Tasks, <1>3, <1>6, <2>1, <2>2, <2>3, <2>4, QuietStep
<1>12. CASE s \in Held /\ new \in OptInode /\ NewOf(pc[t]) = new
  <2>1. PICK r : r = s
    OBVIOUS
  <2>2. r \in Held /\ r \notin Fds /\ r # None /\ r # Mnt
    BY <1>12, <2>1, Consts
  <2>3. files' = files /\ held' = [held EXCEPT ![t][r] = new] /\ fcount' = fcount
    BY <1>3, <2>1, <2>2 DEF Refill
  <2>4. /\ held' \in [Tasks -> [Held -> OptInode]] /\ held'[t][r] = new
        /\ \A u \in Tasks, e \in Held : ~(u = t /\ e = r) => held'[u][e] = held[u][e]
        /\ \A u \in Tasks : u # t => held'[u] = held[u]
    <3>1. held \in [Tasks -> [Held -> OptInode]]
      BY <1>1 DEF FilesTypeOK
    <3> QED
      BY ONLY t \in Tasks, <1>12, <2>2, <2>3, <3>1, RowPut
  <2>5. Leaving(t, r) /\ NodeOf(pc[t]) = None /\ LeavesOnly(pc[t], {r}) /\ LeavesOnly(q, {r})
    <3>1. LeavesOnly(q, {r})
      BY <1>8
    <3> QED
      BY <1>0, <1>2, <2>1, <2>2, <3>1 DEF Leaving, NodeOf, LeavesOnly
  <2>6. TaskRef[<<t, r>>] = None /\ TaskRef'[<<t, r>>] = new
    BY <1>8, <2>2, <2>4, <2>5, RefValues
  <2>7. CountsTo(t, q, None, None, TaskRef[<<t, r>>], TaskRef'[<<t, r>>])
    <3> SUFFICES ASSUME NEW j \in InodeSlots
                 PROVE  icount'[j] = icount[j] - Same(None, j) + Same(None, j) - Same(None, j) + Same(new, j)
                     - Same(i, j) + Same(None, j) - Same(new, j) + Same(None, j) - Same(None, j) + Same(None, j)
      BY <1>2, <1>8, <1>12, <2>5, <2>6 DEF CountsTo
    <3> QED
      BY <1>6, <1>9, SameFacts
  <2> QED
    BY ONLY FilesInv, <1>0, t \in Tasks, <1>3, <1>6, <1>8, <2>2, <2>3, <2>4, <2>5, <2>7, TaskStep
<1>13. CASE s \in Fds /\ new \in Fds \cup {None}
  <2>1. PICK d : d = s
    OBVIOUS
  <2>2. d \in Fds /\ d \notin Held /\ d # None /\ d # Mnt
    BY <1>13, <2>1, Consts
  <2>3. /\ Leaving(t, d) /\ (\A e \in Fds : e # d => ~Leaving(t, e))
        /\ NewOf(pc[t]) = None /\ NodeOf(pc[t]) = None /\ LeavesOnly(pc[t], Fds)
    BY <1>0, <1>2, <2>1, <2>2 DEF Leaving, NewOf, NodeOf, LeavesOnly
  <2>4. Open[<<t, d>>] = None
    BY <2>2, <2>3, RefValues
  <2>5. fcount \in [FileSlots -> Nat] /\ \A f \in FileSlots : fcount[f] = Uses(Open, f) - Same(Open[<<t, d>>], f) + IdleRefs(f)
    <3>1. fcount \in [FileSlots -> Nat]
      BY <1>1 DEF FilesTypeOK
    <3> SUFFICES ASSUME NEW f \in FileSlots PROVE fcount[f] = Uses(Open, f) - Same(Open[<<t, d>>], f) + IdleRefs(f)
      BY <3>1
    <3>2. fcount[f] = Uses(Open, f) + IdleRefs(f) /\ Uses(Open, f) \in Nat /\ IdleRefs(f) \in Nat /\ Same(None, f) = 0
      BY <1>1, UsesNat, Consts DEF FileCounts, Same
    <3> QED
      BY <2>4, <3>2
  <2>6. Refill(t, d, new, fcount)
    BY <1>3, <2>1
  <2>7. After(t, files, fcount) /\ held' = held
    BY ONLY t \in Tasks, <1>1, <1>3, <1>7, <1>13, <2>2, <2>3, <2>5, <2>6, RefillFd
  <2>8. /\ files' \in [Tasks -> [Fds -> FileSlots \cup {None}]] /\ fcount' \in [FileSlots -> Nat]
        /\ (\A u \in Tasks : u # t => files'[u] = files[u]) /\ FileCounts'
        /\ \A f \in FileSlots : fcount'[f] > 0 <=> fcount[f] > 0
    BY <2>7 DEF After
  <2>9. \A f \in FileSlots : FileRef'[f] = FileRef[f]
    BY <1>3, <2>8, RefValues
  <2>10. OpenFiles' /\ finode' \in [FileSlots -> OptInode]
    BY <1>1, <1>3, <2>8 DEF OpenFiles, FilesTypeOK
  <2>11. PICK f : f = Std
    OBVIOUS
  <2>12. f \in FileSlots /\ FileRef'[f] = FileRef[f] /\ \A g \in FileSlots : g # f => FileRef'[g] = FileRef[g]
    BY <2>9, <2>11, Consts
  <2>13. CountsTo(t, q, FileRef[f], FileRef'[f], None, None)
    <3> SUFFICES ASSUME NEW j \in InodeSlots
                 PROVE  icount'[j] = icount[j] - Same(FileRef[f], j) + Same(FileRef[f], j) - Same(None, j) + Same(None, j)
                     - Same(i, j) + Same(None, j) - Same(None, j) + Same(None, j) - Same(None, j) + Same(None, j)
      BY <1>2, <1>8, <2>3, <2>12 DEF CountsTo
    <3> QED
      BY <1>6, <1>9, SameFacts
  <2>14. LeavesOnly(q, Fds)
    BY <1>8
  <2> QED
    BY ONLY FilesInv, <1>0, t \in Tasks, <1>6, <1>8, <2>3, <2>7, <2>8, <2>10, <2>12, <2>13, <2>14, FdStep
<1> QED
  BY <1>10, <1>11, <1>12, <1>13

(* chdir, chroot and execve keep the invariant.                            *)
LEMMA ReplaceStep ==
    ASSUME FilesInv, NEW t \in Tasks, replace(t)
    PROVE  FilesInv'
<1>1. PICK i, r, old : i = pc[t].inode /\ r = pc[t].slot /\ old = held[t][r]
  OBVIOUS
<1>2. pc[t].at = "iget" /\ r \in Held /\ pc[t].slot \in Held /\ ~halted
  BY <1>1 DEF replace
<1>3. \/ Release(t, None, i, None, "iput", User)
      \/ Release(t, r, old, i, "iput", User)
  BY <1>1 DEF replace
<1>4. CASE Release(t, None, i, None, "iput", User)
  BY <1>1, <1>2, <1>4, RollbackStep
<1>5. CASE Release(t, r, old, i, "iput", User)
  <2>1. Pair(pc[t], i, "iput", User)
    BY <1>2 DEF Pair
  <2>2. pc[t].at \in {"iget", "exit"} /\ (pc[t].at = "iget" => pc[t].slot = r)
    BY <1>1, <1>2
  <2> QED
    BY ONLY FilesInv, t \in Tasks, <1>1, <1>2, <1>5, <2>1, <2>2, ReleaseHeld
<1> QED
  BY <1>3, <1>4, <1>5

(* close keeps it.                                                         *)
LEMMA CloseStep ==
    ASSUME FilesInv, NEW t \in Tasks, NEW d \in Fds, sys_close(t, d)
    PROVE  FilesInv'
<1>1. pc[t] = User /\ ~halted /\ files[t][d] # None /\ Release(t, d, InodeOf(t, d), None, "iput", User)
  BY DEF sys_close, Runs
<1>2. Pair(pc[t], None, "iput", User) /\ None \in Fds \cup {None} /\ pc[t] \in {User, Exiting}
  BY <1>1, UserFields DEF Pair
<1> QED
  BY ONLY FilesInv, t \in Tasks, d \in Fds, <1>1, <1>2, ReleaseFd

(* dup: only descriptors of t and the count of an open file change.        *)
LEMMA DupStep ==
    ASSUME FilesInv, NEW t \in Tasks, pc[t] = User, ~halted, NEW src \in Fds, NEW dst \in Fds,
           dupfd(t, files, fcount, src, dst), UNCHANGED <<held, finode, inodeVars, mountVars, pc, workload, halted>>
    PROVE  FilesInv'
<1>0. FilesTypeOK /\ FileCounts /\ OpenFiles
  BY DEF FilesInv, RunInv
<1>1. /\ held' = held /\ finode' = finode /\ kind' = kind /\ nr' = nr /\ icount' = icount /\ loaded' = loaded
      /\ mount' = mount /\ super' = super /\ pc' = pc /\ workload' = workload /\ halted' = halted
  BY DEF inodeVars, mountVars
<1>2. PICK q : q = User
  OBVIOUS
<1>3. pc' = [pc EXCEPT ![t] = q] /\ q \in {User, Exiting}
  BY <1>0, <1>1, <1>2 DEF FilesTypeOK
<1>4. Goes(t, q) /\ q.inode = None /\ NewOf(q) = None /\ NodeOf(q) = None /\ LeavesOnly(q, Fds) /\ \A e : ~Leaving(t, e)'
  BY <1>0, <1>1, <1>3, GoesDone
<1>5. LeavesOnly(pc[t], Fds) /\ pc[t] = q
  BY <1>2, <1>4
<1>6. TableOK
  BY <1>0, <1>1, TableSame DEF FilesTypeOK
<1>7. PICK O : O = Open
  OBVIOUS
<1>8. Before(t, files, fcount, O)
  <2>1. DOMAIN O = Tasks \X Fds
    BY <1>7, RefDomains
  <2>2. \A u \in Tasks, e \in Fds : Leaving(u, e)' <=> Leaving(u, e)
    BY <1>1 DEF Leaving
  <2>3. \A e \in Fds : O[<<t, e>>] = files[t][e]
    BY <1>4, <1>7, <2>2, RefValues
  <2>4. \A u \in Tasks, e \in Fds : u # t => O[<<u, e>>] = IF Leaving(u, e)' THEN None ELSE files[u][e]
    BY <1>7, <2>2, RefValues
  <2>5. \A f \in FileSlots : fcount[f] = Uses(O, f) + IdleRefs(f)
    BY <1>0, <1>7 DEF FileCounts
  <2> QED
    BY <1>0, <1>4, <2>1, <2>3, <2>4, <2>5 DEF Before, FilesTypeOK
<1>9. After(t, files, fcount)
  BY <1>8, DupCounts
<1>10. /\ files' \in [Tasks -> [Fds -> FileSlots \cup {None}]] /\ fcount' \in [FileSlots -> Nat]
       /\ (\A u \in Tasks : u # t => files'[u] = files[u]) /\ FileCounts'
       /\ \A f \in FileSlots : fcount'[f] > 0 <=> fcount[f] > 0
  BY <1>9 DEF After
<1>11. \A f \in FileSlots : FileRef'[f] = FileRef[f]
  BY <1>1, <1>10, RefValues
<1>12. OpenFiles' /\ finode' \in [FileSlots -> OptInode]
  BY <1>0, <1>1, <1>10 DEF OpenFiles, FilesTypeOK
<1>13. PICK f : f = Std
  OBVIOUS
<1>14. f \in FileSlots /\ FileRef'[f] = FileRef[f] /\ \A g \in FileSlots : g # f => FileRef'[g] = FileRef[g]
  BY <1>11, <1>13, Consts
<1>15. CountsTo(t, q, FileRef[f], FileRef'[f], None, None)
  <2> SUFFICES ASSUME NEW j \in InodeSlots
               PROVE  icount'[j] = icount[j] - Same(FileRef[f], j) + Same(FileRef[f], j) - Same(None, j) + Same(None, j)
                     - Same(None, j) + Same(None, j) - Same(None, j) + Same(None, j) - Same(None, j) + Same(None, j)
    BY <1>4, <1>5, <1>14 DEF CountsTo
  <2>1. icount[j] \in Nat
    BY <1>0 DEF FilesTypeOK
  <2> QED
    BY <1>1, <2>1, SameFacts
<1> QED
  BY ONLY FilesInv, ~halted, t \in Tasks, <1>1, <1>4, <1>5, <1>6, <1>10, <1>12, <1>14, <1>15, FdStep

(* dup2 keeps it, also when newfd has to wait in iput first.               *)
LEMMA Dup2Step ==
    ASSUME FilesInv, NEW t \in Tasks, NEW old \in Fds, NEW new \in Fds, sys_dup2(t, old, new)
    PROVE  FilesInv'
<1>1. pc[t] = User /\ ~halted
  BY DEF sys_dup2, Runs
<1>2. CASE files[t][new] = None
  BY <1>1, <1>2, DupStep DEF sys_dup2
<1>3. CASE files[t][new] # None
  <2>1. Release(t, new, InodeOf(t, new), old, "iput", User)
    BY <1>3 DEF sys_dup2
  <2>2. Pair(pc[t], old, "iput", User) /\ old \in Fds \cup {None} /\ pc[t] \in {User, Exiting}
    BY <1>1, UserFields DEF Pair
  <2> QED
    BY ONLY FilesInv, t \in Tasks, new \in Fds, <1>1, <1>3, <2>1, <2>2, ReleaseFd
<1> QED
  BY <1>2, <1>3

(* A step of task_exit keeps it, the last one included.                    *)
LEMMA ExitStep ==
    ASSUME FilesInv, NEW t \in Tasks, exit_step(t)
    PROVE  FilesInv'
<1> DEFINE left == {s \in Slots : InodeOf(t, s) # None}
<1>1. pc[t] = Exiting /\ ~halted
  BY DEF exit_step
<1>2. CASE left = {} /\ pc' = [pc EXCEPT ![t] = Gone]
           /\ UNCHANGED <<files, held, fcount, finode, inodeVars, mountVars, workload, halted>>
  BY <1>1, <1>2, ExitGoneStep
<1>3. CASE left # {} /\ Release(t, Lowest(left), InodeOf(t, Lowest(left)), None, "xput", Exiting)
  <2>1. left \in SUBSET Int /\ \A x \in left : x >= -3
    <3>1. \A x \in Held \cup Fds : x \in Int /\ x >= -3
      BY Consts
    <3> QED
      BY <3>1 DEF Slots
  <2>2. Lowest(left) \in left
    BY <1>3, <2>1, LowestLemma
  <2>3. PICK s : s = Lowest(left)
    OBVIOUS
  <2>4. s \in Slots /\ InodeOf(t, s) # None /\ Release(t, s, InodeOf(t, s), None, "xput", Exiting)
    BY <1>3, <2>2, <2>3
  <2>5. Pair(pc[t], None, "xput", Exiting) /\ pc[t].inode = None /\ pc[t].at = "exit"
    BY <1>1, UserFields DEF Pair
  <2>6. CASE s \in Held
    <3>1. PICK old : old = held[t][s]
      OBVIOUS
    <3>2. Release(t, s, old, None, "xput", Exiting)
      BY <2>4, <2>6, <3>1 DEF InodeOf
    <3>3. pc[t].at \in {"iget", "exit"} /\ (pc[t].at = "iget" => pc[t].slot = s)
      BY <2>5
    <3>4. PICK new : new = None
      OBVIOUS
    <3>5. new = pc[t].inode /\ Pair(pc[t], new, "xput", Exiting) /\ Release(t, s, old, new, "xput", Exiting)
      BY <2>5, <3>2, <3>4
    <3> QED
      BY ONLY FilesInv, t \in Tasks, <1>1, <2>6, <3>1, <3>3, <3>5, ReleaseHeld
  <2>7. CASE s \in Fds
    <3>1. files[t][s] # None
      <4>1. s \notin Held
        BY <2>7, Consts
      <4> QED
        BY <2>4, <4>1 DEF InodeOf
    <3>2. None \in Fds \cup {None} /\ pc[t] \in {User, Exiting}
      BY <1>1
    <3> QED
      BY ONLY FilesInv, t \in Tasks, <1>1, <2>4, <2>5, <2>7, <3>1, <3>2, ReleaseFd
  <2> QED
    BY <2>4, <2>6, <2>7 DEF Slots
<1> QED
  BY <1>2, <1>3 DEF exit_step

-----------------------------------------------------------------------------
\* pipe and fork.

(* Two references are replaced.                                            *)
LEMMA UsesPut2 ==
    ASSUME NEW X, IsFiniteSet(X), NEW g, DOMAIN g = X, NEW h, DOMAIN h = X, NEW a \in X, NEW b \in X, a # b,
           \A x \in X : x # a /\ x # b => h[x] = g[x], NEW i
    PROVE  Uses(h, i) = Uses(g, i) - Same(g[a], i) - Same(g[b], i) + Same(h[a], i) + Same(h[b], i) /\ Uses(g, i) \in Nat
<1>1. PICK m : m = [x \in X |-> IF x = a THEN h[a] ELSE g[x]]
  OBVIOUS
<1>2. DOMAIN m = X /\ m[a] = h[a] /\ m[b] = g[b] /\ (\A x \in X : x # a => m[x] = g[x]) /\ (\A x \in X : x # b => h[x] = m[x])
  BY <1>1
<1>3. Uses(m, i) = Uses(g, i) - Same(g[a], i) + Same(h[a], i) /\ Uses(g, i) \in Nat
  BY <1>2, UsesPut
<1>4. Uses(h, i) = Uses(m, i) - Same(m[b], i) + Same(h[b], i) /\ Uses(m, i) \in Nat
  BY <1>2, UsesPut
<1>5. \A x : Same(x, i) \in Nat
  BY DEF Same
<1> QED
  BY ONLY <1>2, <1>3, <1>4, <1>5

(* Two members of a set that has more than one.                            *)
LEMMA TwoLowest ==
    ASSUME NEW S \in SUBSET Nat, Cardinality(S) > 1
    PROVE  Lowest(S) \in S /\ Lowest(S \ {Lowest(S)}) \in S /\ Lowest(S \ {Lowest(S)}) # Lowest(S)
<1>1. S # {}
  BY FS_EmptySet
<1>2. PICK a : a = Lowest(S)
  OBVIOUS
<1>3. a \in S
  BY <1>1, <1>2, LowestNat
<1>4. S \ {a} # {}
  <2> SUFFICES ASSUME S \ {a} = {} PROVE FALSE
    OBVIOUS
  <2>1. S = {a}
    BY <1>3
  <2>2. Cardinality({a}) = 1
    BY FS_Singleton
  <2> QED
    BY <2>1, <2>2
<1>5. S \ {a} \in SUBSET Nat
  OBVIOUS
<1>6. Lowest(S \ {a}) \in S \ {a}
  BY <1>4, <1>5, LowestNat
<1> QED
  BY <1>2, <1>3, <1>6

\* What pipe takes: the files a and b, the descriptors r and w, the inode i.
PipeTaken(t, a, b, r, w, i) ==
    /\ a = Lowest(FreeFiles) /\ b = Lowest(FreeFiles \ {a}) /\ r = Lowest(FreeFds(t)) /\ w = Lowest(FreeFds(t) \ {r})
    /\ i = Lowest(FreeInodes) /\ FreeInodes # {} /\ Cardinality(FreeFds(t)) > 1 /\ Cardinality(FreeFiles) > 1
    /\ files' = [files EXCEPT ![t][r] = a, ![t][w] = b]
    /\ fcount' = [fcount EXCEPT ![a] = 1, ![b] = 1]
    /\ finode' = [finode EXCEPT ![a] = i, ![b] = i]
    /\ kind' = [kind EXCEPT ![i] = "pipe"] /\ icount' = [icount EXCEPT ![i] = PipeRefs]
    /\ UNCHANGED <<held, nr, loaded, mountVars, pc, workload, halted>>

(* pipe keeps the invariant.                                               *)
LEMMA PipeStep ==
    ASSUME FilesInv, NEW t \in Tasks, sys_pipe(t)
    PROVE  FilesInv'
<1>0. pc[t] = User /\ ~halted
  BY DEF sys_pipe, Runs
<1>1. FilesTypeOK /\ FileCounts /\ InodeCounts /\ GoneEmpty /\ OpenFiles /\ Mounts
  BY <1>0 DEF FilesInv, RunInv
<1>2. CASE Panic
  BY <1>2, PanicStep
<1>3. ASSUME NEW a, NEW b, NEW r, NEW w, NEW i, PipeTaken(t, a, b, r, w, i)
      PROVE  FilesInv'
  <2>0. /\ a = Lowest(FreeFiles) /\ b = Lowest(FreeFiles \ {a}) /\ r = Lowest(FreeFds(t)) /\ w = Lowest(FreeFds(t) \ {r})
        /\ i = Lowest(FreeInodes) /\ FreeInodes # {} /\ Cardinality(FreeFds(t)) > 1 /\ Cardinality(FreeFiles) > 1
        /\ files' = [files EXCEPT ![t][r] = a, ![t][w] = b]
        /\ fcount' = [fcount EXCEPT ![a] = 1, ![b] = 1]
        /\ finode' = [finode EXCEPT ![a] = i, ![b] = i]
        /\ kind' = [kind EXCEPT ![i] = "pipe"] /\ icount' = [icount EXCEPT ![i] = PipeRefs]
        /\ UNCHANGED <<held, nr, loaded, mountVars, pc, workload, halted>>
    BY <1>3 DEF PipeTaken
  <2>1. a \in FileSlots /\ b \in FileSlots /\ a # b /\ a # Std /\ b # Std /\ fcount[a] = 0 /\ fcount[b] = 0
    <3>1. FreeFiles \in SUBSET Nat
      BY Consts DEF FreeFiles
    <3>2. a \in FreeFiles /\ b \in FreeFiles /\ a # b
      BY <2>0, <3>1, TwoLowest
    <3> QED
      BY <3>2 DEF FreeFiles
  <2>2. r \in Fds /\ w \in Fds /\ r # w /\ files[t][r] = None /\ files[t][w] = None
    <3>1. FreeFds(t) \in SUBSET Nat
      BY Consts DEF FreeFds
    <3>2. r \in FreeFds(t) /\ w \in FreeFds(t) /\ r # w
      BY <2>0, <3>1, TwoLowest
    <3> QED
      BY <3>2 DEF FreeFds
  <2>3. i \in InodeSlots /\ kind[i] = "free" /\ icount[i] = 0
    <3>1. FreeInodes \in SUBSET Nat
      BY Consts DEF FreeInodes
    <3>2. i \in FreeInodes
      BY <2>0, <3>1, LowestNat
    <3> QED
      BY <1>1, <3>2 DEF FreeInodes, InodeCounts
  <2>4. /\ held' = held /\ nr' = nr /\ loaded' = loaded /\ mount' = mount /\ super' = super /\ pc' = pc
        /\ workload' = workload /\ halted' = halted
    BY <2>0 DEF mountVars
  <2>5. /\ files' \in [Tasks -> [Fds -> FileSlots \cup {None}]] /\ files'[t][r] = a /\ files'[t][w] = b
        /\ \A u \in Tasks, e \in Fds : ~(u = t /\ e \in {r, w}) => files'[u][e] = files[u][e]
        /\ \A u \in Tasks : u # t => files'[u] = files[u]
    <3>1. PICK fs : fs = [files EXCEPT ![t][r] = a]
      OBVIOUS
    <3>2. files \in [Tasks -> [Fds -> FileSlots \cup {None}]] /\ a \in FileSlots \cup {None} /\ b \in FileSlots \cup {None}
      BY <1>1, <2>1 DEF FilesTypeOK
    <3>3. /\ fs \in [Tasks -> [Fds -> FileSlots \cup {None}]] /\ fs[t][r] = a
          /\ \A u \in Tasks, e \in Fds : ~(u = t /\ e = r) => fs[u][e] = files[u][e]
          /\ \A u \in Tasks : u # t => fs[u] = files[u]
      BY ONLY t \in Tasks, <2>2, <3>1, <3>2, RowPut
    <3>4. files' = [fs EXCEPT ![t][w] = b]
      BY <2>0, <3>1
    <3>5. /\ files' \in [Tasks -> [Fds -> FileSlots \cup {None}]] /\ files'[t][w] = b
          /\ \A u \in Tasks, e \in Fds : ~(u = t /\ e = w) => files'[u][e] = fs[u][e]
          /\ \A u \in Tasks : u # t => files'[u] = fs[u]
      BY ONLY t \in Tasks, <2>2, <3>2, <3>3, <3>4, RowPut
    <3> QED
      BY <2>2, <3>3, <3>5
  <2>6. /\ fcount' \in [FileSlots -> Nat] /\ finode' \in [FileSlots -> OptInode]
        /\ fcount'[a] = 1 /\ fcount'[b] = 1 /\ finode'[a] = i /\ finode'[b] = i
        /\ \A g \in FileSlots : g # a /\ g # b => fcount'[g] = fcount[g] /\ finode'[g] = finode[g]
    BY <1>1, <2>0, <2>1, <2>3 DEF FilesTypeOK, OptInode
  <2>7. icount' \in [InodeSlots -> Nat] /\ \A j \in InodeSlots : icount'[j] = icount[j] + Same(i, j) + Same(i, j)
    BY <1>1, <2>0, <2>3 DEF FilesTypeOK, Same, PipeRefs
  <2>8. TableOK
    <3>1. nr' = [nr EXCEPT ![i] = nr[i]] /\ nr[i] \in Nat /\ loaded' \in [InodeSlots -> BOOLEAN]
      BY <1>1, <2>3, <2>4 DEF FilesTypeOK
    <3>2. icount'[i] > 0 /\ \A j \in InodeSlots : j # i => icount'[j] >= icount[j] /\ (icount'[j] > icount[j] => kind[j] # "free")
      BY <1>1, <2>3, <2>7 DEF Same, FilesTypeOK
    <3>3. PICK k : k = "pipe"
      OBVIOUS
    <3>4. k \in {"disk", "pipe"} /\ k # "disk" /\ kind' = [kind EXCEPT ![i] = k]
      BY <2>0, <3>3
    <3> QED
      BY <1>0, <2>3, <2>7, <3>1, <3>2, <3>4, EntryLemma
  <2>9. FilesTypeOK'
    BY <1>1, <2>4, <2>5, <2>6, <2>8 DEF FilesTypeOK, TableOK
  <2>10. \A u \in Tasks : \A s : (Leaving(u, s)' <=> Leaving(u, s)) /\ ~Leaving(t, s)
    BY <1>0, <2>4, UserFields DEF Leaving
  <2>11. /\ Open[<<t, r>>] = None /\ Open[<<t, w>>] = None /\ Open'[<<t, r>>] = a /\ Open'[<<t, w>>] = b
         /\ \A u \in Tasks, e \in Fds : ~(u = t /\ e \in {r, w}) => Open'[<<u, e>>] = Open[<<u, e>>]
    BY <2>2, <2>5, <2>10, RefValues
  <2>12. FileCounts'
    <3> SUFFICES ASSUME NEW g \in FileSlots PROVE fcount'[g] = Uses(Open, g)' + IdleRefs(g)
      BY DEF FileCounts
    <3>1. PICK x, y : x = <<t, r>> /\ y = <<t, w>>
      OBVIOUS
    <3>2. x \in Tasks \X Fds /\ y \in Tasks \X Fds /\ x # y /\ IsFiniteSet(Tasks \X Fds)
          /\ DOMAIN Open = Tasks \X Fds /\ DOMAIN Open' = Tasks \X Fds
      BY <2>2, <3>1, Consts, RefDomains
    <3>3. \A z \in Tasks \X Fds : z # x /\ z # y => Open'[z] = Open[z]
      <4>1. \A u \in Tasks, e \in Fds : <<u, e>> # x /\ <<u, e>> # y => Open'[<<u, e>>] = Open[<<u, e>>]
        BY <2>11, <3>1
      <4> QED
        BY <4>1
    <3>4. Uses(Open', g) = Uses(Open, g) - Same(Open[x], g) - Same(Open[y], g) + Same(Open'[x], g) + Same(Open'[y], g)
          /\ Uses(Open, g) \in Nat
      BY <3>2, <3>3, UsesPut2
    <3>5. Open[x] = None /\ Open[y] = None /\ Open'[x] = a /\ Open'[y] = b
      BY <2>11, <3>1
    <3>6. Uses(Open, g)' = Uses(Open, g) + Same(a, g) + Same(b, g)
      <4>1. Same(None, g) = 0 /\ Same(a, g) \in Nat /\ Same(b, g) \in Nat
        BY Consts DEF Same
      <4>2. Uses(Open', g) = Uses(Open, g) + Same(a, g) + Same(b, g)
        BY <3>4, <3>5, <4>1
      <4> QED
        BY <4>2 DEF Uses
    <3>7. fcount[g] = Uses(Open, g) + IdleRefs(g) /\ IdleRefs(g) \in Nat /\ fcount[g] \in Nat
      BY <1>1, UsesNat DEF FileCounts, FilesTypeOK
    <3>8. fcount'[g] = fcount[g] + Same(a, g) + Same(b, g)
      BY <2>1, <2>6, <3>7 DEF Same
    <3> QED
      BY <3>4, <3>6, <3>7, <3>8 DEF Same
  <2>13. OpenFiles'
    BY <1>1, <2>1, <2>3, <2>6, Consts DEF OpenFiles
  <2>14. PICK q : q = User
    OBVIOUS
  <2>15. pc' = [pc EXCEPT ![t] = q] /\ pc[t] = q /\ q # Gone /\ ~MountPlace(q) /\ q.at # "super" /\ q.at # "mroot"
    BY <1>0, <1>1, <2>4, <2>14, RunsPlace DEF FilesTypeOK
  <2>16. Mounts'
    BY <1>1, <2>4, <2>15, KeepMounts
  <2>17. GoneEmpty'
    BY <1>1, <2>4, <2>5, <2>15, KeepGone
  <2>18. ASSUME NEW j \in InodeSlots PROVE icount'[j] = Total(j)'
    <3>1. Uses(TaskRef, j)' = Uses(TaskRef, j)
      <4>1. \A u \in Tasks, e \in Held : TaskRef'[<<u, e>>] = TaskRef[<<u, e>>]
        BY <2>4, <2>10, RefValues
      <4> QED
        BY <4>1, TaskSame
    <3>2. /\ FileRef[a] = None /\ FileRef[b] = None /\ FileRef'[a] = i /\ FileRef'[b] = i
          /\ \A g \in FileSlots : g # a /\ g # b => FileRef'[g] = FileRef[g]
      BY <2>1, <2>6, RefValues
    <3>3. IsFiniteSet(FileSlots) /\ DOMAIN FileRef = FileSlots /\ DOMAIN FileRef' = FileSlots
      BY Consts, RefDomains
    <3>4. Uses(FileRef', j) = Uses(FileRef, j) - Same(FileRef[a], j) - Same(FileRef[b], j) + Same(FileRef'[a], j) + Same(FileRef'[b], j)
          /\ Uses(FileRef, j) \in Nat
      BY <2>1, <3>2, <3>3, UsesPut2
    <3>5. Uses(FileRef, j)' = Uses(FileRef, j) + Same(i, j) + Same(i, j)
      <4>1. Uses(FileRef', j) = Uses(FileRef, j) + Same(i, j) + Same(i, j)
        BY <3>2, <3>4, SameFacts
      <4> QED
        BY <4>1 DEF Uses
    <3>6. Total(j)' = icount[j] + (Uses(FileRef, j)' - Uses(FileRef, j)) + (Uses(TaskRef, j)' - Uses(TaskRef, j))
                       - Same(pc[t].inode, j) + Same(q.inode, j) - Same(NewOf(pc[t]), j) + Same(NewOf(q), j)
                       - Same(NodeOf(pc[t]), j) + Same(NodeOf(q), j)
      BY <1>1, <2>4, <2>15, StepCounts
    <3>7. icount[j] \in Nat /\ Uses(TaskRef, j) \in Nat
      BY <1>1, UsesNat DEF FilesTypeOK
    <3>8. icount'[j] = icount[j] + Same(i, j) + Same(i, j) /\ \A x : Same(x, j) \in Nat
      BY <2>7 DEF Same
    <3> QED
      BY ONLY <2>15, <3>1, <3>4, <3>5, <3>6, <3>7, <3>8
  <2> QED
    BY <1>0, <2>8, <2>9, <2>12, <2>13, <2>16, <2>17, <2>18, Assemble
<1>4. Panic \/ \E a, b, r, w, i : PipeTaken(t, a, b, r, w, i)
  <2>1. PICK a : a = Lowest(FreeFiles)
    OBVIOUS
  <2>2. PICK b : b = Lowest(FreeFiles \ {a})
    OBVIOUS
  <2>3. PICK r : r = Lowest(FreeFds(t))
    OBVIOUS
  <2>4. PICK w : w = Lowest(FreeFds(t) \ {r})
    OBVIOUS
  <2>5. PICK i : i = Lowest(FreeInodes)
    OBVIOUS
  <2>6. Panic \/ PipeTaken(t, a, b, r, w, i)
    BY <2>1, <2>2, <2>3, <2>4, <2>5 DEF sys_pipe, PipeTaken
  <2> QED
    BY <2>6
<1> QED
  BY <1>2, <1>3, <1>4

(* fork keeps it: the child had no reference, and gets those of its        *)
(* parent.                                                                 *)
LEMMA ForkStep ==
    ASSUME FilesInv, NEW t \in Tasks, NEW c \in Tasks, task_fork(t, c)
    PROVE  FilesInv'
<1>0. pc[t] = User /\ pc[c] = Gone /\ ~halted /\ t # c
  BY UserFields DEF task_fork, Runs
<1>1. FilesTypeOK /\ FileCounts /\ InodeCounts /\ GoneEmpty /\ OpenFiles /\ Mounts
  BY <1>0 DEF FilesInv, RunInv
<1>2. /\ files' = [files EXCEPT ![c] = files[t]] /\ held' = [held EXCEPT ![c] = held[t]]
      /\ fcount' = [f \in FileSlots |-> fcount[f] + Uses(files[t], f)]
      /\ icount' = [i \in InodeSlots |-> icount[i] + Uses(held[t], i)]
      /\ pc' = [pc EXCEPT ![c] = User]
      /\ finode' = finode /\ kind' = kind /\ nr' = nr /\ loaded' = loaded /\ mount' = mount /\ super' = super
      /\ workload' = workload /\ halted' = halted
  BY DEF task_fork, mountVars
<1>3. /\ files' \in [Tasks -> [Fds -> FileSlots \cup {None}]] /\ files'[c] = files[t] /\ \A u \in Tasks : u # c => files'[u] = files[u]
      /\ held' \in [Tasks -> [Held -> OptInode]] /\ held'[c] = held[t] /\ \A u \in Tasks : u # c => held'[u] = held[u]
      /\ DOMAIN files[t] = Fds /\ DOMAIN held[t] = Held
  BY <1>1, <1>2 DEF FilesTypeOK
<1>4. (\A d \in Fds : files[c][d] = None) /\ (\A r \in Held : held[c][r] = None)
  BY <1>0, <1>1 DEF GoneEmpty
<1>5. PICK q : q = User
  OBVIOUS
<1>6. pc' = [pc EXCEPT ![c] = q] /\ q \in {User, Exiting} /\ q # Gone /\ ~MountPlace(q) /\ q.at # "super" /\ q.at # "mroot" /\ q \in Places
      /\ q.inode = None /\ NewOf(q) = None /\ NodeOf(q) = None /\ q.at \notin {"iput", "xput"}
  BY <1>2, <1>5, RunsPlace
<1>7. \A s : ~Leaving(c, s)' /\ ~Leaving(c, s) /\ ~Leaving(t, s)
  BY <1>0, <1>1, <1>6, LeaveLemma, UserFields DEF Leaving
<1>8. \A u \in Tasks : \A s : u # c => (Leaving(u, s)' <=> Leaving(u, s))
  BY <1>1, <1>6, LeaveLemma
<1>9. ASSUME NEW f \in FileSlots PROVE Uses(Open, f)' = Uses(Open, f) + Uses(files[t], f) /\ Uses(files[t], f) \in Nat
  <2>1. \A d \in Fds : Open[<<c, d>>] # f /\ Open'[<<c, d>>] = files[t][d]
    BY <1>3, <1>4, <1>7, RefValues, Consts
  <2>2. \A u \in Tasks, d \in Fds : u # c => Open'[<<u, d>>] = Open[<<u, d>>]
    BY <1>3, <1>8, RefValues
  <2>3. IsFiniteSet(Tasks) /\ IsFiniteSet(Fds) /\ DOMAIN Open = Tasks \X Fds /\ DOMAIN Open' = Tasks \X Fds
    BY Consts, RefDomains
  <2>4. PICK g, o, p : g = files[t] /\ o = Open /\ p = Open'
    OBVIOUS
  <2>5. Uses(p, f) = Uses(o, f) + Uses(g, f) /\ Uses(g, f) \in Nat
    <3>1. /\ DOMAIN g = Fds /\ DOMAIN o = Tasks \X Fds /\ DOMAIN p = Tasks \X Fds
          /\ \A d \in Fds : o[<<c, d>>] # f /\ p[<<c, d>>] = g[d]
          /\ \A u \in Tasks, d \in Fds : u # c => p[<<u, d>>] = o[<<u, d>>]
      BY <1>3, <2>1, <2>2, <2>3, <2>4
    <3>2. RowAdded(Tasks, Fds, c, g, o, p, f)
      BY ONLY <3>1 DEF RowAdded
    <3> QED
      BY ONLY c \in Tasks, <2>3, <3>2, UsesRow
  <2> QED
    BY <2>4, <2>5 DEF Uses
<1>10. ASSUME NEW i \in InodeSlots PROVE Uses(TaskRef, i)' = Uses(TaskRef, i) + Uses(held[t], i) /\ Uses(held[t], i) \in Nat
  <2>1. \A d \in Held : TaskRef[<<c, d>>] # i /\ TaskRef'[<<c, d>>] = held[t][d]
    BY <1>3, <1>4, <1>7, RefValues, Consts
  <2>2. \A u \in Tasks, d \in Held : u # c => TaskRef'[<<u, d>>] = TaskRef[<<u, d>>]
    BY <1>3, <1>8, RefValues
  <2>3. IsFiniteSet(Tasks) /\ IsFiniteSet(Held) /\ DOMAIN TaskRef = Tasks \X Held /\ DOMAIN TaskRef' = Tasks \X Held
    BY Consts, RefDomains
  <2>4. PICK g, o, p : g = held[t] /\ o = TaskRef /\ p = TaskRef'
    OBVIOUS
  <2>5. Uses(p, i) = Uses(o, i) + Uses(g, i) /\ Uses(g, i) \in Nat
    <3>1. /\ DOMAIN g = Held /\ DOMAIN o = Tasks \X Held /\ DOMAIN p = Tasks \X Held
          /\ \A d \in Held : o[<<c, d>>] # i /\ p[<<c, d>>] = g[d]
          /\ \A u \in Tasks, d \in Held : u # c => p[<<u, d>>] = o[<<u, d>>]
      BY <1>3, <2>1, <2>2, <2>3, <2>4
    <3>2. RowAdded(Tasks, Held, c, g, o, p, i)
      BY ONLY <3>1 DEF RowAdded
    <3> QED
      BY ONLY c \in Tasks, <2>3, <3>2, UsesRow
  <2> QED
    BY <2>4, <2>5 DEF Uses
<1>11. \A f \in FileSlots : fcount'[f] = fcount[f] + Uses(files[t], f) /\ fcount[f] \in Nat
  BY <1>1, <1>2 DEF FilesTypeOK
<1>12. FileCounts'
  <2> SUFFICES ASSUME NEW f \in FileSlots PROVE fcount'[f] = Uses(Open, f)' + IdleRefs(f)
    BY DEF FileCounts
  <2>1. fcount[f] = Uses(Open, f) + IdleRefs(f) /\ Uses(Open, f) \in Nat /\ IdleRefs(f) \in Nat
    BY <1>1, UsesNat DEF FileCounts
  <2> QED
    BY <1>9, <1>11, <2>1
<1>13. \A f \in FileSlots : fcount'[f] > 0 <=> fcount[f] > 0
  <2> SUFFICES ASSUME NEW f \in FileSlots PROVE Uses(files[t], f) > 0 => fcount[f] > 0
    BY <1>9, <1>11
  <2> SUFFICES ASSUME Uses(files[t], f) > 0 PROVE fcount[f] > 0
    OBVIOUS
  <2>1. PICK d \in Fds : files[t][d] = f
    BY <1>3, Consts, UsesSome
  <2>2. f # None
    BY Consts
  <2>3. fcount[f] >= 1 + IdleRefs(f) /\ IdleRefs(f) \in Nat
    BY <1>1, <1>7, <2>1, <2>2, OpenCounted, UsesNat
  <2> QED
    BY <1>11, <2>3
<1>14. \A i \in InodeSlots : icount'[i] = icount[i] + Uses(held[t], i) /\ icount[i] \in Nat
  BY <1>1, <1>2 DEF FilesTypeOK
<1>15. TableOK
  <2>1. icount' \in [InodeSlots -> Nat]
    BY <1>2, <1>10, <1>14
  <2>2. ASSUME NEW i \in InodeSlots PROVE icount'[i] >= icount[i] /\ (icount'[i] > icount[i] => kind[i] # "free")
    <3>1. ASSUME Uses(held[t], i) > 0 PROVE kind[i] # "free"
      <4>1. PICK r \in Held : held[t][r] = i
        BY <1>3, <3>1, Consts, UsesSome
      <4>2. TaskRef[<<t, r>>] = i
        BY <1>7, <4>1, RefValues
      <4> QED
        BY <1>0, <4>2, Referred
    <3> QED
      BY <1>10, <1>14, <3>1
  <2> QED
    BY <1>0, <1>2, <2>1, <2>2, AddLemma
<1>16. FilesTypeOK'
  <2>1. fcount' \in [FileSlots -> Nat]
    BY <1>2, <1>9, <1>11
  <2> QED
    BY <1>1, <1>2, <1>3, <1>6, <1>15, <2>1 DEF FilesTypeOK, TableOK
<1>17. OpenFiles'
  BY <1>1, <1>2, <1>13 DEF OpenFiles
<1>18. Mounts'
  BY <1>1, <1>2, <1>6, KeepMounts
<1>19. GoneEmpty'
  BY <1>1, <1>3, <1>6, KeepGone
<1>20. ASSUME NEW i \in InodeSlots PROVE icount'[i] = Total(i)'
  <2>1. Uses(FileRef, i)' = Uses(FileRef, i)
    <3>1. \A f \in FileSlots : FileRef'[f] = FileRef[f]
      BY <1>2, <1>13, RefValues
    <3> QED
      BY <3>1, FileSame
  <2>2. Total(i)' = icount[i] + (Uses(FileRef, i)' - Uses(FileRef, i)) + (Uses(TaskRef, i)' - Uses(TaskRef, i))
                       - Same(pc[c].inode, i) + Same(q.inode, i) - Same(NewOf(pc[c]), i) + Same(NewOf(q), i)
                       - Same(NodeOf(pc[c]), i) + Same(NodeOf(q), i)
    <3>1. pc' = [pc EXCEPT ![c] = q] /\ super' = super
      BY <1>2, <1>6
    <3> QED
      BY ONLY <1>1, c \in Tasks, i \in InodeSlots, <3>1, StepCounts
  <2>3. pc[c].inode = None /\ NewOf(pc[c]) = None /\ NodeOf(pc[c]) = None
    BY <1>0, UserFields, Consts DEF NewOf, NodeOf
  <2>4. Uses(FileRef, i) \in Nat /\ Uses(TaskRef, i) \in Nat /\ Same(None, i) = 0
    BY UsesNat, SameFacts
  <2> QED
    BY <1>6, <1>10, <1>14, <2>1, <2>2, <2>3, <2>4
<1> QED
  BY <1>0, <1>12, <1>15, <1>16, <1>17, <1>18, <1>19, <1>20, Assemble

-----------------------------------------------------------------------------
\* The invariant.

(* Every step keeps it.                                                    *)
LEMMA NextLemma ==
    FilesInv /\ [Next]_vars => FilesInv'
<1> SUFFICES ASSUME FilesInv, [Next]_vars PROVE FilesInv'
  OBVIOUS
<1>1. CASE UNCHANGED vars
  <2>1. /\ files' = files /\ held' = held /\ fcount' = fcount /\ finode' = finode
        /\ kind' = kind /\ nr' = nr /\ icount' = icount /\ loaded' = loaded
        /\ mount' = mount /\ super' = super /\ pc' = pc /\ workload' = workload /\ halted' = halted
    BY <1>1 DEF vars, inodeVars, mountVars
  <2>2. FilesTypeOK' /\ OneInodePerNumber'
    BY <2>1 DEF FilesInv, FilesTypeOK, OneInodePerNumber
  <2>3. \A u \in Tasks : \A s : Leaving(u, s)' <=> Leaving(u, s)
    BY <2>1 DEF Leaving
  <2>4. Open' = Open /\ TaskRef' = TaskRef
    BY <2>1, <2>3 DEF Open, TaskRef, Leaving
  <2>5. FileRef' = FileRef /\ CallRef' = CallRef /\ NewRef' = NewRef /\ NodeRef' = NodeRef /\ SuperRef' = SuperRef
    BY <2>1 DEF FileRef, CallRef, NewRef, NodeRef, SuperRef
  <2>6. FileCounts'
    BY <2>1, <2>4 DEF FilesInv, FileCounts, Uses
  <2>7. InodeCounts <=> InodeCounts'
    BY <2>1, <2>4, <2>5 DEF InodeCounts, Total, Uses
  <2>8. (GoneEmpty <=> GoneEmpty') /\ (OpenFiles <=> OpenFiles') /\ (DeviceStays <=> DeviceStays')
    BY <2>1 DEF GoneEmpty, OpenFiles, DeviceStays
  <2>9. Mounts <=> Mounts'
    BY <2>1 DEF Mounts, Mounting
  <2> QED
    BY <2>1, <2>2, <2>6, <2>7, <2>8, <2>9 DEF FilesInv, RunInv
<1>2. ASSUME NEW t \in Tasks, DescriptorCalls(t) PROVE FilesInv'
  <2>1. ASSUME NEW d \in Fds, sys_dup(t, d) PROVE FilesInv'
    <3>1. pc[t] = User /\ ~halted /\ dupfd(t, files, fcount, d, Std)
          /\ UNCHANGED <<held, finode, inodeVars, mountVars, pc, workload, halted>> /\ Std \in Fds
      BY <2>1, Consts DEF sys_dup, Runs, Std
    <3> QED
      BY <2>1, <3>1, DupStep
  <2>2. ASSUME NEW d \in Fds, NEW e \in Fds, sys_dup2(t, d, e) PROVE FilesInv'
    BY <2>2, Dup2Step
  <2>3. CASE sys_pipe(t)
    BY <2>3, PipeStep
  <2> QED
    BY <1>2, <2>1, <2>2, <2>3 DEF DescriptorCalls
<1>3. ASSUME NEW t \in Tasks, NEW n \in workload.numbers, NEW s \in workload.slots, iget(t, n, s) PROVE FilesInv'
  BY <1>3, IgetStep
<1>4. ASSUME NEW t \in Tasks, iget_done(t) PROVE FilesInv'
  BY <1>4, IgetDoneStep
<1>5. ASSUME NEW t \in Tasks, replace(t) PROVE FilesInv'
  BY <1>5, ReplaceStep
<1>6. ASSUME NEW t \in Tasks, iput_done(t) PROVE FilesInv'
  BY <1>6, IputDoneStep
<1>7. ASSUME NEW t \in Tasks, sys_mount(t) PROVE FilesInv'
  BY <1>7, SysMountStep
<1>8. ASSUME NEW t \in Tasks, read_super(t) PROVE FilesInv'
  BY <1>8, ReadSuperStep
<1>9. ASSUME NEW t \in Tasks, mount_done(t) PROVE FilesInv'
  BY <1>9, MountDoneStep
<1>10. ASSUME NEW t \in Tasks, sys_umount(t) PROVE FilesInv'
  BY <1>10, SysUmountStep
<1>11. ASSUME NEW t \in Tasks, umount_device(t) PROVE FilesInv'
  BY <1>11, UmountDeviceStep
<1>12. ASSUME NEW t \in Tasks, NEW d \in Fds, sys_close(t, d) PROVE FilesInv'
  BY <1>12, CloseStep
<1>13. ASSUME NEW t \in Tasks, NEW c \in Tasks, task_fork(t, c) PROVE FilesInv'
  BY <1>13, ForkStep
<1>14. ASSUME NEW t \in Tasks, task_exit(t) PROVE FilesInv'
  BY <1>14, TaskExitStep
<1>15. ASSUME NEW t \in Tasks, exit_step(t) PROVE FilesInv'
  BY <1>15, ExitStep
<1> QED
  BY <1>1, <1>2, <1>3, <1>4, <1>5, <1>6, <1>7, <1>8, <1>9, <1>10, <1>11, <1>12, <1>13, <1>14, <1>15 DEF Next

(* One reference at most counts for i.                                     *)
LEMMA UsesLone ==
    ASSUME NEW X, NEW g, DOMAIN g = X, NEW a \in X, NEW i, \A x \in X : x # a => g[x] # i
    PROVE  Uses(g, i) = Same(g[a], i)
<1>1. CASE g[a] = i
  <2>1. {s \in DOMAIN g : g[s] = i} = {a}
    BY <1>1
  <2>2. Cardinality({a}) = 1
    BY FS_Singleton
  <2> QED
    BY <1>1, <2>1, <2>2 DEF Uses, Same
<1>2. CASE g[a] # i
  <2>1. {s \in DOMAIN g : g[s] = i} = {}
    BY <1>2
  <2>2. Cardinality({}) = 0
    BY FS_EmptySet
  <2> QED
    BY <1>2, <2>1, <2>2 DEF Uses, Same
<1> QED
  BY <1>1, <1>2

(* It holds at the start.                                                  *)
LEMMA InitLemma ==
    Init => FilesInv
<1> SUFFICES ASSUME Init PROVE FilesInv
  OBVIOUS
<1>1. /\ files = [t \in Tasks |-> [d \in Fds |-> IF t = First /\ d = Std THEN Std ELSE None]]
      /\ held = [t \in Tasks |-> [r \in Held |-> IF t = First /\ r # Exec THEN 1 ELSE None]]
      /\ fcount = [f \in FileSlots |-> IF f = Std THEN 2 ELSE 0]
      /\ finode = [f \in FileSlots |-> IF f = Std THEN 2 ELSE None]
      /\ kind = [i \in InodeSlots |-> IF i <= 2 THEN "disk" ELSE "free"]
      /\ nr = [i \in InodeSlots |-> IF i <= 2 THEN i ELSE 0]
      /\ loaded = [i \in InodeSlots |-> i <= 2]
      /\ mount = [i \in InodeSlots |-> FALSE] /\ super = NoSuper
      /\ pc = [t \in Tasks |-> IF t = First THEN User ELSE Gone]
      /\ workload \in Workloads /\ halted = FALSE
  BY DEF Init, IdleRefs
<1>2. Cardinality(Held \ {Exec}) \in Nat
  <2>1. Held \ {Exec} \in SUBSET Held
    OBVIOUS
  <2> QED
    BY <2>1, Consts, FS_Subset, FS_CardinalityType
<1>3. /\ icount \in [InodeSlots -> Nat]
      /\ icount[1] = 4 + Cardinality(Held \ {Exec}) /\ icount[2] = 1
      /\ \A i \in InodeSlots : i # 1 /\ i # 2 => icount[i] = 0
  <2>1. icount = [i \in InodeSlots |-> IF i = 1 THEN 4 + Cardinality(Held \ {Exec}) ELSE IF i = 2 THEN 1 ELSE 0]
    BY DEF Init, KernelRefs
  <2> QED
    BY <1>2, <2>1, Consts
<1>4. FilesTypeOK
  <2>1. NoSuper \in [used : BOOLEAN, iroot : OptInode, imount : OptInode]
    BY DEF NoSuper, OptInode
  <2>2. /\ files \in [Tasks -> [Fds -> FileSlots \cup {None}]] /\ held \in [Tasks -> [Held -> OptInode]]
        /\ fcount \in [FileSlots -> Nat] /\ finode \in [FileSlots -> OptInode]
    BY <1>1, Consts DEF OptInode
  <2>3. /\ kind \in [InodeSlots -> {"free", "disk", "pipe"}] /\ nr \in [InodeSlots -> Nat]
        /\ mount \in [InodeSlots -> BOOLEAN] /\ loaded \in [InodeSlots -> BOOLEAN]
        /\ pc \in [Tasks -> Places]
    BY <1>1, Consts, UserFields
  <2> QED
    BY <1>1, <1>3, <2>1, <2>2, <2>3 DEF FilesTypeOK
<1>5. \A t \in Tasks : pc[t] \in {User, Gone} /\ pc[t].at \in {"user", "gone"} /\ pc[t].inode = None /\ pc[t].slot = None
                       /\ NewOf(pc[t]) = None /\ NodeOf(pc[t]) = None
  <2> TAKE t \in Tasks
  <2>1. pc[t] = User \/ pc[t] = Gone
    BY <1>1
  <2>2. pc[t].at \in {"user", "gone"} /\ pc[t].inode = None /\ pc[t].slot = None
    BY <2>1, UserFields
  <2> QED
    BY <2>1, <2>2, Consts DEF NewOf, NodeOf
<1>6. \A t \in Tasks : \A s : ~Leaving(t, s)
  BY <1>5 DEF Leaving
<1>7. FileCounts
  <2> SUFFICES ASSUME NEW f \in FileSlots PROVE fcount[f] = Uses(Open, f) + IdleRefs(f)
    BY DEF FileCounts
  <2>1. PICK a : a = <<First, Std>>
    OBVIOUS
  <2>2. a \in Tasks \X Fds /\ DOMAIN Open = Tasks \X Fds
    BY <2>1, Consts, RefDomains
  <2>3. Open[a] = Std
    BY <1>1, <1>6, <2>1, Consts, RefValues
  <2>4. \A x \in Tasks \X Fds : x # a => Open[x] # f
    <3>1. \A u \in Tasks, d \in Fds : <<u, d>> # a => Open[<<u, d>>] = None
      BY <1>1, <1>6, <2>1, RefValues
    <3>2. None # f
      BY Consts
    <3> TAKE x \in Tasks \X Fds
    <3>3. PICK u \in Tasks, d \in Fds : x = <<u, d>>
      OBVIOUS
    <3> QED
      BY <3>1, <3>2, <3>3
  <2>5. Uses(Open, f) = Same(Open[a], f)
    BY <2>2, <2>4, UsesLone
  <2> QED
    BY <1>1, <2>3, <2>5 DEF Same, IdleRefs
<1>8. ASSUME NEW i \in InodeSlots PROVE icount[i] = Total(i)
  <2>1. Uses(FileRef, i) = Same(2, i)
    <3>1. Std \in FileSlots /\ DOMAIN FileRef = FileSlots
      BY Consts, RefDomains
    <3>2. FileRef[Std] = 2 /\ \A f \in FileSlots : f # Std => FileRef[f] # i
      BY <1>1, RefValues, Consts
    <3> QED
      BY <3>1, <3>2, UsesLone
  <2>2. Uses(TaskRef, i) = IF i = 1 THEN Cardinality(Held \ {Exec}) ELSE 0
    <3>1. PICK g : g = [r \in Held |-> IF r # Exec THEN 1 ELSE None]
      OBVIOUS
    <3>2. PICK o : o = [x \in Tasks \X Held |-> None]
      OBVIOUS
    <3>3. Uses(g, i) = IF i = 1 THEN Cardinality(Held \ {Exec}) ELSE 0
      <4>1. CASE i = 1
        <5>1. {r \in DOMAIN g : g[r] = i} = Held \ {Exec}
          BY <3>1, <4>1, Consts
        <5> QED
          BY <4>1, <5>1 DEF Uses
      <4>2. CASE i # 1
        <5>1. {r \in DOMAIN g : g[r] = i} = {}
          BY <3>1, <4>2, Consts
        <5> QED
          BY <4>2, <5>1, FS_EmptySet DEF Uses
      <4> QED
        BY <4>1, <4>2
    <3>4. Uses(o, i) = 0
      <4>1. DOMAIN o = Tasks \X Held /\ \A x \in Tasks \X Held : o[x] # i
        BY <3>2, Consts
      <4> QED
        BY <4>1, Consts, UsesSome
    <3>5. PICK p : p = TaskRef
      OBVIOUS
    <3>6. RowAdded(Tasks, Held, First, g, o, p, i)
      <4>1. DOMAIN g = Held /\ DOMAIN o = Tasks \X Held /\ DOMAIN p = Tasks \X Held
        BY <3>1, <3>2, <3>5, RefDomains
      <4>2. \A d \in Held : o[<<First, d>>] # i /\ p[<<First, d>>] = g[d]
        BY <1>1, <1>6, <3>1, <3>2, <3>5, RefValues, Consts
      <4>3. \A t \in Tasks, d \in Held : t # First => p[<<t, d>>] = o[<<t, d>>]
        BY <1>1, <1>6, <3>2, <3>5, RefValues
      <4> QED
        BY ONLY <4>1, <4>2, <4>3 DEF RowAdded
    <3>7. First \in Tasks /\ IsFiniteSet(Tasks) /\ IsFiniteSet(Held)
      BY Consts
    <3>8. Uses(p, i) = Uses(o, i) + Uses(g, i) /\ Uses(g, i) \in Nat
      BY ONLY <3>6, <3>7, UsesRow
    <3> QED
      BY <3>3, <3>4, <3>5, <3>8
  <2>3. Uses(CallRef, i) = 0 /\ Uses(NewRef, i) = 0 /\ Uses(NodeRef, i) = 0
    <3>1. \A t \in Tasks : CallRef[t] # i /\ NewRef[t] # i /\ NodeRef[t] # i
      BY <1>5, Consts DEF CallRef, NewRef, NodeRef
    <3>2. IsFiniteSet(Tasks) /\ DOMAIN CallRef = Tasks /\ DOMAIN NewRef = Tasks /\ DOMAIN NodeRef = Tasks
      BY Consts, RefDomains
    <3> QED
      BY <3>1, <3>2, UsesSome
  <2>4. Uses(SuperRef, i) = 0
    <3>1. super.iroot # i /\ super.imount # i
      BY <1>1, Consts DEF NoSuper
    <3>2. \A k \in {"root", "mount"} : SuperRef[k] # i
      BY <3>1, RefValues
    <3>3. IsFiniteSet({"root", "mount"}) /\ DOMAIN SuperRef = {"root", "mount"}
      BY Consts, RefDomains
    <3> QED
      BY <3>2, <3>3, UsesSome
  <2> QED
    BY <1>2, <1>3, <2>1, <2>2, <2>3, <2>4 DEF Total, Same, KernelRefs
<1>9. InodeCounts
  <2>1. \A i \in InodeSlots : kind[i] = "free" <=> icount[i] = 0
    BY <1>1, <1>2, <1>3, Consts
  <2> QED
    BY <1>8, <2>1 DEF InodeCounts
<1>10. GoneEmpty
  <2>1. \A t \in Tasks : pc[t] = Gone => t # First
    BY <1>1, UserFields
  <2> QED
    BY <1>1, <2>1 DEF GoneEmpty
<1>11. OpenFiles
  BY <1>1, Consts DEF OpenFiles
<1>12. Mounts
  <2>1. \A t \in Tasks : ~Mounting(t) /\ pc[t].at # "super" /\ pc[t].at # "mroot"
    BY <1>5, Consts DEF Mounting
  <2> QED
    BY <1>1, <2>1 DEF Mounts
<1>13. DeviceStays
  BY <1>1, Consts DEF DeviceStays
<1>14. OneInodePerNumber
  BY <1>1, Consts DEF OneInodePerNumber
<1> QED
  BY <1>4, <1>7, <1>9, <1>10, <1>11, <1>12, <1>13, <1>14 DEF FilesInv, RunInv

(* The invariant of open files holds in every state.                       *)
THEOREM FilesInvariant == Spec => []FilesInv
BY InitLemma, NextLemma, PTL DEF Spec

-----------------------------------------------------------------------------
\* What follows from it.

(* file->count is the number of descriptors that share the file, in every  *)
(* state, for any number of processes and files, also while a descriptor's *)
(* inode waits in iput and after a panic.                                  *)
THEOREM FileCountsAlwaysExact == Spec => []FileCountExact
<1>1. FilesInv => FileCountExact
  <2> SUFFICES ASSUME FilesInv, NEW f \in FileSlots
               PROVE  fcount[f] = Cardinality({x \in Tasks \X Fds : files[x[1]][x[2]] = f /\ ~Leaving(x[1], x[2])}) + IdleRefs(f)
    BY DEF FileCountExact
  <2>1. None # f
    BY Consts
  <2>2. {x \in DOMAIN Open : Open[x] = f} = {x \in Tasks \X Fds : files[x[1]][x[2]] = f /\ ~Leaving(x[1], x[2])}
    BY <2>1 DEF Open
  <2>3. fcount[f] = Uses(Open, f) + IdleRefs(f)
    BY DEF FilesInv, FileCounts
  <2> QED
    BY <2>2, <2>3 DEF Uses
<1> QED
  BY <1>1, FilesInvariant, PTL

(* An inode number has one entry in memory, in every state.                *)
THEOREM OneInodeAlways == Spec => []OneInodePerNumber
<1>1. FilesInv => OneInodePerNumber
  BY DEF FilesInv
<1> QED
  BY <1>1, FilesInvariant, PTL

(* The references of the super block as the property counts them.          *)
LEMMA SuperPairs ==
    ASSUME FilesTypeOK, Mounts, NEW i \in InodeSlots
    PROVE  Cardinality({x \in {<<"root", super.iroot>>, <<"mount", super.imount>>} : super.used /\ x[2] = i})
           = Uses(SuperRef, i)
<1>1. PICK a, b : a = super.iroot /\ b = super.imount
  OBVIOUS
<1>2. ~super.used => a # i /\ b # i
  BY <1>1, Consts DEF Mounts, NoSuper
<1>3. PICK x, y : x = <<"root", a>> /\ y = <<"mount", b>>
  OBVIOUS
<1>4. x # y /\ x[2] = a /\ y[2] = b
  BY <1>3
<1>5. PICK S : S = {z \in {x, y} : super.used /\ z[2] = i}
  OBVIOUS
<1>6. Cardinality(S) = Same(a, i) + Same(b, i)
  <2>1. CASE a # i /\ b # i
    <3>1. S = {}
      BY <1>4, <1>5, <2>1
    <3> QED
      BY <2>1, <3>1, FS_EmptySet DEF Same
  <2>2. CASE a = i /\ b # i
    <3>1. S = {x}
      BY <1>2, <1>4, <1>5, <2>2
    <3>2. Cardinality({x}) = 1
      BY FS_Singleton
    <3> QED
      BY <2>2, <3>1, <3>2 DEF Same
  <2>3. CASE a # i /\ b = i
    <3>1. S = {y}
      BY <1>2, <1>4, <1>5, <2>3
    <3>2. Cardinality({y}) = 1
      BY FS_Singleton
    <3> QED
      BY <2>3, <3>1, <3>2 DEF Same
  <2>4. CASE a = i /\ b = i
    <3>1. S = {x} \cup {y}
      BY <1>2, <1>4, <1>5, <2>4
    <3>2. IsFiniteSet({x}) /\ IsFiniteSet({y}) /\ Cardinality({x}) = 1 /\ Cardinality({y}) = 1
      BY FS_Singleton
    <3>3. {x} \cap {y} = {}
      BY <1>4
    <3>4. Cardinality({x} \cup {y}) = Cardinality({x}) + Cardinality({y})
      BY <3>2, <3>3, DisjointCount
    <3> QED
      BY <2>4, <3>1, <3>2, <3>4 DEF Same
  <2> QED
    BY <2>1, <2>2, <2>3, <2>4
<1>7. Uses(SuperRef, i) = Same(a, i) + Same(b, i)
  BY <1>1, SuperUses
<1>8. S = {z \in {<<"root", super.iroot>>, <<"mount", super.imount>>} : super.used /\ z[2] = i}
  BY <1>1, <1>3, <1>5
<1> QED
  BY <1>6, <1>7, <1>8

(* The references that a call will keep, as the property counts them: the  *)
(* inode for a slot and the device's node are never those of one call.     *)
LEMMA CallKeeps ==
    ASSUME FilesTypeOK, Mounts, NEW i \in InodeSlots
    PROVE  Cardinality({t \in Tasks : \/ pc[t].at = "iput" /\ pc[t].slot \in Held /\ pc[t].new = i
                                      \/ pc[t].at = "mroot" /\ pc[t].new = i
                                      \/ pc[t].slot = Mnt /\ i = DeviceNode})
           = Uses(NewRef, i) + Uses(NodeRef, i)
<1>1. PICK A, B : A = {t \in DOMAIN NewRef : NewRef[t] = i} /\ B = {t \in DOMAIN NodeRef : NodeRef[t] = i}
  OBVIOUS
<1>2. A \in SUBSET Tasks /\ B \in SUBSET Tasks
  BY <1>1 DEF NewRef, NodeRef
<1>3. IsFiniteSet(A) /\ IsFiniteSet(B)
  BY <1>2, Consts, FS_Subset
<1>4. None # i
  BY Consts
<1>5. \A t \in Tasks : /\ t \in A <=> \/ pc[t].at = "iput" /\ pc[t].slot \in Held /\ pc[t].new = i
                                      \/ pc[t].at = "mroot" /\ pc[t].new = i
                       /\ t \in B <=> pc[t].slot = Mnt /\ i = DeviceNode
  BY <1>1, <1>4 DEF NewRef, NodeRef, NewOf, NodeOf
<1>6. A \cap B = {}
  <2> SUFFICES ASSUME NEW t \in Tasks, t \in A, t \in B PROVE FALSE
    BY <1>2
  <2>1. pc[t].slot = Mnt /\ i = DeviceNode /\ Mnt \notin Held
    BY <1>5, Consts
  <2>2. pc[t].at = "mroot" /\ pc[t].new = DeviceNode
    BY <1>5, <2>1
  <2> QED
    BY <2>2 DEF Mounts
<1>7. Cardinality(A \cup B) = Cardinality(A) + Cardinality(B)
  BY <1>3, <1>6, DisjointCount
<1>8. A \cup B = {t \in Tasks : \/ pc[t].at = "iput" /\ pc[t].slot \in Held /\ pc[t].new = i
                                \/ pc[t].at = "mroot" /\ pc[t].new = i
                                \/ pc[t].slot = Mnt /\ i = DeviceNode}
  BY <1>2, <1>5
<1>9. Uses(NewRef, i) = Cardinality(A) /\ Uses(NodeRef, i) = Cardinality(B)
  BY <1>1 DEF Uses
<1> QED
  BY <1>7, <1>8, <1>9

(* inode->count is the number of files, processes, calls under way and     *)
(* mounted file systems that refer to the inode, and an entry is free      *)
(* exactly when there is none, as long as the kernel has not stopped: for  *)
(* any number of processes, and whatever calls wait for the disk.          *)
THEOREM InodeCountsAlwaysExact == Spec => []InodeCountExact
<1>1. FilesInv => InodeCountExact
  <2> SUFFICES ASSUME FilesInv, ~halted PROVE InodeCountExact
    BY DEF InodeCountExact
  <2> DEFINE byFile(i) == {f \in FileSlots : fcount[f] > 0 /\ finode[f] = i}
             byTask(i) == {x \in Tasks \X Held : held[x[1]][x[2]] = i /\ ~Leaving(x[1], x[2])}
             byCall(i) == {t \in Tasks : pc[t].inode = i}
             byNew(i) == {t \in Tasks :
                           \/ pc[t].at = "iput" /\ pc[t].slot \in Held /\ pc[t].new = i
                           \/ pc[t].at = "mroot" /\ pc[t].new = i
                           \/ pc[t].slot = Mnt /\ i = DeviceNode}
             bySuper(i) == {x \in {<<"root", super.iroot>>, <<"mount", super.imount>>} : super.used /\ x[2] = i}
  <2>1. FilesTypeOK /\ InodeCounts /\ Mounts
    BY DEF FilesInv, RunInv
  <2>2. ASSUME NEW i \in InodeSlots
        PROVE  /\ icount[i] = Cardinality(byFile(i)) + Cardinality(byTask(i)) + Cardinality(byCall(i))
                              + Cardinality(byNew(i)) + Cardinality(bySuper(i)) + KernelRefs(i)
               /\ kind[i] = "free" <=> icount[i] = 0
    <3>1. None # i
      BY Consts
    <3>2. Uses(FileRef, i) = Cardinality(byFile(i))
      <4>1. {f \in DOMAIN FileRef : FileRef[f] = i} = byFile(i)
        BY <3>1 DEF FileRef
      <4> QED
        BY <4>1 DEF Uses
    <3>3. Uses(TaskRef, i) = Cardinality(byTask(i))
      <4>1. {x \in DOMAIN TaskRef : TaskRef[x] = i} = byTask(i)
        BY <3>1 DEF TaskRef
      <4> QED
        BY <4>1 DEF Uses
    <3>4. Uses(CallRef, i) = Cardinality(byCall(i))
      <4>1. {t \in DOMAIN CallRef : CallRef[t] = i} = byCall(i)
        BY DEF CallRef
      <4> QED
        BY <4>1 DEF Uses
    <3>5. Cardinality(byNew(i)) = Uses(NewRef, i) + Uses(NodeRef, i)
      BY <2>1, CallKeeps
    <3>6. Cardinality(bySuper(i)) = Uses(SuperRef, i)
      BY <2>1, SuperPairs
    <3> HIDE DEF byFile, byTask, byCall, byNew, bySuper
    <3>7. icount[i] = Total(i) /\ (kind[i] = "free" <=> icount[i] = 0)
      BY <2>1 DEF InodeCounts
    <3> QED
      BY <3>2, <3>3, <3>4, <3>5, <3>6, <3>7, UsesNat DEF Total
  <2> QED
    BY <2>2 DEF InodeCountExact
<1> QED
  BY <1>1, FilesInvariant, PTL
=============================================================================
