-------------------------- MODULE AllMemory_proofs --------------------------
(***************************************************************************)
(* The memory of user programs, for any number of processes, pages and     *)
(* physical pages: the reference counts are exact, the mmap area is what   *)
(* vmap says, and a process keeps its private pages after fork.  The       *)
(* memory of the kernel, for any sizes of pages and blocks: what is handed *)
(* out is handed out once.                                                 *)
(***************************************************************************)
EXTENDS AllMemory, SequenceLemmas, FiniteSetTheorems, TLAPS

\* What refers to the frame f: page entries, page tables.
EntryRefs(e, f) == {x \in Tasks \X Pages : e[x[1]][x[2]].frame = f}
TableRefs(tb, f) == {x \in Tasks \X Dirs : tb[x[1]][x[2]] = f}

\* How often one reference counts.
Same(g, f) == IF g = f THEN 1 ELSE 0

\* Those of the process t.
EntryRow(e, t, f) == {v \in Pages : e[t][v].frame = f}
TableRow(tb, t, f) == {d \in Dirs : tb[t][d] = f}

Entries == [frame : Frames \cup {None}, write : BOOLEAN, shared : BOOLEAN, readonly : BOOLEAN]

MemTypeOK == /\ memory_map \in [Frames -> Int] /\ free_pages \in Int
             /\ table \in [Tasks -> [Dirs -> Frames \cup {None}]]
             /\ entry \in [Tasks -> [Pages -> Entries]]
             /\ brk \in [Tasks -> 0 .. NHeap] /\ end \in [Tasks -> 0 .. NHeap]
             /\ vmap \in [Tasks -> SUBSET Map]
             /\ alive \in SUBSET Tasks /\ loading \in SUBSET alive
             /\ halted \in BOOLEAN /\ bypassed \in BOOLEAN
             /\ writes \in Nat
             /\ data \in [Frames -> Nat] /\ view \in [Tasks -> [Pages -> Nat]]

\* The kernel's own pages have one reference that is never given up.
Pinned(f) == IF f <= NKernel THEN 1 ELSE 0

AllRefsExact ==
    \A f \in Frames : memory_map[f] = Cardinality(EntryRefs(entry, f)) + Cardinality(TableRefs(table, f)) + Pinned(f)

\* A process that is gone has given up its page tables and pages.
DeadEmpty == \A t \in Tasks \ alive : /\ \A d \in Dirs : table[t][d] = None
                                      /\ \A v \in Pages : entry[t][v].frame = None

\* A page that two entries refer to is shared by both on purpose, or still to
\* be copied by both.
CopyOnWrite == ~bypassed =>
    \A t, u \in Tasks, v, w \in Pages :
        (/\ <<t, v>> # <<u, w>> /\ Present(t, v)
         /\ entry[t][v].frame = entry[u][w].frame /\ ~entry[t][v].shared)
           => ~entry[u][w].write /\ ~entry[u][w].shared

MemInv == MemTypeOK /\ AllRefsExact /\ DeadEmpty /\ MapAreaExact /\ CopyOnWrite /\ Isolation
-----------------------------------------------------------------------------
\* Counting.

(* Pairs with the first component t are as many as their second components.*)
LEMMA RowCount ==
    ASSUME NEW t, NEW a, IsFiniteSet(a), NEW P, P = {t} \X a
    PROVE  IsFiniteSet(P) /\ Cardinality(P) = Cardinality(a)
<1>1. IsFiniteSet({t}) /\ Cardinality({t}) = 1
  BY FS_Singleton
<1>2. IsFiniteSet({t} \X a) /\ Cardinality({t} \X a) = Cardinality({t}) * Cardinality(a)
  BY <1>1, FS_Product
<1>3. Cardinality(a) \in Nat
  BY FS_CardinalityType
<1>4. Cardinality({t} \X a) = Cardinality(a)
  BY <1>1, <1>2, <1>3
<1> QED
  BY <1>2, <1>4, Zenon

-----------------------------------------------------------------------------
\* The n-th free page.

(* In a set S of numbers from 1 to N the ranks run from 1 to its size.     *)
LEMMA RankLemma ==
    ASSUME NEW N \in Nat, NEW S \in SUBSET (1 .. N)
    PROVE  /\ IsFiniteSet(S)
           /\ \A x \in S : Rank(x, S) \in 1 .. Cardinality(S)
           /\ \A x, y \in S : Rank(x, S) = Rank(y, S) => x = y
           /\ \A n \in 1 .. Cardinality(S) : \E x \in S : Rank(x, S) = n
<1> DEFINE Below(k) == {y \in S : y <= k}
<1>0. \A y \in S : y \in Int /\ 1 <= y /\ y <= N
  OBVIOUS
<1>1. IsFiniteSet(S) /\ Cardinality(S) \in Nat
  <2>1. IsFiniteSet(1 .. N)
    BY FS_Interval
  <2> QED
    BY <2>1, FS_Subset, FS_CardinalityType
<1>2. \A k \in Int : IsFiniteSet(Below(k)) /\ Cardinality(Below(k)) \in Nat /\ Cardinality(Below(k)) <= Cardinality(S)
  <2> TAKE k \in Int
  <2>1. Below(k) \in SUBSET S
    OBVIOUS
  <2> QED
    BY <1>1, <2>1, FS_Subset, FS_CardinalityType
<1>3. \A k \in Int : k \in S => Cardinality(Below(k)) = Cardinality(Below(k - 1)) + 1
  <2> SUFFICES ASSUME NEW k \in Int, k \in S PROVE Cardinality(Below(k)) = Cardinality(Below(k - 1)) + 1
    OBVIOUS
  <2>c. \A y \in S : (y <= k) <=> (y <= k - 1 \/ y = k)
    BY <1>0
  <2>a. \A y : y \in Below(k) <=> (y \in Below(k - 1) \/ y = k)
    BY <2>c, Zenon
  <2>b. k \notin Below(k - 1)
    OBVIOUS
  <2>1. Below(k) = Below(k - 1) \cup {k} /\ k \notin Below(k - 1)
    <3> HIDE DEF Below
    <3> QED
      BY <2>a, <2>b
  <2>2. IsFiniteSet(Below(k - 1))
    <3>1. k - 1 \in Int
      OBVIOUS
    <3> HIDE DEF Below
    <3> QED
      BY <1>2, <3>1
  <2> QED
    BY <2>1, <2>2, FS_AddElement
<1>4. \A k \in Int : k \notin S => Cardinality(Below(k)) = Cardinality(Below(k - 1))
  <2> SUFFICES ASSUME NEW k \in Int, k \notin S PROVE Cardinality(Below(k)) = Cardinality(Below(k - 1))
    OBVIOUS
  <2>b. \A y \in S : (y <= k) <=> (y <= k - 1)
    BY <1>0
  <2>a. \A y : y \in Below(k) <=> y \in Below(k - 1)
    BY <2>b, Zenon
  <2>1. Below(k) = Below(k - 1)
    <3> HIDE DEF Below
    <3> QED
      BY <2>a
  <2> QED
    BY <2>1
<1>5. \A j, k \in Int : j <= k => Cardinality(Below(j)) <= Cardinality(Below(k))
  <2> SUFFICES ASSUME NEW j \in Int, NEW k \in Int, j <= k
               PROVE  Cardinality(Below(j)) <= Cardinality(Below(k))
    OBVIOUS
  <2>1. \A y \in Below(j) : y \in Below(k)
    BY <1>0
  <2>2. IsFiniteSet(Below(k))
    BY <1>2
  <2>3. Below(j) \in SUBSET Below(k)
    <3> HIDE DEF Below
    <3> QED
      BY <2>1
  <2> QED
    BY <2>2, <2>3, FS_Subset
<1>6. Cardinality(Below(0)) = 0 /\ Cardinality(Below(N)) = Cardinality(S)
  <2>a. \A y \in S : ~ (y <= 0) /\ y <= N
    BY <1>0
  <2>1. \A y : y \notin Below(0) /\ (y \in Below(N) <=> y \in S)
    BY <2>a, Zenon
  <2>2. Below(0) = {} /\ Below(N) = S
    <3> HIDE DEF Below
    <3> QED
      BY <2>1
  <2> QED
    BY <2>2, FS_EmptySet
<1>7. \A x : Rank(x, S) = Cardinality(Below(x))
  BY DEF Rank
<1> HIDE DEF Below
<1>8. \A x \in S : Rank(x, S) \in 1 .. Cardinality(S)
  <2> TAKE x \in S
  <2>1. x \in Int /\ x - 1 \in Int
    OBVIOUS
  <2> QED
    BY <1>1, <1>2, <1>3, <1>7, <2>1
<1>9. \A x, y \in S : x < y => Rank(x, S) < Rank(y, S)
  <2> SUFFICES ASSUME NEW x \in S, NEW y \in S, x < y PROVE Rank(x, S) < Rank(y, S)
    OBVIOUS
  <2>1. x \in Int /\ y \in Int /\ y - 1 \in Int /\ x <= y - 1
    OBVIOUS
  <2> QED
    BY <1>2, <1>3, <1>5, <1>7, <2>1
<1>10. \A x, y \in S : Rank(x, S) = Rank(y, S) => x = y
  <2> SUFFICES ASSUME NEW x \in S, NEW y \in S, Rank(x, S) = Rank(y, S) PROVE x = y
    OBVIOUS
  <2>1. x \in Int /\ y \in Int /\ Rank(x, S) \in Int
    BY <1>8, <1>1
  <2> QED
    BY <1>9, <2>1
<1>11. \A n \in 1 .. Cardinality(S) : \E x \in S : Rank(x, S) = n
  <2> SUFFICES ASSUME NEW n \in 1 .. Cardinality(S) PROVE \E x \in S : Rank(x, S) = n
    OBVIOUS
  <2> DEFINE K == {k \in Nat : Cardinality(Below(k)) >= n}
  <2>1. K \in SUBSET Nat /\ N \in K
    BY <1>1, <1>6
  <2>2. PICK k \in K : \A j \in K : k <= j
    BY <2>1, LeastNat
  <2>3. n \in Nat /\ n >= 1 /\ k \in Nat /\ Cardinality(Below(k)) >= n
    BY <1>1
  <2>4. k # 0
    BY <1>6, <2>3
  <2>5. k - 1 \in Nat /\ k - 1 \in Int /\ k \in Int /\ ~ (k <= k - 1)
    BY <2>3, <2>4
  <2>6. ~ (Cardinality(Below(k - 1)) >= n)
    BY <2>2, <2>5
  <2>7. Cardinality(Below(k - 1)) \in Nat /\ Cardinality(Below(k)) \in Nat
    BY <1>2, <2>5
  <2>8. k \in S
    BY <1>4, <2>3, <2>5, <2>6
  <2>9. Cardinality(Below(k)) = n
    BY <1>3, <2>3, <2>5, <2>6, <2>7, <2>8
  <2> QED
    BY <1>7, <2>8, <2>9
<1> QED
  BY <1>1, <1>8, <1>10, <1>11

-----------------------------------------------------------------------------
\* References.

(* The areas of an address space are apart; all the sets are finite.       *)
LEMMA Areas ==
    /\ NHeap \in Nat /\ NMap \in Nat /\ NStack \in Nat /\ NFrames \in Nat /\ NKernel \in Nat
    /\ Heap \subseteq Pages /\ Map \subseteq Pages /\ Stack \subseteq Pages /\ Pages \subseteq Nat
    /\ Heap \cap Map = {} /\ Stack \cap Map = {}
    /\ \A v \in Pages : Dir(v) \in Dirs
    /\ None \notin Frames /\ Frames \subseteq Nat
    /\ IsFiniteSet(Tasks) /\ IsFiniteSet(Pages) /\ IsFiniteSet(Dirs) /\ IsFiniteSet(Frames)
<1>1. NHeap \in Nat /\ NMap \in Nat /\ NStack \in Nat /\ NFrames \in Nat /\ NKernel \in Nat
  BY MemoryAssumption
<1>2. /\ IsFiniteSet(Heap) /\ IsFiniteSet(Map) /\ IsFiniteSet(Stack)
      /\ IsFiniteSet(Dirs) /\ IsFiniteSet(Frames)
  <2>1. \A a, b \in Int : IsFiniteSet(a .. b)
    BY FS_Interval
  <2>2. /\ 1 \in Int /\ 3 \in Int /\ NHeap \in Int /\ NHeap + 1 \in Int /\ NHeap + NMap \in Int
        /\ NHeap + NMap + 1 \in Int /\ NHeap + NMap + NStack \in Int /\ NFrames \in Int
    BY <1>1
  <2> QED
    BY <2>1, <2>2 DEF Heap, Map, Stack, Dirs, Frames
<1>3. IsFiniteSet(Pages)
  BY <1>2, FS_Union DEF Pages
<1>4. Heap \subseteq Pages /\ Map \subseteq Pages /\ Stack \subseteq Pages
  BY DEF Pages
<1>5. Pages \subseteq Nat
  BY <1>1 DEF Pages, Heap, Map, Stack
<1>6. (\A v \in Heap : v \notin Map) /\ \A v \in Stack : v \notin Map
  BY <1>1 DEF Heap, Map, Stack
<1>7. \A v \in Pages : Dir(v) \in Dirs
  BY DEF Dir, Dirs
<1>8. None \notin Frames /\ Frames \subseteq Nat
  BY <1>1 DEF None, Frames
<1> QED
  BY <1>1, <1>2, <1>3, <1>4, <1>5, <1>6, <1>7, <1>8, MemoryAssumption

(* A frame has finitely many references.                                   *)
LEMMA RefsFinite ==
    ASSUME NEW e, NEW tb, NEW f
    PROVE  /\ IsFiniteSet(EntryRefs(e, f)) /\ Cardinality(EntryRefs(e, f)) \in Nat
           /\ IsFiniteSet(TableRefs(tb, f)) /\ Cardinality(TableRefs(tb, f)) \in Nat
<1>1. IsFiniteSet(Tasks \X Pages) /\ IsFiniteSet(Tasks \X Dirs)
  BY Areas, FS_Product
<1>2. EntryRefs(e, f) \in SUBSET (Tasks \X Pages) /\ TableRefs(tb, f) \in SUBSET (Tasks \X Dirs)
  BY DEF EntryRefs, TableRefs
<1> QED
  BY <1>1, <1>2, FS_Subset, FS_CardinalityType

(* Nothing refers to a page that get_page may return.                      *)
LEMMA FreeUnused ==
    ASSUME AllRefsExact, NEW f \in Free
    PROVE  /\ f \in Frames /\ memory_map[f] = 0 /\ Pinned(f) = 0
           /\ EntryRefs(entry, f) = {} /\ TableRefs(table, f) = {}
           /\ \A t \in Tasks, v \in Pages : entry[t][v].frame # f
           /\ \A t \in Tasks, d \in Dirs : table[t][d] # f
<1>1. f \in Frames /\ memory_map[f] = 0
  BY DEF Free
<1>2. memory_map[f] = Cardinality(EntryRefs(entry, f)) + Cardinality(TableRefs(table, f)) + Pinned(f)
  BY <1>1 DEF AllRefsExact
<1>3. Pinned(f) \in {0, 1}
  BY DEF Pinned
<1>4. Cardinality(EntryRefs(entry, f)) = 0 /\ Cardinality(TableRefs(table, f)) = 0 /\ Pinned(f) = 0
  BY <1>1, <1>2, <1>3, RefsFinite
<1>5. EntryRefs(entry, f) = {} /\ TableRefs(table, f) = {}
  BY <1>4, RefsFinite, FS_EmptySet
<1>6. \A t \in Tasks, v \in Pages : entry[t][v].frame # f
  <2> SUFFICES ASSUME NEW t \in Tasks, NEW v \in Pages, entry[t][v].frame = f PROVE FALSE
    OBVIOUS
  <2>1. <<t, v>> \in EntryRefs(entry, f)
    BY DEF EntryRefs
  <2> QED
    BY <1>5, <2>1
<1>7. \A t \in Tasks, d \in Dirs : table[t][d] # f
  <2> SUFFICES ASSUME NEW t \in Tasks, NEW d \in Dirs, table[t][d] = f PROVE FALSE
    OBVIOUS
  <2>1. <<t, d>> \in TableRefs(table, f)
    BY DEF TableRefs
  <2> QED
    BY <1>5, <2>1
<1> QED
  BY <1>1, <1>4, <1>5, <1>6, <1>7

(* A page with one reference is referred to by no other entry.             *)
LEMMA SoleReference ==
    ASSUME AllRefsExact, NEW t \in Tasks, NEW v \in Pages, NEW f \in Frames,
           entry[t][v].frame = f, memory_map[f] = 1
    PROVE  \A u \in Tasks, w \in Pages : entry[u][w].frame = f => <<u, w>> = <<t, v>>
<1>1. memory_map[f] = Cardinality(EntryRefs(entry, f)) + Cardinality(TableRefs(table, f)) + Pinned(f)
  BY DEF AllRefsExact
<1>2. Pinned(f) \in {0, 1}
  BY DEF Pinned
<1>3. Cardinality(EntryRefs(entry, f)) <= 1
  BY <1>1, <1>2, RefsFinite
<1>4. <<t, v>> \in EntryRefs(entry, f)
  BY DEF EntryRefs
<1>5. SUFFICES ASSUME NEW u \in Tasks, NEW w \in Pages, entry[u][w].frame = f, <<u, w>> # <<t, v>>
               PROVE  FALSE
  OBVIOUS
<1>6. <<u, w>> \in EntryRefs(entry, f) \ {<<t, v>>}
  BY <1>5 DEF EntryRefs
<1>7. /\ IsFiniteSet(EntryRefs(entry, f) \ {<<t, v>>})
      /\ Cardinality(EntryRefs(entry, f) \ {<<t, v>>}) = Cardinality(EntryRefs(entry, f)) - 1
  BY <1>4, RefsFinite, FS_RemoveElement
<1>8. Cardinality(EntryRefs(entry, f) \ {<<t, v>>}) = 0
  BY <1>3, <1>7, RefsFinite, FS_CardinalityType
<1> QED
  BY <1>6, <1>7, <1>8, FS_EmptySet

(* get_page called n times returns n different free pages.                 *)
LEMMA GetPages ==
    ASSUME NEW n \in Nat, CanGet(n)
    PROVE  /\ \A i \in 1 .. n : get_page(i) \in Free /\ get_page(i) \in Frames
           /\ \A i, j \in 1 .. n : get_page(i) = get_page(j) => i = j
<1>1. Free \in SUBSET (1 .. NFrames) /\ NFrames \in Nat
  BY Areas DEF Free, Frames
<1>2. /\ IsFiniteSet(Free)
      /\ \A k \in 1 .. Cardinality(Free) : \E x \in Free : Rank(x, Free) = k
  BY <1>1, RankLemma
<1>3. Cardinality(Free) \in Nat /\ n <= Cardinality(Free)
  BY <1>2, FS_CardinalityType DEF CanGet
<1>4. \A i \in 1 .. n : get_page(i) \in Free /\ Rank(get_page(i), Free) = i
  <2> TAKE i \in 1 .. n
  <2>1. i \in 1 .. Cardinality(Free)
    BY <1>3
  <2>2. \E x \in Free : Rank(x, Free) = i
    BY <1>2, <2>1
  <2> QED
    BY <2>2 DEF get_page, Nth
<1>5. Free \subseteq Frames
  BY DEF Free
<1> QED
  BY <1>4, <1>5

(* One page entry changes: only the frames it referred to and refers to    *)
(* now are counted differently.                                            *)
LEMMA EntrySwap ==
    ASSUME NEW e, NEW e2, NEW t \in Tasks, NEW v \in Pages, NEW f,
           \A u \in Tasks, w \in Pages : <<u, w>> # <<t, v>> => e2[u][w].frame = e[u][w].frame
    PROVE  Cardinality(EntryRefs(e2, f)) = Cardinality(EntryRefs(e, f))
               - Same(e[t][v].frame, f) + Same(e2[t][v].frame, f)
<1>1. \A x : x # <<t, v>> => (x \in EntryRefs(e, f) <=> x \in EntryRefs(e2, f))
  BY DEF EntryRefs
<1>2. /\ <<t, v>> \in EntryRefs(e, f) <=> e[t][v].frame = f
      /\ <<t, v>> \in EntryRefs(e2, f) <=> e2[t][v].frame = f
  BY DEF EntryRefs
<1>3. IsFiniteSet(EntryRefs(e, f)) /\ Cardinality(EntryRefs(e, f)) \in Nat
  BY RefsFinite
<1>4. LET A == EntryRefs(e, f)
          B == EntryRefs(e2, f)
          x == <<t, v>>
      IN  /\ x \in A /\ x \in B => Cardinality(B) = Cardinality(A)
          /\ x \notin A /\ x \notin B => Cardinality(B) = Cardinality(A)
          /\ x \in A /\ x \notin B => Cardinality(B) = Cardinality(A) - 1
          /\ x \notin A /\ x \in B => Cardinality(B) = Cardinality(A) + 1
  BY <1>1, <1>3, SwapCount
<1> QED
  BY <1>2, <1>3, <1>4 DEF Same

(* The same for one page table.                                            *)
LEMMA TableSwap ==
    ASSUME NEW tb, NEW tb2, NEW t \in Tasks, NEW d \in Dirs, NEW f,
           \A u \in Tasks, c \in Dirs : <<u, c>> # <<t, d>> => tb2[u][c] = tb[u][c]
    PROVE  Cardinality(TableRefs(tb2, f)) = Cardinality(TableRefs(tb, f))
               - Same(tb[t][d], f) + Same(tb2[t][d], f)
<1>1. \A x : x # <<t, d>> => (x \in TableRefs(tb, f) <=> x \in TableRefs(tb2, f))
  BY DEF TableRefs
<1>2. /\ <<t, d>> \in TableRefs(tb, f) <=> tb[t][d] = f
      /\ <<t, d>> \in TableRefs(tb2, f) <=> tb2[t][d] = f
  BY DEF TableRefs
<1>3. IsFiniteSet(TableRefs(tb, f)) /\ Cardinality(TableRefs(tb, f)) \in Nat
  BY RefsFinite
<1>4. LET A == TableRefs(tb, f)
          B == TableRefs(tb2, f)
          x == <<t, d>>
      IN  /\ x \in A /\ x \in B => Cardinality(B) = Cardinality(A)
          /\ x \notin A /\ x \notin B => Cardinality(B) = Cardinality(A)
          /\ x \in A /\ x \notin B => Cardinality(B) = Cardinality(A) - 1
          /\ x \notin A /\ x \in B => Cardinality(B) = Cardinality(A) + 1
  BY <1>1, <1>3, SwapCount
<1> QED
  BY <1>2, <1>3, <1>4 DEF Same

(* link_page takes a page, and a page table if need be, that nobody has,   *)
(* and counts them once.                                                   *)
LEMMA LinkLemma ==
    ASSUME MemTypeOK, AllRefsExact, NEW t \in Tasks, NEW v \in Pages, NEW e \in Entries,
           CanGet(Needed(t, v)), link_page(t, v),
           entry' = [entry EXCEPT ![t][v] = e], e.frame = LinkedEntry(t, v).frame
    PROVE  /\ AllRefsExact'
           /\ memory_map' \in [Frames -> Int] /\ free_pages' \in Int
           /\ table' \in [Tasks -> [Dirs -> Frames \cup {None}]]
           /\ entry' \in [Tasks -> [Pages -> Entries]]
           /\ \A u \in Tasks \ {t} : table'[u] = table[u]
           /\ e.frame \in Frames
           /\ Present(t, v) => e.frame = entry[t][v].frame
           /\ ~Present(t, v) => e.frame \in Free
<1> DEFINE n == Needed(t, v)
           d == Dir(v)
<1>1. n \in {0, 1, 2} /\ n \in Nat /\ CanGet(n)
  BY DEF Needed
<1>2. /\ \A i \in 1 .. n : get_page(i) \in Free /\ get_page(i) \in Frames
      /\ \A i, j \in 1 .. n : get_page(i) = get_page(j) => i = j
  <2> HIDE DEF n
  <2> QED
    BY <1>1, GetPages
<1>3. d \in Dirs
  BY Areas
<1>4. entry' \in [Tasks -> [Pages -> Entries]]
  BY DEF MemTypeOK
<1>5. /\ entry'[t][v] = e
      /\ \A u \in Tasks, w \in Pages : <<u, w>> # <<t, v>> => entry'[u][w].frame = entry[u][w].frame
  BY DEF MemTypeOK
<1>6. free_pages' \in Int
  BY <1>1 DEF link_page, MemTypeOK
<1>7. \A f \in Frames : memory_map'[f] = IF \E i \in 1 .. n : f = get_page(i) THEN 1 ELSE memory_map[f]
  BY DEF link_page, Counted, MemTypeOK
<1>8. memory_map' \in [Frames -> Int]
  <2>1. memory_map' = [f \in Frames |-> memory_map'[f]]
    BY DEF link_page, Counted
  <2>2. \A f \in Frames : memory_map'[f] \in Int
    BY <1>7 DEF MemTypeOK
  <2> QED
    BY <2>1, <2>2
<1>9. table' = [table EXCEPT ![t][d] = IF n = 2 THEN get_page(1) ELSE table[t][d]]
  BY DEF link_page
<1>10. /\ table' \in [Tasks -> [Dirs -> Frames \cup {None}]]
       /\ \A u \in Tasks \ {t} : table'[u] = table[u]
       /\ table'[t][d] = IF n = 2 THEN get_page(1) ELSE table[t][d]
       /\ \A u \in Tasks, c \in Dirs : <<u, c>> # <<t, d>> => table'[u][c] = table[u][c]
  <2> HIDE DEF n, d
  <2>1. (IF n = 2 THEN get_page(1) ELSE table[t][d]) \in Frames \cup {None}
    BY <1>1, <1>2, <1>3 DEF MemTypeOK
  <2> HIDE DEF get_page, Nth
  <2> QED
    BY <1>3, <1>9, <2>1 DEF MemTypeOK
<1>11. \A f \in Frames :
           /\ Cardinality(EntryRefs(entry', f)) = Cardinality(EntryRefs(entry, f))
                - Same(entry[t][v].frame, f) + Same(e.frame, f)
           /\ Cardinality(TableRefs(table', f)) = Cardinality(TableRefs(table, f))
                - Same(table[t][d], f) + Same(table'[t][d], f)
  <2> TAKE f \in Frames
  <2>1. Cardinality(EntryRefs(entry', f)) = Cardinality(EntryRefs(entry, f))
                - Same(entry[t][v].frame, f) + Same(entry'[t][v].frame, f)
    BY ONLY <1>5, EntrySwap, t \in Tasks, v \in Pages
  <2>2. Cardinality(TableRefs(table', f)) = Cardinality(TableRefs(table, f))
                - Same(table[t][d], f) + Same(table'[t][d], f)
    <3> HIDE DEF d, n
    <3> QED
      BY ONLY <1>3, <1>10, TableSwap, t \in Tasks
  <2> QED
    BY <1>5, <2>1, <2>2
<1>12. \A f \in Frames : /\ memory_map[f] = Cardinality(EntryRefs(entry, f)) + Cardinality(TableRefs(table, f)) + Pinned(f)
                         /\ Cardinality(EntryRefs(entry, f)) \in Nat /\ Cardinality(TableRefs(table, f)) \in Nat
                         /\ Pinned(f) \in Nat
  BY RefsFinite DEF AllRefsExact, Pinned
<1>13. \A f \in Free : /\ f \in Frames /\ memory_map[f] = 0
                       /\ entry[t][v].frame # f /\ table[t][d] # f
  BY <1>3, FreeUnused
<1>14. \A f \in Frames : memory_map'[f] = memory_map[f]
             - Same(entry[t][v].frame, f) + Same(e.frame, f)
             - Same(table[t][d], f) + Same(table'[t][d], f)
  <2>1. CASE Present(t, v)
    <3>1. n = 0 /\ e.frame = entry[t][v].frame /\ table'[t][d] = table[t][d]
      BY <1>10, <2>1 DEF Needed, LinkedEntry
    <3>2. \A f \in Frames : memory_map'[f] = memory_map[f]
      BY <1>7, <3>1
    <3> HIDE DEF d, n
    <3> TAKE f \in Frames
    <3>3. memory_map[f] \in Int /\ memory_map'[f] = memory_map[f]
      BY <3>2 DEF MemTypeOK
    <3> QED
      BY <3>1, <3>3 DEF Same
  <2>2. CASE ~Present(t, v) /\ table[t][d] # None
    <3>1. n = 1 /\ e.frame = get_page(1) /\ table'[t][d] = table[t][d]
      BY <1>10, <2>2 DEF Needed, LinkedEntry, entry_init
    <3> HIDE DEF d, n
    <3>2. \A f \in Frames : memory_map'[f] = IF f = get_page(1) THEN 1 ELSE memory_map[f]
      BY <1>7, <3>1
    <3>3. get_page(1) \in Free /\ \A f \in Frames : entry[t][v].frame # f
      BY <1>2, <2>2, <3>1, Areas DEF Present
    <3> TAKE f \in Frames
    <3>4. memory_map[f] \in Int /\ entry[t][v].frame # f
      BY <3>3 DEF MemTypeOK
    <3>5. memory_map'[f] = IF f = get_page(1) THEN 1 ELSE memory_map[f]
      BY <3>2
    <3>6. f = get_page(1) => memory_map[f] = 0
      BY <1>13, <3>3
    <3> HIDE DEF get_page, Nth
    <3> QED
      BY <3>1, <3>4, <3>5, <3>6 DEF Same
  <2>3. CASE ~Present(t, v) /\ table[t][d] = None
    <3>1. n = 2 /\ e.frame = get_page(2) /\ table'[t][d] = get_page(1)
      BY <1>10, <2>3 DEF Needed, LinkedEntry, entry_init
    <3> HIDE DEF d, n
    <3>2. \A f \in Frames : memory_map'[f] = IF f = get_page(1) \/ f = get_page(2) THEN 1 ELSE memory_map[f]
      BY <1>7, <3>1
    <3>3. /\ get_page(1) \in Free /\ get_page(2) \in Free /\ get_page(1) # get_page(2)
          /\ \A f \in Frames : entry[t][v].frame # f /\ table[t][d] # f
      BY <1>2, <2>3, <3>1, Areas DEF Present
    <3> TAKE f \in Frames
    <3>4. memory_map[f] \in Int /\ entry[t][v].frame # f /\ table[t][d] # f
      BY <3>3 DEF MemTypeOK
    <3>5. memory_map'[f] = IF f = get_page(1) \/ f = get_page(2) THEN 1 ELSE memory_map[f]
      BY <3>2
    <3>6. f = get_page(1) \/ f = get_page(2) => memory_map[f] = 0
      BY <1>13, <3>3
    <3> HIDE DEF get_page, Nth
    <3> QED
      BY <3>1, <3>3, <3>4, <3>5, <3>6 DEF Same
  <2> QED
    BY <2>1, <2>2, <2>3
<1>15. AllRefsExact'
  <2> SUFFICES ASSUME NEW f \in Frames
               PROVE  memory_map'[f] = Cardinality(EntryRefs(entry', f)) + Cardinality(TableRefs(table', f)) + Pinned(f)
    BY DEF AllRefsExact, EntryRefs, TableRefs, Pinned
  <2> DEFINE a == Same(entry[t][v].frame, f)
             b == Same(e.frame, f)
             x == Same(table[t][d], f)
             y == Same(table'[t][d], f)
  <2>1. /\ Cardinality(EntryRefs(entry', f)) = Cardinality(EntryRefs(entry, f)) - a + b
        /\ Cardinality(TableRefs(table', f)) = Cardinality(TableRefs(table, f)) - x + y
    BY <1>11
  <2>2. memory_map'[f] = memory_map[f] - a + b - x + y
    BY <1>14
  <2>3. a \in Int /\ b \in Int /\ x \in Int /\ y \in Int
    BY DEF Same
  <2> HIDE DEF a, b, x, y
  <2> QED
    BY <1>12, <2>1, <2>2, <2>3
<1>16. /\ e.frame \in Frames
       /\ Present(t, v) => e.frame = entry[t][v].frame
       /\ ~Present(t, v) => e.frame \in Free
  <2>1. CASE Present(t, v)
    BY <2>1 DEF LinkedEntry, Present, MemTypeOK, Entries
  <2>2. CASE ~Present(t, v)
    <3>1. n \in {1, 2} /\ e.frame = get_page(n)
      BY <2>2 DEF Needed, LinkedEntry, entry_init
    <3> HIDE DEF n
    <3> QED
      BY <1>2, <2>2, <3>1
  <2> QED
    BY <2>1, <2>2
<1> QED
  BY <1>4, <1>6, <1>8, <1>10, <1>15, <1>16

(* Entries of t change: what counts is how many of them refer to f.        *)
LEMMA EntryRowCount ==
    ASSUME NEW e, NEW e2, NEW t \in Tasks, NEW f,
           \A u \in Tasks, v \in Pages : u # t => e2[u][v].frame = e[u][v].frame
    PROVE  /\ IsFiniteSet(EntryRow(e, t, f)) /\ Cardinality(EntryRow(e, t, f)) \in Nat
           /\ IsFiniteSet(EntryRow(e2, t, f)) /\ Cardinality(EntryRow(e2, t, f)) \in Nat
           /\ Cardinality(EntryRefs(e2, f)) = Cardinality(EntryRefs(e, f))
                 - Cardinality(EntryRow(e, t, f)) + Cardinality(EntryRow(e2, t, f))
<1> DEFINE a == EntryRow(e, t, f)
           b == EntryRow(e2, t, f)
           A == EntryRefs(e, f)
           B == EntryRefs(e2, f)
           rest == {x \in A : x[1] # t}
           P == {t} \X a
           Q == {t} \X b
<1>1. A = rest \cup P /\ rest \cap P = {}
  BY DEF EntryRefs, EntryRow
<1>2. B = rest \cup Q /\ rest \cap Q = {}
  BY DEF EntryRefs, EntryRow
<1>3. IsFiniteSet(a) /\ IsFiniteSet(b) /\ Cardinality(a) \in Nat /\ Cardinality(b) \in Nat
  <2>1. a \in SUBSET Pages /\ b \in SUBSET Pages
    BY DEF EntryRow
  <2> HIDE DEF a, b
  <2> QED
    BY <2>1, Areas, FS_Subset, FS_CardinalityType
<1>4. IsFiniteSet(P) /\ Cardinality(P) = Cardinality(a)
  BY <1>3, RowCount, Zenon
<1>5. IsFiniteSet(Q) /\ Cardinality(Q) = Cardinality(b)
  BY <1>3, RowCount, Zenon
<1>6. IsFiniteSet(rest) /\ Cardinality(rest) \in Nat
  <2>1. rest \in SUBSET A
    OBVIOUS
  <2>2. IsFiniteSet(A)
    BY RefsFinite
  <2> HIDE DEF A, rest
  <2> QED
    BY <2>1, <2>2, FS_Subset, FS_CardinalityType
<1> HIDE DEF A, B, a, b, rest, P, Q
<1>7. Cardinality(A) = Cardinality(rest) + Cardinality(P)
  BY <1>1, <1>4, <1>6, DisjointCount
<1>8. Cardinality(B) = Cardinality(rest) + Cardinality(Q)
  BY <1>2, <1>5, <1>6, DisjointCount
<1>9. Cardinality(B) = Cardinality(A) - Cardinality(a) + Cardinality(b)
  BY <1>3, <1>4, <1>5, <1>6, <1>7, <1>8
<1> QED
  BY <1>3, <1>9 DEF A, B, a, b

(* Page tables of one process change, and only its references with them.   *)
LEMMA TableRowCount ==
    ASSUME NEW tb, NEW tb2, NEW t \in Tasks, NEW f,
           \A u \in Tasks, d \in Dirs : u # t => tb2[u][d] = tb[u][d]
    PROVE  /\ IsFiniteSet(TableRow(tb, t, f)) /\ Cardinality(TableRow(tb, t, f)) \in Nat
           /\ IsFiniteSet(TableRow(tb2, t, f)) /\ Cardinality(TableRow(tb2, t, f)) \in Nat
           /\ Cardinality(TableRefs(tb2, f)) = Cardinality(TableRefs(tb, f))
                 - Cardinality(TableRow(tb, t, f)) + Cardinality(TableRow(tb2, t, f))
<1> DEFINE a == TableRow(tb, t, f)
           b == TableRow(tb2, t, f)
           A == TableRefs(tb, f)
           B == TableRefs(tb2, f)
           rest == {x \in A : x[1] # t}
           P == {t} \X a
           Q == {t} \X b
<1>1. A = rest \cup P /\ rest \cap P = {}
  BY DEF TableRefs, TableRow
<1>2. B = rest \cup Q /\ rest \cap Q = {}
  BY DEF TableRefs, TableRow
<1>3. IsFiniteSet(a) /\ IsFiniteSet(b) /\ Cardinality(a) \in Nat /\ Cardinality(b) \in Nat
  <2>1. a \in SUBSET Dirs /\ b \in SUBSET Dirs
    BY DEF TableRow
  <2> HIDE DEF a, b
  <2> QED
    BY <2>1, Areas, FS_Subset, FS_CardinalityType
<1>4. IsFiniteSet(P) /\ Cardinality(P) = Cardinality(a)
  BY <1>3, RowCount, Zenon
<1>5. IsFiniteSet(Q) /\ Cardinality(Q) = Cardinality(b)
  BY <1>3, RowCount, Zenon
<1>6. IsFiniteSet(rest) /\ Cardinality(rest) \in Nat
  <2>1. rest \in SUBSET A
    OBVIOUS
  <2>2. IsFiniteSet(A)
    BY RefsFinite
  <2> HIDE DEF A, rest
  <2> QED
    BY <2>1, <2>2, FS_Subset, FS_CardinalityType
<1> HIDE DEF A, B, a, b, rest, P, Q
<1>7. Cardinality(A) = Cardinality(rest) + Cardinality(P)
  BY <1>1, <1>4, <1>6, DisjointCount
<1>8. Cardinality(B) = Cardinality(rest) + Cardinality(Q)
  BY <1>2, <1>5, <1>6, DisjointCount
<1>9. Cardinality(B) = Cardinality(A) - Cardinality(a) + Cardinality(b)
  BY <1>3, <1>4, <1>5, <1>6, <1>7, <1>8
<1> QED
  BY <1>3, <1>9 DEF A, B, a, b

(* put_page takes every reference back that refs counts.                   *)
LEMMA PutLemma ==
    ASSUME MemTypeOK, NEW refs \in [Frames -> Nat], put_page(refs),
           \A f \in Frames : refs[f] <= memory_map[f]
    PROVE  /\ memory_map' \in [Frames -> Int] /\ free_pages' \in Int /\ data' \in [Frames -> Nat]
           /\ \A f \in Frames : memory_map'[f] = memory_map[f] - refs[f]
           /\ data' = data
<1> DEFINE freed == {f \in Frames : refs[f] > 0 /\ memory_map[f] = refs[f]}
<1>1. /\ memory_map' = [f \in Frames |-> memory_map[f] - refs[f]]
      /\ free_pages' = free_pages + Cardinality(freed)
      /\ data' = data
  BY DEF put_page
<1>2. freed \in SUBSET Frames
  OBVIOUS
<1>3. Cardinality(freed) \in Nat
  <2> HIDE DEF freed
  <2> QED
    BY <1>2, Areas, FS_Subset, FS_CardinalityType
<1>4. free_pages' \in Int
  <2> HIDE DEF freed
  <2> QED
    BY <1>1, <1>3 DEF MemTypeOK
<1>5. memory_map' \in [Frames -> Int] /\ \A f \in Frames : memory_map'[f] = memory_map[f] - refs[f]
  BY <1>1 DEF MemTypeOK
<1>6. data' \in [Frames -> Nat]
  BY <1>1 DEF MemTypeOK
<1> QED
  BY <1>1, <1>4, <1>5, <1>6

(* What becomes a page table was free: pages in use keep their contents.   *)
LEMMA TablesLemma ==
    ASSUME MemTypeOK, NEW n \in Nat, CanGet(n)
    PROVE  /\ TablesFilled(n) \in [Frames -> Nat]
           /\ \A f \in Frames \ Free : TablesFilled(n)[f] = data[f]
<1>1. \A i \in 1 .. n : get_page(i) \in Free
  BY GetPages
<1> QED
  BY <1>1 DEF TablesFilled, MemTypeOK

(* link_page: pages in use keep their contents, and so does the new one.   *)
LEMMA LinkedTablesLemma ==
    ASSUME MemTypeOK, NEW t \in Tasks, NEW v \in Pages, CanGet(Needed(t, v)),
           LinkedEntry(t, v).frame \in Frames
    PROVE  /\ LinkedTables(t, v) \in [Frames -> Nat]
           /\ \A f \in Frames \ Free : LinkedTables(t, v)[f] = data[f]
           /\ LinkedTables(t, v)[LinkedEntry(t, v).frame] = data[LinkedEntry(t, v).frame]
<1>1. CASE Needed(t, v) = 2
  <2>1. /\ \A i \in 1 .. 2 : get_page(i) \in Free
        /\ get_page(1) # get_page(2)
    BY <1>1, GetPages
  <2>2. LinkedEntry(t, v).frame = get_page(2)
    BY <1>1 DEF LinkedEntry, Needed, entry_init
  <2>3. LinkedTables(t, v) = [f \in Frames |-> IF f = get_page(1) THEN 0 ELSE data[f]]
    BY <1>1 DEF LinkedTables, TablesFilled
  <2> QED
    BY <2>1, <2>2, <2>3 DEF MemTypeOK
<1>2. CASE Needed(t, v) # 2
  <2>1. LinkedTables(t, v) = [f \in Frames |-> data[f]]
    BY <1>2 DEF LinkedTables, TablesFilled
  <2> QED
    BY <2>1 DEF MemTypeOK
<1> QED
  BY <1>1, <1>2

(* The entries of t for the pages V go: what is left is counted exactly,   *)
(* and every page keeps its contents.                                      *)
LEMMA UnlinkLemma ==
    ASSUME MemInv, NEW t \in Tasks, NEW V \in SUBSET Pages, unlink_page(t, V)
    PROVE  /\ AllRefsExact'
           /\ memory_map' \in [Frames -> Int] /\ free_pages' \in Int /\ data' \in [Frames -> Nat]
           /\ entry' \in [Tasks -> [Pages -> Entries]]
           /\ view' \in [Tasks -> [Pages -> Nat]]
           /\ table' = table /\ halted' = halted /\ writes' = writes /\ bypassed' = bypassed
           /\ \A u \in Tasks, v \in Pages :
                 IF u = t /\ v \in V THEN entry'[u][v] = NoEntry
                 ELSE entry'[u][v] = entry[u][v] /\ view'[u][v] = view[u][v]
           /\ data' = data
<1> DEFINE refs == Refs(t, V)
<1>1. /\ put_page(refs)
      /\ entry' = [entry EXCEPT ![t] = [v \in Pages |-> IF v \in V THEN NoEntry ELSE entry[t][v]]]
      /\ view' = [view EXCEPT ![t] = [v \in Pages |-> IF v \in V THEN 0 ELSE view[t][v]]]
      /\ table' = table /\ halted' = halted /\ writes' = writes /\ bypassed' = bypassed
  BY DEF unlink_page
<1>2. MemTypeOK /\ AllRefsExact
  BY DEF MemInv
<1>3. NoEntry \in Entries /\ NoEntry.frame = None
  BY DEF NoEntry, Entries
<1>4. entry' \in [Tasks -> [Pages -> Entries]] /\ view' \in [Tasks -> [Pages -> Nat]]
  <2>1. [v \in Pages |-> IF v \in V THEN NoEntry ELSE entry[t][v]] \in [Pages -> Entries]
    BY <1>2, <1>3 DEF MemTypeOK
  <2>2. [v \in Pages |-> IF v \in V THEN 0 ELSE view[t][v]] \in [Pages -> Nat]
    BY <1>2 DEF MemTypeOK
  <2> QED
    BY <1>1, <1>2, <2>1, <2>2 DEF MemTypeOK
<1>5. \A u \in Tasks, v \in Pages :
          IF u = t /\ v \in V THEN entry'[u][v] = NoEntry
          ELSE entry'[u][v] = entry[u][v] /\ view'[u][v] = view[u][v]
  BY <1>1, <1>2 DEF MemTypeOK
<1>6. ASSUME NEW f \in Frames
      PROVE  /\ refs[f] \in Nat
             /\ Cardinality(EntryRefs(entry', f)) = Cardinality(EntryRefs(entry, f)) - refs[f]
             /\ Cardinality(EntryRefs(entry', f)) \in Nat /\ Cardinality(EntryRefs(entry, f)) \in Nat
  <2> DEFINE a == EntryRow(entry, t, f)
             b == EntryRow(entry', t, f)
             c == {v \in V : entry[t][v].frame = f}
  <2>1. \A u \in Tasks, v \in Pages : u # t => entry'[u][v].frame = entry[u][v].frame
    BY <1>5
  <2>2. /\ IsFiniteSet(a) /\ IsFiniteSet(b) /\ Cardinality(a) \in Nat /\ Cardinality(b) \in Nat
        /\ Cardinality(EntryRefs(entry', f)) = Cardinality(EntryRefs(entry, f)) - Cardinality(a) + Cardinality(b)
    BY ONLY <2>1, EntryRowCount, t \in Tasks
  <2>3. None # f
    BY Areas
  <2>4. b = a \ c /\ a \cap c = c
    BY <1>3, <1>5, <2>3 DEF EntryRow
  <2>5. c \in SUBSET a
    BY DEF EntryRow
  <2>6. refs[f] = Cardinality(c)
    BY DEF Refs
  <2> HIDE DEF a, b, c, refs
  <2>7. Cardinality(b) = Cardinality(a) - Cardinality(c)
    <3>1. Cardinality(a \ c) = Cardinality(a) - Cardinality(a \cap c)
      BY <2>2, FS_Difference
    <3> QED
      BY <2>4, <3>1
  <2>8. IsFiniteSet(c) /\ Cardinality(c) \in Nat
    BY <2>2, <2>5, FS_Subset, FS_CardinalityType
  <2>9. Cardinality(EntryRefs(entry', f)) \in Nat /\ Cardinality(EntryRefs(entry, f)) \in Nat
    BY RefsFinite
  <2> QED
    BY <2>2, <2>6, <2>7, <2>8, <2>9
<1>7. \A f \in Frames :
          /\ memory_map[f] = Cardinality(EntryRefs(entry, f)) + Cardinality(TableRefs(table, f)) + Pinned(f)
          /\ Cardinality(TableRefs(table, f)) \in Nat /\ Pinned(f) \in Nat
  BY <1>2, RefsFinite DEF AllRefsExact, Pinned
<1>8. refs \in [Frames -> Nat]
  <2>1. refs = [f \in Frames |-> refs[f]]
    BY DEF Refs
  <2> HIDE DEF refs
  <2> QED
    BY <1>6, <2>1
<1> HIDE DEF refs
<1>9. \A f \in Frames : refs[f] <= memory_map[f]
  BY <1>6, <1>7
<1>10. /\ memory_map' \in [Frames -> Int] /\ free_pages' \in Int /\ data' \in [Frames -> Nat]
       /\ \A f \in Frames : memory_map'[f] = memory_map[f] - refs[f]
       /\ data' = data
  BY <1>1, <1>2, <1>8, <1>9, PutLemma
<1>11. \A f \in Frames : memory_map'[f] = Cardinality(EntryRefs(entry', f)) + Cardinality(TableRefs(table, f)) + Pinned(f)
  BY <1>6, <1>7, <1>10
<1>12. AllRefsExact'
  BY <1>1, <1>11 DEF AllRefsExact, EntryRefs, TableRefs, Pinned
<1> QED
  BY <1>1, <1>4, <1>5, <1>10, <1>12

-----------------------------------------------------------------------------
\* Private pages.

(* One entry changes.  If the page it refers to is not one that others     *)
(* have as a private page and it can be written through the new entry, and *)
(* the process knows what is in it, everyone still finds what they had.    *)
LEMMA OneEntryChanges ==
    ASSUME MemTypeOK, CopyOnWrite, Isolation, bypassed' \in BOOLEAN, ~bypassed' => ~bypassed,
           NEW t \in Tasks, NEW v \in Pages, NEW e \in Entries,
           entry' = [entry EXCEPT ![t][v] = e], alive' = alive,
           \A u \in Tasks, w \in Pages :
               entry[u][w].frame \in Frames \ {e.frame} => data'[entry[u][w].frame] = data[entry[u][w].frame],
           \A u \in Tasks, w \in Pages : <<u, w>> # <<t, v>> => view'[u][w] = view[u][w],
           ~bypassed' => (~e.shared => data'[e.frame] = view'[t][v]),
           ~bypassed' => \A u \in Tasks, w \in Pages :
               <<u, w>> # <<t, v>> /\ entry[u][w].frame = e.frame =>
                   /\ ~entry[u][w].shared => ~e.write /\ ~e.shared /\ data'[e.frame] = data[e.frame]
                   /\ ~e.shared => ~entry[u][w].write /\ ~entry[u][w].shared
    PROVE  CopyOnWrite' /\ Isolation'
<1>1. /\ entry'[t][v] = e
      /\ \A u \in Tasks, w \in Pages : <<u, w>> # <<t, v>> => entry'[u][w] = entry[u][w]
  BY DEF MemTypeOK
<1>2. \A u \in Tasks, w \in Pages : entry[u][w] \in Entries
  BY DEF MemTypeOK
<1>3. CASE bypassed'
  BY <1>3 DEF CopyOnWrite, Isolation
<1>4. CASE ~bypassed'
  <2>1. ASSUME NEW a \in Tasks, NEW b \in Tasks, NEW x \in Pages, NEW y \in Pages,
               <<a, x>> # <<b, y>>, entry'[a][x].frame # None,
               entry'[a][x].frame = entry'[b][y].frame, ~entry'[a][x].shared
        PROVE  ~entry'[b][y].write /\ ~entry'[b][y].shared
    <3>1. CASE <<a, x>> = <<t, v>>
      <4>1. entry'[a][x] = e /\ entry'[b][y] = entry[b][y] /\ <<b, y>> # <<t, v>>
        BY <1>1, <2>1, <3>1
      <4> QED
        BY <1>4, <2>1, <4>1
    <3>2. CASE <<b, y>> = <<t, v>>
      <4>1. entry'[b][y] = e /\ entry'[a][x] = entry[a][x] /\ <<a, x>> # <<t, v>>
        BY <1>1, <2>1, <3>2
      <4> QED
        BY <1>4, <2>1, <4>1
    <3>3. CASE <<a, x>> # <<t, v>> /\ <<b, y>> # <<t, v>>
      <4>1. entry'[a][x] = entry[a][x] /\ entry'[b][y] = entry[b][y]
        BY <1>1, <3>3
      <4> QED
        BY <1>4, <2>1, <4>1 DEF CopyOnWrite, Present
    <3> QED
      BY <3>1, <3>2, <3>3
  <2>2. CopyOnWrite'
    BY <2>1 DEF CopyOnWrite, Present
  <2>3. ASSUME NEW u \in alive, NEW w \in Pages, u \in Tasks,
               entry'[u][w].frame # None, ~entry'[u][w].shared
        PROVE  data'[entry'[u][w].frame] = view'[u][w]
    <3>1. CASE <<u, w>> = <<t, v>>
      BY <1>1, <1>4, <2>3, <3>1
    <3>2. CASE <<u, w>> # <<t, v>>
      <4>1. entry'[u][w] = entry[u][w] /\ view'[u][w] = view[u][w]
        BY <1>1, <2>3, <3>2
      <4>2. data[entry[u][w].frame] = view[u][w]
        BY <1>4, <2>3, <4>1 DEF Isolation, Present
      <4>3. entry[u][w].frame \in Frames
        BY <1>2, <2>3, <4>1 DEF Entries
      <4>4. data'[entry[u][w].frame] = data[entry[u][w].frame]
        BY <1>4, <2>3, <3>2, <4>1, <4>3
      <4> QED
        BY <4>1, <4>2, <4>4
    <3> QED
      BY <3>1, <3>2
  <2>4. Isolation'
    BY <2>3 DEF Isolation, Present, MemTypeOK
  <2> QED
    BY <2>2, <2>4
<1> QED
  BY <1>3, <1>4

(* Where a write passes no protection by, other entries that refer to the  *)
(* page share it on purpose.                                               *)
LEMMA MayWrite ==
    ASSUME MemInv, ~bypassed, NEW t \in Tasks, NEW v \in Pages, Present(t, v), ~Bypasses(entry[t][v]),
           NEW u \in Tasks, NEW w \in Pages, <<u, w>> # <<t, v>>, entry[u][w].frame = entry[t][v].frame
    PROVE  entry[u][w].shared /\ entry[t][v].shared
<1> DEFINE f == entry[t][v].frame
<1>1. f \in Frames /\ f # None
  BY DEF MemInv, MemTypeOK, Entries, Present
<1>2. MemTypeOK /\ AllRefsExact /\ CopyOnWrite
  BY DEF MemInv
<1>3. memory_map[f] \in Int
  BY <1>1, <1>2 DEF MemTypeOK
<1>4. memory_map[f] # 0
  <2>1. f \notin Free
    BY <1>2, FreeUnused
  <2> QED
    BY <1>1, <2>1 DEF Free
<1>5. memory_map[f] # 1
  BY <1>1, <1>2, SoleReference
<1>6. memory_map[f] >= 0
  <2>1. memory_map[f] = Cardinality(EntryRefs(entry, f)) + Cardinality(TableRefs(table, f)) + Pinned(f)
    BY <1>1, <1>2 DEF AllRefsExact
  <2>2. Cardinality(EntryRefs(entry, f)) \in Nat /\ Cardinality(TableRefs(table, f)) \in Nat
    BY RefsFinite
  <2>3. Pinned(f) \in Nat
    BY DEF Pinned
  <2> HIDE DEF f
  <2> QED
    BY <2>1, <2>2, <2>3
<1>7. memory_map[f] > 1
  BY <1>3, <1>4, <1>5, <1>6
<1>8. entry[t][v].write \/ entry[t][v].shared
  BY <1>1, <1>7 DEF Bypasses
<1>9. entry[u][w].shared
  BY <1>1, <1>2, <1>8 DEF CopyOnWrite, Present
<1> QED
  BY <1>1, <1>2, <1>9 DEF CopyOnWrite, Present

-----------------------------------------------------------------------------
\* The steps.

(* A panic changes nothing but that the kernel has stopped.                *)
LEMMA PanicStep ==
    ASSUME MemInv, Panic
    PROVE  MemInv'
BY DEF Panic, MemInv, MemTypeOK, AllRefsExact, DeadEmpty, MapAreaExact, CopyOnWrite, Isolation,
       Present, EntryRefs, TableRefs, Pinned, frameVars, taskVars, dataVars

(* A process that runs has a page directory.                               *)
LEMMA RunsAlive ==
    ASSUME MemInv, NEW t \in Tasks, Runs(t)
    PROVE  t \in alive
BY DEF Runs

(* A store that the page tables allow keeps the invariant.                 *)
LEMMA StoreStep ==
    ASSUME MemInv, NEW t \in Tasks, NEW v \in Pages, Store(t, v)
    PROVE  MemInv'
<1> DEFINE e == entry[t][v]
<1>1. /\ Present(t, v) /\ writes' = writes + 1
      /\ data' = [data EXCEPT ![e.frame] = writes + 1]
      /\ view' = [view EXCEPT ![t][v] = writes + 1]
      /\ bypassed' = (bypassed \/ Bypasses(e))
      /\ memory_map' = memory_map /\ free_pages' = free_pages /\ table' = table /\ entry' = entry
      /\ brk' = brk /\ end' = end /\ vmap' = vmap /\ alive' = alive /\ loading' = loading /\ halted' = halted
  BY DEF Store, frameVars, taskVars
<1>2. /\ MemTypeOK /\ AllRefsExact /\ DeadEmpty /\ MapAreaExact /\ CopyOnWrite /\ Isolation
  BY DEF MemInv
<1>3. e \in Entries /\ e.frame \in Frames /\ e.frame # None
  BY <1>1, <1>2 DEF MemTypeOK, Entries, Present
<1>4. bypassed' \in BOOLEAN
  BY <1>1, Zenon
<1>5. MemTypeOK'
  <2>1. writes' \in Nat
    BY <1>1, <1>2 DEF MemTypeOK
  <2>2. data' \in [Frames -> Nat] /\ view' \in [Tasks -> [Pages -> Nat]]
    <3>1. writes + 1 \in Nat
      BY <1>2 DEF MemTypeOK
    <3> QED
      BY <1>1, <1>2, <1>3, <3>1 DEF MemTypeOK
  <2> QED
    BY <1>1, <1>2, <1>4, <2>1, <2>2 DEF MemTypeOK
<1>6. AllRefsExact' /\ DeadEmpty' /\ MapAreaExact'
  BY <1>1, <1>2 DEF AllRefsExact, DeadEmpty, MapAreaExact, Present, EntryRefs, TableRefs, Pinned
<1>7. CopyOnWrite' /\ Isolation'
  <2>1. entry' = [entry EXCEPT ![t][v] = e]
    BY <1>1, <1>2 DEF MemTypeOK
  <2>2. /\ \A u \in Tasks, w \in Pages :
               entry[u][w].frame \in Frames \ {e.frame} => data'[entry[u][w].frame] = data[entry[u][w].frame]
        /\ \A u \in Tasks, w \in Pages : <<u, w>> # <<t, v>> => view'[u][w] = view[u][w]
        /\ data'[e.frame] = view'[t][v]
    BY <1>1, <1>2, <1>3 DEF MemTypeOK
  <2>3. ~bypassed' => ~bypassed
    BY <1>1
  <2>4. ~bypassed' => \A u \in Tasks, w \in Pages :
               <<u, w>> # <<t, v>> /\ entry[u][w].frame = e.frame => entry[u][w].shared /\ e.shared
    BY <1>1, MayWrite
  <2> HIDE DEF e
  <2>5. ~bypassed' => (~e.shared => data'[e.frame] = view'[t][v])
    BY <2>2
  <2>6. ~bypassed' => \A u \in Tasks, w \in Pages :
               <<u, w>> # <<t, v>> /\ entry[u][w].frame = e.frame =>
                   /\ ~entry[u][w].shared => ~e.write /\ ~e.shared /\ data'[e.frame] = data[e.frame]
                   /\ ~e.shared => ~entry[u][w].write /\ ~entry[u][w].shared
    BY <2>4
  <2> QED
    BY ONLY <1>1, <1>2, <1>3, <1>4, <2>1, <2>2, <2>3, <2>5, <2>6, OneEntryChanges, t \in Tasks, v \in Pages, Zenon
<1> QED
  BY <1>5, <1>6, <1>7 DEF MemInv

(* A page entry is linked: what the steps with link_page have in common.   *)
LEMMA LinkStep ==
    ASSUME MemInv, NEW t \in Tasks, t \in alive, NEW v \in Pages, NEW e \in Entries,
           CanGet(Needed(t, v)), link_page(t, v),
           entry' = [entry EXCEPT ![t][v] = e], e.frame = LinkedEntry(t, v).frame,
           brk' \in [Tasks -> 0 .. NHeap], end' \in [Tasks -> 0 .. NHeap],
           vmap' \in [Tasks -> SUBSET Map], alive' = alive, loading' = loading, halted' = halted,
           writes' \in Nat, data' \in [Frames -> Nat],
           NEW x \in Nat, view' = [view EXCEPT ![t][v] = x], data'[e.frame] = x,
           \A f \in Frames \ Free : f # e.frame => data'[f] = data[f],
           IF v \in Map THEN vmap' = [vmap EXCEPT ![t] = @ \cup {v}] ELSE vmap' = vmap,
           NEW p \in BOOLEAN, bypassed' = (bypassed \/ p),
           Present(t, v) /\ entry[t][v].shared => e.shared,
           Present(t, v) /\ Bypasses(entry[t][v]) /\ ~p
               => ~e.write /\ ~e.shared /\ data'[e.frame] = data[e.frame]
    PROVE  MemInv'
<1>1. /\ MemTypeOK /\ AllRefsExact /\ DeadEmpty /\ MapAreaExact /\ CopyOnWrite /\ Isolation
  BY DEF MemInv
<1>2. t \in Tasks
  BY <1>1 DEF MemTypeOK
<1>3. /\ AllRefsExact'
      /\ memory_map' \in [Frames -> Int] /\ free_pages' \in Int
      /\ table' \in [Tasks -> [Dirs -> Frames \cup {None}]]
      /\ entry' \in [Tasks -> [Pages -> Entries]]
      /\ \A u \in Tasks \ {t} : table'[u] = table[u]
      /\ e.frame \in Frames
      /\ Present(t, v) => e.frame = entry[t][v].frame
      /\ ~Present(t, v) => e.frame \in Free
  BY <1>1, <1>2, LinkLemma
<1>4. bypassed' \in BOOLEAN
  BY Zenon
<1>5. view' \in [Tasks -> [Pages -> Nat]]
  BY <1>1, <1>2 DEF MemTypeOK
<1>6. MemTypeOK'
  BY <1>1, <1>3, <1>4, <1>5 DEF MemTypeOK
<1>7. /\ entry'[t][v] = e
      /\ \A u \in Tasks, w \in Pages : <<u, w>> # <<t, v>> => entry'[u][w] = entry[u][w]
      /\ view'[t][v] = x
      /\ \A u \in Tasks, w \in Pages : <<u, w>> # <<t, v>> => view'[u][w] = view[u][w]
  BY <1>1, <1>2 DEF MemTypeOK
<1>8. DeadEmpty'
  <2> SUFFICES ASSUME NEW u \in Tasks \ alive
               PROVE  /\ \A d \in Dirs : table'[u][d] = None
                      /\ \A w \in Pages : entry'[u][w].frame = None
    BY DEF DeadEmpty
  <2>1. u # t
    OBVIOUS
  <2> QED
    BY <1>1, <1>3, <1>7, <2>1 DEF DeadEmpty
<1>9. MapAreaExact'
  <2> SUFFICES ASSUME NEW u \in alive, NEW w \in Map
               PROVE  entry'[u][w].frame # None <=> w \in vmap'[u]
    BY DEF MapAreaExact, Present
  <2>1. u \in Tasks /\ w \in Pages /\ None \notin Frames
    BY <1>1, Areas DEF MemTypeOK
  <2>2. entry[u][w].frame # None <=> w \in vmap[u]
    BY <1>1 DEF MapAreaExact, Present
  <2>3. CASE <<u, w>> = <<t, v>>
    <3>1. v \in Map /\ w \in vmap'[u]
      BY <1>1, <1>2, <2>3 DEF MemTypeOK
    <3> QED
      BY <1>3, <1>7, <2>1, <2>3, <3>1
  <2>4. CASE <<u, w>> # <<t, v>>
    <3>1. w \in vmap'[u] <=> w \in vmap[u]
      BY <1>1, <1>2, <2>1, <2>4 DEF MemTypeOK
    <3> QED
      BY <1>7, <2>1, <2>2, <2>4, <3>1
  <2> QED
    BY <2>3, <2>4
<1>10. ASSUME ~bypassed', NEW u \in Tasks, NEW w \in Pages,
              <<u, w>> # <<t, v>>, entry[u][w].frame = e.frame
       PROVE  /\ ~entry[u][w].shared => ~e.write /\ ~e.shared /\ data'[e.frame] = data[e.frame]
              /\ ~e.shared => ~entry[u][w].write /\ ~entry[u][w].shared
  <2>1. ~bypassed /\ ~p
    BY <1>10
  <2>2. Present(t, v) /\ e.frame = entry[t][v].frame
    BY <1>1, <1>3, <1>10, FreeUnused
  <2>3. CASE ~Bypasses(entry[t][v])
    <3>1. entry[u][w].shared /\ entry[t][v].shared
      BY <1>2, <1>10, <2>1, <2>2, <2>3, MayWrite
    <3> QED
      BY <2>2, <3>1
  <2>4. CASE Bypasses(entry[t][v])
    <3>1. ~e.write /\ ~e.shared /\ data'[e.frame] = data[e.frame]
      BY <2>1, <2>2, <2>4
    <3>2. ~entry[t][v].shared
      BY <2>4 DEF Bypasses
    <3> QED
      BY <1>1, <1>2, <1>10, <2>1, <2>2, <3>1, <3>2 DEF CopyOnWrite
  <2> QED
    BY <2>3, <2>4
<1>11. CopyOnWrite' /\ Isolation'
  <2>1. ~bypassed' => ~bypassed
    OBVIOUS
  <2>2. ~bypassed' => (~e.shared => data'[e.frame] = view'[t][v])
    BY <1>7
  <2>3. ~bypassed' => \A u \in Tasks, w \in Pages :
               <<u, w>> # <<t, v>> /\ entry[u][w].frame = e.frame =>
                   /\ ~entry[u][w].shared => ~e.write /\ ~e.shared /\ data'[e.frame] = data[e.frame]
                   /\ ~e.shared => ~entry[u][w].write /\ ~entry[u][w].shared
    BY <1>10
  <2>4. /\ \A u \in Tasks, w \in Pages :
               entry[u][w].frame \in Frames \ {e.frame} => data'[entry[u][w].frame] = data[entry[u][w].frame]
        /\ entry' = [entry EXCEPT ![t][v] = e] /\ alive' = alive
    BY <1>1, FreeUnused
  <2>5. \A u \in Tasks, w \in Pages : <<u, w>> # <<t, v>> => view'[u][w] = view[u][w]
    BY <1>7
  <2>6. MemTypeOK /\ CopyOnWrite /\ Isolation /\ t \in Tasks /\ v \in Pages /\ e \in Entries
    BY <1>1, <1>2
  <2> QED
    BY ONLY <1>4, <2>1, <2>2, <2>3, <2>4, <2>5, <2>6, OneEntryChanges, Zenon
<1> QED
  BY <1>3, <1>6, <1>8, <1>9, <1>11 DEF MemInv

(* A fault on a write-protected page gives the process a page of its own.  *)
LEMMA OwnPage ==
    ASSUME MemInv, NEW t \in Tasks, t \in alive, NEW v \in Pages, Present(t, v), NEW e \in Entries, e.frame \in Frames,
           entry' = [entry EXCEPT ![t][v] = e], ~entry[t][v].shared,
           memory_map' \in [Frames -> Int], free_pages' \in Int, data' \in [Frames -> Nat],
           \A f \in Frames : memory_map'[f] = memory_map[f] - Same(entry[t][v].frame, f)
                                                            + Same(e.frame, f),
           \A f \in Frames : f # e.frame => data'[f] = data[f],
           data'[e.frame] = data[entry[t][v].frame],
           \A u \in Tasks, w \in Pages : entry[u][w].frame = e.frame => <<u, w>> = <<t, v>>,
           UNCHANGED <<table, taskVars, halted, view, writes, bypassed>>
    PROVE  MemInv'
<1>1. /\ MemTypeOK /\ AllRefsExact /\ DeadEmpty /\ MapAreaExact /\ CopyOnWrite /\ Isolation
  BY DEF MemInv
<1>2. t \in Tasks
  BY <1>1 DEF MemTypeOK
<1>3. /\ table' = table /\ brk' = brk /\ end' = end /\ vmap' = vmap /\ alive' = alive /\ loading' = loading
      /\ halted' = halted /\ view' = view /\ writes' = writes /\ bypassed' = bypassed
  BY DEF taskVars
<1>4. /\ entry' \in [Tasks -> [Pages -> Entries]]
      /\ entry'[t][v] = e
      /\ \A u \in Tasks, w \in Pages : <<u, w>> # <<t, v>> => entry'[u][w] = entry[u][w]
  BY <1>1, <1>2 DEF MemTypeOK
<1>5. MemTypeOK'
  BY <1>1, <1>3, <1>4 DEF MemTypeOK
<1>6. AllRefsExact'
  <2> SUFFICES ASSUME NEW f \in Frames
               PROVE  memory_map'[f] = Cardinality(EntryRefs(entry', f)) + Cardinality(TableRefs(table, f)) + Pinned(f)
    BY <1>3 DEF AllRefsExact, EntryRefs, TableRefs, Pinned
  <2>1. \A u \in Tasks, w \in Pages : <<u, w>> # <<t, v>> => entry'[u][w].frame = entry[u][w].frame
    BY <1>4
  <2>2. Cardinality(EntryRefs(entry', f)) = Cardinality(EntryRefs(entry, f))
            - Same(entry[t][v].frame, f) + Same(entry'[t][v].frame, f)
    BY ONLY <2>1, EntrySwap, t \in Tasks, v \in Pages, SMTT(30)
  <2> DEFINE a == Same(entry[t][v].frame, f)
             b == Same(e.frame, f)
  <2>3. Cardinality(EntryRefs(entry', f)) = Cardinality(EntryRefs(entry, f)) - a + b
    BY <1>4, <2>2
  <2>4. memory_map'[f] = memory_map[f] - a + b /\ a \in Int /\ b \in Int
    BY DEF Same
  <2>5. memory_map[f] = Cardinality(EntryRefs(entry, f)) + Cardinality(TableRefs(table, f)) + Pinned(f)
    BY <1>1 DEF AllRefsExact
  <2>6. Cardinality(EntryRefs(entry, f)) \in Nat /\ Cardinality(TableRefs(table, f)) \in Nat /\ Pinned(f) \in Nat
    BY RefsFinite DEF Pinned
  <2> HIDE DEF a, b
  <2> QED
    BY <2>3, <2>4, <2>5, <2>6
<1>7. DeadEmpty'
  BY <1>1, <1>3, <1>4 DEF DeadEmpty
<1>8. MapAreaExact'
  <2>1. \A u \in Tasks, w \in Pages : entry'[u][w].frame # None <=> entry[u][w].frame # None
    BY <1>4, Areas DEF Present
  <2> QED
    BY <1>1, <1>3, <2>1, Areas DEF MapAreaExact, Present, MemTypeOK
<1>9. CopyOnWrite' /\ Isolation'
  <2>1. ~bypassed' => ~bypassed
    BY <1>3
  <2>2. ~bypassed' => (~e.shared => data'[e.frame] = view'[t][v])
    BY <1>1, <1>3 DEF Isolation
  <2>3. ~bypassed' => \A u \in Tasks, w \in Pages :
               <<u, w>> # <<t, v>> /\ entry[u][w].frame = e.frame =>
                   /\ ~entry[u][w].shared => ~e.write /\ ~e.shared /\ data'[e.frame] = data[e.frame]
                   /\ ~e.shared => ~entry[u][w].write /\ ~entry[u][w].shared
    OBVIOUS
  <2>4. /\ \A u \in Tasks, w \in Pages :
               entry[u][w].frame \in Frames \ {e.frame} => data'[entry[u][w].frame] = data[entry[u][w].frame]
        /\ entry' = [entry EXCEPT ![t][v] = e] /\ alive' = alive
    BY <1>3
  <2>5. \A u \in Tasks, w \in Pages : <<u, w>> # <<t, v>> => view'[u][w] = view[u][w]
    BY <1>3
  <2>6. MemTypeOK /\ CopyOnWrite /\ Isolation /\ t \in Tasks /\ v \in Pages /\ e \in Entries
    BY <1>1, <1>2
  <2>7. bypassed' \in BOOLEAN
    BY <1>5 DEF MemTypeOK
  <2> QED
    BY ONLY <2>1, <2>2, <2>3, <2>4, <2>5, <2>6, <2>7, OneEntryChanges, Zenon
<1> QED
  BY <1>5, <1>6, <1>7, <1>8, <1>9 DEF MemInv

(* So does the fault of a store to a page that is shared.                  *)
LEMMA ProtectedStep ==
    ASSUME MemInv, NEW t \in Tasks, NEW v \in Pages, fault_protected(t, v)
    PROVE  MemInv'
<1> DEFINE o == entry[t][v]
           new == get_page(1)
           made == [o EXCEPT !.write = TRUE]
<1>1. MemTypeOK /\ AllRefsExact /\ t \in alive
  BY DEF MemInv, fault_protected, Runs
<1>2. Present(t, v) /\ o \in Entries /\ o.frame \in Frames
  BY <1>1 DEF fault_protected, Present, MemTypeOK, Entries
<1>3. CASE Panic
  BY <1>3, PanicStep
<1>4. CASE /\ ~o.shared /\ memory_map[o.frame] = 1
           /\ entry' = [entry EXCEPT ![t][v].write = TRUE]
           /\ UNCHANGED <<frameVars, taskVars, halted, dataVars>>
  <2>1. made \in Entries /\ made.frame = o.frame
    BY <1>2 DEF Entries
  <2>2. entry' = [entry EXCEPT ![t][v] = made]
    BY <1>1, <1>4 DEF MemTypeOK
  <2>3. /\ memory_map' = memory_map /\ free_pages' = free_pages /\ data' = data
        /\ UNCHANGED <<table, taskVars, halted, view, writes, bypassed>>
    BY <1>4 DEF frameVars, dataVars
  <2>4. \A u \in Tasks, w \in Pages : entry[u][w].frame = made.frame => <<u, w>> = <<t, v>>
    BY <1>1, <1>2, <1>4, <2>1, SoleReference
  <2>5. /\ memory_map' \in [Frames -> Int] /\ free_pages' \in Int /\ data' \in [Frames -> Nat]
        /\ \A f \in Frames : f # made.frame => data'[f] = data[f]
        /\ data'[made.frame] = data[o.frame]
    BY <1>1, <2>1, <2>3 DEF MemTypeOK
  <2>6. \A f \in Frames : memory_map'[f] = memory_map[f] - Same(o.frame, f)
                                                        + Same(made.frame, f)
    <3> TAKE f \in Frames
    <3>1. memory_map[f] \in Int /\ memory_map'[f] = memory_map[f]
      BY <1>1, <2>3 DEF MemTypeOK
    <3> HIDE DEF o, made
    <3> QED
      BY <2>1, <3>1 DEF Same
  <2>7. t \in alive /\ Present(t, v) /\ made.frame \in Frames /\ ~entry[t][v].shared
    BY <1>1, <1>2, <1>4, <2>1
  <2> HIDE DEF made
  <2> QED
    BY ONLY MemInv, v \in Pages, <2>1, <2>2, <2>3, <2>4, <2>5, <2>6, <2>7, OwnPage, Zenon
<1>5. CASE /\ ~o.shared /\ memory_map[o.frame] > 1 /\ CanGet(1)
           /\ memory_map' = [memory_map EXCEPT ![new] = 1, ![o.frame] = @ - 1]
           /\ free_pages' = free_pages - 1
           /\ data' = [data EXCEPT ![new] = data[o.frame]]
           /\ entry' = [entry EXCEPT ![t][v] = entry_init(new)]
           /\ UNCHANGED <<table, taskVars, halted, view, writes, bypassed>>
  <2>1. new \in Free /\ new \in Frames
    BY <1>5, GetPages
  <2>2. /\ memory_map[new] = 0
        /\ \A u \in Tasks, w \in Pages : entry[u][w].frame # new
    BY <1>1, <2>1, FreeUnused
  <2> HIDE DEF new
  <2>3. entry_init(new) \in Entries /\ entry_init(new).frame = new
    BY <2>1 DEF entry_init, Entries
  <2>4. o.frame # new
    BY <2>2
  <2>5. /\ memory_map' \in [Frames -> Int] /\ free_pages' \in Int /\ data' \in [Frames -> Nat]
        /\ \A f \in Frames : f # new => data'[f] = data[f]
        /\ data'[new] = data[o.frame]
    BY <1>1, <1>2, <1>5, <2>1 DEF MemTypeOK
  <2>6. \A f \in Frames : memory_map'[f] = memory_map[f] - Same(o.frame, f)
                                                        + Same(new, f)
    <3> TAKE f \in Frames
    <3>1. memory_map[f] \in Int
      BY <1>1 DEF MemTypeOK
    <3>2. memory_map'[f] = IF f = o.frame THEN memory_map[f] - 1 ELSE IF f = new THEN 1 ELSE memory_map[f]
      BY <1>1, <1>2, <1>5, <2>1, <2>4 DEF MemTypeOK
    <3> HIDE DEF o
    <3> QED
      BY <2>2, <2>4, <3>1, <3>2 DEF Same
  <2>7. \A u \in Tasks, w \in Pages : entry[u][w].frame = new => <<u, w>> = <<t, v>>
    BY <2>2
  <2> DEFINE e == entry_init(new)
  <2>8. /\ e \in Entries /\ e.frame \in Frames /\ entry' = [entry EXCEPT ![t][v] = e]
        /\ \A f \in Frames : memory_map'[f] = memory_map[f] - Same(o.frame, f)
                                                        + Same(e.frame, f)
        /\ \A f \in Frames : f # e.frame => data'[f] = data[f]
        /\ data'[e.frame] = data[o.frame]
        /\ \A u \in Tasks, w \in Pages : entry[u][w].frame = e.frame => <<u, w>> = <<t, v>>
    BY <1>5, <2>1, <2>3, <2>5, <2>6, <2>7
  <2>9. t \in alive /\ Present(t, v) /\ ~entry[t][v].shared
    BY <1>1, <1>2, <1>5
  <2>10. UNCHANGED <<table, taskVars, halted, view, writes, bypassed>>
    BY <1>5
  <2> HIDE DEF e
  <2> QED
    BY ONLY MemInv, v \in Pages, <2>5, <2>8, <2>9, <2>10, OwnPage, Zenon
<1> QED
  BY <1>3, <1>4, <1>5 DEF fault_protected

(* So does the fault of an access to a page that is not there.             *)
LEMMA MissingStep ==
    ASSUME MemInv, NEW t \in Tasks, NEW v \in Pages, fault_missing(t, v)
    PROVE  MemInv'
<1> DEFINE e == LinkedEntry(t, v)
           legal == (v <= brk[t] \/ v \in Stack) /\ CanGet(Needed(t, v))
<1>1. MemTypeOK /\ AllRefsExact /\ t \in alive
  BY DEF MemInv, fault_missing, Runs
<1>2. CASE ~legal /\ Panic
  BY <1>2, PanicStep
<1>3. CASE /\ legal /\ link_page(t, v)
           /\ entry' = [entry EXCEPT ![t][v] = e]
           /\ data' = LinkedTables(t, v)
           /\ view' = [view EXCEPT ![t][v] = data[e.frame]]
           /\ UNCHANGED <<taskVars, halted, writes, bypassed>>
  <2>1. e \in Entries /\ e.frame \in Frames
    <3>1. Needed(t, v) \in {1, 2} /\ e = entry_init(get_page(Needed(t, v)))
      BY DEF fault_missing, Needed, LinkedEntry
    <3>2. get_page(Needed(t, v)) \in Frames
      BY <1>3, <3>1, GetPages
    <3> QED
      BY <3>1, <3>2 DEF entry_init, Entries
  <2>2. v \notin Map
    <3>1. brk[t] \in 0 .. NHeap
      BY <1>1 DEF MemTypeOK
    <3> QED
      BY <1>3, <3>1, Areas DEF Map, Stack, Pages
  <2>3. /\ brk' = brk /\ end' = end /\ vmap' = vmap /\ alive' = alive /\ loading' = loading
        /\ halted' = halted /\ writes' = writes /\ bypassed' = bypassed
    BY <1>3 DEF taskVars
  <2>10. /\ data' \in [Frames -> Nat] /\ data'[e.frame] = data[e.frame]
         /\ \A f \in Frames \ Free : data'[f] = data[f]
    BY <1>1, <1>3, <2>1, LinkedTablesLemma
  <2>4. /\ brk' \in [Tasks -> 0 .. NHeap] /\ end' \in [Tasks -> 0 .. NHeap]
        /\ vmap' \in [Tasks -> SUBSET Map] /\ writes' \in Nat /\ data' \in [Frames -> Nat]
        /\ data[e.frame] \in Nat
    BY <1>1, <2>1, <2>3, <2>10 DEF MemTypeOK
  <2>5. ~Present(t, v)
    BY DEF fault_missing
  <2>6. bypassed' = (bypassed \/ FALSE)
    <3>1. bypassed \in BOOLEAN
      BY <1>1 DEF MemTypeOK
    <3> QED
      BY <2>3, <3>1
  <2>7. CanGet(Needed(t, v)) /\ link_page(t, v) /\ entry' = [entry EXCEPT ![t][v] = e]
    BY <1>3
  <2>8. /\ view' = [view EXCEPT ![t][v] = data[e.frame]] /\ data'[e.frame] = data[e.frame]
        /\ \A f \in Frames \ Free : f # e.frame => data'[f] = data[f]
    BY <1>3, <2>10
  <2>9. /\ IF v \in Map THEN vmap' = [vmap EXCEPT ![t] = @ \cup {v}] ELSE vmap' = vmap
        /\ e.frame = LinkedEntry(t, v).frame
    BY <2>2, <2>3
  <2> HIDE DEF e
  <2> QED
    BY <1>1, <2>1, <2>3, <2>4, <2>5, <2>6, <2>7, <2>8, <2>9, LinkStep
<1> QED
  BY <1>2, <1>3 DEF fault_missing

(* So does mmap, at a free address and at one in use.                      *)
LEMMA MmapStep ==
    ASSUME MemInv, NEW t \in Tasks, NEW a \in MmapAddrs, NEW fl \in MmapFlags,
           sys_mmap(t, a, fl[1], fl[2])
    PROVE  MemInv'
<1> DEFINE wr == fl[1]
           sh == fl[2]
<1>0. wr \in BOOLEAN /\ sh \in BOOLEAN
  BY MemoryAssumption
<1> HIDE DEF wr, sh
<1>1. MemTypeOK /\ AllRefsExact /\ t \in alive
  BY DEF MemInv, sys_mmap, Runs
<1>2. CASE Panic
  BY <1>2, PanicStep
<1>3. ASSUME NEW v \in Pages, v \in MmapAt(t, a), CanGet(Needed(t, v)), link_page(t, v),
             vmap' = [vmap EXCEPT ![t] = @ \cup {v}],
             entry' = [entry EXCEPT ![t][v] = [frame |-> LinkedEntry(t, v).frame, write |-> wr, readonly |-> ~wr,
                                               shared |-> sh \/ LinkedEntry(t, v).shared]],
             data' = LinkedTables(t, v),
             view' = [view EXCEPT ![t][v] = data[LinkedEntry(t, v).frame]],
             bypassed' = (bypassed \/ (Bypasses(entry[t][v]) /\ (wr \/ sh))),
             UNCHANGED <<brk, end, alive, loading, halted, writes>>
      PROVE  MemInv'
  <2> DEFINE o == LinkedEntry(t, v)
             e == [frame |-> o.frame, write |-> wr, readonly |-> ~wr, shared |-> sh \/ o.shared]
             x == data[o.frame]
             p == Bypasses(entry[t][v]) /\ (wr \/ sh)
  <2>1. v \in Map
    BY <1>3, MemoryAssumption DEF MmapAt
  <2>2. o \in Entries /\ o.frame \in Frames
    <3>1. CASE Present(t, v)
      <4>1. o = entry[t][v]
        BY <3>1 DEF LinkedEntry
      <4> QED
        BY <1>1, <2>1, <3>1, <4>1 DEF Present, MemTypeOK, Entries
    <3>2. CASE ~Present(t, v)
      <4>1. Needed(t, v) \in {1, 2} /\ o = entry_init(get_page(Needed(t, v)))
        BY <3>2 DEF Needed, LinkedEntry
      <4>2. get_page(Needed(t, v)) \in Frames
        BY <1>3, <4>1, GetPages
      <4> QED
        BY <4>1, <4>2 DEF entry_init, Entries
    <3> QED
      BY <3>1, <3>2
  <2>3. e \in Entries /\ e.frame = o.frame /\ e.write = wr /\ e.shared = (sh \/ o.shared)
    <3>1. (sh \/ o.shared) \in BOOLEAN /\ (~wr) \in BOOLEAN
      BY <1>0, Zenon
    <3> HIDE DEF o
    <3> QED
      BY <1>0, <2>2, <3>1 DEF Entries
  <2>4. p \in BOOLEAN
    BY Zenon
  <2>11. /\ data' \in [Frames -> Nat] /\ data'[o.frame] = data[o.frame]
         /\ \A f \in Frames \ Free : data'[f] = data[f]
    BY <1>1, <1>3, <2>2, LinkedTablesLemma
  <2>5. /\ brk' \in [Tasks -> 0 .. NHeap] /\ end' \in [Tasks -> 0 .. NHeap]
        /\ vmap' \in [Tasks -> SUBSET Map] /\ writes' \in Nat /\ data' \in [Frames -> Nat]
        /\ x \in Nat
    BY <1>1, <1>3, <2>1, <2>2, <2>11 DEF MemTypeOK
  <2>6. /\ alive' = alive /\ loading' = loading /\ halted' = halted
        /\ bypassed' = (bypassed \/ p) /\ entry' = [entry EXCEPT ![t][v] = e]
        /\ CanGet(Needed(t, v)) /\ link_page(t, v) /\ e.frame = LinkedEntry(t, v).frame
        /\ view' = [view EXCEPT ![t][v] = x] /\ data'[e.frame] = x
        /\ \A f \in Frames \ Free : f # e.frame => data'[f] = data[f]
    BY <1>3, <2>3, <2>11
  <2>7. IF v \in Map THEN vmap' = [vmap EXCEPT ![t] = @ \cup {v}] ELSE vmap' = vmap
    BY <1>3, <2>1
  <2>8. Present(t, v) /\ entry[t][v].shared => e.shared
    BY <2>3 DEF LinkedEntry
  <2>9. Present(t, v) /\ Bypasses(entry[t][v]) /\ ~p
               => ~e.write /\ ~e.shared /\ data'[e.frame] = data[e.frame]
    BY <1>3, <2>3, <2>11 DEF LinkedEntry, Bypasses
  <2>10. e \in Entries /\ t \in alive /\ t \in Tasks /\ v \in Pages
    BY <1>1, <1>3, <2>3
  <2> HIDE DEF e, o, p, x
  <2> QED
    BY ONLY MemInv, <2>4, <2>5, <2>6, <2>7, <2>8, <2>9, <2>10, LinkStep, ZenonT(100)
<1>4. MmapAt(t, a) \subseteq Pages
  BY MemoryAssumption, Areas DEF MmapAt
<1> QED
  BY <1>2, <1>3, <1>4 DEF sys_mmap, wr, sh

(* So does the load of a page of a program.                                *)
LEMMA LoadStep ==
    ASSUME MemInv, NEW t \in Tasks, NEW wr \in BOOLEAN, load_segment(t, wr)
    PROVE  MemInv'
<1> DEFINE v == end[t] + 1
           o == LinkedEntry(t, v)
           e == IF wr THEN o ELSE [o EXCEPT !.write = FALSE, !.readonly = TRUE]
           x == writes + 1
           p == Bypasses(entry[t][v])
<1>1. MemTypeOK /\ AllRefsExact /\ t \in alive
  BY DEF MemInv, load_segment, MemTypeOK
<1>2. v \in Heap /\ v \in Pages /\ v \notin Map
  BY Areas DEF load_segment
<1>3. CASE Panic
  BY <1>3, PanicStep
<1>4. CASE /\ CanGet(Needed(t, v)) /\ link_page(t, v)
           /\ entry' = [entry EXCEPT ![t][v] = e]
           /\ writes' = writes + 1
           /\ data' = [LinkedTables(t, v) EXCEPT ![o.frame] = writes + 1]
           /\ view' = [view EXCEPT ![t][v] = writes + 1]
           /\ bypassed' = (bypassed \/ Bypasses(entry[t][v]))
           /\ end' = [end EXCEPT ![t] = v]
           /\ UNCHANGED <<brk, vmap, alive, loading, halted>>
  <2> HIDE DEF v
  <2>1. o \in Entries /\ o.frame \in Frames
    <3>1. CASE Present(t, v)
      <4>1. o = entry[t][v]
        BY <3>1 DEF LinkedEntry
      <4> QED
        BY <1>1, <1>2, <3>1, <4>1 DEF Present, MemTypeOK, Entries
    <3>2. CASE ~Present(t, v)
      <4>1. Needed(t, v) \in {1, 2} /\ o = entry_init(get_page(Needed(t, v)))
        BY <3>2 DEF Needed, LinkedEntry
      <4>2. get_page(Needed(t, v)) \in Frames
        BY <1>4, <4>1, GetPages
      <4> QED
        BY <4>1, <4>2 DEF entry_init, Entries
    <3> QED
      BY <3>1, <3>2
  <2>2. e \in Entries /\ e.frame = o.frame /\ e.shared = o.shared
    <3> HIDE DEF o
    <3> QED
      BY <2>1 DEF Entries
  <2>3. p \in BOOLEAN
    BY DEF Bypasses
  <2>4. x \in Nat /\ writes' \in Nat
    BY <1>1, <1>4 DEF MemTypeOK
  <2>5. data' \in [Frames -> Nat] /\ data'[o.frame] = x /\ \A f \in Frames \ Free : f # o.frame => data'[f] = data[f]
    <3>1. LinkedTables(t, v) \in [Frames -> Nat] /\ \A f \in Frames \ Free : LinkedTables(t, v)[f] = data[f]
      BY <1>1, <1>2, <1>4, <2>1, LinkedTablesLemma
    <3> HIDE DEF o
    <3> QED
      BY <1>4, <2>1, <2>4, <3>1
  <2>6. /\ brk' \in [Tasks -> 0 .. NHeap] /\ end' \in [Tasks -> 0 .. NHeap]
        /\ vmap' \in [Tasks -> SUBSET Map]
    <3>1. v \in 0 .. NHeap
      BY <1>2, Areas DEF Heap
    <3> QED
      BY <1>1, <1>4, <3>1 DEF MemTypeOK
  <2>7. /\ alive' = alive /\ loading' = loading /\ halted' = halted
        /\ bypassed' = (bypassed \/ p) /\ entry' = [entry EXCEPT ![t][v] = e]
        /\ CanGet(Needed(t, v)) /\ link_page(t, v) /\ e.frame = LinkedEntry(t, v).frame
        /\ view' = [view EXCEPT ![t][v] = x] /\ data'[e.frame] = x
        /\ \A f \in Frames \ Free : f # e.frame => data'[f] = data[f]
    BY <1>4, <2>2, <2>5
  <2>8. IF v \in Map THEN vmap' = [vmap EXCEPT ![t] = @ \cup {v}] ELSE vmap' = vmap
    BY <1>2, <1>4
  <2>9. Present(t, v) /\ entry[t][v].shared => e.shared
    BY <2>2 DEF LinkedEntry
  <2>10. Present(t, v) /\ Bypasses(entry[t][v]) /\ ~p
               => ~e.write /\ ~e.shared /\ data'[e.frame] = data[e.frame]
    OBVIOUS
  <2> HIDE DEF e, o, p, x
  <2> QED
    BY ONLY MemInv, <1>1, <1>2, <2>2, <2>3, <2>4, <2>5, <2>6, <2>7, <2>8, <2>9, <2>10, LinkStep, ZenonT(60)
<1> QED
  BY <1>3, <1>4 DEF load_segment

(* A page entry goes: what the steps with unlink_page have in common.      *)
LEMMA UnlinkStep ==
    ASSUME MemInv, NEW t \in Tasks, t \in alive, NEW V \in SUBSET Pages, unlink_page(t, V),
           brk' \in [Tasks -> 0 .. NHeap], end' \in [Tasks -> 0 .. NHeap],
           vmap' \in [Tasks -> SUBSET Map], alive' = alive, loading' \in SUBSET alive,
           \A u \in Tasks, v \in Map : v \in vmap'[u] <=> (v \in vmap[u] /\ ~(u = t /\ v \in V))
    PROVE  MemInv'
<1>1. /\ MemTypeOK /\ AllRefsExact /\ DeadEmpty /\ MapAreaExact /\ CopyOnWrite /\ Isolation
  BY DEF MemInv
<1>2. t \in Tasks
  BY <1>1 DEF MemTypeOK
<1>3. /\ AllRefsExact'
      /\ memory_map' \in [Frames -> Int] /\ free_pages' \in Int /\ data' \in [Frames -> Nat]
      /\ entry' \in [Tasks -> [Pages -> Entries]]
      /\ view' \in [Tasks -> [Pages -> Nat]]
      /\ table' = table /\ halted' = halted /\ writes' = writes /\ bypassed' = bypassed
      /\ \A u \in Tasks, v \in Pages :
            IF u = t /\ v \in V THEN entry'[u][v] = NoEntry
            ELSE entry'[u][v] = entry[u][v] /\ view'[u][v] = view[u][v]
      /\ data' = data
  BY <1>2, UnlinkLemma
<1>4. MemTypeOK'
  BY <1>1, <1>3 DEF MemTypeOK
<1>5. NoEntry.frame = None
  BY DEF NoEntry
<1>6. \A u \in Tasks, v \in Pages : entry'[u][v].frame # None =>
          /\ entry'[u][v] = entry[u][v] /\ view'[u][v] = view[u][v]
          /\ data'[entry[u][v].frame] = data[entry[u][v].frame]
  BY <1>3, <1>5
<1>7. DeadEmpty'
  <2> SUFFICES ASSUME NEW u \in Tasks \ alive
               PROVE  /\ \A d \in Dirs : table'[u][d] = None
                      /\ \A w \in Pages : entry'[u][w].frame = None
    BY DEF DeadEmpty
  <2>1. u # t /\ u \in Tasks
    OBVIOUS
  <2>2. \A w \in Pages : entry'[u][w] = entry[u][w]
    BY <1>3, <2>1
  <2>3. table' = table
    BY <1>3
  <2> QED
    BY <1>1, <2>2, <2>3 DEF DeadEmpty
<1>8. MapAreaExact'
  <2> SUFFICES ASSUME NEW u \in alive, NEW v \in Map
               PROVE  entry'[u][v].frame # None <=> v \in vmap'[u]
    BY DEF MapAreaExact, Present
  <2>1. u \in Tasks /\ v \in Pages
    BY <1>1, Areas DEF MemTypeOK
  <2>2. entry[u][v].frame # None <=> v \in vmap[u]
    BY <1>1 DEF MapAreaExact, Present
  <2> QED
    BY <1>3, <1>5, <2>1, <2>2
<1>9. CopyOnWrite'
  <2> SUFFICES ASSUME ~bypassed, NEW a \in Tasks, NEW b \in Tasks, NEW x \in Pages, NEW y \in Pages,
                      <<a, x>> # <<b, y>>, entry'[a][x].frame # None,
                      entry'[a][x].frame = entry'[b][y].frame, ~entry'[a][x].shared
               PROVE  ~entry'[b][y].write /\ ~entry'[b][y].shared
    BY <1>3 DEF CopyOnWrite, Present
  <2>1. entry'[a][x] = entry[a][x] /\ entry'[b][y] = entry[b][y]
    BY <1>6
  <2> QED
    BY <1>1, <2>1 DEF CopyOnWrite, Present
<1>10. Isolation'
  <2> SUFFICES ASSUME ~bypassed, NEW u \in alive, NEW v \in Pages,
                      entry'[u][v].frame # None, ~entry'[u][v].shared
               PROVE  data'[entry'[u][v].frame] = view'[u][v]
    BY <1>3 DEF Isolation, Present
  <2>1. u \in Tasks
    BY <1>1 DEF MemTypeOK
  <2>2. /\ entry'[u][v] = entry[u][v] /\ view'[u][v] = view[u][v]
        /\ data'[entry[u][v].frame] = data[entry[u][v].frame]
    BY <1>6, <2>1
  <2> QED
    BY <1>1, <2>2 DEF Isolation, Present
<1> QED
  BY <1>3, <1>4, <1>7, <1>8, <1>9, <1>10 DEF MemInv

(* Only the break moves, or execve is over: nothing depends on them.       *)
LEMMA BreakStep ==
    ASSUME MemInv, end' = end, vmap' = vmap, alive' = alive, brk' \in [Tasks -> 0 .. NHeap],
           loading' \in SUBSET alive, UNCHANGED <<frameVars, entry, halted, dataVars>>
    PROVE  MemInv'
BY DEF MemInv, MemTypeOK, AllRefsExact, DeadEmpty, MapAreaExact, CopyOnWrite, Isolation,
       Present, EntryRefs, TableRefs, Pinned, frameVars, dataVars

(* So does brk, growing and shrinking.                                     *)
LEMMA BrkStep ==
    ASSUME MemInv, NEW t \in Tasks, NEW b \in 0 .. NHeap, sys_brk(t, b)
    PROVE  MemInv'
<1>0. CASE Panic
  BY <1>0, PanicStep
<1>1. MemTypeOK /\ t \in alive
  BY RunsAlive DEF MemInv, sys_brk
<1>2. /\ brk[t] \in 0 .. NHeap /\ NHeap \in Nat /\ b \in Int
  BY <1>1, Areas DEF MemTypeOK
<1>3. CASE /\ b < brk[t] /\ unlink_page(t, b + 1 .. brk[t])
           /\ brk' = [brk EXCEPT ![t] = b]
           /\ UNCHANGED <<end, vmap, alive, loading>>
  <2> DEFINE V == b + 1 .. brk[t]
  <2>1. V \subseteq Heap
    BY <1>2 DEF Heap
  <2>2. V \in SUBSET Pages /\ V \cap Map = {}
    BY <2>1, Areas
  <2>3. /\ brk' \in [Tasks -> 0 .. NHeap] /\ end' \in [Tasks -> 0 .. NHeap]
        /\ vmap' \in [Tasks -> SUBSET Map] /\ loading' \in SUBSET alive
    BY <1>1, <1>3 DEF MemTypeOK
  <2>4. unlink_page(t, V)
    BY <1>3
  <2> HIDE DEF V
  <2>5. \A u \in Tasks, v \in Map : v \in vmap'[u] <=> (v \in vmap[u] /\ ~(u = t /\ v \in V))
    BY <1>3, <2>2
  <2> QED
    BY <1>1, <1>3, <2>2, <2>3, <2>4, <2>5, UnlinkStep
<1>4. CASE /\ b >= brk[t]
           /\ brk' = IF b - brk[t] > free_pages THEN brk ELSE [brk EXCEPT ![t] = b]
           /\ UNCHANGED <<frameVars, entry, end, vmap, alive, loading, halted, dataVars>>
  <2>1. brk' \in [Tasks -> 0 .. NHeap]
    BY <1>1, <1>4 DEF MemTypeOK
  <2>2. loading' \in SUBSET alive
    BY <1>1, <1>4 DEF MemTypeOK
  <2> QED
    BY <1>1, <1>4, <2>1, <2>2, BreakStep
<1> QED
  BY <1>0, <1>3, <1>4 DEF sys_brk

(* So does munmap.                                                         *)
LEMMA MunmapStep ==
    ASSUME MemInv, NEW t \in Tasks, NEW v \in Map, sys_munmap(t, v)
    PROVE  MemInv'
<1>1. MemTypeOK /\ t \in alive
  BY RunsAlive DEF MemInv, sys_munmap
<1>2. CASE Panic
  BY <1>2, PanicStep
<1>3. CASE /\ unlink_page(t, {v})
           /\ vmap' = [vmap EXCEPT ![t] = @ \ {v}]
           /\ UNCHANGED <<brk, end, alive, loading>>
  <2> DEFINE V == {v}
  <2>1. V \in SUBSET Pages
    BY Areas
  <2>2. /\ brk' \in [Tasks -> 0 .. NHeap] /\ end' \in [Tasks -> 0 .. NHeap]
        /\ vmap' \in [Tasks -> SUBSET Map] /\ loading' \in SUBSET alive /\ alive' = alive
    BY <1>1, <1>3 DEF MemTypeOK
  <2>3. \A u \in Tasks, w \in Map : w \in vmap'[u] <=> (w \in vmap[u] /\ ~(u = t /\ w \in V))
    BY <1>1, <1>3 DEF MemTypeOK
  <2>4. unlink_page(t, V)
    BY <1>3
  <2> HIDE DEF V
  <2> QED
    BY <1>1, <2>1, <2>2, <2>3, <2>4, UnlinkStep
<1> QED
  BY <1>2, <1>3 DEF sys_munmap

(* So does the part of execve that gives up the old image.                 *)
LEMMA ExecveStep ==
    ASSUME MemInv, NEW t \in Tasks, sys_execve(t)
    PROVE  MemInv'
<1> DEFINE V == 1 .. brk[t]
<1>1. MemTypeOK /\ t \in alive /\ unlink_page(t, V) /\ alive' = alive /\ vmap' = vmap
  BY RunsAlive DEF MemInv, sys_execve
<1>2. V \subseteq Heap
  BY <1>1, Areas DEF MemTypeOK, Heap
<1>3. V \in SUBSET Pages /\ V \cap Map = {}
  BY <1>2, Areas
<1>4. /\ brk' \in [Tasks -> 0 .. NHeap] /\ end' \in [Tasks -> 0 .. NHeap]
      /\ vmap' \in [Tasks -> SUBSET Map] /\ loading' \in SUBSET alive
  <2>1. 0 \in 0 .. NHeap
    BY Areas
  <2> QED
    BY <1>1, <2>1 DEF MemTypeOK, sys_execve
<1> HIDE DEF V
<1>5. \A u \in Tasks, v \in Map : v \in vmap'[u] <=> (v \in vmap[u] /\ ~(u = t /\ v \in V))
  BY <1>1, <1>3
<1> QED
  BY <1>1, <1>3, <1>4, <1>5, UnlinkStep

(* So does the end of execve.                                              *)
LEMMA ReturnStep ==
    ASSUME MemInv, NEW t \in Tasks, exec_return(t)
    PROVE  MemInv'
<1>1. MemTypeOK
  BY DEF MemInv
<1>2. /\ end' = end /\ vmap' = vmap /\ alive' = alive /\ UNCHANGED <<frameVars, entry, halted, dataVars>>
  BY DEF exec_return
<1>3. brk' \in [Tasks -> 0 .. NHeap] /\ loading' \in SUBSET alive
  BY <1>1 DEF MemTypeOK, exec_return
<1> QED
  BY <1>2, <1>3, BreakStep

(* exit gives back every page and page table, and nobody else's.           *)
LEMMA FreeStep ==
    ASSUME MemInv, NEW t \in Tasks, free_pde(t)
    PROVE  MemInv'
<1> DEFINE refs == [f \in Frames |-> Refs(t, Pages)[f] + Cardinality({d \in Dirs : table[t][d] = f})]
<1>1. /\ put_page(refs)
      /\ table' = [table EXCEPT ![t] = [d \in Dirs |-> None]]
      /\ entry' = [entry EXCEPT ![t] = [v \in Pages |-> NoEntry]]
      /\ brk' = [brk EXCEPT ![t] = 0] /\ end' = [end EXCEPT ![t] = 0]
      /\ vmap' = [vmap EXCEPT ![t] = {}] /\ view' = [view EXCEPT ![t] = [v \in Pages |-> 0]]
      /\ alive' = alive \ {t} /\ t \notin loading
      /\ loading' = loading /\ halted' = halted /\ writes' = writes /\ bypassed' = bypassed
  BY DEF free_pde, Runs
<1>2. /\ MemTypeOK /\ AllRefsExact /\ DeadEmpty /\ MapAreaExact /\ CopyOnWrite /\ Isolation
  BY DEF MemInv
<1>3. NoEntry \in Entries /\ NoEntry.frame = None
  BY DEF NoEntry, Entries
<1>4. /\ entry' \in [Tasks -> [Pages -> Entries]] /\ view' \in [Tasks -> [Pages -> Nat]]
      /\ table' \in [Tasks -> [Dirs -> Frames \cup {None}]]
  <2>1. /\ [v \in Pages |-> NoEntry] \in [Pages -> Entries]
        /\ [v \in Pages |-> 0] \in [Pages -> Nat]
        /\ [d \in Dirs |-> None] \in [Dirs -> Frames \cup {None}]
    BY <1>3
  <2> QED
    BY <1>1, <1>2, <2>1 DEF MemTypeOK
<1>5. /\ \A u \in Tasks, v \in Pages :
            IF u = t THEN entry'[u][v].frame = None
            ELSE entry'[u][v] = entry[u][v] /\ view'[u][v] = view[u][v]
      /\ \A u \in Tasks, d \in Dirs :
            IF u = t THEN table'[u][d] = None ELSE table'[u][d] = table[u][d]
  BY <1>1, <1>2, <1>3 DEF MemTypeOK
<1>6. ASSUME NEW f \in Frames
      PROVE  /\ refs[f] \in Nat
             /\ Cardinality(EntryRefs(entry', f)) + Cardinality(TableRefs(table', f))
                   = Cardinality(EntryRefs(entry, f)) + Cardinality(TableRefs(table, f)) - refs[f]
             /\ Cardinality(EntryRefs(entry', f)) \in Nat /\ Cardinality(EntryRefs(entry, f)) \in Nat
             /\ Cardinality(TableRefs(table', f)) \in Nat /\ Cardinality(TableRefs(table, f)) \in Nat
  <2>0. None # f
    BY Areas
  <2>1. /\ \A u \in Tasks, v \in Pages : u # t => entry'[u][v].frame = entry[u][v].frame
        /\ \A u \in Tasks, d \in Dirs : u # t => table'[u][d] = table[u][d]
    BY <1>5
  <2>2. /\ Cardinality(EntryRow(entry, t, f)) \in Nat
        /\ Cardinality(EntryRefs(entry', f)) = Cardinality(EntryRefs(entry, f))
               - Cardinality(EntryRow(entry, t, f)) + Cardinality(EntryRow(entry', t, f))
    BY ONLY <2>1, EntryRowCount, t \in Tasks
  <2>3. /\ Cardinality(TableRow(table, t, f)) \in Nat
        /\ Cardinality(TableRefs(table', f)) = Cardinality(TableRefs(table, f))
               - Cardinality(TableRow(table, t, f)) + Cardinality(TableRow(table', t, f))
    BY ONLY <2>1, TableRowCount, t \in Tasks
  <2>4. EntryRow(entry', t, f) = {} /\ TableRow(table', t, f) = {}
    BY <1>5, <2>0 DEF EntryRow, TableRow
  <2>5. Cardinality(EntryRow(entry', t, f)) = 0 /\ Cardinality(TableRow(table', t, f)) = 0
    BY <2>4, FS_EmptySet
  <2>6. refs[f] = Cardinality(EntryRow(entry, t, f)) + Cardinality(TableRow(table, t, f))
    BY DEF Refs, EntryRow, TableRow
  <2>7. /\ Cardinality(EntryRefs(entry', f)) \in Nat /\ Cardinality(EntryRefs(entry, f)) \in Nat
        /\ Cardinality(TableRefs(table', f)) \in Nat /\ Cardinality(TableRefs(table, f)) \in Nat
    BY RefsFinite
  <2> HIDE DEF refs
  <2> QED
    BY <2>2, <2>3, <2>5, <2>6, <2>7
<1>7. \A f \in Frames :
          /\ memory_map[f] = Cardinality(EntryRefs(entry, f)) + Cardinality(TableRefs(table, f)) + Pinned(f)
          /\ Pinned(f) \in Nat
  BY <1>2 DEF AllRefsExact, Pinned
<1>8. refs \in [Frames -> Nat]
  <2>1. refs = [f \in Frames |-> refs[f]]
    OBVIOUS
  <2> HIDE DEF refs
  <2> QED
    BY <1>6, <2>1
<1> HIDE DEF refs
<1>9. \A f \in Frames : refs[f] <= memory_map[f]
  BY <1>6, <1>7
<1>10. /\ memory_map' \in [Frames -> Int] /\ free_pages' \in Int /\ data' \in [Frames -> Nat]
       /\ \A f \in Frames : memory_map'[f] = memory_map[f] - refs[f]
       /\ data' = data
  BY <1>1, <1>2, <1>8, <1>9, PutLemma
<1>11. \A f \in Frames : memory_map'[f] = Cardinality(EntryRefs(entry', f)) + Cardinality(TableRefs(table', f)) + Pinned(f)
  BY <1>6, <1>7, <1>10
<1>12. AllRefsExact'
  BY <1>11 DEF AllRefsExact, EntryRefs, TableRefs, Pinned
<1>13. ASSUME NEW u \in Tasks, NEW v \in Pages, entry'[u][v].frame # None
       PROVE  /\ u # t /\ entry'[u][v] = entry[u][v] /\ view'[u][v] = view[u][v]
              /\ data'[entry[u][v].frame] = data[entry[u][v].frame]
  BY <1>5, <1>10, <1>13
<1>14. MemTypeOK'
  <2>1. 0 \in 0 .. NHeap
    BY Areas
  <2> QED
    BY <1>1, <1>2, <1>4, <1>10, <2>1 DEF MemTypeOK
<1>15. DeadEmpty'
  BY <1>1, <1>2, <1>5 DEF DeadEmpty
<1>16. MapAreaExact'
  <2> SUFFICES ASSUME NEW u \in alive', NEW v \in Map
               PROVE  entry'[u][v].frame # None <=> v \in vmap'[u]
    BY DEF MapAreaExact, Present
  <2>1. u \in alive /\ u \in Tasks /\ u # t /\ v \in Pages
    BY <1>1, <1>2, Areas DEF MemTypeOK
  <2>2. vmap'[u] = vmap[u] /\ entry'[u][v] = entry[u][v]
    BY <1>1, <1>2, <1>5, <2>1 DEF MemTypeOK
  <2> QED
    BY <1>2, <2>1, <2>2 DEF MapAreaExact, Present
<1>17. CopyOnWrite'
  <2> SUFFICES ASSUME ~bypassed, NEW a \in Tasks, NEW b \in Tasks, NEW x \in Pages, NEW y \in Pages,
                      <<a, x>> # <<b, y>>, entry'[a][x].frame # None,
                      entry'[a][x].frame = entry'[b][y].frame, ~entry'[a][x].shared
               PROVE  ~entry'[b][y].write /\ ~entry'[b][y].shared
    BY <1>1 DEF CopyOnWrite, Present
  <2>1. entry'[a][x] = entry[a][x] /\ entry'[b][y] = entry[b][y]
    BY <1>13
  <2> QED
    BY <1>2, <2>1 DEF CopyOnWrite, Present
<1>18. Isolation'
  <2> SUFFICES ASSUME ~bypassed, NEW u \in alive', NEW v \in Pages,
                      entry'[u][v].frame # None, ~entry'[u][v].shared
               PROVE  data'[entry'[u][v].frame] = view'[u][v]
    BY <1>1 DEF Isolation, Present
  <2>1. u \in Tasks /\ u \in alive
    BY <1>1, <1>2 DEF MemTypeOK
  <2>2. /\ entry'[u][v] = entry[u][v] /\ view'[u][v] = view[u][v]
        /\ data'[entry[u][v].frame] = data[entry[u][v].frame]
    BY <1>13, <2>1
  <2> QED
    BY <1>2, <2>1, <2>2 DEF Isolation, Present
<1> QED
  BY <1>12, <1>14, <1>15, <1>16, <1>17, <1>18 DEF MemInv

(* fork: the child's references are counted, its page tables are its own,  *)
(* and from now on a private page is copied before either writes to it.    *)
LEMMA ForkStep ==
    ASSUME MemInv, NEW t \in Tasks, NEW c \in Tasks, copy_pde(t, c)
    PROVE  MemInv'
<1> DEFINE dirs == {d \in Dirs : table[t][d] # None}
           n == Cardinality(dirs)
           protected == [v \in Pages |-> write_protect(entry[t][v])]
           tb == [d \in Dirs |-> IF d \in dirs THEN get_page(Rank(d, dirs)) ELSE None]
<1>1. CASE Panic
  BY <1>1, PanicStep
<1>2. CASE /\ CanGet(n)
           /\ memory_map' = Counted(n, Refs(t, Pages))
           /\ free_pages' = free_pages - n
           /\ table' = [table EXCEPT ![c] = tb]
           /\ entry' = [entry EXCEPT ![t] = protected, ![c] = protected]
           /\ brk' = [brk EXCEPT ![c] = brk[t]] /\ end' = [end EXCEPT ![c] = end[t]]
           /\ vmap' = [vmap EXCEPT ![c] = vmap[t]] /\ view' = [view EXCEPT ![c] = view[t]]
           /\ alive' = alive \cup {c}
           /\ data' = TablesFilled(n)
           /\ UNCHANGED <<loading, halted, writes, bypassed>>
  <2>1. /\ MemTypeOK /\ AllRefsExact /\ DeadEmpty /\ MapAreaExact /\ CopyOnWrite /\ Isolation
    BY DEF MemInv
  <2>2. t \in alive /\ c \notin alive /\ c # t
    BY DEF copy_pde, Runs
  <2>3. dirs \in SUBSET (1 .. 3) /\ 3 \in Nat
    BY DEF Dirs
  <2>4. n \in Nat /\ \A d \in dirs : Rank(d, dirs) \in 1 .. n
    <3>1. /\ IsFiniteSet(dirs) /\ \A d \in dirs : Rank(d, dirs) \in 1 .. Cardinality(dirs)
      <4> HIDE DEF dirs
      <4> QED
        BY <2>3, RankLemma
    <3> HIDE DEF dirs
    <3> QED
      BY <3>1, FS_CardinalityType
  <2>5. \A d, d2 \in dirs : Rank(d, dirs) = Rank(d2, dirs) => d = d2
    <3> HIDE DEF dirs
    <3> QED
      BY <2>3, RankLemma
  <2>6. \A i \in 1 .. n : \E d \in dirs : Rank(d, dirs) = i
    <3> HIDE DEF dirs
    <3> QED
      BY <2>3, RankLemma
  <2>7. /\ \A i \in 1 .. n : get_page(i) \in Free /\ get_page(i) \in Frames
        /\ \A i, j \in 1 .. n : get_page(i) = get_page(j) => i = j
    <3> HIDE DEF n
    <3> QED
      BY <1>2, <2>4, GetPages
  <2>8. \A e \in Entries : /\ write_protect(e) \in Entries /\ write_protect(e).frame = e.frame
                           /\ write_protect(e).shared = e.shared
                           /\ (~e.shared => ~write_protect(e).write)
                           /\ write_protect(e).write => e.write
    BY DEF write_protect, Entries
  <2>9. /\ entry' \in [Tasks -> [Pages -> Entries]]
        /\ \A u \in Tasks \ {t, c} : entry'[u] = entry[u]
        /\ \A v \in Pages : entry'[t][v] = write_protect(entry[t][v]) /\ entry'[c][v] = write_protect(entry[t][v])
    <3>1. protected \in [Pages -> Entries]
      BY <2>1, <2>8 DEF MemTypeOK
    <3>2. \A v \in Pages : protected[v] = write_protect(entry[t][v])
      OBVIOUS
    <3> HIDE DEF protected
    <3> QED
      BY <1>2, <2>1, <2>2, <3>1, <3>2 DEF MemTypeOK
  <2>10. /\ table' \in [Tasks -> [Dirs -> Frames \cup {None}]]
         /\ \A u \in Tasks \ {c} : table'[u] = table[u]
         /\ \A d \in Dirs : table'[c][d] = IF d \in dirs THEN get_page(Rank(d, dirs)) ELSE None
    <3>1. tb \in [Dirs -> Frames \cup {None}]
      <4> HIDE DEF dirs, n
      <4> QED
        BY <2>4, <2>7
    <3>2. \A d \in Dirs : tb[d] = IF d \in dirs THEN get_page(Rank(d, dirs)) ELSE None
      OBVIOUS
    <3> HIDE DEF tb, dirs
    <3> QED
      BY <1>2, <2>1, <3>1, <3>2 DEF MemTypeOK
  <2>11. \A u \in Tasks, v \in Pages :
            /\ entry[u][v] \in Entries
            /\ u # c => /\ entry'[u][v].frame = entry[u][v].frame
                        /\ entry'[u][v].shared = entry[u][v].shared
                        /\ entry'[u][v].write => entry[u][v].write
    <3>1. \A u \in Tasks, v \in Pages : entry[u][v] \in Entries
      BY <2>1 DEF MemTypeOK
    <3> QED
      BY <2>8, <2>9, <3>1
  <2>12. AllRefsExact' /\ memory_map' \in [Frames -> Int] /\ free_pages' \in Int
    <3>0. \A f \in Frames : Refs(t, Pages)[f] = Cardinality(EntryRow(entry, t, f))
      BY DEF Refs, EntryRow
    <3>1. ASSUME NEW f \in Frames
          PROVE  /\ memory_map'[f] = Cardinality(EntryRefs(entry', f)) + Cardinality(TableRefs(table', f)) + Pinned(f)
                 /\ memory_map'[f] \in Int
      <4>0. None # f
        BY Areas
      <4>1. /\ \A u \in Tasks, v \in Pages : u # c => entry'[u][v].frame = entry[u][v].frame
            /\ \A u \in Tasks, d \in Dirs : u # c => table'[u][d] = table[u][d]
        BY <2>10, <2>11
      <4>2. /\ Cardinality(EntryRow(entry', c, f)) \in Nat
            /\ Cardinality(EntryRefs(entry', f)) = Cardinality(EntryRefs(entry, f))
                  - Cardinality(EntryRow(entry, c, f)) + Cardinality(EntryRow(entry', c, f))
        BY ONLY <4>1, EntryRowCount, c \in Tasks
      <4>3. /\ Cardinality(TableRow(table', c, f)) \in Nat
            /\ Cardinality(TableRefs(table', f)) = Cardinality(TableRefs(table, f))
                  - Cardinality(TableRow(table, c, f)) + Cardinality(TableRow(table', c, f))
        BY ONLY <4>1, TableRowCount, c \in Tasks
      <4>4. EntryRow(entry, c, f) = {} /\ TableRow(table, c, f) = {}
        BY <2>1, <2>2, <4>0 DEF DeadEmpty, EntryRow, TableRow
      <4>5. EntryRow(entry', c, f) = EntryRow(entry, t, f)
        BY <2>8, <2>9, <2>11 DEF EntryRow
      <4>6. /\ Cardinality(EntryRefs(entry, f)) \in Nat /\ Cardinality(TableRefs(table, f)) \in Nat
            /\ Cardinality({}) = 0 /\ Pinned(f) \in Nat
        BY RefsFinite, FS_EmptySet DEF Pinned
      <4>7. memory_map[f] = Cardinality(EntryRefs(entry, f)) + Cardinality(TableRefs(table, f)) + Pinned(f)
        BY <2>1 DEF AllRefsExact
      <4>8. CASE \E i \in 1 .. n : f = get_page(i)
        <5>1. PICK i \in 1 .. n : f = get_page(i)
          BY <4>8
        <5>2. PICK d \in dirs : Rank(d, dirs) = i
          BY <2>6
        <5>3. d \in Dirs
          OBVIOUS
        <5>4. TableRow(table', c, f) = {d}
          <6> HIDE DEF n, dirs
          <6>1. \A d2 \in Dirs : table'[c][d2] = f => d2 \in dirs
            BY <2>10, <4>0
          <6>2. \A d2 \in dirs : get_page(Rank(d2, dirs)) = f => d2 = d
            BY <2>4, <2>5, <2>7, <5>1, <5>2
          <6>3. table'[c][d] = f
            BY <2>10, <5>1, <5>2, <5>3
          <6>4. \A d2 \in Dirs : table'[c][d2] = f <=> d2 = d
            BY <2>10, <6>1, <6>2, <6>3
          <6> QED
            BY <5>3, <6>4 DEF TableRow
        <5>5. Cardinality(TableRow(table', c, f)) = 1
          BY <5>4, FS_Singleton
        <5>6. f \in Free
          BY <2>7, <5>1
        <5>7. /\ memory_map[f] = 0
              /\ \A v \in Pages : entry[t][v].frame # f
          BY <2>1, <5>6, FreeUnused
        <5>8. EntryRow(entry, t, f) = {}
          BY <5>7 DEF EntryRow
        <5>9. memory_map'[f] = 1
          BY <1>2, <4>8 DEF Counted
        <5>10. Cardinality(EntryRow(entry', c, f)) = 0
          BY <4>5, <4>6, <5>8
        <5> HIDE DEF dirs, n
        <5> QED
          BY <4>2, <4>3, <4>4, <4>6, <4>7, <5>5, <5>7, <5>9, <5>10
      <4>9. CASE ~ \E i \in 1 .. n : f = get_page(i)
        <5>1. TableRow(table', c, f) = {}
          <6> HIDE DEF n, dirs
          <6> QED
            BY <2>4, <2>10, <4>0, <4>9 DEF TableRow
        <5>2. memory_map'[f] = memory_map[f] + Cardinality(EntryRow(entry, t, f))
          BY <1>2, <3>0, <4>9 DEF Counted
        <5>3. Cardinality(TableRow(table', c, f)) = 0
          BY <4>6, <5>1
        <5> HIDE DEF dirs, n
        <5> QED
          BY <4>2, <4>3, <4>4, <4>5, <4>6, <4>7, <5>2, <5>3
      <4> QED
        BY <4>8, <4>9
    <3>2. memory_map' = [f \in Frames |-> memory_map'[f]]
      BY <1>2 DEF Counted
    <3>3. memory_map' \in [Frames -> Int]
      BY <3>1, <3>2
    <3>4. free_pages' \in Int
      <4> HIDE DEF n
      <4> QED
        BY <1>2, <2>1, <2>4 DEF MemTypeOK
    <3>5. AllRefsExact'
      BY <3>1 DEF AllRefsExact, EntryRefs, TableRefs, Pinned
    <3> QED
      BY <3>3, <3>4, <3>5
  <2>18. data' \in [Frames -> Nat] /\ \A f \in Frames \ Free : data'[f] = data[f]
    <3> HIDE DEF n
    <3> QED
      BY <1>2, <2>1, <2>4, TablesLemma
  <2>13. MemTypeOK'
    <3> HIDE DEF n, dirs, tb, protected
    <3> QED
      BY <1>2, <2>1, <2>9, <2>10, <2>12, <2>18 DEF MemTypeOK
  <2>14. DeadEmpty'
    <3> SUFFICES ASSUME NEW u \in Tasks, u \notin alive, u # c
                 PROVE  /\ \A d \in Dirs : table'[u][d] = None
                        /\ \A v \in Pages : entry'[u][v].frame = None
      BY <1>2 DEF DeadEmpty
    <3>1. u # t /\ table'[u] = table[u]
      BY <2>2, <2>10
    <3>2. \A v \in Pages : entry'[u][v].frame = entry[u][v].frame
      BY <2>11
    <3> QED
      BY <2>1, <3>1, <3>2 DEF DeadEmpty
  <2>15. MapAreaExact'
    <3> SUFFICES ASSUME NEW u \in alive \cup {c}, NEW v \in Map
                 PROVE  entry'[u][v].frame # None <=> v \in vmap'[u]
      BY <1>2 DEF MapAreaExact, Present
    <3>1. v \in Pages
      BY Areas
    <3>2. CASE u = c
      <4>1. vmap'[c] = vmap[t]
        BY <1>2, <2>1 DEF MemTypeOK
      <4>2. entry'[c][v].frame = entry[t][v].frame
        BY <2>8, <2>9, <2>11, <3>1
      <4> QED
        BY <2>1, <2>2, <3>2, <4>1, <4>2 DEF MapAreaExact, Present
    <3>3. CASE u # c
      <4>1. u \in alive /\ u \in Tasks
        BY <2>1, <3>3 DEF MemTypeOK
      <4>2. vmap'[u] = vmap[u]
        BY <1>2, <2>1, <3>3, <4>1 DEF MemTypeOK
      <4>3. entry'[u][v].frame = entry[u][v].frame
        BY <2>11, <3>1, <3>3, <4>1
      <4> QED
        BY <2>1, <4>1, <4>2, <4>3 DEF MapAreaExact, Present
    <3> QED
      BY <3>2, <3>3
  <2>16. CopyOnWrite'
    <3>1. SUFFICES ASSUME ~bypassed, NEW a \in Tasks, NEW b \in Tasks, NEW x \in Pages, NEW y \in Pages,
                          <<a, x>> # <<b, y>>, entry'[a][x].frame # None,
                          entry'[a][x].frame = entry'[b][y].frame, ~entry'[a][x].shared
                   PROVE  ~entry'[b][y].write /\ ~entry'[b][y].shared
      BY <1>2 DEF CopyOnWrite, Present
    <3> DEFINE a1 == IF a = c THEN t ELSE a
               b1 == IF b = c THEN t ELSE b
    <3>2. /\ a1 \in Tasks /\ entry[a1][x] \in Entries /\ entry'[a][x].frame = entry[a1][x].frame
          /\ entry'[a][x].shared = entry[a1][x].shared
      BY <2>8, <2>9, <2>11
    <3>3. /\ b1 \in Tasks /\ entry[b1][y] \in Entries /\ entry'[b][y].frame = entry[b1][y].frame
          /\ entry'[b][y].shared = entry[b1][y].shared
          /\ entry'[b][y].write => entry[b1][y].write
      BY <2>8, <2>9, <2>11
    <3>4. b1 = t /\ ~entry[t][y].shared => ~entry'[b][y].write
      BY <2>8, <2>9, <2>11
    <3>5. CASE <<a1, x>> # <<b1, y>>
      <4> HIDE DEF a1, b1
      <4>1. ~entry[a1][x].shared /\ entry[a1][x].frame # None /\ entry[a1][x].frame = entry[b1][y].frame
        BY <3>1, <3>2, <3>3
      <4>2. ~entry[b1][y].write /\ ~entry[b1][y].shared
        BY <2>1, <3>1, <3>2, <3>3, <3>5, <4>1 DEF CopyOnWrite, Present
      <4> QED
        BY <3>3, <4>2
    <3>6. CASE <<a1, x>> = <<b1, y>>
      <4>1. b1 = t /\ a1 = t /\ x = y
        BY <3>1, <3>6
      <4> HIDE DEF a1, b1
      <4>2. ~entry[t][y].shared
        BY <3>1, <3>2, <4>1
      <4>3. ~entry'[b][y].shared
        BY <3>3, <4>1, <4>2
      <4> QED
        BY <3>4, <4>1, <4>2, <4>3
    <3> QED
      BY <3>5, <3>6
  <2>17. Isolation'
    <3>1. SUFFICES ASSUME ~bypassed, NEW u \in alive \cup {c}, NEW v \in Pages,
                          entry'[u][v].frame # None, ~entry'[u][v].shared
                   PROVE  data'[entry'[u][v].frame] = view'[u][v]
      BY <1>2 DEF Isolation, Present
    <3> DEFINE w == IF u = c THEN t ELSE u
    <3>2. w \in alive /\ w \in Tasks
      BY <2>1, <2>2 DEF MemTypeOK
    <3>3. entry'[u][v].frame = entry[w][v].frame /\ entry'[u][v].shared = entry[w][v].shared
      BY <2>8, <2>9, <2>11, <3>2
    <3>4. view'[u][v] = view[w][v]
      BY <1>2, <2>1, <3>2 DEF MemTypeOK
    <3> HIDE DEF w
    <3>5. entry[w][v].frame \in Frames /\ entry[w][v].frame \notin Free
      BY <2>1, <3>1, <3>2, <3>3, FreeUnused DEF MemTypeOK, Entries
    <3>6. data'[entry[w][v].frame] = data[entry[w][v].frame]
      BY <2>18, <3>5
    <3> QED
      BY <2>1, <3>1, <3>2, <3>3, <3>4, <3>6 DEF Isolation, Present
  <2> QED
    BY <2>12, <2>13, <2>14, <2>15, <2>16, <2>17 DEF MemInv
<1> QED
  BY <1>1, <1>2 DEF copy_pde

-----------------------------------------------------------------------------
(* At the start only the kernel's pages are in use.                        *)
LEMMA MemStart ==
    ASSUME Init
    PROVE  MemInv
<1>1. NoEntry \in Entries /\ NoEntry.frame = None
  BY DEF NoEntry, Entries
<1>2. /\ \A t \in Tasks, v \in Pages : entry[t][v].frame = None
      /\ \A t \in Tasks, d \in Dirs : table[t][d] = None
  BY <1>1 DEF Init
<1>3. MemTypeOK
  <2>1. 0 \in 0 .. NHeap /\ NFrames \in Int /\ First \in Tasks
    BY Areas, MemoryAssumption
  <2>2. /\ memory_map \in [Frames -> Int] /\ free_pages \in Int
        /\ table \in [Tasks -> [Dirs -> Frames \cup {None}]]
        /\ entry \in [Tasks -> [Pages -> Entries]]
    BY <1>1, <2>1 DEF Init
  <2>3. /\ brk \in [Tasks -> 0 .. NHeap] /\ end \in [Tasks -> 0 .. NHeap]
        /\ vmap \in [Tasks -> SUBSET Map]
        /\ alive \in SUBSET Tasks /\ loading \in SUBSET alive
    BY <2>1 DEF Init
  <2>4. /\ halted \in BOOLEAN /\ bypassed \in BOOLEAN /\ writes \in Nat
        /\ data \in [Frames -> Nat] /\ view \in [Tasks -> [Pages -> Nat]]
    BY DEF Init
  <2> QED
    BY <2>2, <2>3, <2>4 DEF MemTypeOK
<1>4. AllRefsExact
  <2> SUFFICES ASSUME NEW f \in Frames
               PROVE  memory_map[f] = Cardinality(EntryRefs(entry, f)) + Cardinality(TableRefs(table, f)) + Pinned(f)
    BY DEF AllRefsExact
  <2>1. None # f
    BY Areas
  <2>2. EntryRefs(entry, f) = {} /\ TableRefs(table, f) = {}
    BY <1>2, <2>1 DEF EntryRefs, TableRefs
  <2>3. Cardinality({}) = 0
    BY FS_EmptySet
  <2>4. memory_map[f] = Pinned(f) /\ Pinned(f) \in Int
    BY DEF Init, Pinned
  <2> QED
    BY <2>2, <2>3, <2>4
<1>5. DeadEmpty /\ CopyOnWrite
  BY <1>2 DEF DeadEmpty, CopyOnWrite, Present
<1>6. MapAreaExact /\ Isolation
  <2>1. Map \subseteq Pages /\ alive \subseteq Tasks
    BY <1>3, Areas DEF MemTypeOK
  <2>2. \A t \in Tasks : vmap[t] = {}
    BY DEF Init
  <2> QED
    BY <1>2, <2>1, <2>2 DEF MapAreaExact, Isolation, Present
<1> QED
  BY <1>3, <1>4, <1>5, <1>6 DEF MemInv

(* Every step of a process keeps the invariant.                            *)
LEMMA MemStep ==
    ASSUME MemInv, [Next]_vars
    PROVE  MemInv'
<1>1. CASE UNCHANGED vars
  BY <1>1 DEF vars, MemInv, MemTypeOK, AllRefsExact, DeadEmpty, MapAreaExact, CopyOnWrite, Isolation,
       Present, EntryRefs, TableRefs, Pinned, frameVars, taskVars, dataVars
<1>2. ASSUME NEW t \in Tasks, NEW v \in Pages, user_write(t, v) \/ kernel_write(t, v) PROVE MemInv'
  BY <1>2, StoreStep DEF user_write, kernel_write
<1>3. ASSUME NEW t \in Tasks, NEW v \in Pages, fault_protected(t, v) PROVE MemInv'
  BY <1>3, ProtectedStep
<1>4. ASSUME NEW t \in Tasks, NEW v \in Pages, fault_missing(t, v) PROVE MemInv'
  BY <1>4, MissingStep
<1>5. ASSUME NEW t \in Tasks, NEW c \in Tasks, copy_pde(t, c) PROVE MemInv'
  BY <1>5, ForkStep
<1>6. ASSUME NEW t \in Tasks, free_pde(t) PROVE MemInv'
  BY <1>6, FreeStep
<1>7. ASSUME NEW t \in Tasks, NEW b \in 0 .. NHeap, sys_brk(t, b) PROVE MemInv'
  BY <1>7, BrkStep
<1>8. ASSUME NEW t \in Tasks, NEW a \in MmapAddrs, NEW fl \in MmapFlags, sys_mmap(t, a, fl[1], fl[2])
      PROVE  MemInv'
  BY <1>8, MmapStep
<1>9. ASSUME NEW t \in Tasks, NEW v \in Map, sys_munmap(t, v) PROVE MemInv'
  BY <1>9, MunmapStep
<1>10. ASSUME NEW t \in Tasks, sys_execve(t) PROVE MemInv'
  BY <1>10, ExecveStep
<1>11. ASSUME NEW t \in Tasks, NEW wr \in BOOLEAN, load_segment(t, wr) PROVE MemInv'
  BY <1>11, LoadStep
<1>12. ASSUME NEW t \in Tasks, exec_return(t) PROVE MemInv'
  BY <1>12, ReturnStep
<1> QED
  BY <1>1, <1>2, <1>3, <1>4, <1>5, <1>6, <1>7, <1>8, <1>9, <1>10, <1>11, <1>12 DEF Next

(* What the reference counts, the mmap area and copy on write rest on,     *)
(* whatever the number of processes, pages and physical pages.             *)
THEOREM MemoryInvariant == MemorySpec => []MemInv
<1>1. MemoryInit => MemInv
  BY MemStart DEF MemoryInit
<1>2. MemInv /\ [MemoryNext]_<<vars, heapVars, part>> => MemInv'
  <2> SUFFICES ASSUME MemInv, [MemoryNext]_<<vars, heapVars, part>> PROVE MemInv'
    OBVIOUS
  <2>1. [Next]_vars
    BY DEF MemoryNext
  <2> QED
    BY <2>1, MemStep
<1> QED
  BY <1>1, <1>2, PTL DEF MemorySpec

(* memory_map is the number of page entries and page tables that refer to  *)
(* a page: fork, exit, copy on write, brk, mmap, munmap and execve leak no *)
(* page and free none that is in use.                                      *)
THEOREM RefsAlwaysExact == MemorySpec => []RefsExact
<1>1. MemInv => RefsExact
  <2> SUFFICES ASSUME AllRefsExact, NEW f \in NKernel + 1 .. NFrames
               PROVE  memory_map[f] = Cardinality(EntryRefs(entry, f)) + Cardinality(TableRefs(table, f))
    BY DEF MemInv, RefsExact, EntryRefs, TableRefs
  <2>1. f \in Frames /\ ~(f <= NKernel)
    BY Areas DEF Frames
  <2>2. memory_map[f] = Cardinality(EntryRefs(entry, f)) + Cardinality(TableRefs(table, f)) + Pinned(f)
    BY <2>1 DEF AllRefsExact
  <2>3. Pinned(f) = 0
    BY <2>1 DEF Pinned
  <2>4. Cardinality(EntryRefs(entry, f)) \in Nat /\ Cardinality(TableRefs(table, f)) \in Nat
    BY RefsFinite
  <2> QED
    BY <2>2, <2>3, <2>4
<1> QED
  BY <1>1, MemoryInvariant, PTL

(* From link_page, mmap, execve or fork on, a private page changes by its  *)
(* own process's writes alone, unless the kernel has stored through a page *)
(* still to be copied.  What link_page finds in the page is not claimed:   *)
(* put_page leaves there what the last owner wrote.                        *)
THEOREM PrivatePagesIsolated == MemorySpec => []Isolation
<1>1. MemInv => Isolation
  BY DEF MemInv
<1> QED
  BY <1>1, MemoryInvariant, PTL

(* A page of the mmap area is present exactly when vmap has its bit.       *)
THEOREM MapAreaAlwaysExact == MemorySpec => []MapAreaExact
<1>1. MemInv => MapAreaExact
  BY DEF MemInv
<1> QED
  BY <1>1, MemoryInvariant, PTL

-----------------------------------------------------------------------------
\* The memory of the kernel.

HBlocks == [page : KPages, idx : Nat]

\* The pages of the arena_t at the start of p.
Span(p) == IF arena[p].desc = -1 THEN {}
           ELSE p .. p + (IF arena[p].desc = Large THEN arena[p].count ELSE 1) - 1

HeapTypeOK == /\ kernel_bitmap \in SUBSET KPages
              /\ arena \in [KPages -> [desc : {-1, Large} \cup Descs, count : Nat]]
              /\ free_list \in [Descs -> Seq(HBlocks)]
              /\ blocks \in SUBSET HBlocks
              /\ runs \in SUBSET [page : KPages, count : Nat \ {0}]
              /\ \A p \in KPages : /\ arena[p].desc = -1 => arena[p].count = 0
                                   /\ arena[p].desc = Large => arena[p].count > 0

\* A page whose bit is set is in one run or in one arena.
Owned == /\ \A q \in Int : q \in kernel_bitmap <=> \/ \E r \in runs : q \in PagesOf(r)
                                                   \/ \E p \in KPages : q \in Span(p)
         /\ \A q \in Int : \A r, s \in runs : q \in PagesOf(r) /\ q \in PagesOf(s) => r = s
         /\ \A q \in Int : \A p, u \in KPages : q \in Span(p) /\ q \in Span(u) => p = u
         /\ \A q \in Int : \A r \in runs, p \in KPages : ~(q \in PagesOf(r) /\ q \in Span(p))

\* The free blocks of the page p.
FreeOn(d, p) == {b \in ToSet(free_list[d]) : b.page = p}

\* Every block of the page p is a caller's or free, and none is both.
PageOK(p) ==
    /\ \A b \in blocks : b.page = p => arena[p].desc # -1
    /\ \A d \in Descs : \A b \in ToSet(free_list[d]) : b.page = p => arena[p].desc = d /\ b \notin blocks
    /\ arena[p].desc = Large => \A b \in HBlocks : b.page = p => (b \in blocks <=> b.idx = 1)
    /\ arena[p].desc \in Descs =>
          /\ \A b \in HBlocks :
                b.page = p => ((b \in blocks \/ b \in ToSet(free_list[arena[p].desc]))
                                 <=> b.idx \in 1 .. total_block(arena[p].desc))
          /\ arena[p].count = Cardinality(FreeOn(arena[p].desc, p))

ListsOnce == \A d \in Descs : IsInjective(free_list[d])

HeapInv == HeapTypeOK /\ Owned /\ ListsOnce /\ \A p \in KPages : PageOK(p)

(* What the sizes of a page and of its blocks are.                         *)
LEMMA Sizes ==
    /\ NKPages \in Nat \ {0} /\ DESC_COUNT \in Nat \ {0} /\ PAGE_SIZE \in Nat \ {0} /\ HEADER \in Nat \ {0}
    /\ KPages = 1 .. NKPages /\ Descs = 1 .. DESC_COUNT
    /\ \A d \in Descs : total_block(d) \in Nat \ {0} /\ d # Large /\ d # -1 /\ d \in Int
    /\ Large = 0 /\ Large # -1 /\ NoArena.desc = -1 /\ NoArena.count = 0
    /\ KCounts \subseteq Nat \ {0} /\ KSizes \subseteq Nat \ {0}
<1>1. NKPages \in Nat \ {0} /\ DESC_COUNT \in Nat \ {0} /\ PAGE_SIZE \in Nat \ {0} /\ HEADER \in Nat \ {0}
  BY HeapAssumption
<1>2. \A d \in Descs : total_block(d) \in Nat \ {0}
  BY HeapAssumption
<1>3. KPages = 1 .. NKPages /\ Descs = 1 .. DESC_COUNT /\ Large = 0 /\ Large # -1
  BY DEF KPages, Descs, Large
<1>4. \A d \in Descs : d # Large /\ d # -1 /\ d \in Int
  BY <1>1, <1>3
<1>5. NoArena.desc = -1 /\ NoArena.count = 0
  BY DEF NoArena
<1>6. KCounts \subseteq Nat \ {0} /\ KSizes \subseteq Nat \ {0}
  BY HeapAssumption
<1> QED
  BY <1>1, <1>2, <1>3, <1>4, <1>5, <1>6, Zenon

(* A new run of pages that were free.                                      *)
LEMMA NewRun ==
    ASSUME Owned, NEW w, PagesOf(w) \subseteq Int, PagesOf(w) \cap kernel_bitmap = {},
           kernel_bitmap' = kernel_bitmap \cup PagesOf(w), runs' = runs \cup {w},
           arena' = arena
    PROVE  Owned'
<1> DEFINE P(r) == PagesOf(r)
           S(p) == Span(p)
<1>1. /\ \A q \in Int : q \in kernel_bitmap <=> (\E r \in runs : q \in P(r)) \/ (\E p \in KPages : q \in S(p))
      /\ \A q \in Int : \A r, s \in runs : q \in P(r) /\ q \in P(s) => r = s
      /\ \A q \in Int : \A p, u \in KPages : q \in S(p) /\ q \in S(u) => p = u
      /\ \A q \in Int : \A r \in runs, p \in KPages : ~(q \in P(r) /\ q \in S(p))
  BY DEF Owned
<1>2. \A p : Span(p)' = S(p)
  BY DEF Span
<1>3. \A q \in P(w) : q \in Int /\ q \notin kernel_bitmap
  OBVIOUS
<1> HIDE DEF P, S
<1>4. /\ \A q \in Int : q \in kernel_bitmap' <=> (\E r \in runs' : q \in P(r)) \/ (\E p \in KPages : q \in S(p))
      /\ \A q \in Int : \A r, s \in runs' : q \in P(r) /\ q \in P(s) => r = s
      /\ \A q \in Int : \A p, u \in KPages : q \in S(p) /\ q \in S(u) => p = u
      /\ \A q \in Int : \A r \in runs', p \in KPages : ~(q \in P(r) /\ q \in S(p))
  <2>1. \A q : q \in kernel_bitmap' <=> q \in kernel_bitmap \/ q \in P(w)
    BY DEF P
  <2>2. \A r : r \in runs' <=> r \in runs \/ r = w
    OBVIOUS
  <2> QED
    BY <1>1, <1>3, <2>1, <2>2, Zenon
<1> QED
  BY <1>2, <1>4 DEF Owned, P

(* A run of pages is given back.                                           *)
LEMMA OldRun ==
    ASSUME Owned, NEW w \in runs, PagesOf(w) \subseteq Int,
           kernel_bitmap' = kernel_bitmap \ PagesOf(w), runs' = runs \ {w},
           arena' = arena
    PROVE  Owned'
<1> DEFINE P(r) == PagesOf(r)
           S(p) == Span(p)
<1>1. /\ \A q \in Int : q \in kernel_bitmap <=> (\E r \in runs : q \in P(r)) \/ (\E p \in KPages : q \in S(p))
      /\ \A q \in Int : \A r, s \in runs : q \in P(r) /\ q \in P(s) => r = s
      /\ \A q \in Int : \A p, u \in KPages : q \in S(p) /\ q \in S(u) => p = u
      /\ \A q \in Int : \A r \in runs, p \in KPages : ~(q \in P(r) /\ q \in S(p))
  BY DEF Owned
<1>2. \A p : Span(p)' = S(p)
  BY DEF Span
<1> HIDE DEF P, S
<1>4. /\ \A q \in Int : q \in kernel_bitmap' <=> (\E r \in runs' : q \in P(r)) \/ (\E p \in KPages : q \in S(p))
      /\ \A q \in Int : \A r, s \in runs' : q \in P(r) /\ q \in P(s) => r = s
      /\ \A q \in Int : \A p, u \in KPages : q \in S(p) /\ q \in S(u) => p = u
      /\ \A q \in Int : \A r \in runs', p \in KPages : ~(q \in P(r) /\ q \in S(p))
  <2>1. \A q : q \in kernel_bitmap' <=> q \in kernel_bitmap /\ q \notin P(w)
    BY DEF P
  <2>2. \A r : r \in runs' <=> r \in runs /\ r # w
    OBVIOUS
  <2> QED
    BY <1>1, <2>1, <2>2, Zenon
<1> QED
  BY <1>2, <1>4 DEF Owned, P

(* The pages of one arena change: from none to pages that were free, from  *)
(* some to none, or not at all.                                            *)
LEMMA OneSpan ==
    ASSUME Owned, NEW w \in KPages, runs' = runs,
           \A p \in KPages : p # w => arena'[p] = arena[p],
           Span(w) \subseteq Int, Span(w)' \subseteq Int,
           \/ Span(w) = {} /\ Span(w)' \cap kernel_bitmap = {}
           \/ Span(w)' = {}
           \/ Span(w)' = Span(w),
           \A q \in Int : q \in kernel_bitmap' <=> (q \in kernel_bitmap /\ q \notin Span(w)) \/ q \in Span(w)'
    PROVE  Owned'
<1> DEFINE P(r) == PagesOf(r)
           S(p) == Span(p)
           T(p) == Span(p)'
<1>1. /\ \A q \in Int : q \in kernel_bitmap <=> (\E r \in runs : q \in P(r)) \/ (\E p \in KPages : q \in S(p))
      /\ \A q \in Int : \A r, s \in runs : q \in P(r) /\ q \in P(s) => r = s
      /\ \A q \in Int : \A p, u \in KPages : q \in S(p) /\ q \in S(u) => p = u
      /\ \A q \in Int : \A r \in runs, p \in KPages : ~(q \in P(r) /\ q \in S(p))
  BY DEF Owned
<1>2. \A p \in KPages : p # w => T(p) = S(p)
  BY DEF Span
<1>3. /\ \/ S(w) = {} /\ T(w) \cap kernel_bitmap = {}
         \/ T(w) = {}
         \/ T(w) = S(w)
      /\ \A q \in Int : q \in kernel_bitmap' <=> (q \in kernel_bitmap /\ q \notin S(w)) \/ q \in T(w)
  OBVIOUS
<1> HIDE DEF P, S, T
<1>4. \A q : /\ q \in T(w) /\ q \in S(w) => T(w) = S(w)
             /\ q \in T(w) /\ q \notin S(w) => q \notin kernel_bitmap
  BY <1>3, Zenon
<1>5. \A q \in Int : q \in kernel_bitmap' <=> (\E r \in runs' : q \in P(r)) \/ (\E p \in KPages : q \in T(p))
  <2> TAKE q \in Int
  <2>1. \A p \in KPages : p # w => (q \in T(p) <=> q \in S(p))
    BY <1>2
  <2> QED
    BY <1>1, <1>3, <1>4, <2>1, Zenon
<1>6. \A q \in Int : \A p, u \in KPages : q \in T(p) /\ q \in T(u) => p = u
  <2> SUFFICES ASSUME NEW q \in Int, NEW p \in KPages, NEW u \in KPages, q \in T(p), q \in T(u), u # w PROVE p = u
    BY Zenon
  <2>1. q \in S(u) /\ q \in kernel_bitmap
    BY <1>1, <1>2
  <2>2. q \in S(p)
    BY <1>2, <1>4, <2>1
  <2> QED
    BY <1>1, <2>1, <2>2
<1>7. \A q \in Int : \A r \in runs', p \in KPages : ~(q \in P(r) /\ q \in T(p))
  <2> SUFFICES ASSUME NEW q \in Int, NEW r \in runs, NEW p \in KPages, q \in P(r), q \in T(p) PROVE FALSE
    BY Zenon
  <2>1. q \in kernel_bitmap
    BY <1>1
  <2>2. q \in S(p)
    BY <1>2, <1>4, <2>1
  <2> QED
    BY <1>1, <2>2
<1> QED
  BY <1>1, <1>5, <1>6, <1>7 DEF Owned, P, T

(* bitmap_scan finds free pages.                                           *)
LEMMA ScanLemma ==
    ASSUME HeapTypeOK, NEW n \in Nat \ {0}, NEW p \in bitmap_scan(n)
    PROVE  /\ p \in KPages /\ p \in Int
           /\ PagesOf(Run(p, n)) = p .. p + n - 1
           /\ p .. p + n - 1 \subseteq KPages
           /\ p .. p + n - 1 \subseteq Int
           /\ (p .. p + n - 1) \cap kernel_bitmap = {}
           /\ p \in p .. p + n - 1 /\ p \notin kernel_bitmap
<1>1. p \in KPages /\ p + n - 1 <= NKPages /\ (p .. p + n - 1) \cap kernel_bitmap = {}
  BY DEF bitmap_scan
<1>2. PagesOf(Run(p, n)) = p .. p + n - 1
  BY DEF PagesOf, Run
<1>3. p \in Int /\ 1 <= p /\ p <= NKPages /\ NKPages \in Int
  BY <1>1, Sizes
<1>4. p .. p + n - 1 \subseteq KPages /\ p \in p .. p + n - 1
  BY <1>1, <1>3, Sizes
<1>5. p .. p + n - 1 \subseteq Int
  OBVIOUS
<1> QED
  BY <1>1, <1>2, <1>3, <1>4, <1>5

(* A page that is free has no arena and no block.                          *)
LEMMA FreshPage ==
    ASSUME HeapInv, NEW p \in KPages, p \notin kernel_bitmap
    PROVE  /\ arena[p].desc = -1 /\ Span(p) = {}
           /\ \A b \in HBlocks : b.page = p => b \notin blocks /\ \A d \in Descs : b \notin ToSet(free_list[d])
<1>1. p \in Int
  BY Sizes
<1>2. arena[p].desc = -1
  <2> SUFFICES ASSUME arena[p].desc # -1 PROVE FALSE
    OBVIOUS
  <2>1. arena[p].desc = Large => arena[p].count > 0 /\ arena[p].count \in Int
    BY DEF HeapInv, HeapTypeOK
  <2>2. p \in Span(p)
    BY <1>1, <2>1 DEF Span
  <2> QED
    BY <1>1, <2>2 DEF HeapInv, Owned
<1>3. Span(p) = {}
  BY <1>2 DEF Span
<1>4. PageOK(p)
  BY DEF HeapInv
<1>5. \A b \in blocks : b.page # p
  BY <1>2, <1>4 DEF PageOK
<1>6. \A d \in Descs : \A b \in ToSet(free_list[d]) : b.page # p
  BY <1>2, <1>4, Sizes DEF PageOK
<1> QED
  BY <1>2, <1>3, <1>5, <1>6

(* A page whose arena and blocks a step leaves alone.                      *)
LEMMA SamePage ==
    ASSUME HeapTypeOK, HeapTypeOK', NEW p \in KPages, PageOK(p), arena'[p] = arena[p],
           \A b \in HBlocks : b.page = p =>
               /\ b \in blocks' <=> b \in blocks
               /\ \A d \in Descs : b \in ToSet(free_list'[d]) <=> b \in ToSet(free_list[d])
    PROVE  PageOK(p)'
<1>1. blocks \subseteq HBlocks /\ blocks' \subseteq HBlocks
  BY DEF HeapTypeOK
<1>2. \A d \in Descs : ToSet(free_list[d]) \subseteq HBlocks /\ ToSet(free_list'[d]) \subseteq HBlocks
  <2> TAKE d \in Descs
  <2>1. free_list[d] \in Seq(HBlocks) /\ free_list'[d] \in Seq(HBlocks)
    BY DEF HeapTypeOK
  <2>2. \A s \in Seq(HBlocks) : \A i \in DOMAIN s : s[i] \in HBlocks
    BY ElementOfSeq, LenProperties
  <2> QED
    BY <2>1, <2>2 DEF ToSet
<1>3. \A b \in blocks' : b.page = p => arena'[p].desc # -1
  BY <1>1 DEF PageOK
<1>4. \A d \in Descs : \A b \in ToSet(free_list'[d]) : b.page = p => arena'[p].desc = d /\ b \notin blocks'
  BY <1>1, <1>2 DEF PageOK
<1>5. arena'[p].desc = Large => \A b \in HBlocks : b.page = p => (b \in blocks' <=> b.idx = 1)
  BY DEF PageOK
<1>6. ASSUME arena[p].desc \in Descs
      PROVE  /\ \A b \in HBlocks :
                    b.page = p => ((b \in blocks' \/ b \in ToSet(free_list'[arena[p].desc]))
                                   <=> b.idx \in 1 .. total_block(arena[p].desc))
             /\ arena[p].count = Cardinality({b \in ToSet(free_list'[arena[p].desc]) : b.page = p})
  <2> DEFINE d == arena[p].desc
  <2>0. d \in Descs
    BY <1>6
  <2>1. {b \in ToSet(free_list'[d]) : b.page = p} = FreeOn(d, p)
    BY <2>0, <1>2 DEF FreeOn
  <2>2. arena[p].count = Cardinality(FreeOn(d, p))
    BY <2>0 DEF PageOK
  <2>3. \A b \in HBlocks : b.page = p => ((b \in blocks \/ b \in ToSet(free_list[d])) <=> b.idx \in 1 .. total_block(d))
    BY <2>0 DEF PageOK
  <2> HIDE DEF d
  <2>4. \A b \in HBlocks : b.page = p => ((b \in blocks' \/ b \in ToSet(free_list'[d])) <=> b.idx \in 1 .. total_block(d))
    BY <2>0, <2>3
  <2> QED
    BY <2>1, <2>2, <2>4 DEF d
<1> QED
  BY <1>3, <1>4, <1>5, <1>6 DEF PageOK, FreeOn

(* The set of the elements of a sequence.                                  *)
LEMMA SetOf ==
    ASSUME NEW S, NEW s \in Seq(S)
    PROVE  /\ ToSet(s) \subseteq S /\ IsFiniteSet(ToSet(s))
           /\ \A e : e \in ToSet(s) <=> \E i \in 1 .. Len(s) : e = s[i]
<1>1. DOMAIN s = 1 .. Len(s) /\ Len(s) \in Nat
  BY LenProperties
<1>2. \A i \in 1 .. Len(s) : s[i] \in S
  BY ElementOfSeq
<1>3. ToSet(s) = {s[i] : i \in 1 .. Len(s)}
  BY <1>1 DEF ToSet
<1>4. IsFiniteSet(1 .. Len(s))
  BY <1>1, FS_Interval
<1>5. \A e \in ToSet(s) : \E i \in 1 .. Len(s) : e = s[i]
  BY <1>3
<1>6. IsFiniteSet(ToSet(s))
  <2>1. s \in [1 .. Len(s) -> S]
    BY LenProperties
  <2> DEFINE f == [i \in 1 .. Len(s) |-> s[i]]
  <2>2. f \in Surjection(1 .. Len(s), ToSet(s))
    BY <1>3, <1>5 DEF Surjection
  <2> QED
    BY <1>4, <2>2, FS_Surjection
<1> QED
  BY <1>2, <1>3, <1>5, <1>6

(* The head of a list is taken.                                            *)
LEMMA TakeHead ==
    ASSUME NEW S, NEW s \in Seq(S), s # << >>, IsInjective(s)
    PROVE  /\ Head(s) \in S /\ Head(s) \in ToSet(s)
           /\ Tail(s) \in Seq(S) /\ IsInjective(Tail(s))
           /\ ToSet(Tail(s)) = ToSet(s) \ {Head(s)}
<1>1. Len(s) \in Nat \ {0} /\ DOMAIN s = 1 .. Len(s)
  BY LenProperties, EmptySeq
<1>2. Head(s) = s[1] /\ Tail(s) \in Seq(S) /\ Len(Tail(s)) = Len(s) - 1
      /\ \A i \in 1 .. Len(s) - 1 : Tail(s)[i] = s[i + 1]
  BY <1>1, HeadTailProperties
<1>3. s[1] \in S
  BY <1>1, ElementOfSeq
<1> DEFINE r == Tail(s)
<1>4. DOMAIN r = 1 .. Len(s) - 1
  BY <1>2, LenProperties
<1>5. \A i, j \in 1 .. Len(s) : s[i] = s[j] => i = j
  BY <1>1 DEF IsInjective
<1> HIDE DEF r
<1>6. \A i, j \in 1 .. Len(s) - 1 : r[i] = r[j] => i = j
  <2> SUFFICES ASSUME NEW i \in 1 .. Len(s) - 1, NEW j \in 1 .. Len(s) - 1, r[i] = r[j] PROVE i = j
    OBVIOUS
  <2>1. s[i + 1] = s[j + 1] /\ i + 1 \in 1 .. Len(s) /\ j + 1 \in 1 .. Len(s)
    BY <1>1, <1>2 DEF r
  <2>2. i + 1 = j + 1
    BY <1>5, <2>1
  <2> QED
    BY <2>2
<1>7. IsInjective(r)
  BY <1>4, <1>6 DEF IsInjective
<1>8. \A e : e \in ToSet(r) <=> e \in ToSet(s) /\ e # s[1]
  <2> TAKE e
  <2>0. r \in Seq(S) /\ Len(r) = Len(s) - 1
    BY <1>2 DEF r
  <2>1. e \in ToSet(r) <=> \E i \in 1 .. Len(s) - 1 : e = r[i]
    <3>1. e \in ToSet(r) <=> \E i \in 1 .. Len(r) : e = r[i]
      BY <2>0, SetOf, Zenon
    <3> QED
      BY <2>0, <3>1, Zenon
  <2>2. e \in ToSet(s) <=> \E i \in 1 .. Len(s) : e = s[i]
    BY SetOf
  <2>3. ASSUME e \in ToSet(r) PROVE e \in ToSet(s) /\ e # s[1]
    <3>1. PICK i \in 1 .. Len(s) - 1 : e = r[i]
      BY <2>1, <2>3
    <3>2. e = s[i + 1] /\ i + 1 \in 1 .. Len(s) /\ i + 1 # 1 /\ 1 \in 1 .. Len(s)
      BY <1>1, <1>2, <3>1 DEF r
    <3> QED
      BY <1>5, <2>2, <3>2
  <2>4. ASSUME e \in ToSet(s), e # s[1] PROVE e \in ToSet(r)
    <3>1. PICK i \in 1 .. Len(s) : e = s[i]
      BY <2>2, <2>4
    <3>2. i # 1
      BY <2>4, <3>1
    <3>3. i - 1 \in 1 .. Len(s) - 1 /\ (i - 1) + 1 = i
      BY <1>1, <3>2
    <3>4. r[i - 1] = s[(i - 1) + 1]
      BY <1>2, <3>3 DEF r
    <3>5. e = r[i - 1]
      BY <3>1, <3>3, <3>4
    <3> QED
      BY <2>1, <3>3, <3>5
  <2> QED
    BY <2>3, <2>4
<1>9. Head(s) \in ToSet(s)
  BY <1>1, <1>2 DEF ToSet
<1>10. ToSet(r) = ToSet(s) \ {s[1]}
  BY <1>8
<1> QED
  BY <1>2, <1>3, <1>7, <1>9, <1>10 DEF r

(* The elements of a list at the places in keep.                           *)
LEMMA KeptLemma ==
    ASSUME NEW S, NEW s \in Seq(S), IsInjective(s), NEW keep \in SUBSET (1 .. Len(s))
    PROVE  /\ Kept(s, keep) \in Seq(S) /\ IsInjective(Kept(s, keep))
           /\ \A e : e \in ToSet(Kept(s, keep)) <=> \E i \in keep : e = s[i]
<1> DEFINE r == Kept(s, keep)
           c == Cardinality(keep)
           at(k) == Nth(k, keep)
<1>1. Len(s) \in Nat /\ DOMAIN s = 1 .. Len(s)
  BY LenProperties
<1>2. /\ IsFiniteSet(keep)
      /\ \A x \in keep : Rank(x, keep) \in 1 .. c
      /\ \A n \in 1 .. c : \E x \in keep : Rank(x, keep) = n
      /\ \A x, y \in keep : Rank(x, keep) = Rank(y, keep) => x = y
  BY <1>1, RankLemma
<1>3. c \in Nat
  BY <1>2, FS_CardinalityType
<1>4. \A k \in 1 .. c : at(k) \in keep /\ Rank(at(k), keep) = k
  BY <1>2 DEF Nth
<1>5. \A i \in keep : at(Rank(i, keep)) = i
  BY <1>2, <1>4
<1> HIDE DEF c, at
<1>6. r = [k \in 1 .. c |-> s[at(k)]]
  BY DEF Kept, c, at
<1>7. \A i \in 1 .. Len(s) : s[i] \in S
  BY ElementOfSeq
<1>8. \A k \in 1 .. c : s[at(k)] \in S
  BY <1>4, <1>7
<1> HIDE DEF r
<1>9. r \in Seq(S) /\ Len(r) = c /\ DOMAIN r = 1 .. c
  BY <1>3, <1>6, <1>8, IsASeq, LenProperties
<1>10. \A j, k \in 1 .. c : r[j] = r[k] => j = k
  <2> SUFFICES ASSUME NEW j \in 1 .. c, NEW k \in 1 .. c, r[j] = r[k] PROVE j = k
    OBVIOUS
  <2>1. s[at(j)] = s[at(k)] /\ at(j) \in 1 .. Len(s) /\ at(k) \in 1 .. Len(s)
    BY <1>4, <1>6
  <2>2. at(j) = at(k)
    BY <1>1, <2>1 DEF IsInjective
  <2> QED
    BY <1>4, <2>2
<1>11. IsInjective(r)
  BY <1>9, <1>10 DEF IsInjective
<1>12. \A e : e \in ToSet(r) <=> \E i \in keep : e = s[i]
  <2> TAKE e
  <2>1. e \in ToSet(r) <=> \E k \in 1 .. c : e = r[k]
    BY <1>9, SetOf
  <2>2. ASSUME NEW k \in 1 .. c, e = r[k] PROVE \E i \in keep : e = s[i]
    BY <1>4, <1>6, <2>2
  <2>3. ASSUME NEW i \in keep, e = s[i] PROVE \E k \in 1 .. c : e = r[k]
    <3>1. Rank(i, keep) \in 1 .. c /\ at(Rank(i, keep)) = i
      BY <1>2, <1>5 DEF c
    <3>2. r[Rank(i, keep)] = s[i]
      BY <1>6, <3>1
    <3> QED
      BY <2>3, <3>1, <3>2
  <2> QED
    BY <2>1, <2>2, <2>3
<1> QED
  BY <1>9, <1>11, <1>12 DEF r

\* The blocks of a new page, pushed one by one.
Filled(p, n) == [i \in 1 .. n |-> Block(p, n + 1 - i)]

(* They are all the blocks of the page, each once.                         *)
LEMMA FillLemma ==
    ASSUME NEW p \in KPages, NEW n \in Nat \ {0}, NEW list, list = Filled(p, n)
    PROVE  /\ list \in Seq(HBlocks) /\ list # << >> /\ IsInjective(list)
           /\ Head(list) = Block(p, n)
           /\ \A b \in HBlocks : b \in ToSet(list) <=> b.page = p /\ b.idx \in 1 .. n
           /\ IsFiniteSet(ToSet(list)) /\ Cardinality(ToSet(list)) = n
<1>1. \A i \in 1 .. n : n + 1 - i \in 1 .. n
  OBVIOUS
<1>2. \A i \in Nat : Block(p, i) \in HBlocks /\ Block(p, i).page = p /\ Block(p, i).idx = i
  BY DEF Block, HBlocks
<1>0. list = [i \in 1 .. n |-> Block(p, n + 1 - i)]
  BY DEF Filled
<1>3. \A i \in 1 .. n : list[i] = Block(p, n + 1 - i) /\ list[i] \in HBlocks /\ list[i].idx = n + 1 - i
  BY <1>0, <1>1, <1>2
<1>4. list \in Seq(HBlocks) /\ Len(list) = n /\ DOMAIN list = 1 .. n
  BY <1>0, <1>3, IsASeq, LenProperties
<1>5. list # << >>
  BY <1>4, EmptySeq
<1>6. \A i, j \in 1 .. n : list[i] = list[j] => i = j
  <2> SUFFICES ASSUME NEW i \in 1 .. n, NEW j \in 1 .. n, list[i] = list[j] PROVE i = j
    OBVIOUS
  <2>1. n + 1 - i = n + 1 - j
    BY <1>3
  <2> QED
    BY <2>1
<1>7. IsInjective(list)
  BY <1>4, <1>6 DEF IsInjective
<1>8. Head(list) = Block(p, n)
  <2>1. Head(list) = list[1] /\ 1 \in 1 .. n /\ n + 1 - 1 = n
    BY <1>4, <1>5, HeadTailProperties
  <2> QED
    BY <1>3, <2>1
<1>9. \A b \in HBlocks : b \in ToSet(list) <=> b.page = p /\ b.idx \in 1 .. n
  <2> TAKE b \in HBlocks
  <2>0. b = [page |-> b.page, idx |-> b.idx]
    BY DEF HBlocks
  <2>1. b \in ToSet(list) <=> \E i \in 1 .. n : b = list[i]
    BY <1>4 DEF ToSet
  <2>2. ASSUME NEW i \in 1 .. n, b = list[i] PROVE b.page = p /\ b.idx \in 1 .. n
    BY <1>1, <1>2, <1>3, <2>2
  <2>3. ASSUME b.page = p, b.idx \in 1 .. n PROVE \E i \in 1 .. n : b = list[i]
    <3>1. b = Block(p, b.idx)
      BY <2>0, <2>3 DEF Block
    <3>2. n + 1 - b.idx \in 1 .. n /\ n + 1 - (n + 1 - b.idx) = b.idx
      BY <2>3
    <3>3. list[n + 1 - b.idx] = Block(p, b.idx)
      BY <1>3, <3>2
    <3> QED
      BY <3>1, <3>2, <3>3
  <2> QED
    BY <2>1, <2>2, <2>3
<1>10. Cardinality(ToSet(list)) = n
  <2>1. list \in Bijection(1 .. n, ToSet(list))
    <3>1. list \in [1 .. n -> ToSet(list)]
      BY <1>4 DEF ToSet
    <3>2. \A e \in ToSet(list) : \E i \in 1 .. n : list[i] = e
      BY <1>4 DEF ToSet
    <3> QED
      BY <1>6, <3>1, <3>2 DEF Bijection, Injection, Surjection, IsInjective
  <2>2. IsFiniteSet(1 .. n) /\ Cardinality(1 .. n) = n
    BY FS_Interval
  <2>3. IsFiniteSet(1 .. n) /\ ExistsBijection(1 .. n, ToSet(list))
    BY <2>1, <2>2 DEF ExistsBijection
  <2>4. Cardinality(ToSet(list)) = Cardinality(1 .. n)
    BY <2>3, FS_Bijection
  <2> QED
    BY <2>2, <2>4
<1> QED
  BY <1>4, <1>5, <1>7, <1>8, <1>9, <1>10, SetOf

(* A page's free blocks as a set.                                          *)
LEMMA FreeBlocks ==
    ASSUME HeapTypeOK, NEW d \in Descs
    PROVE  /\ free_list[d] \in Seq(HBlocks)
           /\ ToSet(free_list[d]) \subseteq HBlocks
           /\ \A p : IsFiniteSet(FreeOn(d, p)) /\ Cardinality(FreeOn(d, p)) \in Nat
<1>1. free_list[d] \in Seq(HBlocks)
  BY DEF HeapTypeOK
<1>2. ToSet(free_list[d]) \subseteq HBlocks /\ IsFiniteSet(ToSet(free_list[d]))
  BY <1>1, SetOf
<1>3. \A p : FreeOn(d, p) \in SUBSET ToSet(free_list[d])
  BY DEF FreeOn
<1> QED
  BY <1>1, <1>2, <1>3, FS_Subset, FS_CardinalityType

(* No run of pages is free: the kernel stops and nothing else changes.     *)
LEMMA StopStep ==
    ASSUME HeapInv, UNCHANGED <<kernel_bitmap, arena, free_list, blocks, runs>>
    PROVE  HeapInv'
<1>1. HeapTypeOK' /\ ListsOnce'
  BY DEF HeapInv, HeapTypeOK, ListsOnce
<1>2. \A p : Span(p)' = Span(p)
  BY DEF Span
<1>3. Owned'
  BY <1>2 DEF HeapInv, Owned
<1>4. \A p \in KPages : PageOK(p)'
  BY DEF HeapInv, PageOK, FreeOn
<1> QED
  BY <1>1, <1>3, <1>4 DEF HeapInv

(* alloc_kpage keeps the invariant of the heap.                            *)
LEMMA AllocStep ==
    ASSUME HeapInv, NEW n \in KCounts, alloc_kpage(n)
    PROVE  HeapInv'
<1>0. n \in Nat \ {0}
  BY Sizes
<1>1. CASE Stop
  BY <1>1, StopStep DEF Stop
<1>2. ASSUME NEW p \in bitmap_scan(n),
             kernel_bitmap' = kernel_bitmap \cup PagesOf(Run(p, n)),
             runs' = runs \cup {Run(p, n)},
             UNCHANGED <<arena, free_list, blocks, stopped>>
      PROVE  HeapInv'
  <2>1. HeapTypeOK
    BY DEF HeapInv
  <2>2. /\ p \in KPages /\ PagesOf(Run(p, n)) \subseteq KPages /\ PagesOf(Run(p, n)) \subseteq Int
        /\ PagesOf(Run(p, n)) \cap kernel_bitmap = {}
    BY <1>0, <2>1, ScanLemma
  <2>3. Owned'
    BY <1>2, <2>2, NewRun DEF HeapInv
  <2>4. Run(p, n) \in [page : KPages, count : Nat \ {0}]
    BY <1>0, <2>2 DEF Run
  <2>5. HeapTypeOK'
    BY <1>2, <2>1, <2>2, <2>4 DEF HeapTypeOK
  <2> QED
    BY <1>2, <2>3, <2>5 DEF HeapInv, ListsOnce, PageOK, FreeOn
<1> QED
  BY <1>1, <1>2 DEF alloc_kpage

(* So does the return of a run of pages.                                   *)
LEMMA FreeRunStep ==
    ASSUME HeapInv, NEW r \in runs, free_kpage(r)
    PROVE  HeapInv'
<1>1. /\ kernel_bitmap' = kernel_bitmap \ PagesOf(r) /\ runs' = runs \ {r}
      /\ UNCHANGED <<arena, free_list, blocks, stopped>>
  BY DEF free_kpage
<1>2. r \in [page : KPages, count : Nat \ {0}]
  BY DEF HeapInv, HeapTypeOK
<1>3. PagesOf(r) \subseteq Int
  BY <1>2, Sizes DEF PagesOf
<1>4. Owned'
  BY <1>1, <1>3, OldRun DEF HeapInv
<1>5. HeapTypeOK'
  BY <1>1 DEF HeapInv, HeapTypeOK
<1> QED
  BY <1>1, <1>4, <1>5 DEF HeapInv, ListsOnce, PageOK, FreeOn

(* The number of pages for size bytes and the arena_t.                     *)
LEMMA PagesFor ==
    ASSUME NEW size \in Nat
    PROVE  (size + HEADER + PAGE_SIZE - 1) \div PAGE_SIZE \in Nat \ {0}
<1> DEFINE s == size + HEADER + PAGE_SIZE - 1
           m == s \div PAGE_SIZE
<1>1. PAGE_SIZE \in Nat \ {0} /\ HEADER \in Nat \ {0}
  BY Sizes
<1>2. s \in Nat /\ s >= PAGE_SIZE
  BY <1>1
<1> HIDE DEF s
<1>3. m \in Int /\ s = (PAGE_SIZE * m) + (s % PAGE_SIZE) /\ s % PAGE_SIZE < PAGE_SIZE
  BY <1>1, <1>2
<1>4. m >= 1
  BY <1>1, <1>2, <1>3
<1> QED
  BY <1>3, <1>4 DEF s

(* So does a large request, which takes pages of its own.                  *)
LEMMA LargeStep ==
    ASSUME HeapInv, NEW size \in KSizes, kmalloc_large(size)
    PROVE  HeapInv'
<1> DEFINE n == (size + HEADER + PAGE_SIZE - 1) \div PAGE_SIZE
<1>0. n \in Nat \ {0}
  BY Sizes, PagesFor
<1> HIDE DEF n
<1>1. CASE Stop
  BY <1>1, StopStep DEF Stop
<1>2. ASSUME NEW p \in bitmap_scan(n),
             kernel_bitmap' = kernel_bitmap \cup PagesOf(Run(p, n)),
             arena' = [arena EXCEPT ![p] = [desc |-> Large, count |-> n]],
             blocks' = blocks \cup {Block(p, 1)},
             UNCHANGED <<free_list, runs, stopped>>
      PROVE  HeapInv'
  <2>1. HeapTypeOK
    BY DEF HeapInv
  <2>2. /\ p \in KPages /\ p \in Int /\ p .. p + n - 1 \subseteq KPages /\ p .. p + n - 1 \subseteq Int
        /\ (p .. p + n - 1) \cap kernel_bitmap = {} /\ PagesOf(Run(p, n)) = p .. p + n - 1
        /\ p \notin kernel_bitmap
    BY <1>0, <2>1, ScanLemma
  <2>3. /\ Span(p) = {}
        /\ \A b \in HBlocks : b.page = p => b \notin blocks /\ \A d \in Descs : b \notin ToSet(free_list[d])
    BY <2>2, FreshPage
  <2>4. /\ arena'[p].desc = Large /\ arena'[p].count = n
        /\ \A q \in KPages : q # p => arena'[q] = arena[q]
        /\ arena' \in [KPages -> [desc : {-1, Large} \cup Descs, count : Nat]]
    BY <1>0, <1>2, <2>1, <2>2 DEF HeapTypeOK
  <2>5. Span(p)' = p .. p + n - 1
    BY <2>4, Sizes DEF Span
  <2>6. Owned'
    <3>1. \A q \in Int : q \in kernel_bitmap' <=> (q \in kernel_bitmap /\ q \notin Span(p)) \/ q \in Span(p)'
      BY <1>2, <2>2, <2>3, <2>5
    <3> QED
      BY <1>2, <2>2, <2>3, <2>4, <2>5, <3>1, OneSpan DEF HeapInv
  <2>7. Block(p, 1) \in HBlocks /\ Block(p, 1).page = p
    BY <2>2 DEF Block, HBlocks
  <2>8. HeapTypeOK'
    <3>1. \A q \in KPages : /\ arena'[q].desc = -1 => arena'[q].count = 0
                            /\ arena'[q].desc = Large => arena'[q].count > 0
      <4> TAKE q \in KPages
      <4>1. CASE q = p
        BY <1>0, <2>4, <4>1, Sizes
      <4>2. CASE q # p
        BY <2>1, <2>4, <4>2 DEF HeapTypeOK
      <4> QED
        BY <4>1, <4>2
    <3> QED
      BY <1>2, <2>1, <2>2, <2>4, <2>7, <3>1 DEF HeapTypeOK
  <2>9. ASSUME NEW q \in KPages PROVE PageOK(q)'
    <3>1. CASE q # p
      <4>1. \A b \in HBlocks : b.page = q =>
               /\ b \in blocks' <=> b \in blocks
               /\ \A d \in Descs : b \in ToSet(free_list'[d]) <=> b \in ToSet(free_list[d])
        BY <1>2, <2>7, <3>1
      <4> QED
        BY <2>1, <2>4, <2>8, <3>1, <4>1, SamePage DEF HeapInv
    <3>2. CASE q = p
      <4>1. \A b \in HBlocks : b.page = p => (b \in blocks' <=> b = Block(p, 1))
        BY <1>2, <2>3
      <4>2. \A b \in HBlocks : b.page = p => (b = Block(p, 1) <=> b.idx = 1)
        BY DEF HBlocks, Block
      <4>3. \A d \in Descs : \A b \in ToSet(free_list'[d]) : b.page # p
        BY <1>2, <2>1, <2>3, FreeBlocks
      <4>4. arena'[p].desc \notin Descs /\ arena'[p].desc # -1
        BY <2>4, Sizes
      <4> QED
        BY <3>2, <4>1, <4>2, <4>3, <4>4 DEF PageOK
    <3> QED
      BY <3>1, <3>2
  <2> QED
    BY <1>2, <2>6, <2>8, <2>9 DEF HeapInv, ListsOnce
<1> QED
  BY <1>1, <1>2 DEF kmalloc_large, n

(* kmalloc takes the head of the free list.                                *)
LEMMA TakeStep ==
    ASSUME HeapInv, NEW d \in Descs, free_list[d] # << >>,
           blocks' = blocks \cup {Head(free_list[d])},
           free_list' = [free_list EXCEPT ![d] = Tail(free_list[d])],
           arena' = [arena EXCEPT ![Head(free_list[d]).page].count = @ - 1],
           UNCHANGED <<kernel_bitmap, runs, stopped>>
    PROVE  HeapInv'
<1>0. PICK h : h = Head(free_list[d])
  OBVIOUS
<1>1. HeapTypeOK /\ Owned /\ ListsOnce
  BY DEF HeapInv
<1>2. free_list[d] \in Seq(HBlocks) /\ IsInjective(free_list[d])
  BY <1>1, FreeBlocks DEF ListsOnce
<1>3. /\ h \in HBlocks /\ h \in ToSet(free_list[d])
      /\ Tail(free_list[d]) \in Seq(HBlocks) /\ IsInjective(Tail(free_list[d]))
      /\ ToSet(Tail(free_list[d])) = ToSet(free_list[d]) \ {h}
  BY <1>0, <1>2, TakeHead
<1>4. /\ blocks' = blocks \cup {h}
      /\ free_list' = [free_list EXCEPT ![d] = Tail(free_list[d])]
      /\ arena' = [arena EXCEPT ![h.page].count = @ - 1]
  BY <1>0
<1>5. PICK p \in KPages : p = h.page
  BY <1>3 DEF HBlocks
<1>6. p = h.page /\ PageOK(p)
  BY <1>5 DEF HeapInv
<1>7. arena[p].desc = d /\ h \notin blocks
  BY <1>3, <1>6 DEF PageOK
<1>8. /\ d # Large /\ d # -1
      /\ \A b \in HBlocks : b.page = p => ((b \in blocks \/ b \in ToSet(free_list[d])) <=> b.idx \in 1 .. total_block(d))
      /\ arena[p].count = Cardinality(FreeOn(d, p))
  BY <1>6, <1>7, Sizes DEF PageOK
<1>9. /\ \A b : b \in ToSet(free_list'[d]) <=> b \in ToSet(free_list[d]) /\ b # h
      /\ \A e \in Descs : e # d => free_list'[e] = free_list[e]
      /\ free_list' \in [Descs -> Seq(HBlocks)]
      /\ free_list'[d] = Tail(free_list[d])
  BY <1>1, <1>3, <1>4 DEF HeapTypeOK
<1>10. /\ IsFiniteSet(FreeOn(d, p)) /\ h \in FreeOn(d, p)
       /\ \A b : b # h => (b \in FreeOn(d, p)' <=> b \in FreeOn(d, p))
       /\ h \notin FreeOn(d, p)'
  BY <1>1, <1>3, <1>6, <1>9, FreeBlocks DEF FreeOn
<1>11. Cardinality(FreeOn(d, p)') = Cardinality(FreeOn(d, p)) - 1 /\ IsFiniteSet(FreeOn(d, p)')
  BY <1>10, SwapCount
<1>12. Cardinality(FreeOn(d, p)') \in Nat
  BY <1>11, FS_CardinalityType
<1>13. arena[p] = [desc |-> d, count |-> arena[p].count]
  BY <1>1, <1>5, <1>7 DEF HeapTypeOK
<1>14. /\ \A q \in KPages : q # p => arena'[q] = arena[q]
       /\ arena'[p] = [desc |-> d, count |-> arena[p].count - 1]
       /\ arena' \in [KPages -> [desc : {-1, Large} \cup Descs, count : Nat]]
  <2>1. arena' = [arena EXCEPT ![p] = [desc |-> d, count |-> arena[p].count - 1]]
    <3>1. [arena[p] EXCEPT !.count = arena[p].count - 1] = [desc |-> d, count |-> arena[p].count - 1]
      BY <1>13
    <3>2. arena' = [arena EXCEPT ![p] = [arena[p] EXCEPT !.count = arena[p].count - 1]]
      BY <1>4, <1>6
    <3> QED
      BY <3>1, <3>2, Zenon
  <2>2. [desc |-> d, count |-> arena[p].count - 1] \in [desc : {-1, Large} \cup Descs, count : Nat]
    BY <1>8, <1>11, <1>12
  <2> QED
    BY <1>1, <1>5, <2>1, <2>2 DEF HeapTypeOK
<1>15. HeapTypeOK'
  <2>1. \A q \in KPages : /\ arena'[q].desc = -1 => arena'[q].count = 0
                          /\ arena'[q].desc = Large => arena'[q].count > 0
    BY <1>1, <1>8, <1>14 DEF HeapTypeOK
  <2> QED
    BY <1>1, <1>3, <1>4, <1>9, <1>14, <2>1 DEF HeapTypeOK
<1>16. Owned'
  <2>1. Span(p)' = Span(p)
    BY <1>7, <1>8, <1>14 DEF Span
  <2>2. Span(p) \subseteq Int
    BY <1>7, <1>8, <1>5, Sizes DEF Span
  <2>4. \A q \in Int : q \in Span(p) => q \in kernel_bitmap
    BY <1>1, <1>5 DEF Owned
  <2>5. \A q \in Int : q \in kernel_bitmap' <=> (q \in kernel_bitmap /\ q \notin Span(p)) \/ q \in Span(p)'
    BY <2>1, <2>4
  <2> QED
    BY <1>1, <1>5, <1>14, <2>1, <2>2, <2>5, OneSpan
<1>17. ListsOnce'
  BY <1>1, <1>3, <1>9 DEF ListsOnce
<1>18. ASSUME NEW q \in KPages PROVE PageOK(q)'
  <2>1. CASE q # p
    <3>1. \A b \in HBlocks : b.page = q =>
               /\ b \in blocks' <=> b \in blocks
               /\ \A e \in Descs : b \in ToSet(free_list'[e]) <=> b \in ToSet(free_list[e])
      BY <1>4, <1>6, <1>9, <2>1
    <3> QED
      BY <1>1, <1>14, <1>15, <2>1, <3>1, SamePage DEF HeapInv
  <2>2. CASE q = p
    <3>1. arena'[p].desc = d /\ arena'[p].count = Cardinality(FreeOn(d, p)')
      BY <1>8, <1>11, <1>14
    <3>2. \A e \in Descs : \A b \in ToSet(free_list'[e]) : b.page = p => d = e /\ b \notin blocks'
      <4> SUFFICES ASSUME NEW e \in Descs, NEW b \in ToSet(free_list'[e]), b.page = p PROVE d = e /\ b \notin blocks'
        OBVIOUS
      <4>1. b \in ToSet(free_list[e])
        BY <1>9
      <4>2. d = e /\ b \notin blocks
        BY <1>6, <1>7, <4>1 DEF PageOK
      <4>3. b # h
        BY <1>9, <4>2
      <4> QED
        BY <1>4, <4>2, <4>3
    <3>3. \A b \in HBlocks : b.page = p => ((b \in blocks' \/ b \in ToSet(free_list'[d])) <=> b.idx \in 1 .. total_block(d))
      BY <1>3, <1>4, <1>8, <1>9
    <3> QED
      BY <1>8, <2>2, <3>1, <3>2, <3>3 DEF PageOK, FreeOn
  <2> QED
    BY <2>1, <2>2
<1> QED
  BY <1>15, <1>16, <1>17, <1>18 DEF HeapInv

(* The free list is empty: kmalloc fills it with the blocks of a new page  *)
(* and takes the head.                                                     *)
LEMMA NewPageStep ==
    ASSUME HeapInv, NEW d \in Descs, free_list[d] = << >>, NEW p \in bitmap_scan(1),
           NEW n, n = total_block(d), NEW list, list = Filled(p, n),
           blocks' = blocks \cup {Head(list)},
           free_list' = [free_list EXCEPT ![d] = Tail(list)],
           arena' = [arena EXCEPT ![p] = [desc |-> d, count |-> n - 1]],
           kernel_bitmap' = kernel_bitmap \cup {p},
           UNCHANGED <<runs, stopped>>
    PROVE  HeapInv'
<1>1. HeapTypeOK /\ Owned /\ ListsOnce
  BY DEF HeapInv
<1>2. n \in Nat \ {0} /\ d # Large /\ d # -1
  BY Sizes
<1>3. /\ p \in KPages /\ p \in Int /\ p .. p + 1 - 1 \subseteq KPages /\ p \notin kernel_bitmap
  BY <1>1, ScanLemma
<1>4. p .. p + 1 - 1 = {p}
  BY <1>3
<1>5. /\ Span(p) = {}
      /\ \A b \in HBlocks : b.page = p => b \notin blocks /\ \A e \in Descs : b \notin ToSet(free_list[e])
  BY <1>3, FreshPage
<1>6. /\ list \in Seq(HBlocks) /\ list # << >> /\ IsInjective(list)
      /\ \A b \in HBlocks : b \in ToSet(list) <=> b.page = p /\ b.idx \in 1 .. n
      /\ IsFiniteSet(ToSet(list)) /\ Cardinality(ToSet(list)) = n
  BY <1>2, <1>3, FillLemma, Zenon
<1>7. PICK h : h = Head(list)
  OBVIOUS
<1>8. /\ h \in HBlocks /\ h \in ToSet(list)
      /\ Tail(list) \in Seq(HBlocks) /\ IsInjective(Tail(list)) /\ ToSet(Tail(list)) = ToSet(list) \ {h}
  BY <1>6, <1>7, TakeHead
<1>9. h.page = p
  BY <1>6, <1>8
<1>10. /\ \A b : b \in ToSet(free_list'[d]) <=> b \in ToSet(list) /\ b # h
       /\ \A e \in Descs : e # d => free_list'[e] = free_list[e]
       /\ free_list' \in [Descs -> Seq(HBlocks)]
       /\ free_list'[d] = Tail(list)
  BY <1>1, <1>8 DEF HeapTypeOK
<1>11. ToSet(free_list[d]) = {}
  BY DEF ToSet
<1>12. /\ \A q \in KPages : q # p => arena'[q] = arena[q]
       /\ arena'[p].desc = d /\ arena'[p].count = n - 1
       /\ arena' \in [KPages -> [desc : {-1, Large} \cup Descs, count : Nat]]
  <2>1. [desc |-> d, count |-> n - 1] \in [desc : {-1, Large} \cup Descs, count : Nat]
    BY <1>2
  <2> QED
    BY <1>1, <1>3, <2>1 DEF HeapTypeOK
<1>13. HeapTypeOK'
  <2>1. \A q \in KPages : /\ arena'[q].desc = -1 => arena'[q].count = 0
                          /\ arena'[q].desc = Large => arena'[q].count > 0
    BY <1>1, <1>2, <1>12 DEF HeapTypeOK
  <2>2. blocks' \subseteq HBlocks
    BY <1>1, <1>7, <1>8 DEF HeapTypeOK
  <2> QED
    BY <1>1, <1>3, <1>10, <1>12, <2>1, <2>2 DEF HeapTypeOK
<1>14. Owned'
  <2>1. Span(p)' = {p}
    BY <1>2, <1>4, <1>12 DEF Span
  <2>2. \A q \in Int : q \in kernel_bitmap' <=> (q \in kernel_bitmap /\ q \notin Span(p)) \/ q \in Span(p)'
    BY <1>5, <2>1
  <2> QED
    BY <1>1, <1>3, <1>5, <1>12, <2>1, <2>2, OneSpan
<1>15. ListsOnce'
  BY <1>1, <1>8, <1>10 DEF ListsOnce
<1>16. ASSUME NEW q \in KPages PROVE PageOK(q)'
  <2>1. CASE q # p
    <3>1. \A b \in HBlocks : b.page = q =>
               /\ b \in blocks' <=> b \in blocks
               /\ \A e \in Descs : b \in ToSet(free_list'[e]) <=> b \in ToSet(free_list[e])
      BY <1>6, <1>7, <1>9, <1>10, <1>11, <2>1
    <3> QED
      BY <1>1, <1>12, <1>13, <2>1, <3>1, SamePage DEF HeapInv
  <2>2. CASE q = p
    <3>1. \A b \in HBlocks : b.page = p => (b \in blocks' <=> b = h)
      BY <1>5, <1>7
    <3>2. \A e \in Descs : \A b \in ToSet(free_list'[e]) : b.page = p => d = e /\ b \notin blocks'
      <4> SUFFICES ASSUME NEW e \in Descs, NEW b \in ToSet(free_list'[e]), b.page = p PROVE d = e /\ b \notin blocks'
        OBVIOUS
      <4>1. b \in HBlocks
        <5>1. free_list'[e] \in Seq(HBlocks)
          BY <1>10
        <5>2. ToSet(free_list'[e]) \subseteq HBlocks
          BY <5>1, SetOf
        <5> QED
          BY <5>2
      <4>2. d = e
        BY <1>5, <1>10, <4>1
      <4> QED
        BY <1>10, <3>1, <4>1, <4>2
    <3>3. \A b \in HBlocks : b.page = p => ((b \in blocks' \/ b \in ToSet(free_list'[d])) <=> b.idx \in 1 .. total_block(d))
      BY <1>6, <1>8, <1>10, <3>1
    <3>4. FreeOn(d, p)' = ToSet(list) \ {h}
      <4>1. \A b \in ToSet(list) : b.page = p
        <5>1. ToSet(list) \subseteq HBlocks
          BY <1>6, SetOf
        <5> QED
          BY <1>6, <5>1
      <4>2. ToSet(free_list'[d]) = ToSet(list) \ {h}
        BY <1>8, <1>10
      <4> QED
        BY <4>1, <4>2 DEF FreeOn
    <3>5. Cardinality(ToSet(list) \ {h}) = n - 1
      BY <1>6, <1>8, FS_RemoveElement
    <3> QED
      BY <1>2, <1>12, <2>2, <3>2, <3>3, <3>4, <3>5 DEF PageOK, FreeOn
  <2> QED
    BY <2>1, <2>2
<1> QED
  BY <1>13, <1>14, <1>15, <1>16 DEF HeapInv

(* kfree gives back the pages of an arena whose last block it was, w, and  *)
(* leaves no block of it in any list.                                      *)
LEMMA GoneStep ==
    ASSUME HeapInv, NEW w \in blocks, NEW p \in KPages, w.page = p,
           \A b \in blocks : b.page = p => b = w,
           blocks' = blocks \ {w},
           free_list' \in [Descs -> Seq(HBlocks)], ListsOnce',
           \A e \in Descs : \A b \in HBlocks : b \in ToSet(free_list'[e]) <=> b \in ToSet(free_list[e]) /\ b.page # p,
           arena' = [arena EXCEPT ![p] = NoArena],
           kernel_bitmap' = kernel_bitmap \ Span(p),
           UNCHANGED <<runs, stopped>>
    PROVE  HeapInv'
<1>1. HeapTypeOK /\ Owned /\ ListsOnce
  BY DEF HeapInv
<1>2. /\ \A q \in KPages : q # p => arena'[q] = arena[q]
      /\ arena'[p].desc = -1 /\ arena'[p].count = 0
      /\ arena' \in [KPages -> [desc : {-1, Large} \cup Descs, count : Nat]]
  <2>1. NoArena \in [desc : {-1, Large} \cup Descs, count : Nat]
    BY DEF NoArena
  <2> QED
    BY <1>1, <2>1, Sizes DEF HeapTypeOK
<1>3. HeapTypeOK'
  <2>1. \A q \in KPages : /\ arena'[q].desc = -1 => arena'[q].count = 0
                          /\ arena'[q].desc = Large => arena'[q].count > 0
    BY <1>1, <1>2, Sizes DEF HeapTypeOK
  <2> QED
    BY <1>1, <1>2, <2>1 DEF HeapTypeOK
<1>4. Owned'
  <2>1. Span(p)' = {}
    BY <1>2 DEF Span
  <2>2. Span(p) \subseteq Int
    BY DEF Span
  <2>3. \A q \in Int : q \in kernel_bitmap' <=> (q \in kernel_bitmap /\ q \notin Span(p)) \/ q \in Span(p)'
    BY <2>1
  <2> QED
    BY <1>1, <1>2, <2>1, <2>2, <2>3, OneSpan
<1>5. ASSUME NEW q \in KPages PROVE PageOK(q)'
  <2>1. CASE q # p
    <3>1. \A b \in HBlocks : b.page = q =>
               /\ b \in blocks' <=> b \in blocks
               /\ \A e \in Descs : b \in ToSet(free_list'[e]) <=> b \in ToSet(free_list[e])
      BY <2>1
    <3> QED
      BY <1>1, <1>2, <1>3, <2>1, <3>1, SamePage DEF HeapInv
  <2>2. CASE q = p
    <3>1. \A b \in blocks' : b.page # p
      OBVIOUS
    <3>2. \A e \in Descs : \A b \in ToSet(free_list'[e]) : b.page # p
      <4> TAKE e \in Descs
      <4>1. ToSet(free_list'[e]) \subseteq HBlocks
        BY SetOf
      <4> QED
        BY <4>1
    <3>3. arena'[p].desc # Large /\ arena'[p].desc \notin Descs
      BY <1>2, Sizes
    <3> QED
      BY <2>2, <3>1, <3>2, <3>3 DEF PageOK
  <2> QED
    BY <2>1, <2>2
<1> QED
  BY <1>3, <1>4, <1>5 DEF HeapInv

(* kfree of a block on a page that keeps other callers' blocks.            *)
LEMMA BackStep ==
    ASSUME HeapInv, NEW w \in blocks, NEW p \in KPages, w.page = p, NEW d \in Descs, arena[p].desc = d,
           blocks' = blocks \ {w},
           free_list' = [free_list EXCEPT ![d] = <<w>> \o free_list[d]],
           arena' = [arena EXCEPT ![p] = [arena[p] EXCEPT !.count = arena[p].count + 1]],
           UNCHANGED <<kernel_bitmap, runs, stopped>>
    PROVE  HeapInv'
<1>1. HeapTypeOK /\ Owned /\ ListsOnce /\ PageOK(p)
  BY DEF HeapInv
<1>2. free_list[d] \in Seq(HBlocks) /\ IsInjective(free_list[d]) /\ w \in HBlocks /\ blocks \subseteq HBlocks
  BY <1>1, FreeBlocks DEF ListsOnce, HeapTypeOK
<1>3. w \notin ToSet(free_list[d])
  BY <1>1 DEF PageOK
<1>4. /\ <<w>> \o free_list[d] \in Seq(HBlocks) /\ IsInjective(<<w>> \o free_list[d])
      /\ ToSet(<<w>> \o free_list[d]) = ToSet(free_list[d]) \cup {w}
  BY <1>2, <1>3, PushSet
<1>5. /\ \A b : b \in ToSet(free_list'[d]) <=> b \in ToSet(free_list[d]) \/ b = w
      /\ \A e \in Descs : e # d => free_list'[e] = free_list[e]
      /\ free_list' \in [Descs -> Seq(HBlocks)]
      /\ free_list'[d] = <<w>> \o free_list[d]
  BY <1>1, <1>4 DEF HeapTypeOK
<1>6. /\ d # Large /\ d # -1
      /\ \A b \in HBlocks : b.page = p => ((b \in blocks \/ b \in ToSet(free_list[d])) <=> b.idx \in 1 .. total_block(d))
      /\ arena[p].count = Cardinality(FreeOn(d, p))
  BY <1>1, Sizes DEF PageOK
<1>7. /\ IsFiniteSet(FreeOn(d, p)) /\ w \notin FreeOn(d, p) /\ Cardinality(FreeOn(d, p)) \in Nat
      /\ \A b : b # w => (b \in FreeOn(d, p)' <=> b \in FreeOn(d, p))
      /\ w \in FreeOn(d, p)'
  <2>1. IsFiniteSet(FreeOn(d, p)) /\ Cardinality(FreeOn(d, p)) \in Nat
    BY <1>1, FreeBlocks
  <2>2. \A b : b \in FreeOn(d, p)' <=> b \in ToSet(free_list'[d]) /\ b.page = p
    BY DEF FreeOn
  <2>3. \A b : b \in FreeOn(d, p) <=> b \in ToSet(free_list[d]) /\ b.page = p
    BY DEF FreeOn
  <2> QED
    BY <1>3, <1>5, <2>1, <2>2, <2>3
<1>8. Cardinality(FreeOn(d, p)') = Cardinality(FreeOn(d, p)) + 1
  BY <1>7, SwapCount
<1>9. arena[p] = [desc |-> d, count |-> arena[p].count]
  BY <1>1 DEF HeapTypeOK
<1>10. /\ \A q \in KPages : q # p => arena'[q] = arena[q]
       /\ arena'[p] = [desc |-> d, count |-> arena[p].count + 1]
       /\ arena' \in [KPages -> [desc : {-1, Large} \cup Descs, count : Nat]]
  <2>1. [arena[p] EXCEPT !.count = arena[p].count + 1] = [desc |-> d, count |-> arena[p].count + 1]
    BY <1>9
  <2>2. arena' = [arena EXCEPT ![p] = [desc |-> d, count |-> arena[p].count + 1]]
    BY <2>1, Zenon
  <2>3. [desc |-> d, count |-> arena[p].count + 1] \in [desc : {-1, Large} \cup Descs, count : Nat]
    BY <1>6, <1>7
  <2>4. arena \in [KPages -> [desc : {-1, Large} \cup Descs, count : Nat]]
    BY <1>1 DEF HeapTypeOK
  <2> QED
    BY ONLY <2>2, <2>3, <2>4, p \in KPages
<1>11. HeapTypeOK'
  <2>1. \A q \in KPages : /\ arena'[q].desc = -1 => arena'[q].count = 0
                          /\ arena'[q].desc = Large => arena'[q].count > 0
    BY <1>1, <1>6, <1>10 DEF HeapTypeOK
  <2> QED
    BY <1>1, <1>5, <1>10, <2>1 DEF HeapTypeOK
<1>12. Owned'
  <2>1. Span(p)' = Span(p) /\ Span(p) \subseteq Int
    BY <1>6, <1>10 DEF Span
  <2>2. \A q \in Int : q \in Span(p) => q \in kernel_bitmap
    BY <1>1 DEF Owned
  <2>3. \A q \in Int : q \in kernel_bitmap' <=> (q \in kernel_bitmap /\ q \notin Span(p)) \/ q \in Span(p)'
    BY <2>1, <2>2
  <2> QED
    BY <1>1, <1>10, <2>1, <2>3, OneSpan
<1>13. ListsOnce'
  BY <1>1, <1>4, <1>5 DEF ListsOnce
<1>14. ASSUME NEW q \in KPages PROVE PageOK(q)'
  <2>1. CASE q # p
    <3>1. \A b \in HBlocks : b.page = q =>
               /\ b \in blocks' <=> b \in blocks
               /\ \A e \in Descs : b \in ToSet(free_list'[e]) <=> b \in ToSet(free_list[e])
      BY <1>5, <2>1
    <3> QED
      BY <1>1, <1>10, <1>11, <2>1, <3>1, SamePage DEF HeapInv
  <2>2. CASE q = p
    <3>1. arena'[p].desc = d /\ arena'[p].count = Cardinality(FreeOn(d, p)')
      BY <1>6, <1>8, <1>10
    <3>2. \A e \in Descs : \A b \in ToSet(free_list'[e]) : b.page = p => d = e /\ b \notin blocks'
      <4> SUFFICES ASSUME NEW e \in Descs, NEW b \in ToSet(free_list'[e]), b.page = p PROVE d = e /\ b \notin blocks'
        OBVIOUS
      <4>1. CASE b = w /\ e = d
        BY <4>1
      <4>2. CASE ~(b = w /\ e = d)
        <5>1. b \in ToSet(free_list[e])
          BY <1>5, <4>2
        <5> QED
          BY <1>1, <5>1 DEF PageOK
      <4> QED
        BY <4>1, <4>2
    <3>3. \A b \in HBlocks : b.page = p => ((b \in blocks' \/ b \in ToSet(free_list'[d])) <=> b.idx \in 1 .. total_block(d))
      BY <1>5, <1>6
    <3> QED
      BY <1>6, <2>2, <3>1, <3>2, <3>3 DEF PageOK, FreeOn
  <2> QED
    BY <2>1, <2>2
<1> QED
  BY <1>11, <1>12, <1>13, <1>14 DEF HeapInv

(* When all blocks of a page but one are free, that one is its only        *)
(* caller's.                                                               *)
LEMMA LastBlock ==
    ASSUME HeapInv, NEW w \in blocks, NEW p \in KPages, w.page = p, NEW d \in Descs, arena[p].desc = d,
           arena[p].count + 1 = total_block(d)
    PROVE  \A b \in blocks : b.page = p => b = w
<1>a. PICK n : n = total_block(d)
  OBVIOUS
<1>b. PICK list : list = Filled(p, n)
  OBVIOUS
<1> DEFINE X == ToSet(list)
<1>1. HeapTypeOK /\ PageOK(p) /\ blocks \subseteq HBlocks /\ n \in Nat \ {0}
  BY <1>a, Sizes DEF HeapInv, HeapTypeOK
<1>2. /\ \A b \in HBlocks : b \in X <=> b.page = p /\ b.idx \in 1 .. n
      /\ IsFiniteSet(X) /\ Cardinality(X) = n
  BY <1>1, <1>b, FillLemma, Zenon
<1>3. /\ \A b \in HBlocks : b.page = p => ((b \in blocks \/ b \in ToSet(free_list[d])) <=> b.idx \in 1 .. n)
      /\ arena[p].count = Cardinality(FreeOn(d, p))
      /\ \A b \in ToSet(free_list[d]) : b.page = p => b \notin blocks
  BY <1>1, <1>a DEF PageOK
<1>4. ToSet(free_list[d]) \subseteq HBlocks /\ Cardinality(FreeOn(d, p)) \in Nat
  BY <1>1, FreeBlocks
<1>5. arena[p].count + 1 = n
  BY <1>a
<1> HIDE DEF X
<1>6. w \in X
  BY <1>1, <1>2, <1>3
<1>7. FreeOn(d, p) \in SUBSET (X \ {w})
  BY <1>1, <1>2, <1>3, <1>4 DEF FreeOn
<1>8. IsFiniteSet(X \ {w}) /\ Cardinality(X \ {w}) = n - 1
  BY <1>2, <1>6, FS_RemoveElement
<1>9. Cardinality(FreeOn(d, p)) = Cardinality(X \ {w})
  BY <1>1, <1>3, <1>4, <1>5, <1>8
<1>10. FreeOn(d, p) = X \ {w}
  BY <1>7, <1>8, <1>9, FS_Subset
<1> QED
  <2> SUFFICES ASSUME NEW b \in blocks, b.page = p, b # w PROVE FALSE
    OBVIOUS
  <2>1. b \in X
    BY <1>1, <1>2, <1>3
  <2>2. b \in FreeOn(d, p)
    BY <1>10, <2>1
  <2> QED
    BY <1>3, <2>2 DEF FreeOn

(* So does kfree, also of the last block of a page.                        *)
LEMMA KfreeStep ==
    ASSUME HeapInv, NEW w \in blocks, kfree(w)
    PROVE  HeapInv'
<1>1. HeapTypeOK /\ Owned /\ ListsOnce
  BY DEF HeapInv
<1>2. PICK p \in KPages : p = w.page
  BY <1>1 DEF HeapTypeOK, HBlocks
<1>3. PICK d \in {-1, Large} \cup Descs : d = arena[p].desc
  BY <1>1 DEF HeapTypeOK
<1>4. PageOK(p) /\ w \in HBlocks /\ w.page = p
  BY <1>1, <1>2 DEF HeapInv, HeapTypeOK
<1>5. d # -1
  BY <1>3, <1>4 DEF PageOK
<1>6. /\ blocks' = blocks \ {w}
      /\ UNCHANGED <<runs, stopped>>
  BY DEF kfree
<1>7. CASE d = Large
  <2>1. /\ free_list' = free_list
        /\ arena' = [arena EXCEPT ![p] = NoArena]
        /\ kernel_bitmap' = kernel_bitmap \ PagesOf(Run(p, arena[p].count))
    BY <1>2, <1>3, <1>7 DEF kfree
  <2>2. PagesOf(Run(p, arena[p].count)) = Span(p)
    BY <1>3, <1>5, <1>7 DEF PagesOf, Run, Span
  <2>3. \A b \in blocks : b.page = p => b = w
    <3>1. \A b \in HBlocks : b.page = p => (b \in blocks <=> b.idx = 1)
      BY <1>3, <1>4, <1>7 DEF PageOK
    <3>2. \A b \in HBlocks : b.page = w.page /\ b.idx = w.idx => b = w
      BY <1>4 DEF HBlocks
    <3> QED
      BY <1>1, <1>4, <3>1, <3>2 DEF HeapTypeOK
  <2>4. free_list' \in [Descs -> Seq(HBlocks)] /\ ListsOnce'
    BY <1>1, <2>1 DEF HeapTypeOK, ListsOnce
  <2>5. \A e \in Descs : \A b \in HBlocks : b \in ToSet(free_list'[e]) <=> b \in ToSet(free_list[e]) /\ b.page # p
    BY <1>3, <1>4, <1>7, <2>1, Sizes DEF PageOK
  <2> QED
    BY <1>4, <1>6, <2>1, <2>2, <2>3, <2>4, <2>5, GoneStep
<1>8. CASE d \in Descs /\ arena[p].count + 1 = total_block(d)
  <2> DEFINE keep == {i \in DOMAIN free_list[d] : free_list[d][i].page # p}
  <2>0. d # Large
    BY <1>8, Sizes
  <2>1. /\ free_list' = [free_list EXCEPT ![d] = Kept(free_list[d], keep)]
        /\ arena' = [arena EXCEPT ![p] = NoArena]
        /\ kernel_bitmap' = kernel_bitmap \ PagesOf(Run(p, 1))
    BY <1>2, <1>3, <1>8, <2>0 DEF kfree
  <2>2. PagesOf(Run(p, 1)) = Span(p)
    BY <1>3, <1>5, <2>0 DEF PagesOf, Run, Span
  <2>3. \A b \in blocks : b.page = p => b = w
    BY <1>3, <1>4, <1>8, LastBlock
  <2>4. /\ free_list[d] \in Seq(HBlocks) /\ IsInjective(free_list[d])
        /\ keep \in SUBSET (1 .. Len(free_list[d]))
    <3>1. free_list[d] \in Seq(HBlocks) /\ IsInjective(free_list[d])
      BY <1>1, <1>8, FreeBlocks DEF ListsOnce
    <3>2. DOMAIN free_list[d] = 1 .. Len(free_list[d])
      BY <3>1, LenProperties
    <3> QED
      BY <3>1, <3>2
  <2>5. \A i : i \in keep <=> i \in 1 .. Len(free_list[d]) /\ free_list[d][i].page # p
    <3>1. DOMAIN free_list[d] = 1 .. Len(free_list[d])
      BY <2>4, LenProperties
    <3> QED
      BY <3>1
  <2> HIDE DEF keep
  <2>6. /\ Kept(free_list[d], keep) \in Seq(HBlocks) /\ IsInjective(Kept(free_list[d], keep))
        /\ \A b : b \in ToSet(Kept(free_list[d], keep)) <=> \E i \in keep : b = free_list[d][i]
    BY <2>4, KeptLemma
  <2>7. \A b : b \in ToSet(Kept(free_list[d], keep)) <=> b \in ToSet(free_list[d]) /\ b.page # p
    <3>1. \A b : b \in ToSet(free_list[d]) <=> \E i \in 1 .. Len(free_list[d]) : b = free_list[d][i]
      BY <2>4, SetOf
    <3> TAKE b
    <3>2. b \in ToSet(Kept(free_list[d], keep)) <=> \E i \in keep : b = free_list[d][i]
      BY <2>6
    <3>3. b \in ToSet(free_list[d]) <=> \E i \in 1 .. Len(free_list[d]) : b = free_list[d][i]
      BY <3>1
    <3> QED
      BY <2>5, <3>2, <3>3
  <2>8. /\ free_list'[d] = Kept(free_list[d], keep)
        /\ \A e \in Descs : e # d => free_list'[e] = free_list[e]
        /\ free_list' \in [Descs -> Seq(HBlocks)]
    BY <1>1, <1>8, <2>1, <2>6 DEF HeapTypeOK
  <2>9. ListsOnce'
    BY <1>1, <2>6, <2>8 DEF ListsOnce
  <2>10. \A e \in Descs : \A b \in HBlocks : b \in ToSet(free_list'[e]) <=> b \in ToSet(free_list[e]) /\ b.page # p
    <3> TAKE e \in Descs
    <3>1. CASE e = d
      BY <2>7, <2>8, <3>1
    <3>2. CASE e # d
      <4>1. \A b \in ToSet(free_list[e]) : b.page # p
        BY <1>3, <1>4, <3>2 DEF PageOK
      <4> QED
        BY <2>8, <3>2, <4>1
    <3> QED
      BY <3>1, <3>2
  <2> QED
    <3>1. arena' = [arena EXCEPT ![p] = NoArena] /\ kernel_bitmap' = kernel_bitmap \ Span(p)
      BY <2>1, <2>2
    <3>2. free_list' \in [Descs -> Seq(HBlocks)]
      BY <2>8
    <3> QED
      BY <1>4, <1>6, <2>3, <2>9, <2>10, <3>1, <3>2, GoneStep
<1>9. CASE d \in Descs /\ arena[p].count + 1 # total_block(d)
  <2>0. d # Large
    BY <1>9, Sizes
  <2>1. /\ free_list' = [free_list EXCEPT ![d] = <<w>> \o free_list[d]]
        /\ arena' = [arena EXCEPT ![p] = [arena[p] EXCEPT !.count = arena[p].count + 1]]
        /\ kernel_bitmap' = kernel_bitmap
    <3>1. arena[w.page] = arena[p] /\ arena[p].desc = d /\ d # Large /\ arena[p].count + 1 # total_block(d)
      BY <1>2, <1>3, <1>9, <2>0
    <3>2. free_list' = [free_list EXCEPT ![d] = <<w>> \o free_list[d]]
      BY <3>1, Zenon DEF kfree
    <3>3. arena' = [arena EXCEPT ![p] = [arena[p] EXCEPT !.count = arena[p].count + 1]]
      <4>1. arena' = [arena EXCEPT ![w.page] =
                        IF arena[w.page].desc = Large \/ arena[w.page].count + 1 = total_block(arena[w.page].desc)
                        THEN NoArena ELSE [arena[w.page] EXCEPT !.count = arena[w.page].count + 1]]
        BY DEF kfree
      <4>2. arena' = [arena EXCEPT ![w.page] = [arena[w.page] EXCEPT !.count = arena[w.page].count + 1]]
        BY <3>1, <4>1
      <4> QED
        BY <1>2, <4>2
    <3>4. kernel_bitmap' = kernel_bitmap
      BY <3>1, Zenon DEF kfree
    <3> QED
      BY <3>2, <3>3, <3>4
  <2> QED
    BY <1>3, <1>4, <1>6, <1>9, <2>1, BackStep
<1> QED
  BY <1>5, <1>7, <1>8, <1>9

(* So does kmalloc, also when it cuts a new page.                          *)
LEMMA KmallocStep ==
    ASSUME HeapInv, NEW size \in KSizes, kmalloc(size)
    PROVE  HeapInv'
<1>1. CASE kmalloc_large(size)
  BY <1>1, LargeStep
<1>2. ASSUME NEW d \in Descs, kmalloc_small(d) PROVE HeapInv'
  <2>1. CASE Stop
    BY <2>1, StopStep DEF Stop
  <2>2. ASSUME free_list[d] # << >>,
               blocks' = blocks \cup {Head(free_list[d])},
               free_list' = [free_list EXCEPT ![d] = Tail(free_list[d])],
               UNCHANGED <<runs, stopped>>,
               arena' = [arena EXCEPT ![Head(free_list[d]).page].count = @ - 1],
               UNCHANGED kernel_bitmap
        PROVE  HeapInv'
    BY <2>2, TakeStep
  <2>3. ASSUME free_list[d] = << >>, NEW p \in bitmap_scan(1),
               kernel_bitmap' = kernel_bitmap \cup {p},
               arena' = [arena EXCEPT ![p] = [desc |-> d, count |-> total_block(d) - 1]],
               blocks' = blocks \cup {Head(Filled(p, total_block(d)))},
               free_list' = [free_list EXCEPT ![d] = Tail(Filled(p, total_block(d)))],
               UNCHANGED <<runs, stopped>>
        PROVE  HeapInv'
    <3>1. PICK n : n = total_block(d)
      OBVIOUS
    <3>2. PICK list : list = Filled(p, n)
      OBVIOUS
    <3>3. /\ blocks' = blocks \cup {Head(list)} /\ free_list' = [free_list EXCEPT ![d] = Tail(list)]
          /\ arena' = [arena EXCEPT ![p] = [desc |-> d, count |-> n - 1]]
      BY <2>3, <3>1, <3>2
    <3> QED
      BY <2>3, <3>1, <3>2, <3>3, NewPageStep
  <2> QED
    BY <1>2, <2>1, <2>2, <2>3 DEF kmalloc_small, Filled
<1> QED
  BY <1>1, <1>2 DEF kmalloc

(* The heap begins in its invariant.                                       *)
LEMMA HeapStart == HeapInit => HeapInv
<1> SUFFICES ASSUME HeapInit PROVE HeapInv
  OBVIOUS
<1>1. /\ kernel_bitmap = {} /\ arena = [p \in KPages |-> NoArena] /\ free_list = [d \in Descs |-> << >>]
      /\ blocks = {} /\ runs = {}
  BY DEF HeapInit
<1>2. \A p \in KPages : arena[p] = NoArena /\ arena[p].desc = -1 /\ arena[p].count = 0 /\ Span(p) = {}
  BY <1>1, Sizes DEF Span
<1>3. \A d \in Descs : free_list[d] = << >> /\ ToSet(free_list[d]) = {} /\ IsInjective(free_list[d])
  BY <1>1 DEF ToSet, IsInjective
<1>4. HeapTypeOK
  <2>1. NoArena \in [desc : {-1, Large} \cup Descs, count : Nat]
    BY DEF NoArena
  <2>2. arena \in [KPages -> [desc : {-1, Large} \cup Descs, count : Nat]]
    BY <1>1, <2>1
  <2>3. free_list \in [Descs -> Seq(HBlocks)]
    <3>1. << >> \in Seq(HBlocks)
      OBVIOUS
    <3> QED
      BY <1>1, <3>1
  <2> QED
    BY <1>1, <1>2, <2>2, <2>3, Sizes DEF HeapTypeOK
<1>5. Owned
  BY <1>1, <1>2 DEF Owned
<1>6. ListsOnce
  BY <1>3 DEF ListsOnce
<1>7. \A p \in KPages : PageOK(p)
  BY <1>1, <1>2, <1>3, Sizes DEF PageOK
<1> QED
  BY <1>4, <1>5, <1>6, <1>7 DEF HeapInv

(* Every step of the heap keeps it.                                        *)
LEMMA HeapStep == HeapInv /\ [HeapNext]_heapVars => HeapInv'
<1> SUFFICES ASSUME HeapInv, [HeapNext]_heapVars PROVE HeapInv'
  OBVIOUS
<1>1. CASE UNCHANGED heapVars
  BY <1>1, StopStep DEF heapVars
<1>2. ASSUME NEW n \in KCounts, alloc_kpage(n) PROVE HeapInv'
  BY <1>2, AllocStep
<1>3. ASSUME NEW r \in runs, free_kpage(r) PROVE HeapInv'
  BY <1>3, FreeRunStep
<1>4. ASSUME NEW s \in KSizes, kmalloc(s) PROVE HeapInv'
  BY <1>4, KmallocStep
<1>5. ASSUME NEW b \in blocks, kfree(b) PROVE HeapInv'
  BY <1>5, KfreeStep
<1> QED
  BY <1>1, <1>2, <1>3, <1>4, <1>5 DEF HeapNext

(* The inductive invariant says what HeapExact says.                       *)
LEMMA HeapInvExact == HeapInv => HeapExact
<1> SUFFICES ASSUME HeapInv PROVE HeapExact
  OBVIOUS
<1>1. HeapTypeOK /\ Owned /\ ListsOnce
  BY DEF HeapInv
<1>2. \A p \in KPages : /\ arena[p] = NoArena <=> arena[p].desc = -1
                        /\ p \in Int
  <2> TAKE p \in KPages
  <2>1. /\ arena[p] \in [desc : {-1, Large} \cup Descs, count : Nat]
        /\ arena[p].desc = -1 => arena[p].count = 0
    BY <1>1 DEF HeapTypeOK
  <2> QED
    BY <2>1, Sizes DEF NoArena
<1>3. \A p : p \in Used <=> p \in KPages /\ arena[p].desc # -1
  BY <1>2 DEF Used
<1> DEFINE A == [page : KPages, count : Nat \ {0}]
           owner(r) == [owner |-> "caller", page |-> r.page, count |-> r.count]
           size(p) == IF arena[p].desc = Large THEN arena[p].count ELSE 1
           host(p) == [owner |-> "arena", page |-> p, count |-> size(p)]
<1>4. Extents = {owner(r) : r \in runs} \cup {host(p) : p \in Used}
  BY DEF Extents
<1>5. \A r : PagesOf(owner(r)) = PagesOf(r)
  BY DEF PagesOf
<1>6. \A p \in KPages : arena[p].desc # -1 => PagesOf(host(p)) = Span(p)
  BY DEF PagesOf, Span
<1>7. \A r \in runs : PagesOf(r) \subseteq Int
  BY DEF PagesOf
<1>8. \A p \in KPages : Span(p) \subseteq Int /\ (arena[p].desc = -1 => Span(p) = {})
  BY DEF Span
<1> HIDE DEF owner, host, size
<1>9. kernel_bitmap = UNION {PagesOf(r) : r \in Extents}
  <2>0. \A q \in kernel_bitmap : q \in Int
    BY <1>1, Sizes DEF HeapTypeOK
  <2>1. \A q \in Int : q \in kernel_bitmap <=> (\E r \in runs : q \in PagesOf(r)) \/ (\E p \in KPages : q \in Span(p))
    BY <1>1 DEF Owned
  <2>2. ASSUME NEW q \in kernel_bitmap PROVE \E r \in Extents : q \in PagesOf(r)
    <3>1. CASE \E r \in runs : q \in PagesOf(r)
      BY <1>4, <1>5, <3>1
    <3>2. ASSUME NEW p \in KPages, q \in Span(p) PROVE \E r \in Extents : q \in PagesOf(r)
      <4>1. arena[p].desc # -1
        BY <1>8, <3>2
      <4>2. host(p) \in Extents /\ q \in PagesOf(host(p))
        BY <1>3, <1>4, <1>6, <3>2, <4>1
      <4> QED
        BY <4>2
    <3> QED
      BY <2>0, <2>1, <3>1, <3>2
  <2>3. ASSUME NEW r \in Extents, NEW q \in PagesOf(r) PROVE q \in kernel_bitmap
    <3>1. CASE r \in {owner(s) : s \in runs}
      BY <1>5, <1>7, <2>1, <3>1
    <3>2. CASE r \in {host(p) : p \in Used}
      BY <1>3, <1>6, <1>8, <2>1, <3>2
    <3> QED
      BY <1>4, <3>1, <3>2
  <2> QED
    BY <2>2, <2>3, Zenon
<1>10. ASSUME NEW r \in Extents, NEW s \in Extents, r # s PROVE PagesOf(r) \cap PagesOf(s) = {}
  <2> SUFFICES ASSUME NEW q, q \in PagesOf(r), q \in PagesOf(s) PROVE FALSE
    BY Zenon
  <2>0. /\ \A v \in Int : \A a, c \in runs : v \in PagesOf(a) /\ v \in PagesOf(c) => a = c
        /\ \A v \in Int : \A p, u \in KPages : v \in Span(p) /\ v \in Span(u) => p = u
        /\ \A v \in Int : \A a \in runs, p \in KPages : ~(v \in PagesOf(a) /\ v \in Span(p))
    BY <1>1 DEF Owned
  <2>1. \A e \in Extents : \/ \E a \in runs : e = owner(a) /\ PagesOf(e) = PagesOf(a)
                           \/ \E p \in KPages : e = host(p) /\ PagesOf(e) = Span(p)
    BY <1>3, <1>4, <1>5, <1>6
  <2>2. q \in Int
    BY <1>7, <1>8, <2>1
  <2>3. ASSUME NEW a \in runs, r = owner(a), PagesOf(r) = PagesOf(a) PROVE FALSE
    <3>1. CASE \E c \in runs : s = owner(c) /\ PagesOf(s) = PagesOf(c)
      BY <1>10, <2>0, <2>2, <2>3, <3>1
    <3>2. CASE \E p \in KPages : PagesOf(s) = Span(p)
      BY <2>0, <2>2, <2>3, <3>2
    <3> QED
      BY <2>1, <3>1, <3>2
  <2>4. ASSUME NEW p \in KPages, r = host(p), PagesOf(r) = Span(p) PROVE FALSE
    <3>1. CASE \E c \in runs : PagesOf(s) = PagesOf(c)
      BY <2>0, <2>2, <2>4, <3>1
    <3>2. CASE \E u \in KPages : s = host(u) /\ PagesOf(s) = Span(u)
      BY <1>10, <2>0, <2>2, <2>4, <3>2
    <3> QED
      BY <2>1, <3>1, <3>2
  <2> QED
    BY <2>1, <2>3, <2>4
<1>11. \A b \in blocks : b.page \in Used
  <2> TAKE b \in blocks
  <2>1. b.page \in KPages
    BY <1>1 DEF HeapTypeOK, HBlocks
  <2> QED
    BY <1>3, <2>1 DEF HeapInv, PageOK
<1>12. \A d \in Descs : /\ IsInjective(free_list[d])
                        /\ \A b \in ToSet(free_list[d]) : b \notin blocks /\ arena[b.page].desc = d
  <2> TAKE d \in Descs
  <2>1. ToSet(free_list[d]) \subseteq HBlocks
    BY <1>1, FreeBlocks
  <2>2. \A b \in ToSet(free_list[d]) : b.page \in KPages
    BY <2>1 DEF HBlocks
  <2> QED
    BY <1>1, <2>2 DEF HeapInv, PageOK, ListsOnce
<1>13. ASSUME NEW p \in KPages, arena[p].desc = Large PROVE {b \in blocks : b.page = p} = {Block(p, 1)}
  <2>1. \A b \in HBlocks : b.page = p => (b \in blocks <=> b.idx = 1)
    BY <1>13 DEF HeapInv, PageOK
  <2>2. Block(p, 1) \in HBlocks /\ Block(p, 1).page = p /\ Block(p, 1).idx = 1
    BY DEF Block, HBlocks
  <2>3. \A b \in HBlocks : b.page = p /\ b.idx = 1 => b = Block(p, 1)
    BY DEF Block, HBlocks
  <2>4. blocks \subseteq HBlocks
    BY <1>1 DEF HeapTypeOK
  <2> QED
    BY <2>1, <2>2, <2>3, <2>4
<1>14. ASSUME NEW p \in KPages, NEW d \in Descs, arena[p].desc = d,
              NEW all, all = {Block(p, i) : i \in 1 .. total_block(d)}
       PROVE  /\ all = {b \in blocks \cup ToSet(free_list[d]) : b.page = p}
              /\ arena[p].count = Cardinality(all \cap ToSet(free_list[d]))
  <2>1. /\ \A b \in HBlocks : b.page = p => ((b \in blocks \/ b \in ToSet(free_list[d])) <=> b.idx \in 1 .. total_block(d))
        /\ arena[p].count = Cardinality(FreeOn(d, p))
    BY <1>14 DEF HeapInv, PageOK
  <2>2. total_block(d) \in Nat \ {0}
    BY Sizes
  <2>3. \A b : b \in all <=> b \in HBlocks /\ b.page = p /\ b.idx \in 1 .. total_block(d)
    <3> TAKE b
    <3>1. \A i \in 1 .. total_block(d) : Block(p, i) \in HBlocks /\ Block(p, i).page = p /\ Block(p, i).idx = i
      BY <2>2 DEF Block, HBlocks
    <3>2. b \in HBlocks /\ b.page = p => b = Block(p, b.idx)
      BY DEF Block, HBlocks
    <3> QED
      BY <1>14, <3>1, <3>2
  <2>4. blocks \subseteq HBlocks /\ ToSet(free_list[d]) \subseteq HBlocks
    BY <1>1, FreeBlocks DEF HeapTypeOK
  <2>5. all = {b \in blocks \cup ToSet(free_list[d]) : b.page = p}
    BY <2>1, <2>3, <2>4
  <2>6. all \cap ToSet(free_list[d]) = FreeOn(d, p)
    BY <2>5 DEF FreeOn
  <2> QED
    BY <2>1, <2>5, <2>6
<1>15. \A p \in KPages : arena[p].desc \in Descs =>
          LET d == arena[p].desc
              all == {Block(p, i) : i \in 1 .. total_block(d)}
          IN  /\ all = {b \in blocks \cup ToSet(free_list[d]) : b.page = p}
              /\ arena[p].count = Cardinality(all \cap ToSet(free_list[d]))
  BY <1>14
<1>16. \A r, s \in Extents : r # s => PagesOf(r) \cap PagesOf(s) = {}
  BY <1>10
<1>17. \A p \in KPages : arena[p].desc = Large => {b \in blocks : b.page = p} = {Block(p, 1)}
  BY <1>13
<1> QED
  BY <1>9, <1>11, <1>12, <1>15, <1>16, <1>17, Zenon DEF HeapExact

(* What alloc_kpage and kmalloc hand out is handed out once and nothing of *)
(* it is lost, for any number and size of pages and blocks.                *)
THEOREM HeapAlwaysExact == MemorySpec => []HeapExact
<1>1. MemoryInit => HeapInv
  BY HeapStart DEF MemoryInit
<1>2. HeapInv /\ [MemoryNext]_<<vars, heapVars, part>> => HeapInv'
  <2> SUFFICES ASSUME HeapInv, [MemoryNext]_<<vars, heapVars, part>> PROVE HeapInv'
    OBVIOUS
  <2>1. [HeapNext]_heapVars
    BY DEF MemoryNext
  <2> QED
    BY <2>1, HeapStep
<1> QED
  BY <1>1, <1>2, HeapInvExact, PTL DEF MemorySpec
=============================================================================
