------------------------------- MODULE Memory -------------------------------
(***************************************************************************)
(* User memory, kernel/memory.c: reference counts of physical pages, one   *)
(* page directory per process, copy on write after fork, demand paging,    *)
(* mmap, munmap and brk, and what execve and exit do to an address space.  *)
(*                                                                         *)
(* An address space has an image and heap that ends at brk, an area for    *)
(* mmap and a stack, each under a page table of its own.  The contents of  *)
(* a page are the number of the last write to it.  A fault and the access  *)
(* that is tried again after it are separate steps; so are the pages that  *)
(* execve loads, since it waits for the disk between them.                 *)
(***************************************************************************)
EXTENDS Ranks

CONSTANTS Tasks, First,   \* processes; the one that exists at the start
          NHeap, NMap, NStack,  \* pages of the heap, the mmap area and the stack
          NFrames,        \* physical pages from start_page on
          NKernel,        \* how many of them mapping_init takes for the kernel
          MmapAddrs,      \* the addresses passed to mmap, 0 for NULL
          MmapFlags,      \* pairs: PROT_WRITE and MAP_SHARED given or not
          MaxWrites       \* bound on the writes

Heap == 1 .. NHeap
Map == NHeap + 1 .. NHeap + NMap
Stack == NHeap + NMap + 1 .. NHeap + NMap + NStack
Pages == Heap \cup Map \cup Stack
Dirs == 1 .. 3
Dir(v) == IF v \in Heap THEN 1 ELSE IF v \in Map THEN 2 ELSE 3
Frames == 1 .. NFrames
None == 0

ASSUME MemoryAssumption == /\ First \in Tasks /\ IsFiniteSet(Tasks)
                           /\ {NHeap, NMap, NStack, NFrames} \subseteq Nat
                           /\ NKernel \in 0 .. NFrames
                           /\ MmapAddrs \subseteq Map \cup {0}
                           /\ MmapFlags \subseteq BOOLEAN \X BOOLEAN
                           /\ MaxWrites \in Nat

VARIABLES memory_map,   \* references of every physical page
          free_pages,
          table,        \* the frames of a process's page tables
          entry,        \* its page entries
          brk, end,     \* task->brk, task->end, in pages
          vmap,         \* task->vmap
          alive,        \* processes with a page directory
          loading,      \* processes inside execve, old image gone
          halted,       \* the kernel has panicked
          data,         \* contents of a physical page
          view,         \* history: what a process last wrote or found in a page
          writes,       \* history: writes so far
          bypassed      \* history: the write protection has been passed by

frameVars == <<memory_map, free_pages, table>>
taskVars == <<brk, end, vmap, alive, loading>>
dataVars == <<data, view, writes, bypassed>>
vars == <<frameVars, entry, taskVars, halted, dataVars>>

NoEntry == [frame |-> None, write |-> FALSE, shared |-> FALSE, readonly |-> FALSE]

\* entry_init: present and writable.
entry_init(f) == [frame |-> f, write |-> TRUE, shared |-> FALSE, readonly |-> FALSE]

Init == /\ memory_map = [f \in Frames |-> IF f <= NKernel THEN 1 ELSE 0]
        /\ free_pages = NFrames
        /\ table = [t \in Tasks |-> [d \in Dirs |-> None]]
        /\ entry = [t \in Tasks |-> [v \in Pages |-> NoEntry]]
        /\ brk = [t \in Tasks |-> 0] /\ end = [t \in Tasks |-> 0]
        /\ vmap = [t \in Tasks |-> {}]
        /\ alive = {First} /\ loading = {First}
        /\ halted = FALSE
        /\ data = [f \in Frames |-> 0]
        /\ view = [t \in Tasks |-> [v \in Pages |-> 0]]
        /\ writes = 0 /\ bypassed = FALSE

Runs(t) == t \in alive \ loading /\ ~halted
Present(t, v) == entry[t][v].frame # None

Panic == halted' = TRUE /\ UNCHANGED <<frameVars, entry, taskVars, dataVars>>

-----------------------------------------------------------------------------
\* The n-th page get_page returns from here on, and whether n can be had.
Free == {f \in Frames : memory_map[f] = 0}
get_page(n) == Nth(n, Free)
CanGet(n) == Cardinality(Free) >= n /\ free_pages > n

Counted_no_refs(n, refs) == [f \in Frames |-> IF \E i \in 1 .. n : f = get_page(i) THEN 1
                                               ELSE memory_map[f]]

\* memory_map with n more pages taken and refs more references counted.
Counted(n, refs) == [f \in Frames |-> IF \E i \in 1 .. n : f = get_page(i) THEN 1
                                       ELSE memory_map[f] + refs[f]]

\* The references that the entries of t for the pages V hold.
Refs(t, V) == [f \in Frames |-> Cardinality({v \in V : entry[t][v].frame = f})]

\* put_page for every reference in refs.  A free page keeps its contents.
put_page(refs) ==
    LET freed == {f \in Frames : refs[f] > 0 /\ memory_map[f] = refs[f]}
    IN  /\ memory_map' = [f \in Frames |-> memory_map[f] - refs[f]]
        /\ free_pages' = free_pages + Cardinality(freed)
        /\ data' = data

\* data when the next n pages become page tables, which are filled at once: 0,
\* the number of no write.
TablesFilled(n) == [f \in Frames |-> IF \E i \in 1 .. n : f = get_page(i) THEN 0 ELSE data[f]]

\* link_page: a page table if there is none, then a page, which nobody clears.
\* Nothing is taken for an entry that is present.
Needed(t, v) == IF Present(t, v) THEN 0 ELSE IF table[t][Dir(v)] = None THEN 2 ELSE 1

link_page(t, v) ==
    /\ memory_map' = Counted(Needed(t, v), [f \in Frames |-> 0])
    /\ free_pages' = free_pages - Needed(t, v)
    /\ table' = [table EXCEPT ![t][Dir(v)] = IF Needed(t, v) = 2 THEN get_page(1) ELSE @]

LinkedTables(t, v) == TablesFilled(IF Needed(t, v) = 2 THEN 1 ELSE 0)
LinkedEntry(t, v) == IF Present(t, v) THEN entry[t][v] ELSE entry_init(get_page(Needed(t, v)))

\* unlink_page for the pages V: those present lose a reference.
unlink_page(t, V) ==
    /\ put_page(Refs(t, V))
    /\ entry' = [entry EXCEPT ![t] = [v \in Pages |-> IF v \in V THEN NoEntry ELSE @[v]]]
    /\ view' = [view EXCEPT ![t] = [v \in Pages |-> IF v \in V THEN 0 ELSE @[v]]]
    /\ UNCHANGED <<table, halted, writes, bypassed>>

-----------------------------------------------------------------------------
\* A write through e reaches a page that other entries share until they copy it.
Bypasses(e) == e.frame # None /\ memory_map[e.frame] > 1 /\ ~e.write /\ ~e.shared

\* A store into a present page of t: by the program, which needs the write
\* bit, or by a system call (read, execve's arguments), which does not:
\* CR0.WP is never set.
Store(t, v) ==
    /\ Runs(t) /\ Present(t, v) /\ writes < MaxWrites
    /\ writes' = writes + 1
    /\ data' = [data EXCEPT ![entry[t][v].frame] = writes + 1]
    /\ view' = [view EXCEPT ![t][v] = writes + 1]
    /\ bypassed' = (bypassed \/ Bypasses(entry[t][v]))
    /\ UNCHANGED <<frameVars, entry, taskVars, halted>>

user_write(t, v) == entry[t][v].write /\ Store(t, v)

kernel_write(t, v) == Store(t, v)

\* page_fault on a present page: the last reference becomes writable, any
\* other gets a copy of its own.
fault_protected(t, v) ==
    LET e == entry[t][v]
        new == get_page(1)
        bad == e.shared \/ e.readonly
    IN  /\ Runs(t) /\ Present(t, v) /\ ~e.write
        /\ \/ bad /\ Panic
           \/ /\ ~bad /\ memory_map[e.frame] = 1
              /\ entry' = [entry EXCEPT ![t][v].write = TRUE]
              /\ UNCHANGED <<frameVars, taskVars, halted, dataVars>>
           \/ ~bad /\ memory_map[e.frame] > 1 /\ ~CanGet(1) /\ Panic
           \/ /\ ~bad /\ memory_map[e.frame] > 1 /\ CanGet(1)
              /\ memory_map' = [memory_map EXCEPT ![new] = 1, ![e.frame] = @ - 1]
              /\ free_pages' = free_pages - 1
              /\ data' = [data EXCEPT ![new] = data[e.frame]]
              /\ entry' = [entry EXCEPT ![t][v] = entry_init(new)]
              /\ UNCHANGED <<table, taskVars, halted, view, writes, bypassed>>

\* page_fault on a missing page: only the heap below brk and the stack grow.
fault_missing(t, v) ==
    LET legal == (v <= brk[t] \/ v \in Stack) /\ CanGet(Needed(t, v))
    IN  /\ Runs(t) /\ ~Present(t, v)
        /\ \/ /\ legal
              /\ link_page(t, v)
              /\ entry' = [entry EXCEPT ![t][v] = LinkedEntry(t, v)]
              /\ data' = LinkedTables(t, v)
              /\ view' = [view EXCEPT ![t][v] = data[LinkedEntry(t, v).frame]]
              /\ UNCHANGED <<taskVars, halted, writes, bypassed>>
           \/ ~legal /\ Panic

-----------------------------------------------------------------------------
write_protect_none(e) == e

\* What fork does to the entries: private pages are written only after a copy.
write_protect(e) == IF e.shared THEN e ELSE [e EXCEPT !.write = FALSE]

\* fork: copy_pde write-protects the private pages of the caller, counts one
\* more reference for each page and copies the page tables.
copy_pde(t, c) ==
    LET dirs == {d \in Dirs : table[t][d] # None}
        n == Cardinality(dirs)
        protected == [v \in Pages |-> write_protect(entry[t][v])]
        Copy(field) == [field EXCEPT ![c] = field[t]]
    IN  /\ Runs(t) /\ c \in Tasks \ alive
        /\ \/ ~CanGet(n) /\ Panic
           \/ /\ CanGet(n)
              /\ memory_map' = Counted(n, Refs(t, Pages))
              /\ free_pages' = free_pages - n
              /\ table' = [table EXCEPT ![c] = [d \in Dirs |->
                               IF d \in dirs THEN get_page(Rank(d, dirs)) ELSE None]]
              /\ entry' = [entry EXCEPT ![t] = protected, ![c] = protected]
              /\ brk' = Copy(brk) /\ end' = Copy(end) /\ vmap' = Copy(vmap) /\ view' = Copy(view)
              /\ alive' = alive \cup {c}
              /\ data' = TablesFilled(n)
              /\ UNCHANGED <<loading, halted, writes, bypassed>>

\* exit: every page and every page table loses a reference.
free_pde(t) ==
    /\ Runs(t)
    /\ put_page([f \in Frames |-> Refs(t, Pages)[f] + Cardinality({d \in Dirs : table[t][d] = f})])
    /\ table' = [table EXCEPT ![t] = [d \in Dirs |-> None]]
    /\ entry' = [entry EXCEPT ![t] = [v \in Pages |-> NoEntry]]
    /\ brk' = [brk EXCEPT ![t] = 0] /\ end' = [end EXCEPT ![t] = 0]
    /\ vmap' = [vmap EXCEPT ![t] = {}] /\ view' = [view EXCEPT ![t] = [v \in Pages |-> 0]]
    /\ alive' = alive \ {t}
    /\ UNCHANGED <<loading, halted, writes, bypassed>>

-----------------------------------------------------------------------------
\* brk, which must not cut into the image: shrinking gives pages back, growing
\* only asks whether there are some.
sys_brk(t, b) ==
    /\ Runs(t)
    /\ \/ b < end[t] /\ Panic
       \/ /\ b >= end[t] /\ b < brk[t]
          /\ unlink_page(t, b + 1 .. brk[t])
          /\ brk' = [brk EXCEPT ![t] = b]
          /\ UNCHANGED <<end, vmap, alive, loading>>
       \/ /\ b >= end[t] /\ b >= brk[t]
          /\ brk' = IF b - brk[t] > free_pages THEN brk ELSE [brk EXCEPT ![t] = b]
          /\ UNCHANGED <<frameVars, entry, end, vmap, alive, loading, halted, dataVars>>

\* mmap of one page at a, or for NULL at the first page that vmap has free.
\* The bits are set whatever the entry was.
MmapAt(t, a) == IF a # 0 THEN {a}
                ELSE {v \in Map \ vmap[t] : \A u \in Map \ vmap[t] : v <= u}

sys_mmap(t, a, wr, sh) ==
    /\ Runs(t)
    /\ \/ (\A v \in MmapAt(t, a) : ~CanGet(Needed(t, v))) /\ Panic
       \/ \E v \in MmapAt(t, a) :
            LET e == LinkedEntry(t, v)
            IN  /\ CanGet(Needed(t, v))
                /\ link_page(t, v)
                /\ vmap' = [vmap EXCEPT ![t] = @ \cup {v}]
                /\ entry' = [entry EXCEPT ![t][v] = [frame |-> e.frame, write |-> wr, readonly |-> ~wr,
                                                     shared |-> sh \/ e.shared]]
                /\ data' = LinkedTables(t, v)
                /\ view' = [view EXCEPT ![t][v] = data[e.frame]]
                /\ bypassed' = (bypassed \/ (Bypasses(entry[t][v]) /\ (wr \/ sh)))
                /\ UNCHANGED <<brk, end, alive, loading, halted, writes>>

sys_munmap_keeps_bit(t, v) ==
    /\ Runs(t) /\ v \in vmap[t]
    /\ unlink_page(t, {v})
    /\ UNCHANGED taskVars

\* munmap of one page; the bit of vmap must have been set.
sys_munmap(t, v) ==
    /\ Runs(t)
    /\ \/ v \notin vmap[t] /\ Panic
       \/ /\ v \in vmap[t]
          /\ unlink_page(t, {v})
          /\ vmap' = [vmap EXCEPT ![t] = @ \ {v}]
          /\ UNCHANGED <<brk, end, alive, loading>>

-----------------------------------------------------------------------------
\* execve: the old image and heap go ...
sys_execve(t) ==
    /\ Runs(t)
    /\ unlink_page(t, 1 .. brk[t])
    /\ brk' = [brk EXCEPT ![t] = 0] /\ end' = [end EXCEPT ![t] = 0]
    /\ loading' = loading \cup {t}
    /\ UNCHANGED <<vmap, alive>>

\* ... the pages of the new image are linked and filled, and made read-only
\* unless the segment is to be written (wr) ...
load_segment(t, wr) ==
    LET v == end[t] + 1
        e == LinkedEntry(t, v)
    IN  /\ t \in loading /\ ~halted /\ v \in Heap /\ writes < MaxWrites
        /\ \/ ~CanGet(Needed(t, v)) /\ Panic
           \/ /\ CanGet(Needed(t, v))
              /\ link_page(t, v)
              /\ entry' = [entry EXCEPT ![t][v] = IF wr THEN e ELSE [e EXCEPT !.write = FALSE, !.readonly = TRUE]]
              /\ writes' = writes + 1
              /\ data' = [LinkedTables(t, v) EXCEPT ![e.frame] = writes + 1]
              /\ view' = [view EXCEPT ![t][v] = writes + 1]
              /\ bypassed' = (bypassed \/ Bypasses(entry[t][v]))
              /\ end' = [end EXCEPT ![t] = v]
              /\ UNCHANGED <<brk, vmap, alive, loading, halted>>

\* ... and the program starts with its break at the end of the image.
exec_return(t) ==
    /\ t \in loading /\ ~halted /\ end[t] > 0
    /\ brk' = IF end[t] > free_pages THEN brk ELSE [brk EXCEPT ![t] = end[t]]
    /\ loading' = loading \ {t}
    /\ UNCHANGED <<frameVars, entry, end, vmap, alive, halted, dataVars>>

Next == \E t \in Tasks :
    \/ \E v \in Pages : \/ user_write(t, v) \/ kernel_write(t, v)
                        \/ fault_protected(t, v) \/ fault_missing(t, v)
    \/ \E c \in Tasks : copy_pde(t, c)
    \/ free_pde(t)
    \/ \E b \in 0 .. NHeap : sys_brk(t, b)
    \/ \E a \in MmapAddrs, fl \in MmapFlags : sys_mmap(t, a, fl[1], fl[2])
    \/ \E v \in Map : sys_munmap(t, v)
    \/ sys_execve(t)
    \/ \E wr \in BOOLEAN : load_segment(t, wr)
    \/ exec_return(t)

Spec == Init /\ [][Next]_vars

-----------------------------------------------------------------------------
(* memory_map counts what refers to a page: entries and page tables of all *)
(* processes, nothing else.  No page is leaked and none is free in use.    *)
RefsExact ==
    \A f \in NKernel + 1 .. NFrames :
        memory_map[f] = Cardinality({x \in Tasks \X Pages : entry[x[1]][x[2]].frame = f})
                        + Cardinality({x \in Tasks \X Dirs : table[x[1]][x[2]] = f})

(* What is in a private page changes by its own process's writes alone,    *)
(* from the moment the process got the page or was forked, whatever its    *)
(* relatives do and whatever pages are recycled, as long as the kernel     *)
(* itself stores into no page still shared since a fork.  What a page      *)
(* holds when it is linked is another matter: its last owner's data, which *)
(* neither put_page nor link_page clears.                                  *)
Isolation == ~bypassed =>
    \A t \in alive, v \in Pages :
        Present(t, v) /\ ~entry[t][v].shared => data[entry[t][v].frame] = view[t][v]

(* A page of the mmap area is mapped exactly when it is marked in vmap, so *)
(* mmap(NULL) never lands on a page in use and munmap never fails.         *)
MapAreaExact == \A t \in alive, v \in Map : Present(t, v) <=> v \in vmap[t]
=============================================================================
