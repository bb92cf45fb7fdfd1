----------------------------- MODULE KernelHeap -----------------------------
(***************************************************************************)
(* The kernel's own memory: pages handed out of kernel_bitmap              *)
(* (alloc_kpage, kernel/memory.c; bitmap_scan, lib/bitmap.c), and blocks   *)
(* of a page, an arena, handed out by kmalloc (kernel/arena.c).            *)
(*                                                                         *)
(* The clients are fork, exit, waitpid, execve, pipe and device_request,   *)
(* which allocate and free in the order in which processes come and go.    *)
(* No call gives the processor away.                                       *)
(***************************************************************************)
EXTENDS Ranks, Sequences, SequencesExt

CONSTANTS NKPages,                  \* pages of kernel memory
          PAGE_SIZE, HEADER,        \* bytes of a page, of an arena_t
          MinBlock, DESC_COUNT,     \* the smallest block size, the number of block sizes
          KSizes, KCounts,          \* sizes passed to kmalloc, counts passed to alloc_kpage
          MaxLive                   \* bound on what is allocated at a time

KPages == 1 .. NKPages
Descs == 1 .. DESC_COUNT

\* arena_init.
block_size(d) == MinBlock * 2 ^ (d - 1)
total_block(d) == (PAGE_SIZE - HEADER) \div block_size(d)

ASSUME HeapAssumption == /\ {NKPages, PAGE_SIZE, HEADER, MinBlock, DESC_COUNT} \subseteq Nat \ {0}
                         /\ \A d \in Descs : total_block(d) \in Nat \ {0}
                         /\ KSizes \subseteq Nat \ {0} /\ KCounts \subseteq Nat \ {0} /\ MaxLive \in Nat

VARIABLES kernel_bitmap,    \* pages whose bit is set
          arena,            \* the arena_t at the start of a page: descriptor, count
          free_list,        \* of a descriptor: blocks, head first
          blocks,           \* history: the blocks that kmalloc's callers have
          runs,             \* history: the runs of pages that alloc_kpage's callers have
          stopped           \* the kernel has panicked: no run of pages is free

heapVars == <<kernel_bitmap, arena, free_list, blocks, runs, stopped>>

NoArena == [desc |-> -1, count |-> 0]
Large == 0                          \* arena->large: no descriptor

HeapInit == /\ kernel_bitmap = {} /\ arena = [p \in KPages |-> NoArena]
            /\ free_list = [d \in Descs |-> << >>]
            /\ blocks = {} /\ runs = {} /\ stopped = FALSE

Block(p, i) == [page |-> p, idx |-> i]
Run(p, n) == [page |-> p, count |-> n]
PagesOf(r) == r.page .. r.page + r.count - 1

\* bitmap_scan: the first page of the first run of n clear bits, if there is one.
bitmap_scan(n) ==
    LET fits == {p \in KPages : p + n - 1 <= NKPages /\ (p .. p + n - 1) \cap kernel_bitmap = {}}
    IN  {p \in fits : \A q \in fits : p <= q}

Stop == stopped' = TRUE /\ UNCHANGED <<kernel_bitmap, arena, free_list, blocks, runs>>

\* A caller may ask for more.
MayAsk == ~stopped /\ Cardinality(blocks) + Cardinality(runs) < MaxLive

alloc_kpage(n) ==
    /\ MayAsk
    /\ \/ bitmap_scan(n) = {} /\ Stop
       \/ \E p \in bitmap_scan(n) :
             /\ kernel_bitmap' = kernel_bitmap \cup PagesOf(Run(p, n))
             /\ runs' = runs \cup {Run(p, n)}
             /\ UNCHANGED <<arena, free_list, blocks, stopped>>

free_kpage(r) ==
    /\ ~stopped /\ r \in runs
    /\ kernel_bitmap' = kernel_bitmap \ PagesOf(r)
    /\ runs' = runs \ {r}
    /\ UNCHANGED <<arena, free_list, blocks, stopped>>

-----------------------------------------------------------------------------
\* kmalloc of more than the largest block: whole pages, the arena_t first.
kmalloc_large(size) ==
    LET n == (size + HEADER + PAGE_SIZE - 1) \div PAGE_SIZE
    IN  \/ bitmap_scan(n) = {} /\ Stop
        \/ \E p \in bitmap_scan(n) :
              /\ kernel_bitmap' = kernel_bitmap \cup PagesOf(Run(p, n))
              /\ arena' = [arena EXCEPT ![p] = [desc |-> Large, count |-> n]]
              /\ blocks' = blocks \cup {Block(p, 1)}
              /\ UNCHANGED <<free_list, runs, stopped>>

\* kmalloc of a block: the head of the free list, which is filled with the
\* blocks of a new page, pushed one by one, if it is empty.
kmalloc_small(d) ==
    LET n == total_block(d)
        Take(list) == /\ blocks' = blocks \cup {Head(list)}
                         /\ free_list' = [free_list EXCEPT ![d] = Tail(list)]
                         /\ UNCHANGED <<runs, stopped>>
    IN  \/ /\ free_list[d] # << >>
           /\ Take(free_list[d])
           /\ arena' = [arena EXCEPT ![Head(free_list[d]).page].count = @ - 1]
           /\ UNCHANGED kernel_bitmap
        \/ free_list[d] = << >> /\ bitmap_scan(1) = {} /\ Stop
        \/ /\ free_list[d] = << >>
           /\ \E p \in bitmap_scan(1) :
                 /\ kernel_bitmap' = kernel_bitmap \cup {p}
                 /\ arena' = [arena EXCEPT ![p] = [desc |-> d, count |-> n - 1]]
                 /\ Take([i \in 1 .. n |-> Block(p, n + 1 - i)])

kmalloc(size) ==
    /\ MayAsk
    /\ \/ size > block_size(DESC_COUNT) /\ kmalloc_large(size)
       \/ \E d \in Descs : /\ size <= block_size(d) /\ \A e \in 1 .. d - 1 : size > block_size(e)
                           /\ kmalloc_small(d)

\* A plausible slip: the blocks of the page that goes stay in the free list.
kfree_keeps_blocks(b) ==
    LET a == arena[b.page]
        d == a.desc
        whole == d = Large \/ a.count + 1 = total_block(d)
        n == IF d = Large THEN a.count ELSE 1
    IN  /\ ~stopped /\ b \in blocks
        /\ blocks' = blocks \ {b}
        /\ free_list' = IF d = Large THEN free_list ELSE [free_list EXCEPT ![d] = <<b>> \o @]
        /\ arena' = [arena EXCEPT ![b.page] = IF whole THEN NoArena ELSE [a EXCEPT !.count = @ + 1]]
        /\ kernel_bitmap' = IF whole THEN kernel_bitmap \ PagesOf(Run(b.page, n)) ELSE kernel_bitmap
        /\ UNCHANGED <<runs, stopped>>

\* kfree: the pages of a large allocation; or the block goes to the head of its
\* free list, and with the last block of a page all of its blocks and the page.
kfree(b) ==
    LET a == arena[b.page]
        d == a.desc
        whole == d = Large \/ a.count + 1 = total_block(d)
        n == IF d = Large THEN a.count ELSE 1
        others(list) == Kept(list, {i \in DOMAIN list : list[i].page # b.page})
        rest(list) == IF whole THEN others(list) ELSE <<b>> \o list
    IN  /\ ~stopped /\ b \in blocks
        /\ blocks' = blocks \ {b}
        /\ free_list' = IF d = Large THEN free_list ELSE [free_list EXCEPT ![d] = rest(@)]
        /\ arena' = [arena EXCEPT ![b.page] = IF whole THEN NoArena ELSE [a EXCEPT !.count = @ + 1]]
        /\ kernel_bitmap' = IF whole THEN kernel_bitmap \ PagesOf(Run(b.page, n)) ELSE kernel_bitmap
        /\ UNCHANGED <<runs, stopped>>

HeapNext == \/ \E n \in KCounts : alloc_kpage(n)
            \/ \E r \in runs : free_kpage(r)
            \/ \E s \in KSizes : kmalloc(s)
            \/ \E b \in blocks : kfree(b)

-----------------------------------------------------------------------------
\* Who has which pages: callers of alloc_kpage, large allocations, arenas.
Used == {p \in KPages : arena[p] # NoArena}
Extents == {[owner |-> "caller", page |-> r.page, count |-> r.count] : r \in runs}
           \cup {[owner |-> "arena", page |-> p,
                  count |-> IF arena[p].desc = Large THEN arena[p].count ELSE 1] : p \in Used}

(* Memory is handed out once: every page whose bit is set belongs to one   *)
(* run of pages, one large allocation or one arena, a large allocation is  *)
(* one caller's, and every block of an arena is either a caller's or once  *)
(* in the free list of its size, which has no block of a page that is      *)
(* gone; arena->count is the number of the free ones.  So nothing is       *)
(* leaked either, and the assertions of kmalloc, kfree, list_push and      *)
(* reset_page hold.                                                        *)
HeapExact ==
    /\ kernel_bitmap = UNION {PagesOf(r) : r \in Extents}
    /\ \A r, s \in Extents : r # s => PagesOf(r) \cap PagesOf(s) = {}
    /\ \A b \in blocks : b.page \in Used
    /\ \A d \in Descs : /\ IsInjective(free_list[d])
                        /\ \A b \in ToSet(free_list[d]) : b \notin blocks /\ arena[b.page].desc = d
    /\ \A p \in KPages : arena[p].desc = Large => {b \in blocks : b.page = p} = {Block(p, 1)}
    /\ \A p \in KPages : arena[p].desc \in Descs =>
          LET d == arena[p].desc
              all == {Block(p, i) : i \in 1 .. total_block(d)}
          IN  /\ all = {b \in blocks \cup ToSet(free_list[d]) : b.page = p}
              /\ arena[p].count = Cardinality(all \cap ToSet(free_list[d]))
=============================================================================
