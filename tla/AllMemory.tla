----------------------------- MODULE AllMemory -----------------------------
(***************************************************************************)
(* The memory of user programs (Memory.tla) and that of the kernel         *)
(* (KernelHeap.tla), one of them at a time: they come from different pools *)
(* of pages and meet in no variable.                                       *)
(***************************************************************************)
EXTENDS Memory, KernelHeap

VARIABLE part       \* "user" or "kernel"

MemoryInit == Init /\ HeapInit /\ part \in {"user", "kernel"}

MemoryNext == \/ part = "user" /\ Next /\ UNCHANGED <<heapVars, part>>
              \/ part = "kernel" /\ HeapNext /\ UNCHANGED <<vars, part>>

MemorySpec == MemoryInit /\ [][MemoryNext]_<<vars, heapVars, part>>
=============================================================================
