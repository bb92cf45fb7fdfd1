--------------------------- MODULE MCBufferCache ---------------------------
EXTENDS BufferCache, TLC

Symmetry == Permutations(Tasks) \cup Permutations(Blocks)
=============================================================================
