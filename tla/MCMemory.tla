------------------------------ MODULE MCMemory ------------------------------
EXTENDS AllMemory

\* A private and a shared mapping, both writable.
Writable == {TRUE} \X BOOLEAN
=============================================================================
