------------------------------- MODULE MCPipe -------------------------------
EXTENDS Pipe
CONSTANTS r1, r2, w1, w2

\* A plain pipe, and one whose two ends were inherited by two tasks each.
SomeEnds == {<<{r1}, {w1}>>, <<{r1, r2}, {w1, w2}>>}

SentBytes == 0 .. MaxBytes
=============================================================================
