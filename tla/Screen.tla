------------------------------- MODULE Screen -------------------------------
(***************************************************************************)
(* What a text console promises: a grid of Height lines of Width cells and *)
(* a cursor.  A character goes to the cursor, a full line continues on the *)
(* next one, and a line feed on the last line loses the first one.         *)
(***************************************************************************)
EXTENDS Integers

CONSTANTS Width, Height, Glyphs, Blank

VARIABLES grid,     \* the text of every line
          col, row  \* the cursor; col = Width after the last cell of a line

screenVars == <<grid, col, row>>

Rows == 0 .. Height - 1
Cols == 0 .. Width - 1
BlankLine == [c \in Cols |-> Blank]

Init == grid = [r \in Rows |-> BlankLine] /\ col = 0 /\ row = 0

Scrolled(g) == [r \in Rows |-> IF r + 1 \in Rows THEN g[r + 1] ELSE BlankLine]

\* The grid and the line of the cursor after a line feed.
Fed == IF row + 1 \in Rows THEN <<grid, row + 1>> ELSE <<Scrolled(grid), row>>

Put(ch) == LET at == IF col = Width THEN Fed ELSE <<grid, row>>
               c == IF col = Width THEN 0 ELSE col
           IN  /\ grid' = [at[1] EXCEPT ![at[2]][c] = ch]
               /\ row' = at[2]
               /\ col' = c + 1

Feed(c) == grid' = Fed[1] /\ row' = Fed[2] /\ col' = c

Return == col' = 0 /\ UNCHANGED <<grid, row>>

Back == /\ col > 0
        /\ col' = col - 1
        /\ grid' = [grid EXCEPT ![row][col - 1] = Blank]
        /\ UNCHANGED row

\* After the last cell of a line the cursor is on the first one of the next.
Rub == /\ grid' = [r \in Rows |-> [c \in Cols |->
                       IF r * Width + c = row * Width + col THEN Blank ELSE grid[r][c]]]
       /\ UNCHANGED <<col, row>>

Clear == grid' = [r \in Rows |-> BlankLine] /\ col' = 0 /\ row' = 0

Next == \/ \E ch \in Glyphs : Put(ch)
        \/ Feed(0) \/ Feed(col) \/ Return \/ Back \/ Rub \/ Clear

Spec == Init /\ [][Next]_screenVars
=============================================================================
