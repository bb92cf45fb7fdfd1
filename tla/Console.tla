------------------------------ MODULE Console ------------------------------
(***************************************************************************)
(* The text console, kernel/console.c: video memory with room for several  *)
(* screens, of which the part from screen on is visible; scrolling moves   *)
(* screen down and copies back to the start of the memory at its end.      *)
(* Addresses are cells (two bytes) from MEM_BASE.                          *)
(***************************************************************************)
EXTENDS Integers

CONSTANTS WIDTH, HEIGHT,
          MEM_SIZE,     \* cells of video memory
          Chars,        \* printable characters
          Erase, Null   \* the cell 0x0720 (a space) and the cell 0

ASSUME ConsoleAssumption ==
    /\ {WIDTH, HEIGHT, MEM_SIZE} \subseteq Nat \ {0}
    /\ MEM_SIZE > WIDTH * (HEIGHT + 1)
    /\ Chars \cap {Erase, Null} = {} /\ Erase # Null

VARIABLES mem,          \* the video memory
          screen, pos,  \* first visible cell, cell of the cursor
          x, y          \* the cursor on the screen

consoleVars == <<mem, screen, pos, x, y>>

SCR_SIZE == WIDTH * HEIGHT

\* scroll_up clears past the end of the memory it knows of.
Addresses == 0 .. MEM_SIZE + 2 * WIDTH - 1

console_init == /\ mem = [a \in Addresses |-> Erase]
                /\ screen = 0 /\ pos = 0 /\ x = 0 /\ y = 0

console_clear == /\ mem' = [a \in Addresses |-> IF a < MEM_SIZE THEN Erase ELSE mem[a]]
                 /\ screen' = 0 /\ pos' = 0 /\ x' = 0 /\ y' = 0

\* The registers and the memory, as the commands pass them on.
Now == [mem |-> mem, screen |-> screen, pos |-> pos, x |-> x, y |-> y]

Become(c) == /\ mem' = c.mem /\ screen' = c.screen /\ pos' = c.pos
             /\ x' = c.x /\ y' = c.y

\* A plausible slip: the cursor stays behind when the screen is copied back.
scroll_up_keeps_pos(c) ==
    LET full == c.screen + SCR_SIZE + WIDTH >= MEM_SIZE
        home == IF full THEN 0 ELSE c.screen
        copied == [a \in Addresses |-> IF full /\ a < SCR_SIZE THEN c.mem[c.screen + a] ELSE c.mem[a]]
    IN  [c EXCEPT !.mem = copied, !.screen = home + WIDTH, !.pos = @ + WIDTH]

\* scroll_up: back to the start if the next line does not fit; clear it (the
\* loop stores 4 bytes per cell: two lines, every other cell 0).
scroll_up(c) ==
    LET full == c.screen + SCR_SIZE + WIDTH >= MEM_SIZE
        home == IF full THEN 0 ELSE c.screen
        copied == [a \in Addresses |-> IF full /\ a < SCR_SIZE THEN c.mem[c.screen + a] ELSE c.mem[a]]
        next == home + SCR_SIZE
        cleared == [a \in Addresses |-> IF a \in next .. next + 2 * WIDTH - 1
                                        THEN IF (a - next) % 2 = 0 THEN Erase ELSE Null
                                        ELSE copied[a]]
    IN  [c EXCEPT !.mem = cleared, !.screen = home + WIDTH,
                  !.pos = @ - (c.screen - home) + WIDTH]

command_lf(c) == IF c.y + 1 < HEIGHT THEN [c EXCEPT !.y = @ + 1, !.pos = @ + WIDTH]
                 ELSE scroll_up(c)

command_cr(c) == [c EXCEPT !.pos = @ - c.x, !.x = 0]

command_bs(c) == IF c.x = 0 THEN c
                 ELSE [c EXCEPT !.x = @ - 1, !.pos = @ - 1, !.mem[c.pos - 1] = Erase]

command_del(c) == [c EXCEPT !.mem[c.pos] = Erase]

\* The default case: a character, after a line feed if the line is full.
print(c, ch) ==
    LET d == IF c.x >= WIDTH THEN command_lf([c EXCEPT !.x = @ - WIDTH, !.pos = @ - WIDTH]) ELSE c
    IN  [d EXCEPT !.mem[d.pos] = ch, !.pos = @ + 1, !.x = @ + 1]

\* A turn of console_write's loop for each kind of character.
console_write ==
    \/ \E ch \in Chars : Become(print(Now, ch))
    \/ Become(command_cr(command_lf(Now)))
    \/ Become(command_lf(Now))
    \/ Become(command_cr(Now))
    \/ Become(command_bs(Now))
    \/ Become(command_del(Now))

ConsoleNext == console_write \/ console_clear

-----------------------------------------------------------------------------
Visible(a) == IF mem[a] \in Chars THEN mem[a] ELSE Erase

S == INSTANCE Screen WITH
        Width <- WIDTH, Height <- HEIGHT, Glyphs <- Chars, Blank <- Erase,
        grid <- [r \in 0 .. HEIGHT - 1 |-> [c \in 0 .. WIDTH - 1 |-> Visible(screen + r * WIDTH + c)]],
        col <- x, row <- y

(* The console shows what a plain text screen would: scrolling through the *)
(* video memory, the copy at its end and the sloppy clearing of the next   *)
(* line never show a stale, a lost or a misplaced character.               *)
ImplementsScreen == S!Spec
=============================================================================
