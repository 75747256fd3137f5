------------------------------ MODULE Terminal ------------------------------
(***************************************************************************)
(* What the text output promises: a grid of characters that is filled line *)
(* by line, from the top again when the bottom is reached.                 *)
(***************************************************************************)
EXTENDS Integers

CONSTANTS Letters,      \* what a cell can show when nothing is drawn
          Blank         \* the letter that shows nothing

VARIABLES cols, rows,   \* the size of the grid
          cells,        \* what the cell in a column and a row shows
          col, row,     \* where the next letter goes, if there is room
          drawing       \* the letter that is being drawn there, as a set

vars == <<cols, rows, cells, col, row, drawing>>

Grid == (0 .. cols - 1) \X (0 .. rows - 1)

Init ==
    /\ cols \in Nat \ {0} /\ rows \in Nat \ {0}
    /\ DOMAIN cells = Grid
    /\ col = 0 /\ row = 0 /\ drawing = {}

Clear ==
    /\ drawing = {}
    /\ cells' = [g \in Grid |-> Blank]
    /\ UNCHANGED <<cols, rows, col, row, drawing>>

\* The line, or the grid, may be full.
Start(letter) ==
    /\ drawing = {} /\ drawing' = {letter}
    /\ IF col = cols
       THEN col' = 0   /\ row' = IF row + 1 >= rows THEN 0 ELSE row + 1
       ELSE col' = col /\ row' = IF row >= rows THEN 0 ELSE row
    /\ UNCHANGED <<cols, rows, cells>>

\* All other cells stay as they are.
OneCell == DOMAIN cells' = Grid /\ \A g \in Grid \ {<<col, row>>} : cells'[g] = cells[g]

Draw == drawing # {} /\ OneCell /\ UNCHANGED <<cols, rows, col, row, drawing>>

Finish ==
    /\ drawing # {} /\ drawing' = {}
    /\ OneCell /\ cells'[<<col, row>>] \in drawing
    /\ col' = col + 1
    /\ UNCHANGED <<cols, rows, row>>

Newline ==
    /\ drawing = {}
    /\ col' = 0 /\ row' = row + 1
    /\ UNCHANGED <<cols, rows, cells, drawing>>

Next == Clear \/ (\E l \in Letters : Start(l)) \/ Draw \/ Finish \/ Newline

Spec == Init /\ [][Next]_vars
=============================================================================
