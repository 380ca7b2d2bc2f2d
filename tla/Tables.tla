------------------------------- MODULE Tables -------------------------------
(***************************************************************************)
(* The table of tables.c: rows and columns that come into being when they  *)
(* are written, kept row after row in one block of memory.  A cell that    *)
(* nobody has written reads as the default item the table was made with.   *)
(***************************************************************************)
EXTENDS Integers

Larger(a, b) == IF a >= b THEN a ELSE b

Create(def) == [ rows |-> 0, cols |-> 0, data |-> [k \in 0 .. -1 |-> def], newitem |-> def ]

(* The block for R rows and C columns, each cell copied to its new place.  *)
Block(tab, R, C) ==
  [ k \in 0 .. R * C - 1 |->
      LET i == k \div C
          j == k % C
      IN  IF i < tab.rows /\ j < tab.cols THEN tab.data[i * tab.cols + j] ELSE tab.newitem ]

(* What "size" rows or columns become once number k has been written.      *)
Widened(size, k) == Larger(k + 1, size)

Resize(tab, i, j) ==
  LET R == Widened(tab.rows, i)
      C == Widened(tab.cols, j)
  IN  [ tab EXCEPT !.rows = R, !.cols = C, !.data = Block(tab, R, C) ]

Inside(tab, i, j) == 0 <= i /\ i < tab.rows /\ 0 <= j /\ j < tab.cols

Get(tab, i, j) == IF Inside(tab, i, j) THEN tab.data[i * tab.cols + j] ELSE tab.newitem

(* tab_set; a negative row or column is ignored.                           *)
Set(tab, i, j, item) ==
  LET room == IF Inside(tab, i, j) THEN tab ELSE Resize(tab, i, j)
  IN  IF i < 0 \/ j < 0 THEN tab
      ELSE [ room EXCEPT !.data[i * room.cols + j] = item ]

=============================================================================
