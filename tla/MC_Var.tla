-------------------------------- MODULE MC_Var --------------------------------
(***************************************************************************)
(* Model checking instances of Var: byte values over two model values, a   *)
(* variable allocated with one slot of two bytes, DML returning that       *)
(* reports one or two rows (so late growth happens), resizes to a larger   *)
(* element size only, and a heap of six blocks: the five arrays, and one   *)
(* to spare (growth and resize free before they allocate).                 *)
(***************************************************************************)
EXTENDS Var

CONSTANTS A, B

MC_Values == {<<>>, <<A>>, <<A, B>>}
MC_BlockIds == 1 .. 6
MC_NoResize == {}
MC_Grow == {3}
MC_RowCounts == {1, 2}
====
