------------------------------- MODULE MC_SpMV -------------------------------
(* A 4 x 4 matrix, in 2 x 2 blocks or in the FlashGraph format, whose    *)
(* rows 0 and 3 have non-zeros in both block columns: such a row is       *)
(* updated by two row parts.  The pattern is not symmetric: row 2 has one *)
(* non-zero and column 2 two, so a transpose changes the product.        *)
EXTENDS SpMV, Naturals

CONSTANTS w1, w2

MCWorkers == {w1, w2}
(* One generic input: entry (c, j) is (j + 1) * 5^c, so a sum of at most  *)
(* four entries tells which rows of the input it added, and the columns   *)
(* differ.                                                                 *)
MCInputs == {[c \in 0 .. 3 |-> [j \in 0 .. 1 |-> (j + 1) * 5^c]]}
MCNZ == {<<0, 0>>, <<0, 3>>, <<1, 1>>, <<2, 2>>, <<3, 0>>, <<3, 2>>, <<3, 3>>}
=============================================================================
