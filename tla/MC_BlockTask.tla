---------------------------- MODULE MC_BlockTask ----------------------------
(* BlockTask with the Hilbert order of hilbert_exec_order(GridRows).       *)
EXTENDS BlockTask, HilbertCurve

(* The coordinates of hilbert_orders after the constructor's std::sort.    *)
HOrderOf(n) ==
  LET S == {[coo |-> c, order |-> XY2D(n, c[1], c[2])] : c \in Grid(n)}
  IN  [k \in 1 .. n * n |-> SortByOrder(S)[k].coo]

MCHOrder == HOrderOf(GridRows)
=============================================================================
