---------------------------- MODULE HilbertOrder ----------------------------
(***************************************************************************)
(* The constructor of hilbert_exec_order (src/matrix/sparse_matrix.cpp):   *)
(* for every cell (i, j) of the n x n grid, row by row, it pushes a        *)
(* coordinate_order with the cell's Hilbert distance, then sorts the       *)
(* vector by distance.  hilbert_exec_order::exec visits the blocks in that *)
(* sorted order.                                                           *)
(***************************************************************************)
EXTENDS HilbertCurve

CONSTANT N   \* the n of hilbert_exec_order(n)

ASSUME HilbertOrderAssumption == N \in Nat \ {0}

VARIABLES
  i, j,            \* the loop indices
  orders,          \* the coordinate_orders pushed so far
  hilbert_orders,  \* the vector after std::sort
  pc               \* "loop", "sorted"

vars == <<i, j, orders, hilbert_orders, pc>>

Init ==
  /\ i = 0 /\ j = 0
  /\ orders = {}
  /\ hilbert_orders = <<>>
  /\ pc = "loop"

(* Mutant: the inner loop stops one column early.                          *)
PushShort ==
  /\ pc = "loop"
  /\ orders' = orders \cup {[coo |-> <<i, j>>, order |-> XY2D(N, i, j)]}
  /\ IF j + 1 < N - 1 THEN i' = i /\ j' = j + 1
                      ELSE i' = i + 1 /\ j' = 0
  /\ pc' = IF j + 1 >= N - 1 /\ i + 1 = N THEN "sort" ELSE "loop"
  /\ UNCHANGED hilbert_orders

(* Mutant: the outer loop tests the old value of i and runs once more.    *)
PushNoStop ==
  /\ pc = "loop"
  /\ orders' = orders \cup {[coo |-> <<i, j>>, order |-> XY2D(N, i, j)]}
  /\ IF j + 1 < N THEN i' = i /\ j' = j + 1
                  ELSE i' = i + 1 /\ j' = 0
  /\ pc' = IF j + 1 = N /\ i = N THEN "sort" ELSE "loop"
  /\ UNCHANGED hilbert_orders

(* One turn of the double loop: push (i, j) with hilbert_xy2d(n, i, j).    *)
Push ==
  /\ pc = "loop"
  /\ orders' = orders \cup {[coo |-> <<i, j>>, order |-> XY2D(N, i, j)]}
  /\ IF j + 1 < N THEN i' = i /\ j' = j + 1
                  ELSE i' = i + 1 /\ j' = 0
  /\ pc' = IF j + 1 = N /\ i + 1 = N THEN "sort" ELSE "loop"
  /\ UNCHANGED hilbert_orders

(* std::sort(hilbert_orders.begin(), hilbert_orders.end()).                *)
Sort ==
  /\ pc = "sort"
  /\ hilbert_orders' = SortByOrder(orders)
  /\ pc' = "sorted"
  /\ UNCHANGED <<i, j, orders>>

Next == Push \/ Sort

Spec == Init /\ [][Next]_vars /\ WF_vars(Next)

-----------------------------------------------------------------------------
TypeOK ==
  /\ i \in 0 .. N /\ j \in 0 .. N - 1
  /\ orders \subseteq [coo : Grid(N), order : Nat]
  /\ pc \in {"loop", "sort", "sorted"}

(* Once sorted, the vector visits the grid cells exactly in the sequence   *)
(* of the Hilbert curve (the spec: a 4 x 4 grid is visited "in the known   *)
(* Hilbert sequence"): hilbert_xy2d is a bijection onto 0 .. n*n - 1 and   *)
(* the loop pushes every cell.                                             *)
MatchesReference ==
  pc = "sorted" =>
    [k \in DOMAIN hilbert_orders |-> hilbert_orders[k].coo] = HRef(N)
=============================================================================
