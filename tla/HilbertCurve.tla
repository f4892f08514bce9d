---------------------------- MODULE HilbertCurve ----------------------------
(***************************************************************************)
(* The Hilbert curve on an n x n grid of blocks, n a power of two.         *)
(*                                                                         *)
(* XY2D is the distance along the curve that hilbert_xy2d(n, x, y)         *)
(* returns (hilbert_curve.h, not part of src/: the iterative xy2d with its *)
(* rot step).  HRef is an independent reference: the curve of side 2m is    *)
(* four curves of side m, the first transposed, the last transposed and    *)
(* mirrored.  SortByOrder is the std::sort of the coordinate_orders by     *)
(* their distance.  Used by TLC runs only: the definitions are recursive.  *)
(***************************************************************************)
EXTENDS Naturals, Sequences, FiniteSets

(* The n x n grid of (row, column) coordinates.                           *)
Grid(n) == (0 .. n - 1) \X (0 .. n - 1)

(* Bit s (a power of two) of x: (x & s) > 0.                              *)
BitSet(x, s) == IF (x \div s) % 2 = 1 THEN 1 ELSE 0

(* One turn of the loop of xy2d for s = n/2, n/4, ..., 1: add the quadrant *)
(* rank (3 * rx) ^ ry times s*s, then rot(n, &x, &y, rx, ry).              *)
RECURSIVE XY2DLoop(_, _, _, _, _)
XY2DLoop(n, s, x, y, d) ==
  IF s = 0 THEN d
  ELSE LET rx == BitSet(x, s)
           ry == BitSet(y, s)
           q  == IF rx = 1 THEN 3 - ry ELSE ry
           fx == IF rx = 1 THEN n - 1 - x ELSE x
           fy == IF rx = 1 THEN n - 1 - y ELSE y
       IN  IF ry = 0 THEN XY2DLoop(n, s \div 2, fy, fx, d + s * s * q)
                     ELSE XY2DLoop(n, s \div 2, x, y, d + s * s * q)

XY2D(n, x, y) == XY2DLoop(n, n \div 2, x, y, 0)

(* Reference: the Hilbert curve of side n as the sequence of the cells it  *)
(* visits.                                                                 *)
RECURSIVE HRef(_)
HRef(n) ==
  IF n = 1 THEN << <<0, 0>> >>
  ELSE LET m == n \div 2
           H == HRef(m)
           Map(f(_)) == [k \in 1 .. Len(H) |-> f(H[k])]
       IN  Map(LAMBDA p : <<p[2], p[1]>>)
           \o Map(LAMBDA p : <<p[1], p[2] + m>>)
           \o Map(LAMBDA p : <<p[1] + m, p[2] + m>>)
           \o Map(LAMBDA p : <<n - 1 - p[2], m - 1 - p[1]>>)

(* std::sort of a set of coordinate_orders [coo, order] by order; a tie    *)
(* (which a correct xy2d never produces) is broken by the coordinate.      *)
Before(a, b) ==
  \/ a.order < b.order
  \/ /\ a.order = b.order
     /\ \/ a.coo[1] < b.coo[1]
        \/ a.coo[1] = b.coo[1] /\ a.coo[2] < b.coo[2]

SortByOrder(S) ==
  [k \in 1 .. Cardinality(S) |->
     CHOOSE o \in S : Cardinality({p \in S : Before(p, o)}) = k - 1]
=============================================================================
