----------------------------- MODULE AbsMultiply -----------------------------
(***************************************************************************)
(* What a sparse_matrix object promises its caller (sparse_matrix.h):      *)
(* transpose() flips the matrix the object stands for, and a call of       *)
(* multiply() either refuses its input (a null pointer, or the process     *)
(* stops on an assertion) or eventually returns the product of that matrix *)
(* and the input, all at once.  How the product is computed (tasks, worker *)
(* threads, columns one at a time) is left out.                            *)
(***************************************************************************)
EXTENDS Naturals

CONSTANTS
  N,        \* rows and columns of the (square) sparse matrix
  NZ,       \* the non-zero entries the matrix is created from
  XVals,    \* the values an input entry can take
  DCols     \* the columns of a dense input matrix

Idx == 0 .. N - 1

Flip(S) == {<<e[2], e[1]>> : e \in S}

(* The sum of v[c] over the columns c in cols, as a recursive function.   *)
SumCols(cols, v) ==
  LET s[k \in 0 .. N] ==
        IF k = 0 THEN 0 ELSE s[k - 1] + (IF k - 1 \in cols THEN v[k - 1] ELSE 0)
  IN  s[N]

(* The product of the pattern M and the input in (one column per j).     *)
Product(M, in) ==
  [r \in Idx |-> [j \in DOMAIN in[0] |->
      SumCols({c \in Idx : <<r, c>> \in M}, [c \in Idx |-> in[c][j]])]]

Zero(w) == [r \in Idx |-> [j \in 0 .. w - 1 |-> 0]]

VARIABLES
  pattern,  \* the non-zeros as created
  flipped,  \* an odd number of transpose() calls
  status,   \* "idle", "busy", "done", "refused"
  input,    \* the argument of multiply()
  result    \* what multiply() returned

avars == <<pattern, flipped, status, input, result>>

Init ==
  /\ pattern \in {NZ, NZ \cup Flip(NZ)}
  /\ flipped = FALSE
  /\ status = "idle"
  /\ input = Zero(1)
  /\ result = Zero(1)

Transpose ==
  /\ status = "idle"
  /\ flipped' = ~flipped
  /\ UNCHANGED <<pattern, status, input, result>>

Call ==
  /\ status = "idle"
  /\ \E w \in {1, DCols} :
       /\ input' \in [Idx -> [0 .. w - 1 -> XVals]]
       /\ result' = Zero(w)
  /\ status' = "busy"
  /\ UNCHANGED <<pattern, flipped>>

Refuse ==
  /\ status = "idle"
  /\ status' = "refused"
  /\ UNCHANGED <<pattern, flipped, input, result>>

Return ==
  /\ status = "busy"
  /\ status' = "done"
  /\ result' = Product(IF flipped THEN Flip(pattern) ELSE pattern, input)
  /\ UNCHANGED <<pattern, flipped, input>>

Next == Transpose \/ Call \/ Refuse \/ Return

Spec == Init /\ [][Next]_avars /\ WF_avars(Return)
=============================================================================
