-------------------------------- MODULE SpMV --------------------------------
(***************************************************************************)
(* Sparse matrix multiplication (src/matrix/sparse_matrix.h, and           *)
(* sparse_matrix.cpp for the matrix classes and compute()).  The matrix    *)
(* is one of the four classes sparse_matrix::create builds: a FlashGraph   *)
(* matrix, symmetric (undirected graph) or asymmetric (directed graph,     *)
(* with the index of its transpose), or a 2D-partitioned matrix, symmetric *)
(* or asymmetric (with a second, transposed, 2D matrix).  The caller may   *)
(* transpose() it and then calls multiply() on a vector or on a dense      *)
(* matrix, in row or column layout; compute() runs the worker threads on   *)
(* row-block tasks.                                                        *)
(*                                                                         *)
(* A 2D SpMV task (block_spmv_task) adds, per row part, the inputs of its  *)
(* columns to output[row] with output.get and output.set: a read and a     *)
(* later write.  A 2D SpMM task (block_spmm_task) adds the input rows into *)
(* the output row in place.  A FlashGraph task (fg_row_spmv_task) sets     *)
(* output[row] to the sum over the whole row.  The matrix is a 0/1         *)
(* pattern of (row, col) pairs; values are the inputs summed.              *)
(***************************************************************************)
EXTENDS Naturals, Sequences, FiniteSets

CONSTANTS
  Workers,     \* the matrix worker threads
  N,           \* rows and columns of the matrix
  BR, BC,      \* block_size (2D) and row block size (FlashGraph)
  NZ,          \* the non-zero entries the matrix is created from
  DCols,       \* the columns of a dense input matrix
  Inputs       \* the dense inputs a caller passes (a vector is column 0)

ASSUME SpMVAssumption ==
  /\ IsFiniteSet(Workers) /\ Workers # {}
  /\ N \in Nat \ {0}
  /\ BR \in Nat \ {0} /\ BC \in Nat \ {0}
  /\ NZ \subseteq (0 .. N - 1) \X (0 .. N - 1)
  /\ DCols \in Nat \ {0}
  /\ Inputs \subseteq [0 .. N - 1 -> [0 .. DCols - 1 -> Nat]] /\ Inputs # {}

RowIdx == 0 .. N - 1
ColIdx == 0 .. N - 1
CeilDiv(a, b) == (a + b - 1) \div b
NBR == CeilDiv(N, BR)     \* block rows
NBC == CeilDiv(N, BC)     \* block columns

Tr(S) == {<<e[2], e[1]>> : e \in S}

Kinds == {"fg_sym", "fg_asym", "b2d_sym", "b2d_asym"}
SymKinds == {"fg_sym", "b2d_sym"}
AsymKinds == {"fg_asym", "b2d_asym"}
FGKinds == {"fg_sym", "fg_asym"}

(* The pattern a matrix of class k stores: fg_sparse_sym_matrix::create    *)
(* asserts an undirected graph, and create(index, mat) is documented as    *)
(* building a symmetric matrix; the asymmetric classes keep NZ.            *)
Stored(k) == IF k \in SymKinds THEN NZ \cup Tr(NZ) ELSE NZ

(* The sum of the inputs x[c] over the columns c in cols.                  *)
SumOver(cols, x) ==
  LET s[k \in 0 .. N] ==
        IF k = 0 THEN 0 ELSE s[k - 1] + (IF k - 1 \in cols THEN x[k - 1] ELSE 0)
  IN  s[N]

(* The tasks of compute(): the I/O generators hand out block rows.         *)
Tasks == 0 .. NBR - 1

VARIABLES
  kind,       \* the class of the matrix object
  trans,      \* fg_sparse_asym_matrix::transposed, or mat and t_mat swapped
  ltrans,     \* (history) transpose() was called an odd number of times
  main,       \* "idle", "compute", "done", "null", "abort"
  layout,     \* "vec", or the store layout of a dense input: "row", "col"
  col,        \* the column multiply_matrix(col_m) is computing
  x,          \* the input: x[c][j] is row c, column j
  out,        \* the output: out[r][j]
  todo,       \* tasks not yet taken by a worker
  wpc,        \* per worker: "idle", "part", "write"
  wtask, wpos,\* per worker: its task and the row part it is at
  wval        \* per worker: output.get(row) + sum, before output.set

vars == <<kind, trans, ltrans, main, layout, col, x, out, todo,
          wpc, wtask, wpos, wval>>

(* The constructors: is_fg for the FlashGraph classes.                    *)
IsFG == kind \in FGKinds

(* fg_sparse_asym_matrix::create indexes the rows of the matrix           *)
(* (out_blocks) and those of its transpose (in_blocks).                    *)
Index(t) == IF t THEN Tr(Stored(kind)) ELSE Stored(kind)

(* The block_sparse_asym_matrix constructor builds mat from index and      *)
(* t_mat from t_index, the transpose; t says they have been swapped.       *)
B2DMat(t) == IF t THEN Tr(NZ) ELSE NZ

(* fg_sparse_asym_matrix::init_io_gens: in_blocks when transposed.        *)
FGAsymRows == Index(trans)

(* block_sparse_asym_matrix::init_io_gens hands out the blocks of mat.     *)
B2DAsymRows == B2DMat(trans)

(* The pattern the tasks read: init_io_gens of each class; a symmetric     *)
(* class (block_sparse_matrix, fg_sparse_sym_matrix) reads what it stores. *)
Mat ==
  CASE kind = "fg_asym" -> FGAsymRows
    [] kind = "b2d_asym" -> B2DAsymRows
    [] OTHER -> Stored(kind)

RowCols(r) == {c \in ColIdx : <<r, c>> \in Mat}

(* The row parts of block (br, bc) in storage order: its rows with a       *)
(* non-zero, each with its columns in the block.                           *)
BlockParts(br, bc) ==
  LET rows == {r \in br * BR .. br * BR + BR - 1 :
                 \E c \in bc * BC .. bc * BC + BC - 1 : <<r, c>> \in Mat}
      cols(r) == {c \in bc * BC .. bc * BC + BC - 1 : <<r, c>> \in Mat}
      n == Cardinality(rows)
      kth(k) == CHOOSE r \in rows : Cardinality({q \in rows : q < r}) = k - 1
  IN  [k \in 1 .. n |-> [row |-> kth(k), cols |-> cols(kth(k))]]

(* block_compute_task::run: the blocks of the task's I/O, a whole block    *)
(* row, in column order (an empty block is not stored); run_on_block walks *)
(* each block's row parts.                                                 *)
BlockRowParts(br) ==
  LET F[bc \in 0 .. NBC] ==
        IF bc = 0 THEN <<>> ELSE F[bc - 1] \o BlockParts(br, bc - 1)
  IN  F[NBC]

(* The create functions of the FlashGraph classes put a row block every    *)
(* row_block_size vertices and close the last one at the graph's end.     *)
RowBlock(br) == br * BR .. (IF br * BR + BR > N THEN N ELSE br * BR + BR) - 1

(* Mutant: the row block's last row is also the next block's first row.   *)
FGRowPartsOverlap(br) ==
  LET rows == br * BR .. (IF br * BR + BR > N - 1 THEN N - 1 ELSE br * BR + BR)
      lo == br * BR
  IN  [k \in 1 .. Cardinality(rows) |-> [row |-> lo + k - 1, cols |-> RowCols(lo + k - 1)]]

(* fg_row_compute_task::run: the rows of the task's I/O, one row part per  *)
(* vertex with all its neighbours.                                         *)
FGRowParts(br) ==
  [k \in 1 .. Cardinality(RowBlock(br)) |->
     [row |-> br * BR + k - 1, cols |-> RowCols(br * BR + k - 1)]]

(* get_multiply_creator: FlashGraph rows or 2D blocks, by the format.     *)
Parts(t) == IF IsFG THEN FGRowParts(t) ELSE BlockRowParts(t)

(* The output column the current compute() writes and its input column.   *)
Cur == IF layout = "col" THEN col ELSE 0
XCol(j) == [c \in ColIdx |-> x[c][j]]
Zero(w) == [r \in RowIdx |-> [j \in 0 .. w - 1 |-> 0]]

(* sparse_matrix::create(fg): the asymmetric class for a directed graph.  *)
CreateFG(directed) == IF directed THEN "fg_asym" ELSE "fg_sym"

(* sparse_matrix::create(index, mat [, t_index, t_mat]): the asymmetric   *)
(* class when the transpose is given.                                      *)
Create2D(with_t) == IF with_t THEN "b2d_asym" ELSE "b2d_sym"

(* The caller creates the matrix in one of the four classes.               *)
Init ==
  /\ kind \in {CreateFG(d) : d \in BOOLEAN} \cup {Create2D(t) : t \in BOOLEAN}
  /\ trans = FALSE
  /\ ltrans = FALSE
  /\ main = "idle"
  /\ layout = "vec"
  /\ col = 0
  /\ x = [c \in ColIdx |-> [j \in {0} |-> 0]]
  /\ out = Zero(1)
  /\ todo = {}
  /\ wpc = [w \in Workers |-> "idle"]
  /\ wtask = [w \in Workers |-> 0]
  /\ wpos = [w \in Workers |-> 1]
  /\ wval = [w \in Workers |-> 0]

(* fg_sparse_sym_matrix::transpose does nothing: the matrix is symmetric. *)
TransposeFGSym ==
  /\ main = "idle"
  /\ kind = "fg_sym"
  /\ ltrans' = ~ltrans
  /\ UNCHANGED <<kind, trans, main, layout, col, x, out, todo, wpc, wtask, wpos, wval>>

(* block_sparse_matrix::transpose does nothing either.                     *)
TransposeB2DSym ==
  /\ main = "idle"
  /\ kind = "b2d_sym"
  /\ ltrans' = ~ltrans
  /\ UNCHANGED <<kind, trans, main, layout, col, x, out, todo, wpc, wtask, wpos, wval>>

(* fg_sparse_asym_matrix::transpose toggles transposed, then swaps nrows   *)
(* and ncols (equal here).                                                 *)
TransposeFGAsym ==
  /\ main = "idle"
  /\ kind = "fg_asym"
  /\ ltrans' = ~ltrans
  /\ trans' = ~trans
  /\ UNCHANGED <<kind, main, layout, col, x, out, todo, wpc, wtask, wpos, wval>>

(* block_sparse_asym_matrix::transpose swaps mat and t_mat, then nrows    *)
(* and ncols.                                                              *)
TransposeB2DAsym ==
  /\ main = "idle"
  /\ kind = "b2d_asym"
  /\ ltrans' = ~ltrans
  /\ trans' = ~trans
  /\ UNCHANGED <<kind, main, layout, col, x, out, todo, wpc, wtask, wpos, wval>>

(* Mutant: the length check is dropped and any input vector is used.      *)
MultiplyNoCheck ==
  /\ main = "idle"
  /\ \E len \in {N, N + 1} :
       /\ main' = "compute"
       /\ layout' = "vec"
       /\ x' \in {[c \in 0 .. len - 1 |-> [j \in {0} |-> in[c % N][0]]] : in \in Inputs}
       /\ out' = Zero(1)
       /\ todo' = Tasks
  /\ UNCHANGED <<kind, trans, ltrans, col, wpc, wtask, wpos, wval>>

(* multiply(vector): an input of the wrong length gets a null result; else *)
(* a zero output of nrows and compute() with the format's task creator.    *)
Multiply ==
  /\ main = "idle"
  /\ \E len \in {N, N + 1} :
       IF len # N
         THEN main' = "null" /\ UNCHANGED <<layout, x, out, todo>>
         ELSE /\ main' = "compute"
              /\ layout' = "vec"
              /\ x' \in {[c \in ColIdx |-> [j \in {0} |-> in[c][0]]] : in \in Inputs}
              /\ out' = Zero(1)
              /\ todo' = Tasks
  /\ UNCHANGED <<kind, trans, ltrans, col, wpc, wtask, wpos, wval>>

(* compute() on a dense input in of layout lay, into a zero output.      *)
StartCompute(lay, in) ==
  /\ main' = "compute"
  /\ layout' = lay
  /\ x' = in
  /\ out' = Zero(DCols)
  /\ todo' = Tasks

(* multiply_matrix(row_m): one compute() with the SpMM creator, whose      *)
(* get_multiply_creator asserts !is_fg.                                    *)
MultiplyMatrixRow(in) ==
  IF IsFG
    THEN main' = "abort" /\ UNCHANGED <<layout, x, out, todo>>
    ELSE StartCompute("row", in)

(* multiply_matrix(col_m): the first column's compute(); Join goes on     *)
(* with the next columns.                                                  *)
MultiplyMatrixCol(in) == StartCompute("col", in)

(* multiply(dense_matrix): a wrong number of rows or an input not in       *)
(* memory gets a null result; else the input's store layout picks the     *)
(* multiply_matrix overload.                                               *)
MultiplyDense ==
  /\ main = "idle"
  /\ \E nrows \in {N, N + 1}, in_mem \in BOOLEAN, in \in Inputs :
       \/ /\ nrows # N \/ ~in_mem
          /\ main' = "null"
          /\ UNCHANGED <<layout, x, out, todo>>
       \/ /\ nrows = N /\ in_mem
          /\ MultiplyMatrixRow(in) \/ MultiplyMatrixCol(in)
  /\ UNCHANGED <<kind, trans, ltrans, col, wpc, wtask, wpos, wval>>

(* Mutant: the task is not removed from the generator.                    *)
TakeKeep(w) ==
  /\ main = "compute"
  /\ wpc[w] = "idle"
  /\ \E t \in todo :
       /\ todo' = todo
       /\ wtask' = [wtask EXCEPT ![w] = t]
       /\ wpos' = [wpos EXCEPT ![w] = 1]
       /\ wpc' = [wpc EXCEPT ![w] = IF Parts(t) = <<>> THEN "idle" ELSE "part"]
  /\ UNCHANGED <<kind, trans, ltrans, main, layout, col, x, out, wval>>

(* A worker takes the next task of its I/O generator and reads its data.   *)
Take(w) ==
  /\ main = "compute"
  /\ wpc[w] = "idle"
  /\ \E t \in todo :
       /\ todo' = todo \ {t}
       /\ wtask' = [wtask EXCEPT ![w] = t]
       /\ wpos' = [wpos EXCEPT ![w] = 1]
       /\ wpc' = [wpc EXCEPT ![w] = IF Parts(t) = <<>> THEN "idle" ELSE "part"]
  /\ UNCHANGED <<kind, trans, ltrans, main, layout, col, x, out, wval>>

Advance(w) ==
  IF wpos[w] = Len(Parts(wtask[w]))
    THEN wpc' = [wpc EXCEPT ![w] = "idle"] /\ wpos' = wpos
    ELSE wpc' = [wpc EXCEPT ![w] = "part"] /\ wpos' = [wpos EXCEPT ![w] = @ + 1]

CurPart(w) == Parts(wtask[w])[wpos[w]]

(* fg_row_spmv_task::run_on_row: output.set(v, sum of the neighbours).   *)
RunOnRow(w) ==
  /\ wpc[w] = "part"
  /\ IsFG
  /\ out' = [out EXCEPT ![CurPart(w).row][Cur] = SumOver(CurPart(w).cols, XCol(Cur))]
  /\ Advance(w)
  /\ UNCHANGED <<kind, trans, ltrans, main, layout, col, x, todo, wtask, wval>>

(* block_spmm_task::run_on_row_part: dest_row[j] += src_row[j] for every   *)
(* non-zero column, in place.                                              *)
RunOnRowPartMM(w) ==
  /\ wpc[w] = "part"
  /\ ~IsFG /\ layout = "row"
  /\ LET p == CurPart(w)
     IN  out' = [out EXCEPT ![p.row] =
                   [j \in 0 .. DCols - 1 |-> out[p.row][j] + SumOver(p.cols, XCol(j))]]
  /\ Advance(w)
  /\ UNCHANGED <<kind, trans, ltrans, main, layout, col, x, todo, wtask, wval>>

(* Mutant: output.set(row_idx, sum), the earlier row parts are lost.     *)
RunOnPartSet(w) ==
  /\ wpc[w] = "part"
  /\ ~IsFG /\ layout # "row"
  /\ wval' = [wval EXCEPT ![w] = SumOver(CurPart(w).cols, XCol(Cur))]
  /\ wpc' = [wpc EXCEPT ![w] = "write"]
  /\ UNCHANGED <<kind, trans, ltrans, main, layout, col, x, out, todo, wtask, wpos>>

(* block_spmv_task::run_on_row_part: sum the inputs of the row part and    *)
(* read output[row].                                                       *)
RunOnPart(w) ==
  /\ wpc[w] = "part"
  /\ ~IsFG /\ layout # "row"
  /\ wval' = [wval EXCEPT ![w] = out[CurPart(w).row][Cur] + SumOver(CurPart(w).cols, XCol(Cur))]
  /\ wpc' = [wpc EXCEPT ![w] = "write"]
  /\ UNCHANGED <<kind, trans, ltrans, main, layout, col, x, out, todo, wtask, wpos>>

(* output.set(row_idx, output.get(row_idx) + sum).                          *)
SetOutput(w) ==
  /\ wpc[w] = "write"
  /\ out' = [out EXCEPT ![CurPart(w).row][Cur] = wval[w]]
  /\ Advance(w)
  /\ UNCHANGED <<kind, trans, ltrans, main, layout, col, x, todo, wtask, wval>>

(* The loop of multiply_matrix(col_m): compute() on the next column.     *)
NextColumn == col' = col + 1 /\ todo' = Tasks /\ UNCHANGED main

(* compute() joins the workers once every task has run.  multiply_matrix   *)
(* of a column-major input then computes its next column, if any; else    *)
(* multiply() returns the output.                                          *)
Join ==
  /\ main = "compute"
  /\ todo = {}
  /\ \A w \in Workers : wpc[w] = "idle"
  /\ IF layout = "col" /\ col < DCols - 1
       THEN NextColumn
       ELSE main' = "done" /\ UNCHANGED <<col, todo>>
  /\ UNCHANGED <<kind, trans, ltrans, layout, x, out, wpc, wtask, wpos, wval>>

Work(w) == Take(w) \/ RunOnRow(w) \/ RunOnRowPartMM(w) \/ RunOnPart(w) \/ SetOutput(w)

Next ==
  \/ TransposeFGSym \/ TransposeB2DSym \/ TransposeFGAsym \/ TransposeB2DAsym
  \/ Multiply \/ MultiplyDense \/ Join
  \/ \E w \in Workers : Work(w)

(* The worker threads and the joining caller keep running; the caller is  *)
(* not obliged to call multiply() at all.                                  *)
Spec == Init /\ [][Next]_vars /\ WF_vars(Join \/ \E w \in Workers : Work(w))

-----------------------------------------------------------------------------
TypeOK ==
  /\ kind \in Kinds
  /\ trans \in BOOLEAN /\ ltrans \in BOOLEAN
  /\ main \in {"idle", "compute", "done", "null", "abort"}
  /\ layout \in {"vec", "row", "col"}
  /\ col \in 0 .. DCols - 1
  /\ x \in [ColIdx -> [DOMAIN out[0] -> Nat]]
  /\ out \in [RowIdx -> [DOMAIN out[0] -> Nat]]
  /\ todo \subseteq Tasks
  /\ wpc \in [Workers -> {"idle", "part", "write"}]
  /\ wtask \in [Workers -> Tasks]

(* The matrix the caller means: the created one, transposed once for an   *)
(* odd number of transpose() calls.                                        *)
Logical == IF ltrans THEN Tr(Stored(kind)) ELSE Stored(kind)
Product(j) == [r \in RowIdx |-> SumOver({c \in ColIdx : <<r, c>> \in Logical}, XCol(j))]

(* Output columns that are final: all of them once multiply() returns,    *)
(* and, while a column-major input is multiplied column by column, those  *)
(* before the current one.                                                 *)
DoneCols ==
  CASE main = "done" -> DOMAIN out[0]
    [] main = "compute" /\ layout = "col" -> 0 .. col - 1
    [] OTHER -> {}

(* Every final output column is the product of the matrix the caller      *)
(* means (transposed or not, whatever the class) and the input column,    *)
(* whatever the interleaving of the workers and the order of the tasks;    *)
(* a later column's compute() never disturbs an earlier column.            *)
OutputCorrect ==
  \A j \in DoneCols : \A r \in RowIdx : out[r][j] = Product(j)[r]

(* No two workers are at row parts of the same output row at once: the    *)
(* unlocked output.get/output.set of block_spmv_task, the in-place += of   *)
(* block_spmm_task and the output.set of fg_row_spmv_task each assume a    *)
(* row is written by one task only.                                        *)
NoOutputRace ==
  \A w, v \in Workers :
    (w # v /\ wpc[w] # "idle" /\ wpc[v] # "idle") => CurPart(w).row # CurPart(v).row

(* The object implements the abstract multiply of AbsMultiply: the caller  *)
(* sees only the pattern, the transpose parity, the input, and the output  *)
(* once multiply() has returned.                                           *)
Abs == INSTANCE AbsMultiply WITH
         XVals <- UNION {{in[c][j] : c \in ColIdx, j \in 0 .. DCols - 1} : in \in Inputs},
         pattern <- Stored(kind),
         flipped <- ltrans,
         status <- CASE main = "idle" -> "idle"
                     [] main = "compute" -> "busy"
                     [] main = "done" -> "done"
                     [] OTHER -> "refused",
         input <- x,
         result <- IF main = "done" THEN out ELSE Zero(Cardinality(DOMAIN x[0]))

Refines == Abs!Spec
=============================================================================
