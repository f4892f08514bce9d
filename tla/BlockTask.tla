----------------------------- MODULE BlockTask -----------------------------
(***************************************************************************)
(* One block_compute_task of a 2D-partitioned sparse matrix                *)
(* (src/matrix/sparse_matrix.cpp): the choice of the execution order       *)
(* (get_multiply_order, then the task's constructor), and run(), which     *)
(* walks the task's NB block rows in super blocks of NB x NB blocks and    *)
(* hands each super block to seq_exec_order or hilbert_exec_order.         *)
(*                                                                         *)
(* A block row is the sequence of the column indices of its non-empty      *)
(* blocks, strictly increasing (the layout the matrix writer produces).    *)
(* A block is <<row, column>>.  The arithmetic of the row-part payload     *)
(* (run_on_block) is left out: a processed block is recorded in order.    *)
(***************************************************************************)
EXTENDS Naturals, Sequences, Functions

CONSTANTS
  NB,          \* num_blocks: block rows of the task (block_rows.size() - 1)
  NCols,       \* block columns of the matrix
  UseHilbert,  \* matrix_conf.use_hilbert_order()
  GridRows,    \* the arguments of get_multiply_order
  GridCols,
  HOrder       \* hilbert_orders of hilbert_exec_order(GridRows): the cells
               \* <<row, col>> sorted by hilbert_xy2d

ASSUME BlockTaskAssumption ==
  /\ NB \in Nat \ {0}
  /\ NCols \in Nat
  /\ UseHilbert \in BOOLEAN
  /\ GridRows \in Nat /\ GridCols \in Nat
  /\ HOrder \in Seq(Nat \X Nat)

Rows == 0 .. NB - 1
Cols == 0 .. NCols - 1
Idx  == 0 .. NB * NB - 1
Null == <<NB, NCols>>   \* a NULL entry of blocks: no block has it

(* The block rows a task can be given: strictly increasing column indices. *)
BlockRows ==
  UNION {{s \in [1 .. L -> Cols] : \A k \in 1 .. L - 1 : s[k] < s[k + 1]}
           : L \in 0 .. NCols}

VARIABLES
  mat,         \* the task's buffer: mat[r] is block row r
  order,       \* what get_multiply_order returned: "seq", "hilbert", "null"
  exec_order,  \* the task's exec_order
  pc,          \* "ctor", "build", "scan", "exec", "done", "crash"
  its,         \* its[r]: position of the iterator of block row r
  oob,         \* an iterator was built from block_rows[block_rows.size()]
  i, j,        \* the loop indices of the super-block scan
  sb,          \* sb_col_idx
  has_blocks,
  blocks,      \* the super block: blocks[i * NB + j]
  pos,         \* the position of exec_order->exec's loop over blocks
  processed    \* the blocks run_on_block was called on, in order

vars == <<mat, order, exec_order, pc, its, oob, i, j, sb, has_blocks, blocks,
          pos, processed>>

HasNext(r) == its[r] <= Len(mat[r])
Curr(r)    == mat[r][its[r]]

(* log2(n) == floor(log2(n)): n is a power of two, or 0 (log2(0) is -inf).*)
Log2Integral(n) == n = 0 \/ \E k \in 0 .. n : 2^k = n

(* block_sparse_matrix::get_multiply_order.                                *)
GetMultiplyOrder(r, c) ==
  IF r # c THEN "null"
  ELSE IF ~Log2Integral(r) THEN "null"
  ELSE IF UseHilbert THEN "hilbert" ELSE "seq"

(* is_valid_size(num_block_rows, num_block_rows) of an order.              *)
IsValidSize(o, h) == o = "seq" \/ (o = "hilbert" /\ GridRows = h)

(* The entry of blocks an exec_order visits at position p of its loop:    *)
(* the p-th entry for seq_exec_order, the cell row * n + col of the p-th   *)
(* coordinate of hilbert_orders for hilbert_exec_order.                    *)
Entry(p) ==
  IF exec_order = "seq" THEN p
  ELSE HOrder[p + 1][1] * GridRows + HOrder[p + 1][2]

(* The length of the loop: hilbert_exec_order::exec returns at once when   *)
(* blocks.size() differs from hilbert_orders.size().                       *)
ExecLen ==
  IF exec_order = "hilbert" /\ Len(HOrder) # NB * NB THEN 0 ELSE NB * NB

Init ==
  /\ mat \in [Rows -> BlockRows]
  /\ order = GetMultiplyOrder(GridRows, GridCols)
  /\ exec_order = "seq"
  /\ pc = "ctor"
  /\ its = [r \in Rows |-> 1]
  /\ oob = FALSE
  /\ i = 0 /\ j = 0 /\ sb = 0
  /\ has_blocks = FALSE
  /\ blocks = [k \in Idx |-> Null]
  /\ pos = 0
  /\ processed = <<>>

(* The constructor: order->is_valid_size, else a seq_exec_order.  A null   *)
(* order is dereferenced.                                                  *)
Ctor ==
  /\ pc = "ctor"
  /\ IF order = "null"
       THEN pc' = "crash" /\ exec_order' = exec_order
       ELSE /\ exec_order' = IF IsValidSize(order, NB) THEN order ELSE "seq"
            /\ pc' = "build"
  /\ UNCHANGED <<mat, order, its, oob, i, j, sb, has_blocks, blocks, pos, processed>>

(* run(): one iterator per entry of block_rows, from block_rows[i] to      *)
(* block_rows[i + 1], for i up to block_rows.size() - 1.                   *)
Build ==
  /\ pc = "build"
  /\ its' = [r \in Rows |-> 1]
  /\ oob' = ~({k + 1 : k \in 0 .. NB} \subseteq 0 .. NB)
  /\ pc' = "scan"
  /\ i' = 0 /\ j' = 0 /\ sb' = 0 /\ has_blocks' = FALSE
  /\ UNCHANGED <<mat, order, exec_order, blocks, pos, processed>>

(* Mutant: its[i].next() is forgotten.                                     *)
ScanNoAdvance ==
  /\ pc = "scan" /\ j < NB
  /\ blocks' = [blocks EXCEPT ![i * NB + j] =
                  IF HasNext(i) /\ Curr(i) = sb + j THEN <<i, Curr(i)>> ELSE Null]
  /\ j' = j + 1
  /\ UNCHANGED <<mat, order, exec_order, pc, its, oob, i, sb, has_blocks, pos, processed>>

(* Mutant: the entry is indexed j * num_blocks + i.                        *)
ScanTransposed ==
  /\ pc = "scan" /\ j < NB
  /\ blocks' = [blocks EXCEPT ![j * NB + i] =
                  IF HasNext(i) /\ Curr(i) = sb + j THEN <<i, Curr(i)>> ELSE Null]
  /\ its' = IF HasNext(i) /\ Curr(i) = sb + j THEN [its EXCEPT ![i] = @ + 1] ELSE its
  /\ j' = j + 1
  /\ UNCHANGED <<mat, order, exec_order, pc, oob, i, sb, has_blocks, pos, processed>>

(* One turn of the inner loop: take the current block of row i if it is   *)
(* in column sb_col_idx + j, else put NULL.                                *)
Scan ==
  /\ pc = "scan" /\ j < NB
  /\ blocks' = [blocks EXCEPT ![i * NB + j] =
                  IF HasNext(i) /\ Curr(i) = sb + j THEN <<i, Curr(i)>> ELSE Null]
  /\ its' = IF HasNext(i) /\ Curr(i) = sb + j THEN [its EXCEPT ![i] = @ + 1] ELSE its
  /\ j' = j + 1
  /\ UNCHANGED <<mat, order, exec_order, pc, oob, i, sb, has_blocks, pos, processed>>

(* Mutant: has_blocks = its[i].has_next() instead of |=.                   *)
RowEndAssign ==
  /\ pc = "scan" /\ j = NB
  /\ has_blocks' = HasNext(i)
  /\ i' = i + 1 /\ j' = 0
  /\ pc' = IF i + 1 = NB THEN "exec" ELSE "scan"
  /\ UNCHANGED <<mat, order, exec_order, its, oob, sb, blocks, pos, processed>>

(* End of a block row of the super block: has_blocks |= its[i].has_next(). *)
RowEnd ==
  /\ pc = "scan" /\ j = NB
  /\ has_blocks' = (has_blocks \/ HasNext(i))
  /\ i' = i + 1 /\ j' = 0
  /\ pc' = IF i + 1 = NB THEN "exec" ELSE "scan"
  /\ UNCHANGED <<mat, order, exec_order, its, oob, sb, blocks, pos, processed>>

(* Mutant: exec forgets the "if (b)" test and runs the NULL entries.       *)
ExecBlockNoNullCheck ==
  /\ pc = "exec" /\ pos < ExecLen
  /\ processed' = Append(processed, blocks[Entry(pos)])
  /\ pos' = pos + 1
  /\ UNCHANGED <<mat, order, exec_order, pc, its, oob, i, j, sb, has_blocks, blocks>>

(* One turn of exec_order->exec's loop: run_on_block on the entry it       *)
(* visits, unless the entry is NULL.                                       *)
ExecBlock ==
  /\ pc = "exec" /\ pos < ExecLen
  /\ processed' = IF blocks[Entry(pos)] # Null
                     THEN Append(processed, blocks[Entry(pos)]) ELSE processed
  /\ pos' = pos + 1
  /\ UNCHANGED <<mat, order, exec_order, pc, its, oob, i, j, sb, has_blocks, blocks>>

(* Mutant: sb_col_idx is not advanced.                                     *)
ExecEndNoAdvance ==
  /\ pc = "exec" /\ pos = ExecLen
  /\ pos' = 0
  /\ IF has_blocks THEN pc' = "scan" /\ i' = 0 /\ j' = 0
                   ELSE pc' = "done" /\ i' = i /\ j' = j
  /\ has_blocks' = FALSE
  /\ UNCHANGED <<mat, order, exec_order, its, oob, sb, blocks, processed>>

(* The end of exec and of the do-while body: sb_col_idx += num_blocks     *)
(* (done before exec in the code, which does not read it), then loop      *)
(* while has_blocks, else notify_complete.                                 *)
ExecEnd ==
  /\ pc = "exec" /\ pos = ExecLen
  /\ sb' = sb + NB
  /\ pos' = 0
  /\ IF has_blocks THEN pc' = "scan" /\ i' = 0 /\ j' = 0
                   ELSE pc' = "done" /\ i' = i /\ j' = j
  /\ has_blocks' = FALSE
  /\ UNCHANGED <<mat, order, exec_order, its, oob, blocks, processed>>

Next == Ctor \/ Build \/ Scan \/ RowEnd \/ ExecBlock \/ ExecEnd

Spec == Init /\ [][Next]_vars /\ WF_vars(Next)

-----------------------------------------------------------------------------
(* Properties.                                                             *)

Blocks == Rows \X Cols

TypeOK ==
  /\ mat \in [Rows -> BlockRows]
  /\ order \in {"seq", "hilbert", "null"}
  /\ exec_order \in {"seq", "hilbert"}
  /\ pc \in {"ctor", "build", "scan", "exec", "done", "crash"}
  /\ its \in [Rows -> Nat \ {0}]
  /\ \A r \in Rows : its[r] <= Len(mat[r]) + 1
  /\ oob \in BOOLEAN
  /\ i \in 0 .. NB /\ j \in 0 .. NB /\ sb \in Nat
  /\ has_blocks \in BOOLEAN
  /\ blocks \in [Idx -> Blocks \cup {Null}]
  /\ pos \in 0 .. NB * NB
  /\ processed \in Seq(Blocks)

(* The blocks of the task's rows.                                          *)
AllBlocks == {b \in Blocks : \E k \in DOMAIN mat[b[1]] : mat[b[1]][k] = b[2]}

(* The assert of run(): the current block of a row is never left of the    *)
(* column the scan has reached (b.get_block_col_idx() >= sb_col_idx + j).  *)
(* It fails if a block were skipped by an earlier super block.             *)
AssertHolds ==
  pc = "scan" /\ i < NB /\ j < NB /\ HasNext(i) => Curr(i) >= sb + j

(* A super block handed to exec_order holds, at entry i * NB + j, only the *)
(* block of row i in column sb_col_idx + j: the layout both exec orders    *)
(* and the SpMM kernels rely on.                                           *)
SuperBlockShape ==
  pc = "exec" =>
    \A k \in Idx : blocks[k] # Null =>
      blocks[k] = <<k \div NB, sb + (k % NB)>>

(* Every block of the task is passed to run_on_block exactly once: never    *)
(* twice, nothing outside the task, and all of them when the task          *)
(* completes, for either exec order.                                       *)
ProcessedExactlyOnce ==
  /\ IsInjective(processed)
  /\ Range(processed) \subseteq AllBlocks
  /\ pc = "done" => Range(processed) = AllBlocks

(* run() returns: the do-while loop ends for every input.                  *)
Terminates == <>(pc \in {"done", "crash"})

(* Every iterator run() builds lies within block_rows.                      *)
IteratorsInBounds == ~oob

=============================================================================
