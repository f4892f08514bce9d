---------------------------- MODULE MatrixFormat ----------------------------
(***************************************************************************)
(* The 2D sparse-matrix format (src/matrix/sparse_matrix_format.cpp).      *)
(* A sparse_block_2d is built by append()ing row parts and checked by     *)
(* verify(); sparse_matrix_storage::verify checks every block of every     *)
(* block row.  sparse_matrix_index::create stores one offset per block row *)
(* plus one, get_block_row_off looks one up, and load() reads an index or  *)
(* a storage file into a heap buffer.                                      *)
(*                                                                         *)
(* A row part is abstracted to its relative row and its number of          *)
(* non-zeros; its size is a header unit plus one unit per non-zero, and    *)
(* rparts_size, a uint32_t, to SizeMax.                                    *)
(***************************************************************************)
EXTENDS Integers, Sequences

CONSTANTS
  BRows, BCols,  \* block_2d_size: rows and columns of a block
  MaxParts,      \* the most row parts a block is given
  SizeMax,       \* std::numeric_limits<uint32_t>::max(), scaled
  NBR,           \* the block rows of the matrix (cal_num_block_rows)
  NDEBUG

(* The row parts a caller can append: rows and non-zero counts one past   *)
(* the block's size included, as a faulty writer would produce.           *)
Parts == [row : 0 .. BRows, nnz : 1 .. BCols + 1]
PartSize(p) == 1 + p.nnz

(* The block format's contract: at most a block's rows, each with at most *)
(* a block's columns, in strictly increasing row order.                   *)
WellFormed(s) ==
  /\ Len(s) <= BRows
  /\ \A k \in DOMAIN s : s[k].nnz <= BCols /\ s[k].row < BRows
  /\ \A k \in 1 .. Len(s) - 1 : s[k].row < s[k + 1].row

(* sparse_block_2d::verify: the loop over the row parts with rel_row_id    *)
(* and num_rows; TRUE when no assert fails.                                *)
Verify(s) ==
  LET st[k \in 0 .. Len(s)] ==
        IF k = 0 THEN [rel |-> 0, n |-> 0, ok |-> TRUE]
        ELSE LET p == s[k]  prev == st[k - 1]
             IN  [rel |-> p.row, n |-> prev.n + 1,
                  ok |-> /\ prev.ok
                         /\ p.nnz <= BCols
                         /\ p.row > 0 => prev.rel < p.row]
  IN  st[Len(s)].ok /\ st[Len(s)].n <= BRows

VARIABLES
  parts,      \* the row parts in the block, in order
  rsize,      \* rparts_size
  verdict,    \* "none", "ok", "failed": the outcome of verify()
  offs,       \* the index's offsets, or <<>> when create returned NULL
  lookup,     \* the last get_block_row_off: [idx, res] or none
  heap,       \* load(): "none", "owned" (the returned ptr frees it), "leaked"
  pc          \* "build", "aborted", "done"

vars == <<parts, rsize, verdict, offs, lookup, heap, pc>>

Init ==
  /\ parts = <<>> /\ rsize = 0 /\ verdict = "none"
  /\ offs = <<>> /\ lookup = [idx |-> 0, res |-> 0]
  /\ heap = "none" /\ pc = "build"

(* append: memcpy the part behind the others, then assert that the new    *)
(* size fits in uint32_t, then add it; without asserts the size wraps.     *)
AppendPart ==
  /\ pc = "build" /\ Len(parts) < MaxParts
  /\ \E p \in Parts :
       /\ parts' = Append(parts, p)
       /\ IF rsize + PartSize(p) > SizeMax /\ ~NDEBUG
            THEN pc' = "aborted" /\ UNCHANGED rsize
            ELSE rsize' = (rsize + PartSize(p)) % (SizeMax + 1) /\ UNCHANGED pc
  /\ UNCHANGED <<verdict, offs, lookup, heap>>

(* verify() on the block built so far; a failed assert aborts, and         *)
(* without asserts verify returns as if it had passed.                     *)
VerifyBlock ==
  /\ pc = "build"
  /\ verdict' = IF Verify(parts) THEN "ok" ELSE "failed"
  /\ pc' = IF Verify(parts) \/ NDEBUG THEN "done" ELSE "aborted"
  /\ UNCHANGED <<parts, rsize, offs, lookup, heap>>

(* sparse_matrix_index::create: the number of offsets must be one more    *)
(* than the block rows; posix_memalign may fail.  Both failures return     *)
(* NULL.                                                                   *)
CreateIndex ==
  /\ pc = "build"
  /\ \E n \in 0 .. NBR + 2, alloc \in BOOLEAN :
       offs' = IF n = NBR + 1 /\ alloc THEN [i \in 1 .. n |-> i - 1] ELSE <<>>
  /\ UNCHANGED <<parts, rsize, verdict, lookup, heap, pc>>

(* get_block_row_off(idx): -1 out of range, else offs[idx].               *)
GetBlockRowOff ==
  /\ offs # <<>>
  /\ \E idx \in 0 .. Len(offs) :
       lookup' = [idx |-> idx, res |-> IF idx >= Len(offs) THEN -1 ELSE offs[idx + 1]]
  /\ UNCHANGED <<parts, rsize, verdict, offs, heap, pc>>

(* load(): malloc (new char[] for a storage) a buffer of the file's size,  *)
(* fopen, fread; on either error it logs and returns a NULL ptr, the       *)
(* buffer still allocated.                                                 *)
Load ==
  /\ heap = "none"
  /\ \E outcome \in {"ok", "open_fail", "read_fail"} :
       heap' = IF outcome = "ok" THEN "owned" ELSE "leaked"
  /\ UNCHANGED <<parts, rsize, verdict, offs, lookup, pc>>

Next == AppendPart \/ VerifyBlock \/ CreateIndex \/ GetBlockRowOff \/ Load

Spec == Init /\ [][Next]_vars

-----------------------------------------------------------------------------
TypeOK ==
  /\ parts \in Seq(Parts) /\ Len(parts) <= MaxParts
  /\ rsize \in 0 .. SizeMax
  /\ verdict \in {"none", "ok", "failed"}
  /\ pc \in {"build", "aborted", "done"}
  /\ heap \in {"none", "owned", "leaked"}

(* A block that verify() accepts keeps the format's contract: its row      *)
(* parts are in strictly increasing row order, each within the block.      *)
VerifySound ==
  verdict = "ok" => WellFormed(parts)

=============================================================================
