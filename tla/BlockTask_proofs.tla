--------------------------- MODULE BlockTask_proofs ---------------------------
(***************************************************************************)
(* Proofs about block_compute_task::run (src/matrix/sparse_matrix.cpp):    *)
(* its assert holds, and every super block it hands to an exec order has   *)
(* the layout the exec orders rely on, for every number of block rows,     *)
(* every matrix width and every content of the block rows.                 *)
(***************************************************************************)
EXTENDS BlockTask, TLAPS

(* The column the scan has reached in block row r: the whole super block   *)
(* for the rows done, sb_col_idx + j for row i, sb_col_idx for the rest.   *)
Reach(r) ==
  IF r < i THEN sb + NB ELSE IF r = i THEN sb + j ELSE sb

(* The entries of the super block filled since sb_col_idx last moved.     *)
Scanned(r, c) == r < i \/ (r = i /\ c < j)

(* The inductive invariant: the iterators never fall behind the scan, and *)
(* every entry scanned in this super block is NULL or its own block.       *)
IInv ==
  /\ mat \in [Rows -> BlockRows]
  /\ pc \in {"ctor", "build", "scan", "exec", "done", "crash"}
  /\ its \in [Rows -> Nat \ {0}]
  /\ i \in 0 .. NB /\ j \in 0 .. NB /\ sb \in Nat
  /\ blocks \in [Idx -> Blocks \cup {Null}]
  /\ pc = "scan" => i < NB
  /\ pc = "exec" => i = NB
  /\ pc \in {"scan", "exec"} =>
       \A r \in Rows : HasNext(r) => Curr(r) >= Reach(r)
  /\ pc \in {"scan", "exec"} =>
       \A r \in Rows, c \in 0 .. NB - 1 :
         Scanned(r, c) /\ blocks[r * NB + c] # Null =>
           blocks[r * NB + c] = <<r, sb + c>>

(* hilbert_exec_order(n)'s constructor pushes every cell of the n x n grid *)
(* once into hilbert_orders and sorts them: a permutation of the grid.     *)
HOrderIsGrid ==
  /\ Len(HOrder) = GridRows * GridRows
  /\ IsInjective(HOrder)
  /\ Range(HOrder) = (0 .. GridRows - 1) \X (0 .. GridRows - 1)

(* The blocks the row iterators have moved past.                           *)
Taken == {b \in Blocks : \E k \in 1 .. its[b[1]] - 1 : mat[b[1]][k] = b[2]}

(* The column every block taken from row r lies left of.                   *)
Bound(r) == IF pc = "done" THEN sb ELSE Reach(r)

(* The blocks exec_order->exec has run so far in this super block.         *)
Visited == {blocks[Entry(p)] : p \in 0 .. pos - 1} \ {Null}

(* The control state of run() and of the exec loop.                        *)
Ctl ==
  /\ order \in {"seq", "hilbert", "null"}
  /\ exec_order \in {"seq", "hilbert"}
  /\ exec_order = "hilbert" => GridRows = NB
  /\ oob \in BOOLEAN /\ has_blocks \in BOOLEAN
  /\ \A r \in Rows : its[r] <= Len(mat[r]) + 1
  /\ pos \in 0 .. ExecLen
  /\ pc # "exec" => pos = 0
  /\ pc \in {"ctor", "build", "crash"} =>
       processed = <<>> /\ \A r \in Rows : its[r] = 1

(* run_on_block has been called on blocks, each once.                      *)
Proc == processed \in Seq(Blocks) /\ IsInjective(processed)

(* Every block taken from a row lies left of the scan.                     *)
Behind == \A r \in Rows : \A k \in 1 .. its[r] - 1 : mat[r][k] < Bound(r)

(* The blocks processed: those taken left of sb_col_idx, and those the     *)
(* exec loop has reached in this super block.                              *)
Got == Range(processed) = {b \in Taken : b[2] < sb} \cup Visited

(* A scanned entry of the super block is non-NULL exactly when its block  *)
(* was taken.                                                              *)
Found ==
  pc \in {"scan", "exec"} =>
    \A r \in Rows, c \in 0 .. NB - 1 :
      Scanned(r, c) => (blocks[r * NB + c] # Null <=> <<r, sb + c>> \in Taken)

(* has_blocks says whether a row scanned so far has blocks left.           *)
More ==
  /\ pc = "scan" => (has_blocks <=> \E r \in 0 .. i - 1 : HasNext(r))
  /\ pc = "exec" => (has_blocks <=> \E r \in Rows : HasNext(r))
  /\ pc = "done" => \A r \in Rows : ~HasNext(r)

(* The inductive invariant of ProcessedExactlyOnce and of TypeOK.          *)
PInv == IInv /\ Ctl /\ Proc /\ Behind /\ Got /\ Found /\ More

LEMMA NBPos == NB \in Nat \ {0} /\ NCols \in Nat
BY BlockTaskAssumption

(* A block row is a strictly increasing sequence of block columns.        *)
LEMMA RowFacts ==
  ASSUME NEW s \in BlockRows
  PROVE  /\ s \in Seq(Cols)
         /\ Len(s) \in Nat
         /\ \A k \in 1 .. Len(s) : s[k] \in Cols /\ s[k] \in Nat
         /\ \A k \in 1 .. Len(s) - 1 : s[k] < s[k + 1]
<1>1. PICK L \in 0 .. NCols :
        /\ s \in [1 .. L -> Cols]
        /\ \A k \in 1 .. L - 1 : s[k] < s[k + 1]
  BY DEF BlockRows
<1>2. s \in Seq(Cols) /\ Len(s) = L
  BY <1>1
<1> QED  BY <1>1, <1>2 DEF Cols

(* Entry r * num_blocks + c of blocks, for c < num_blocks, is in range and *)
(* belongs to no other pair.                                               *)
LEMMA IdxIn ==
  ASSUME NEW r \in Rows, NEW c \in 0 .. NB - 1
  PROVE  r * NB + c \in Idx
<1>1. r * NB <= (NB - 1) * NB
  BY NBPos DEF Rows
<1> QED  BY <1>1, NBPos DEF Rows, Idx

LEMMA IdxInj ==
  ASSUME NEW r \in Nat, NEW r2 \in Nat, NEW c \in 0 .. NB - 1, NEW c2 \in 0 .. NB - 1
  PROVE  r * NB + c = r2 * NB + c2 => r = r2 /\ c = c2
<1> USE NBPos
<1> SUFFICES ASSUME r * NB + c = r2 * NB + c2 PROVE r = r2 /\ c = c2
  OBVIOUS
<1>1. r = r2
  <2>1. CASE r < r2
    <3>1. r * NB + NB <= r2 * NB
      BY <2>1
    <3> QED  BY <3>1
  <2>2. CASE r2 < r
    <3>1. r2 * NB + NB <= r * NB
      BY <2>2
    <3> QED  BY <3>1
  <2> QED  BY <2>1, <2>2
<1> QED  BY <1>1

LEMMA IdxSplit ==
  ASSUME NEW k \in Idx
  PROVE  /\ k \div NB \in Rows
         /\ k % NB \in 0 .. NB - 1
         /\ k = (k \div NB) * NB + (k % NB)
<1> USE NBPos
<1>1. k \in Nat /\ k < NB * NB
  BY DEF Idx
<1>2. k % NB \in 0 .. NB - 1 /\ k = (k \div NB) * NB + (k % NB)
  BY <1>1
<1>3. k \div NB \in Nat
  <2>1. k \div NB \in Int
    BY <1>1
  <2> SUFFICES ASSUME k \div NB < 0 PROVE FALSE
    BY <2>1
  <2>2. (k \div NB) * NB <= -NB
    BY <2>1
  <2> QED  BY <1>1, <1>2, <2>2
<1>4. k \div NB < NB
  <2> SUFFICES ASSUME k \div NB >= NB PROVE FALSE
    BY <1>3
  <2>1. (k \div NB) * NB >= NB * NB
    BY <1>3
  <2> QED  BY <1>1, <1>2, <2>1
<1> QED  BY <1>2, <1>3, <1>4 DEF Rows

LEMMA InitIInv == Init => IInv
<1> SUFFICES ASSUME Init PROVE IInv
  OBVIOUS
<1>1. Null \in Blocks \cup {Null}
  OBVIOUS
<1> QED  BY <1>1, NBPos DEF Init, IInv, Idx

(* The row iterators and the entries of blocks, after one turn of the     *)
(* inner loop.                                                             *)
LEMMA ScanStep ==
  ASSUME IInv, Scan
  PROVE  IInv'
<1> USE NBPos
<1> DEFINE take == HasNext(i) /\ Curr(i) = sb + j
<1>0. /\ mat' = mat /\ i' = i /\ sb' = sb /\ pc' = pc /\ j' = j + 1
      /\ its' = IF take THEN [its EXCEPT ![i] = @ + 1] ELSE its
  BY DEF Scan
<1>1. pc = "scan" /\ i \in Rows /\ j \in 0 .. NB - 1 /\ sb \in Nat
  BY DEF Scan, IInv, Rows
<1>2. /\ Len(mat[i]) \in Nat
      /\ \A k \in 1 .. Len(mat[i]) : mat[i][k] \in Cols /\ mat[i][k] \in Nat
      /\ \A k \in 1 .. Len(mat[i]) - 1 : mat[i][k] < mat[i][k + 1]
  BY <1>1, RowFacts DEF IInv
<1>3. i * NB + j \in Idx
  BY <1>1, IdxIn
<1>4. HasNext(i) => Curr(i) \in Cols /\ Curr(i) >= sb + j
  BY <1>1, <1>2 DEF IInv, HasNext, Curr, Reach
<1>5. blocks' \in [Idx -> Blocks \cup {Null}]
  BY <1>1, <1>3, <1>4 DEF Scan, IInv, Blocks
<1>6. its' \in [Rows -> Nat \ {0}]
  BY <1>0, <1>1 DEF IInv
<1>7. ASSUME NEW r \in Rows, HasNext(r)', r # i
      PROVE  Curr(r)' >= Reach(r)'
  <2>1. its'[r] = its[r] /\ HasNext(r)
    BY <1>0, <1>7 DEF HasNext
  <2>2. Reach(r)' = Reach(r)
    BY <1>0, <1>1, <1>7 DEF Reach, Rows
  <2> QED  BY <1>0, <1>1, <2>1, <2>2 DEF IInv, Curr
<1>8. HasNext(i)' => Curr(i)' >= Reach(i)'
  <2>0. Reach(i)' = sb + j + 1
    BY <1>0, <1>1 DEF Reach, Rows
  <2> SUFFICES ASSUME HasNext(i)' PROVE mat[i][its'[i]] >= sb + j + 1
    BY <1>0, <2>0 DEF Curr
  <2>1. CASE take
    <3>1. its[i] \in 1 .. Len(mat[i]) - 1 /\ its'[i] = its[i] + 1
      BY <2>1, <1>0, <1>1, <1>2 DEF IInv, HasNext
    <3>2. mat[i][its[i]] < mat[i][its[i] + 1]
      BY <3>1, <1>2
    <3>3. mat[i][its[i]] = sb + j
      BY <2>1 DEF Curr
    <3>4. mat[i][its[i] + 1] \in Nat
      BY <3>1, <1>2 DEF Cols
    <3> QED  BY <3>1, <3>2, <3>3, <3>4, <1>1
  <2>2. CASE ~take
    <3>1. its' = its /\ HasNext(i)
      BY <2>2, <1>0 DEF HasNext
    <3>2. Curr(i) # sb + j /\ Curr(i) \in Nat
      BY <2>2, <3>1, <1>4 DEF Cols
    <3> QED  BY <3>1, <3>2, <1>1, <1>4 DEF Curr
  <2> QED  BY <2>1, <2>2
<1>9. ASSUME NEW r \in Rows, NEW c \in 0 .. NB - 1,
             Scanned(r, c)', blocks'[r * NB + c] # Null
      PROVE  blocks'[r * NB + c] = <<r, sb' + c>>
  <2>1. CASE r = i /\ c = j
    BY <2>1, <1>0, <1>1, <1>3, <1>9 DEF Scan, IInv
  <2>2. CASE ~(r = i /\ c = j)
    <3>1. r * NB + c # i * NB + j
      <4> SUFFICES ASSUME r * NB + c = i * NB + j PROVE FALSE
        OBVIOUS
      <4>0. r \in Nat /\ i \in Nat /\ c \in 0 .. NB - 1 /\ j \in 0 .. NB - 1
        BY <1>1 DEF Rows
      <4>1. r = i /\ c = j
        BY <4>0, IdxInj
      <4> QED  BY <4>1, <2>2
    <3>2. Scanned(r, c)
      BY <1>9, <2>2, <1>0, <1>1 DEF Scanned, Rows
    <3>3. r * NB + c \in Idx
      BY IdxIn
    <3>4. blocks'[r * NB + c] = blocks[r * NB + c]
      BY <3>1, <3>3 DEF Scan, IInv
    <3> QED  BY <1>0, <1>1, <1>9, <3>2, <3>4 DEF IInv
  <2> QED  BY <2>1, <2>2
<1> QED  BY <1>0, <1>1, <1>5, <1>6, <1>7, <1>8, <1>9 DEF IInv

(* run() starts the scan with every iterator at the front of its row.      *)
LEMMA BuildStep ==
  ASSUME IInv, Build
  PROVE  IInv'
<1> USE NBPos
<1>1. /\ its' = [r \in Rows |-> 1] /\ i' = 0 /\ j' = 0 /\ sb' = 0
      /\ pc' = "scan" /\ mat' = mat /\ blocks' = blocks
  BY DEF Build
<1>2. ASSUME NEW r \in Rows, HasNext(r)' PROVE Curr(r)' >= Reach(r)'
  <2>1. 1 \in 1 .. Len(mat[r]) /\ Len(mat[r]) \in Nat
    BY <1>1, <1>2, RowFacts DEF IInv, HasNext
  <2>2. mat[r][1] \in Nat
    BY <2>1, RowFacts DEF IInv
  <2>3. Reach(r)' = 0
    BY <1>1 DEF Reach, Rows
  <2> QED  BY <1>1, <2>2, <2>3 DEF Curr
<1>3. ASSUME NEW r \in Rows, NEW c \in 0 .. NB - 1 PROVE ~Scanned(r, c)'
  BY <1>1 DEF Scanned, Rows
<1> QED  BY <1>1, <1>2, <1>3 DEF IInv

(* The end of a block row of the super block: the next row starts at     *)
(* column sb_col_idx.                                                      *)
LEMMA RowEndStep ==
  ASSUME IInv, RowEnd
  PROVE  IInv'
<1> USE NBPos
<1>1. /\ pc = "scan" /\ i \in Rows /\ j = NB /\ sb \in Nat
      /\ i' = i + 1 /\ j' = 0 /\ pc' = IF i + 1 = NB THEN "exec" ELSE "scan"
      /\ UNCHANGED <<mat, its, sb, blocks>>
  BY DEF RowEnd, IInv, Rows
<1>2. \A r \in Rows : Reach(r)' = Reach(r)
  BY <1>1 DEF Reach, Rows
<1>3. \A r \in Rows, c \in 0 .. NB - 1 : Scanned(r, c)' <=> Scanned(r, c)
  BY <1>1 DEF Scanned, Rows
<1>4. \A r \in Rows : HasNext(r)' = HasNext(r) /\ Curr(r)' = Curr(r)
  BY <1>1 DEF HasNext, Curr
<1>5. i' \in 0 .. NB /\ (pc' = "scan" => i' < NB) /\ (pc' = "exec" => i' = NB)
  BY <1>1 DEF Rows
<1> QED  BY <1>1, <1>2, <1>3, <1>4, <1>5 DEF IInv

(* The end of exec_order->exec, with sb_col_idx += num_blocks: the next   *)
(* super block starts where this one ended.                                *)
LEMMA ExecEndStep ==
  ASSUME IInv, ExecEnd
  PROVE  IInv'
<1> USE NBPos
<1>1. /\ pc = "exec" /\ i = NB /\ sb \in Nat /\ sb' = sb + NB
      /\ UNCHANGED <<mat, its, blocks>>
  BY DEF ExecEnd, IInv
<1>2. CASE has_blocks
  <2>1. pc' = "scan" /\ i' = 0 /\ j' = 0
    BY <1>2 DEF ExecEnd
  <2>2. \A r \in Rows : Reach(r)' = Reach(r)
    BY <1>1, <2>1 DEF Reach, Rows
  <2>3. \A r \in Rows, c \in 0 .. NB - 1 : ~Scanned(r, c)'
    BY <2>1 DEF Scanned, Rows
  <2>4. \A r \in Rows : HasNext(r)' = HasNext(r) /\ Curr(r)' = Curr(r)
    BY <1>1 DEF HasNext, Curr
  <2> QED  BY <1>1, <2>1, <2>2, <2>3, <2>4 DEF IInv
<1>3. CASE ~has_blocks
  <2>1. pc' = "done" /\ i' = i /\ j' = j
    BY <1>3 DEF ExecEnd
  <2> QED  BY <1>1, <2>1 DEF IInv
<1> QED  BY <1>2, <1>3

LEMMA NextIInv == IInv /\ [Next]_vars => IInv'
<1> SUFFICES ASSUME IInv, [Next]_vars PROVE IInv'
  OBVIOUS
<1>1. CASE Ctor
  BY <1>1 DEF Ctor, IInv
<1>2. CASE Build
  BY <1>2, BuildStep
<1>3. CASE Scan
  BY <1>3, ScanStep
<1>4. CASE RowEnd
  BY <1>4, RowEndStep
<1>5. CASE ExecBlock
  BY <1>5 DEF ExecBlock, IInv, HasNext, Curr, Reach, Scanned
<1>6. CASE ExecEnd
  BY <1>6, ExecEndStep
<1>7. CASE UNCHANGED vars
  BY <1>7 DEF vars, IInv, HasNext, Curr, Reach, Scanned
<1> QED  BY <1>1, <1>2, <1>3, <1>4, <1>5, <1>6, <1>7 DEF Next

LEMMA IInvHolds == Spec => []IInv
<1>1. Init => IInv
  BY InitIInv
<1>2. IInv /\ [Next]_vars => IInv'
  BY NextIInv
<1> QED  BY <1>1, <1>2, PTL DEF Spec

(* The assert of block_compute_task::run never fails: the current block of *)
(* a row is never left of sb_col_idx + j, for every task and matrix.       *)
THEOREM AssertHoldsInvariant == Spec => []AssertHolds
<1>1. IInv => AssertHolds
  <2> SUFFICES ASSUME IInv, pc = "scan", i < NB, j < NB, HasNext(i)
               PROVE  Curr(i) >= sb + j
    BY DEF AssertHolds
  <2>1. i \in Rows
    BY NBPos DEF IInv, Rows
  <2> QED  BY <2>1 DEF IInv, Reach
<1> QED  BY <1>1, IInvHolds, PTL

(* Every super block run() hands to an exec order holds at entry           *)
(* i * num_blocks + j nothing but the block of row i in column             *)
(* sb_col_idx + j, for every task and matrix.                              *)
THEOREM SuperBlockShapeInvariant == Spec => []SuperBlockShape
<1>1. IInv => SuperBlockShape
  <2> SUFFICES ASSUME IInv, pc = "exec", NEW k \in Idx, blocks[k] # Null
               PROVE  blocks[k] = <<k \div NB, sb + (k % NB)>>
    BY DEF SuperBlockShape
  <2> DEFINE r == k \div NB
             c == k % NB
  <2>1. r \in Rows /\ c \in 0 .. NB - 1 /\ k = r * NB + c
    BY IdxSplit
  <2>2. Scanned(r, c)
    BY <2>1 DEF IInv, Scanned, Rows
  <2> QED  BY <2>1, <2>2 DEF IInv
<1> QED  BY <1>1, IInvHolds, PTL
-----------------------------------------------------------------------------
(* Every block of the task is processed exactly once.                      *)

(* Appending to a sequence adds one element to its range, and keeps it     *)
(* injective when the element is new.                                      *)
LEMMA AppendFacts ==
  ASSUME NEW S, NEW s \in Seq(S), NEW e
  PROVE  /\ Range(Append(s, e)) = Range(s) \cup {e}
         /\ IsInjective(s) /\ e \notin Range(s) => IsInjective(Append(s, e))
<1>1. Range(Append(s, e)) = Range(s) \cup {e}
  <2>1. ASSUME NEW x \in Range(Append(s, e)) PROVE x \in Range(s) \cup {e}
    <3>1. PICK k \in 1 .. Len(s) + 1 : x = Append(s, e)[k]
      BY DEF Range
    <3> QED  BY <3>1 DEF Range
  <2>2. ASSUME NEW x \in Range(s) \cup {e} PROVE x \in Range(Append(s, e))
    <3>1. CASE x = e
      <4>1. Append(s, e)[Len(s) + 1] = e /\ Len(s) + 1 \in DOMAIN Append(s, e)
        OBVIOUS
      <4> QED  BY <3>1, <4>1 DEF Range
    <3>2. CASE x \in Range(s)
      <4>1. PICK k \in 1 .. Len(s) : x = s[k]
        BY <3>2 DEF Range
      <4>2. Append(s, e)[k] = x /\ k \in DOMAIN Append(s, e)
        BY <4>1
      <4> QED  BY <4>2 DEF Range
    <3> QED  BY <3>1, <3>2
  <2> QED  BY <2>1, <2>2
<1>2. ASSUME IsInjective(s), e \notin Range(s) PROVE IsInjective(Append(s, e))
  <2> SUFFICES ASSUME NEW a \in 1 .. Len(s) + 1, NEW b \in 1 .. Len(s) + 1,
                      Append(s, e)[a] = Append(s, e)[b]
               PROVE  a = b
    BY DEF IsInjective
  <2>1. CASE a <= Len(s) /\ b <= Len(s)
    BY <1>2, <2>1 DEF IsInjective
  <2>2. CASE a <= Len(s) /\ b = Len(s) + 1
    BY <1>2, <2>2 DEF Range
  <2>3. CASE a = Len(s) + 1 /\ b <= Len(s)
    BY <1>2, <2>3 DEF Range
  <2> QED  BY <2>1, <2>2, <2>3
<1> QED  BY <1>1, <1>2

(* The exec loop of either order visits every entry of blocks once:       *)
(* hilbert_orders is kept only when its n is the task's num_blocks.        *)
LEMMA EntryFacts ==
  ASSUME HOrderIsGrid, exec_order \in {"seq", "hilbert"},
         exec_order = "hilbert" => GridRows = NB
  PROVE  /\ ExecLen = NB * NB
         /\ \A p \in 0 .. NB * NB - 1 : Entry(p) \in Idx
         /\ \A p, q \in 0 .. NB * NB - 1 : Entry(p) = Entry(q) => p = q
         /\ \A k \in Idx : \E p \in 0 .. NB * NB - 1 : Entry(p) = k
<1> USE NBPos
<1>1. CASE exec_order = "seq"
  BY <1>1 DEF ExecLen, Entry, Idx
<1>2. CASE exec_order = "hilbert"
  <2>1. GridRows = NB /\ Len(HOrder) = NB * NB /\ HOrder \in Seq(Nat \X Nat)
    BY <1>2, BlockTaskAssumption DEF HOrderIsGrid
  <2>2. ExecLen = NB * NB
    BY <1>2, <2>1 DEF ExecLen
  <2>0. DOMAIN HOrder = 1 .. NB * NB /\ IsInjective(HOrder)
        /\ Range(HOrder) = Rows \X (0 .. NB - 1)
    BY <2>1 DEF HOrderIsGrid, Rows
  <2>3. \A p \in 0 .. NB * NB - 1 :
          /\ p + 1 \in DOMAIN HOrder
          /\ HOrder[p + 1] \in Rows \X (0 .. NB - 1)
          /\ Entry(p) = HOrder[p + 1][1] * NB + HOrder[p + 1][2]
    <3> SUFFICES ASSUME NEW p \in 0 .. NB * NB - 1
                 PROVE  /\ p + 1 \in DOMAIN HOrder
                        /\ HOrder[p + 1] \in Rows \X (0 .. NB - 1)
                        /\ Entry(p) = HOrder[p + 1][1] * NB + HOrder[p + 1][2]
      OBVIOUS
    <3>1. p + 1 \in DOMAIN HOrder
      BY <2>0
    <3>2. HOrder[p + 1] \in Range(HOrder)
      BY <3>1 DEF Range
    <3>3. Entry(p) = HOrder[p + 1][1] * NB + HOrder[p + 1][2]
      BY <1>2, <2>1 DEF Entry
    <3> QED  BY <2>0, <3>1, <3>2, <3>3
  <2>4. \A p \in 0 .. NB * NB - 1 : Entry(p) \in Idx
    BY <2>3, IdxIn
  <2>5. \A p, q \in 0 .. NB * NB - 1 : Entry(p) = Entry(q) => p = q
    <3> SUFFICES ASSUME NEW p \in 0 .. NB * NB - 1, NEW q \in 0 .. NB * NB - 1,
                        Entry(p) = Entry(q)
                 PROVE  p = q
      OBVIOUS
    <3>0. PICK a \in Rows, c \in 0 .. NB - 1, a2 \in Rows, c2 \in 0 .. NB - 1 :
            HOrder[p + 1] = <<a, c>> /\ HOrder[q + 1] = <<a2, c2>>
      BY <2>3
    <3>1. a * NB + c = a2 * NB + c2
      BY <2>3, <3>0
    <3>2. a = a2 /\ c = c2
      BY <3>1, IdxInj DEF Rows
    <3>3. HOrder[p + 1] = HOrder[q + 1]
      BY <3>0, <3>2
    <3>4. p + 1 = q + 1
      BY <2>0, <2>3, <3>3 DEF IsInjective
    <3> QED  BY <3>4
  <2>6. \A k \in Idx : \E p \in 0 .. NB * NB - 1 : Entry(p) = k
    <3> SUFFICES ASSUME NEW k \in Idx PROVE \E p \in 0 .. NB * NB - 1 : Entry(p) = k
      OBVIOUS
    <3>1. <<k \div NB, k % NB>> \in Range(HOrder)
      BY <2>1, IdxSplit DEF HOrderIsGrid, Rows
    <3>2. PICK x \in 1 .. NB * NB : HOrder[x] = <<k \div NB, k % NB>>
      BY <2>0, <3>1 DEF Range
    <3>3. Entry(x - 1) = k
      BY <1>2, <2>1, <3>2, IdxSplit DEF Entry
    <3> QED  BY <3>3
  <2> QED  BY <2>2, <2>4, <2>5, <2>6
<1> QED  BY <1>1, <1>2

LEMMA InitPInv == Init => PInv
<1> SUFFICES ASSUME Init PROVE PInv
  OBVIOUS
<1> USE NBPos
<1>1. IInv
  BY InitIInv
<1>2. order \in {"seq", "hilbert", "null"}
  BY DEF Init, GetMultiplyOrder
<1>3. Taken = {} /\ Visited = {}
  BY DEF Init, Taken, Visited, Rows, Blocks
<1>4. Ctl
  <2>1. \A r \in Rows : Len(mat[r]) \in Nat
    BY RowFacts DEF Init
  <2>2. \A r \in Rows : its[r] <= Len(mat[r]) + 1
    BY <2>1 DEF Init
  <2>3. pos \in 0 .. ExecLen
    BY DEF Init, ExecLen
  <2>4. exec_order \in {"seq", "hilbert"} /\ oob \in BOOLEAN /\ has_blocks \in BOOLEAN
    BY DEF Init
  <2> QED  BY <1>2, <2>2, <2>3, <2>4 DEF Init, Ctl
<1>5. Proc /\ Got
  BY <1>3 DEF Init, Proc, Got, IsInjective, Range
<1>6. Behind /\ Found /\ More
  BY DEF Init, Behind, Found, More
<1> QED  BY <1>1, <1>4, <1>5, <1>6 DEF PInv


(* The constructor keeps the Hilbert order only for a task of n block rows. *)
LEMMA CtorPInv ==
  ASSUME PInv, Ctor
  PROVE  PInv'
<1> USE NBPos
<1>1. IInv'
  BY NextIInv DEF PInv, Next
<1>2. /\ pc = "ctor" /\ pc' \in {"crash", "build"} /\ processed = <<>>
      /\ pos = 0 /\ \A r \in Rows : its[r] = 1
      /\ UNCHANGED <<mat, order, its, sb, pos, processed, oob, has_blocks>>
  BY DEF Ctor, PInv, Ctl
<1>3. Taken' = {} /\ Visited' = {}
  <2>1. Visited' = {}
    BY <1>2 DEF Visited
  <2>2. ASSUME NEW b \in Taken' PROVE FALSE
    <3>1. b[1] \in Rows /\ \E k \in 1 .. its'[b[1]] - 1 : TRUE
      BY DEF Taken, Blocks
    <3> QED  BY <1>2, <3>1
  <2> QED  BY <2>1, <2>2
<1>4. exec_order' \in {"seq", "hilbert"} /\ (exec_order' = "hilbert" => GridRows = NB)
  BY DEF Ctor, PInv, Ctl, IsValidSize
<1>5. Ctl'
  <2>1. pos' \in 0 .. ExecLen'
    <3>1. ExecLen' \in Nat
      BY DEF ExecLen
    <3> QED  BY <1>2, <3>1
  <2> QED  BY <1>2, <1>4, <2>1 DEF PInv, Ctl
<1>6. Proc' /\ Got'
  BY <1>2, <1>3 DEF Proc, Got, IsInjective, Range
<1>7. Behind' /\ Found' /\ More'
  BY <1>2 DEF Behind, Found, More
<1> QED  BY <1>1, <1>5, <1>6, <1>7 DEF PInv

(* run() builds its iterators at the front of every row: nothing is taken. *)
LEMMA BuildPInv ==
  ASSUME PInv, Build
  PROVE  PInv'
<1> USE NBPos
<1>1. IInv'
  BY NextIInv DEF PInv, Next
<1>2. /\ pc = "build" /\ pc' = "scan" /\ processed = <<>> /\ pos = 0
      /\ its' = [r \in Rows |-> 1] /\ i' = 0 /\ j' = 0 /\ sb' = 0
      /\ has_blocks' = FALSE /\ oob' \in BOOLEAN
      /\ UNCHANGED <<mat, order, exec_order, blocks, pos, processed>>
  BY DEF Build, PInv, Ctl
<1>3. Taken' = {} /\ Visited' = {}
  <2>1. Visited' = {}
    BY <1>2 DEF Visited
  <2>2. ASSUME NEW b \in Taken' PROVE FALSE
    <3>1. b[1] \in Rows /\ \E k \in 1 .. its'[b[1]] - 1 : TRUE
      BY DEF Taken, Blocks
    <3> QED  BY <1>2, <3>1
  <2> QED  BY <2>1, <2>2
<1>4. \A r \in Rows : Len(mat[r]) \in Nat
  BY RowFacts DEF PInv, IInv
<1>5. Ctl'
  BY <1>2, <1>4 DEF PInv, Ctl, ExecLen
<1>6. Proc' /\ Got'
  BY <1>2, <1>3 DEF Proc, Got, IsInjective, Range
<1>7. Behind' /\ Found' /\ More'
  <2>1. Behind'
    BY <1>2 DEF Behind
  <2>2. \A r \in Rows, c \in 0 .. NB - 1 : ~Scanned(r, c)'
    BY <1>2 DEF Scanned, Rows
  <2>3. ~\E r \in 0 .. i' - 1 : HasNext(r)'
    BY <1>2
  <2> QED  BY <1>2, <2>1, <2>2, <2>3 DEF Found, More
<1> QED  BY <1>1, <1>5, <1>6, <1>7 DEF PInv


(* One turn of the inner loop takes at most the block of row i in column   *)
(* sb_col_idx + j, and records it at entry i * num_blocks + j.            *)
LEMMA ScanPInv ==
  ASSUME PInv, Scan
  PROVE  PInv'
<1> USE NBPos
<1> DEFINE take == HasNext(i) /\ Curr(i) = sb + j
<1>1. IInv'
  BY NextIInv DEF PInv, Next
<1>2. /\ pc = "scan" /\ i \in Rows /\ j \in 0 .. NB - 1 /\ sb \in Nat /\ pos = 0
      /\ j' = j + 1
      /\ blocks' = [blocks EXCEPT ![i * NB + j] = IF take THEN <<i, Curr(i)>> ELSE Null]
      /\ its' = IF take THEN [its EXCEPT ![i] = @ + 1] ELSE its
      /\ UNCHANGED <<mat, order, exec_order, pc, oob, i, sb, has_blocks, pos, processed>>
      /\ its \in [Rows -> Nat \ {0}] /\ mat \in [Rows -> BlockRows]
      /\ blocks \in [Idx -> Blocks \cup {Null}]
  BY DEF Scan, PInv, IInv, Ctl, Rows
<1>3. /\ Len(mat[i]) \in Nat /\ its[i] <= Len(mat[i]) + 1
      /\ take => /\ its[i] \in 1 .. Len(mat[i])
                 /\ mat[i][its[i]] = sb + j
                 /\ <<i, sb + j>> \in Blocks
  BY <1>2, RowFacts DEF PInv, Ctl, HasNext, Curr, Blocks
<1>4. /\ its'[i] = IF take THEN its[i] + 1 ELSE its[i]
      /\ \A r \in Rows \ {i} : its'[r] = its[r]
  BY <1>2
<1>4a. \A k \in 1 .. its[i] - 1 : mat[i][k] < sb + j
  <2>1. Bound(i) = sb + j
    BY <1>2 DEF Bound, Reach, Rows
  <2> QED  BY <1>2, <2>1 DEF PInv, Behind
<1>5. \A b \in Blocks :
        b \in Taken' <=> b \in Taken \/ (take /\ b = <<i, sb + j>>)
  <2> SUFFICES ASSUME NEW b \in Blocks
               PROVE  b \in Taken' <=> b \in Taken \/ (take /\ b = <<i, sb + j>>)
    OBVIOUS
  <2>1. b[1] \in Rows /\ b = <<b[1], b[2]>>
    BY DEF Blocks
  <2>2. CASE b[1] # i
    BY <1>2, <1>4, <2>1, <2>2 DEF Taken
  <2>3. CASE b[1] = i /\ take
    <3>1. 1 .. its'[i] - 1 = (1 .. its[i] - 1) \cup {its[i]}
      BY <1>2, <1>4, <2>3
    <3> QED  BY <1>2, <1>3, <2>1, <2>3, <3>1 DEF Taken
  <2>4. CASE b[1] = i /\ ~take
    BY <1>2, <1>4, <2>4 DEF Taken
  <2> QED  BY <2>2, <2>3, <2>4
<1>6. Ctl'
  <2>1. \A r \in Rows : its'[r] <= Len(mat'[r]) + 1
    BY <1>2, <1>3, <1>4 DEF PInv, Ctl, HasNext
  <2> QED  BY <1>2, <2>1 DEF PInv, Ctl, ExecLen
<1>7. Proc'
  BY <1>2 DEF PInv, Proc
<1>8. Behind'
  <2> SUFFICES ASSUME NEW r \in Rows, NEW k \in 1 .. its'[r] - 1
               PROVE  mat'[r][k] < Bound(r)'
    BY DEF Behind
  <2>1. Bound(r)' = IF r < i THEN sb + NB ELSE IF r = i THEN sb + j + 1 ELSE sb
    BY <1>2 DEF Bound, Reach
  <2>2. Bound(r) = IF r < i THEN sb + NB ELSE IF r = i THEN sb + j ELSE sb
    BY <1>2 DEF Bound, Reach
  <2>3. CASE r # i
    BY <1>2, <1>4, <2>1, <2>2, <2>3 DEF PInv, Behind, Rows
  <2>0. Bound(i)' = sb + j + 1
    BY <1>2 DEF Bound, Reach, Rows
  <2>4. CASE r = i /\ k < its[i]
    <3>1. k \in 1 .. its[i] - 1
      BY <1>2, <2>4
    <3>2. mat[i][k] < sb + j
      BY <1>4a, <3>1
    <3>3. mat[i][k] \in Nat
      BY <1>2, <1>3, <3>1, RowFacts
    <3> QED  BY <1>2, <2>0, <2>4, <3>2, <3>3
  <2>5. CASE r = i /\ k >= its[i]
    <3>1. take /\ k = its[i]
      BY <1>2, <1>4, <2>5
    <3> QED  BY <1>2, <1>3, <2>0, <2>5, <3>1
  <2> QED  BY <1>2, <2>3, <2>4, <2>5
<1>9. Got'
  <2>1. Visited' = {} /\ Visited = {}
    BY <1>2 DEF Visited
  <2>2. {b \in Taken' : b[2] < sb} = {b \in Taken : b[2] < sb}
    <3>1. Taken' \subseteq Blocks /\ Taken \subseteq Blocks
      BY DEF Taken
    <3>2. ASSUME NEW b \in Blocks, b[2] < sb PROVE b \in Taken' <=> b \in Taken
      <4>1. b # <<i, sb + j>>
        BY <1>2, <3>2
      <4> QED  BY <1>5, <4>1
    <3> QED  BY <3>1, <3>2
  <2> QED  BY <1>2, <2>1, <2>2 DEF PInv, Got
<1>10. Found'
  <2> SUFFICES ASSUME NEW r \in Rows, NEW c \in 0 .. NB - 1, Scanned(r, c)'
               PROVE  blocks'[r * NB + c] # Null <=> <<r, sb + c>> \in Taken'
    BY <1>2 DEF Found
  <2>0. Taken' \subseteq Blocks /\ Taken \subseteq Blocks /\ i * NB + j \in Idx
    BY <1>2, IdxIn DEF Taken
  <2>1. CASE r = i /\ c = j
    <3>1. blocks'[i * NB + j] = IF take THEN <<i, Curr(i)>> ELSE Null
      BY <1>2, <2>0
    <3>2. CASE take
      <4>1. <<i, Curr(i)>> # Null
        BY <1>2 DEF Null, Rows
      <4>2. <<i, sb + j>> \in Taken'
        BY <1>3, <1>5, <3>2
      <4> QED  BY <2>1, <3>1, <3>2, <4>1, <4>2
    <3>3. CASE ~take
      <4>1. <<i, sb + j>> \notin Taken
        <5> SUFFICES ASSUME <<i, sb + j>> \in Taken PROVE FALSE
          OBVIOUS
        <5>1. PICK k \in 1 .. its[i] - 1 : mat[i][k] = sb + j
          BY DEF Taken
        <5>2. mat[i][k] < sb + j
          BY <1>4a
        <5> QED  BY <1>2, <5>1, <5>2
      <4>2. <<i, sb + j>> \notin Taken'
        BY <1>5, <2>0, <3>3, <4>1
      <4>3. Null # <<i, sb + j>> => Null = Null
        OBVIOUS
      <4> QED  BY <2>1, <3>1, <3>3, <4>2
    <3> QED  BY <3>2, <3>3
  <2>2. CASE ~(r = i /\ c = j)
    <3>1. Scanned(r, c)
      BY <1>2, <2>2 DEF Scanned
    <3>2. r * NB + c # i * NB + j /\ r * NB + c \in Idx
      <4>0. r \in Nat /\ i \in Nat
        BY <1>2 DEF Rows
      <4>1. r * NB + c = i * NB + j => r = i /\ c = j
        BY <1>2, <4>0, IdxInj
      <4> QED  BY <2>2, <4>1, IdxIn
    <3>3. blocks'[r * NB + c] = blocks[r * NB + c]
      BY <1>2, <3>2
    <3>4. <<r, sb + c>> \in Taken' <=> <<r, sb + c>> \in Taken
      <4>1. <<r, sb + c>> # <<i, sb + j>>
        BY <1>2, <2>2
      <4>2. CASE <<r, sb + c>> \in Blocks
        BY <1>5, <4>1, <4>2
      <4>3. CASE <<r, sb + c>> \notin Blocks
        BY <2>0, <4>3
      <4> QED  BY <4>2, <4>3
    <3> QED  BY <1>2, <3>1, <3>3, <3>4 DEF PInv, Found
  <2> QED  BY <2>1, <2>2
<1>11. More'
  <2>1. \A r \in 0 .. i - 1 : HasNext(r)' = HasNext(r)
    BY <1>2, <1>4 DEF HasNext, Rows
  <2> QED  BY <1>2, <2>1 DEF PInv, More
<1> QED  BY <1>1, <1>6, <1>7, <1>8, <1>9, <1>10, <1>11 DEF PInv


(* The end of a row of the super block: has_blocks |= its[i].has_next().    *)
LEMMA RowEndPInv ==
  ASSUME PInv, RowEnd
  PROVE  PInv'
<1> USE NBPos
<1>1. IInv'
  BY NextIInv DEF PInv, Next
<1>2. /\ pc = "scan" /\ i \in Rows /\ j = NB /\ sb \in Nat /\ pos = 0
      /\ i' = i + 1 /\ j' = 0 /\ pc' = IF i + 1 = NB THEN "exec" ELSE "scan"
      /\ has_blocks' = (has_blocks \/ HasNext(i))
      /\ UNCHANGED <<mat, order, exec_order, its, oob, sb, blocks, pos, processed>>
  BY DEF RowEnd, PInv, IInv, Ctl, Rows
<1>3. \A r \in Rows : Bound(r)' = Bound(r)
  BY <1>2 DEF Bound, Reach, Rows
<1>4. Taken' = Taken /\ Visited' = Visited
  BY <1>2 DEF Taken, Visited, Entry
<1>5. \A r \in Rows, c \in 0 .. NB - 1 : Scanned(r, c)' <=> Scanned(r, c)
  BY <1>2 DEF Scanned, Rows
<1>6. \A r \in Rows : HasNext(r)' = HasNext(r)
  BY <1>2 DEF HasNext
<1>7. Ctl' /\ Proc'
  BY <1>2 DEF PInv, Ctl, Proc, ExecLen
<1>8. Behind' /\ Got'
  BY <1>2, <1>3, <1>4 DEF PInv, Behind, Got
<1>9. Found'
  BY <1>2, <1>4, <1>5 DEF PInv, Found
<1>10. More'
  <2>1. CASE i + 1 = NB
    <3>1. Rows = 0 .. i
      BY <1>2, <2>1 DEF Rows
    <3>2. has_blocks' <=> \E r \in 0 .. i : HasNext(r)
      <4>1. has_blocks <=> \E r \in 0 .. i - 1 : HasNext(r)
        BY <1>2 DEF PInv, More
      <4>2. i \in Nat
        BY <1>2 DEF Rows
      <4>3. \A r : r \in 0 .. i <=> r \in 0 .. i - 1 \/ r = i
        BY <4>2
      <4>4. has_blocks' = (has_blocks \/ HasNext(i))
        BY <1>2
      <4> QED  BY <4>1, <4>3, <4>4, Zenon
    <3> QED  BY <1>2, <1>6, <2>1, <3>1, <3>2 DEF More
  <2>2. CASE i + 1 # NB
    <3>1. 0 .. i' - 1 = (0 .. i - 1) \cup {i} /\ (0 .. i) \subseteq Rows
      BY <1>2, <2>2 DEF Rows
    <3>2. has_blocks' <=> \E r \in 0 .. i : HasNext(r)
      <4>1. has_blocks <=> \E r \in 0 .. i - 1 : HasNext(r)
        BY <1>2 DEF PInv, More
      <4>2. i \in Nat
        BY <1>2 DEF Rows
      <4>3. \A r : r \in 0 .. i <=> r \in 0 .. i - 1 \/ r = i
        BY <4>2
      <4>4. has_blocks' = (has_blocks \/ HasNext(i))
        BY <1>2
      <4> QED  BY <4>1, <4>3, <4>4, Zenon
    <3> QED  BY <1>2, <1>6, <2>2, <3>1, <3>2 DEF More
  <2> QED  BY <2>1, <2>2
<1> QED  BY <1>1, <1>7, <1>8, <1>9, <1>10 DEF PInv

(* One turn of the exec loop runs a block of this super block that was not *)
(* run before.                                                             *)
LEMMA ExecBlockPInv ==
  ASSUME PInv, ExecBlock, HOrderIsGrid
  PROVE  PInv'
<1> USE NBPos
<1>1. IInv'
  BY NextIInv DEF PInv, Next
<1>2. /\ pc = "exec" /\ i = NB /\ sb \in Nat
      /\ pos \in 0 .. NB * NB - 1 /\ pos' = pos + 1
      /\ processed' = IF blocks[Entry(pos)] # Null
                        THEN Append(processed, blocks[Entry(pos)]) ELSE processed
      /\ UNCHANGED <<mat, order, exec_order, pc, its, oob, i, j, sb, has_blocks, blocks>>
      /\ blocks \in [Idx -> Blocks \cup {Null}]
      /\ processed \in Seq(Blocks) /\ IsInjective(processed)
  <2>1. ExecLen = NB * NB
    BY EntryFacts DEF PInv, Ctl
  <2> QED  BY <2>1 DEF ExecBlock, PInv, IInv, Ctl, Proc
<1>3. /\ ExecLen = NB * NB
      /\ \A p \in 0 .. NB * NB - 1 : Entry(p) \in Idx
      /\ \A p, q \in 0 .. NB * NB - 1 : Entry(p) = Entry(q) => p = q
      /\ \A p \in Nat : Entry(p)' = Entry(p)
      /\ ExecLen' = ExecLen
  <2>1. /\ ExecLen = NB * NB
        /\ \A p \in 0 .. NB * NB - 1 : Entry(p) \in Idx
        /\ \A p, q \in 0 .. NB * NB - 1 : Entry(p) = Entry(q) => p = q
    BY EntryFacts DEF PInv, Ctl
  <2>2. \A p \in Nat : Entry(p)' = Entry(p)
    BY <1>2 DEF Entry
  <2>3. ExecLen' = ExecLen
    BY <1>2 DEF ExecLen
  <2> QED  BY <2>1, <2>2, <2>3
<1>4. \A p \in 0 .. NB * NB - 1 :
        blocks[Entry(p)] # Null =>
          \E r \in Rows, c \in 0 .. NB - 1 :
            /\ Entry(p) = r * NB + c
            /\ blocks[Entry(p)] = <<r, sb + c>>
  <2> SUFFICES ASSUME NEW p \in 0 .. NB * NB - 1, blocks[Entry(p)] # Null
               PROVE  \E r \in Rows, c \in 0 .. NB - 1 :
                        /\ Entry(p) = r * NB + c
                        /\ blocks[Entry(p)] = <<r, sb + c>>
    OBVIOUS
  <2>1. Entry(p) \div NB \in Rows /\ Entry(p) % NB \in 0 .. NB - 1
        /\ Entry(p) = (Entry(p) \div NB) * NB + (Entry(p) % NB)
    BY <1>3, IdxSplit
  <2>2. Scanned(Entry(p) \div NB, Entry(p) % NB)
    BY <1>2, <2>1 DEF Scanned, Rows
  <2> QED  BY <1>2, <2>1, <2>2 DEF PInv, IInv
<1>5. Visited' = Visited \cup ({blocks[Entry(pos)]} \ {Null})
  <2>1. 0 .. pos' - 1 = (0 .. pos - 1) \cup {pos}
    BY <1>2
  <2> QED  BY <1>2, <1>3, <2>1 DEF Visited, Entry
<1>6. Behind' = Behind /\ Found' = Found /\ More' = More /\ Taken' = Taken
  <2>1. Taken' = Taken /\ \A r \in Rows : Bound(r)' = Bound(r)
    BY <1>2 DEF Taken, Bound, Reach
  <2>2. Behind' = Behind
    BY <1>2, <2>1 DEF Behind
  <2>3. Found' = Found
    BY <1>2, <2>1 DEF Found, Scanned
  <2>4. More' = More
    BY <1>2 DEF More, HasNext
  <2> QED  BY <2>1, <2>2, <2>3, <2>4
<1>7. CASE blocks[Entry(pos)] = Null
  <2>1. processed' = processed /\ Visited' = Visited
    BY <1>2, <1>5, <1>7
  <2>2. Ctl' /\ Proc' /\ Got'
    BY <1>2, <1>3, <1>6, <2>1 DEF PInv, Ctl, Proc, Got
  <2> QED  BY <1>1, <1>6, <2>2 DEF PInv
<1>8. CASE blocks[Entry(pos)] # Null
  <2> DEFINE e == blocks[Entry(pos)]
  <2>1. PICK r \in Rows, c \in 0 .. NB - 1 : Entry(pos) = r * NB + c /\ e = <<r, sb + c>>
    BY <1>2, <1>4, <1>8
  <2>2. e \in Blocks
    BY <1>2, <1>3, <1>8
  <2>3. e \notin {b \in Taken : b[2] < sb}
    BY <1>2, <2>1
  <2>4. e \notin Visited
    <3> SUFFICES ASSUME NEW p \in 0 .. pos - 1, blocks[Entry(p)] = e PROVE FALSE
      BY DEF Visited
    <3>1. p \in 0 .. NB * NB - 1 /\ p # pos
      BY <1>2
    <3>2. PICK r2 \in Rows, c2 \in 0 .. NB - 1 :
            Entry(p) = r2 * NB + c2 /\ blocks[Entry(p)] = <<r2, sb + c2>>
      BY <1>2, <1>4, <1>8, <3>1
    <3>3. r2 = r /\ c2 = c
      BY <1>2, <2>1, <3>2
    <3>4. Entry(p) = Entry(pos)
      BY <2>1, <3>2, <3>3
    <3> QED  BY <1>2, <1>3, <3>1, <3>4
  <2>5. e \notin Range(processed)
    BY <2>3, <2>4 DEF PInv, Got
  <2>6. processed' = Append(processed, e)
    BY <1>2, <1>8
  <2>7. Proc' /\ Range(processed') = Range(processed) \cup {e}
    BY <1>2, <2>2, <2>5, <2>6, AppendFacts DEF Proc
  <2>8. Got'
    <3>1. Taken' = Taken
      BY <1>2 DEF Taken
    <3> QED  BY <1>2, <1>5, <1>8, <2>7, <3>1 DEF PInv, Got
  <2>9. Ctl'
    BY <1>2, <1>3 DEF PInv, Ctl
  <2>10. Behind' /\ Found' /\ More'
    BY <1>2, <1>6 DEF PInv
  <2> QED  BY <1>1, <2>7, <2>8, <2>9, <2>10 DEF PInv
<1> QED  BY <1>7, <1>8


(* When the exec loop ends it has run every block taken in this super      *)
(* block; sb_col_idx moves past them.                                      *)
LEMMA ExecEndPInv ==
  ASSUME PInv, ExecEnd, HOrderIsGrid
  PROVE  PInv'
<1> USE NBPos
<1>1. IInv'
  BY NextIInv DEF PInv, Next
<1>2. /\ pc = "exec" /\ i = NB /\ sb \in Nat /\ sb' = sb + NB /\ pos' = 0
      /\ has_blocks' = FALSE
      /\ has_blocks => pc' = "scan" /\ i' = 0 /\ j' = 0
      /\ ~has_blocks => pc' = "done"
      /\ UNCHANGED <<mat, order, exec_order, its, oob, blocks, processed>>
      /\ blocks \in [Idx -> Blocks \cup {Null}]
  BY DEF ExecEnd, PInv, IInv
<1>3. /\ pos = NB * NB
      /\ \A p \in 0 .. NB * NB - 1 : Entry(p) \in Idx
      /\ \A k \in Idx : \E p \in 0 .. NB * NB - 1 : Entry(p) = k
      /\ ExecLen' = ExecLen
  <2>1. /\ ExecLen = NB * NB
        /\ \A p \in 0 .. NB * NB - 1 : Entry(p) \in Idx
        /\ \A k \in Idx : \E p \in 0 .. NB * NB - 1 : Entry(p) = k
    BY EntryFacts DEF PInv, Ctl
  <2>2. pos = ExecLen /\ ExecLen' = ExecLen
    BY <1>2 DEF ExecEnd, ExecLen
  <2> QED  BY <2>1, <2>2
<1>4. \A r \in Rows, c \in 0 .. NB - 1 :
        /\ blocks[r * NB + c] # Null => blocks[r * NB + c] = <<r, sb + c>>
        /\ blocks[r * NB + c] # Null <=> <<r, sb + c>> \in Taken
  <2> SUFFICES ASSUME NEW r \in Rows, NEW c \in 0 .. NB - 1
               PROVE  /\ blocks[r * NB + c] # Null => blocks[r * NB + c] = <<r, sb + c>>
                      /\ blocks[r * NB + c] # Null <=> <<r, sb + c>> \in Taken
    OBVIOUS
  <2>1. Scanned(r, c)
    BY <1>2 DEF Scanned, Rows
  <2> QED  BY <1>2, <2>1 DEF PInv, IInv, Found
<1>5. Visited = {b \in Taken : sb <= b[2] /\ b[2] < sb + NB}
  <2>1. ASSUME NEW x \in Visited PROVE x \in Taken /\ sb <= x[2] /\ x[2] < sb + NB
    <3>1. PICK p \in 0 .. pos - 1 : x = blocks[Entry(p)] /\ x # Null
      BY DEF Visited
    <3>2. Entry(p) \in Idx
      BY <1>3, <3>1
    <3>3. Entry(p) \div NB \in Rows /\ Entry(p) % NB \in 0 .. NB - 1
          /\ Entry(p) = (Entry(p) \div NB) * NB + (Entry(p) % NB)
      BY <3>2, IdxSplit
    <3>4. /\ x = <<Entry(p) \div NB, sb + (Entry(p) % NB)>>
          /\ <<Entry(p) \div NB, sb + (Entry(p) % NB)>> \in Taken
      BY <1>4, <3>1, <3>3
    <3> QED  BY <1>2, <3>3, <3>4
  <2>2. ASSUME NEW b \in Taken, sb <= b[2], b[2] < sb + NB PROVE b \in Visited
    <3>1. b[1] \in Rows /\ b[2] - sb \in 0 .. NB - 1 /\ b = <<b[1], sb + (b[2] - sb)>>
      BY <1>2, <2>2 DEF Taken, Blocks, Cols
    <3>2. b[1] * NB + (b[2] - sb) \in Idx
      BY <3>1, IdxIn
    <3>3. PICK p \in 0 .. NB * NB - 1 : Entry(p) = b[1] * NB + (b[2] - sb)
      BY <1>3, <3>2
    <3>4. blocks[Entry(p)] = b /\ b # Null
      BY <1>4, <2>2, <3>1, <3>3
    <3> QED  BY <1>3, <3>3, <3>4 DEF Visited
  <2> QED  BY <2>1, <2>2
<1>6. \A b \in Taken : b[2] < sb + NB
  <2> SUFFICES ASSUME NEW b \in Taken PROVE b[2] < sb + NB
    OBVIOUS
  <2>1. PICK k \in 1 .. its[b[1]] - 1 : mat[b[1]][k] = b[2]
    BY DEF Taken
  <2>2. b[1] \in Rows /\ Bound(b[1]) = sb + NB
    BY <1>2 DEF Taken, Blocks, Bound, Reach, Rows
  <2> QED  BY <2>1, <2>2 DEF PInv, Behind
<1>7. Got'
  <2>1. Taken' = Taken /\ Visited' = {}
    BY <1>2 DEF Taken, Visited
  <2>2. Range(processed) = {b \in Taken : b[2] < sb + NB}
    <3>1. \A b \in Taken : b[2] \in Nat
      BY DEF Taken, Blocks, Cols
    <3> QED  BY <1>2, <1>5, <1>6, <3>1 DEF PInv, Got
  <2> QED  BY <1>2, <2>1, <2>2 DEF Got
<1>8. Behind'
  <2>1. \A r \in Rows : Bound(r)' = sb + NB /\ Bound(r) = sb + NB
    BY <1>2 DEF Bound, Reach, Rows
  <2> QED  BY <1>2, <2>1 DEF PInv, Behind
<1>9. Found' /\ More'
  <2>1. CASE has_blocks
    <3>1. \A r \in Rows, c \in 0 .. NB - 1 : ~Scanned(r, c)'
      BY <1>2, <2>1 DEF Scanned, Rows
    <3> QED  BY <1>2, <2>1, <3>1 DEF Found, More
  <2>2. CASE ~has_blocks
    <3>1. \A r \in Rows : ~HasNext(r)
      BY <1>2, <2>2 DEF PInv, More
    <3> QED  BY <1>2, <2>2, <3>1 DEF Found, More, HasNext
  <2> QED  BY <2>1, <2>2
<1>10. Ctl' /\ Proc'
  <2>1. pc' \in {"scan", "done"}
    BY <1>2 DEF PInv, Ctl
  <2>2. pos' \in 0 .. ExecLen'
    BY <1>2 DEF ExecLen
  <2> QED  BY <1>2, <2>1, <2>2 DEF PInv, Ctl, Proc
<1> QED  BY <1>1, <1>7, <1>8, <1>9, <1>10 DEF PInv


LEMMA NextPInv == HOrderIsGrid => (PInv /\ [Next]_vars => PInv')
<1> SUFFICES ASSUME HOrderIsGrid, PInv, [Next]_vars PROVE PInv'
  OBVIOUS
<1>1. CASE Ctor
  BY <1>1, CtorPInv
<1>2. CASE Build
  BY <1>2, BuildPInv
<1>3. CASE Scan
  BY <1>3, ScanPInv
<1>4. CASE RowEnd
  BY <1>4, RowEndPInv
<1>5. CASE ExecBlock
  BY <1>5, ExecBlockPInv
<1>6. CASE ExecEnd
  BY <1>6, ExecEndPInv
<1>7. CASE UNCHANGED vars
  <2>1. IInv'
    BY <1>7, NextIInv DEF PInv
  <2>2. Ctl' /\ Proc'
    BY <1>7 DEF vars, PInv, Ctl, Proc, ExecLen
  <2>3. Taken' = Taken /\ Visited' = Visited /\ \A r \in Rows : Bound(r)' = Bound(r)
    BY <1>7 DEF vars, Taken, Visited, Entry, Bound, Reach
  <2>4. Behind' /\ Got'
    BY <1>7, <2>3 DEF vars, PInv, Behind, Got
  <2>5. Found' /\ More'
    BY <1>7, <2>3 DEF vars, PInv, Found, More, Scanned, HasNext
  <2> QED  BY <2>1, <2>2, <2>4, <2>5 DEF PInv
<1> QED  BY <1>1, <1>2, <1>3, <1>4, <1>5, <1>6, <1>7 DEF Next

LEMMA PInvHolds == HOrderIsGrid => (Spec => []PInv)
<1> SUFFICES ASSUME HOrderIsGrid PROVE Spec => []PInv
  OBVIOUS
<1>1. Init => PInv
  BY InitPInv
<1>2. PInv /\ [Next]_vars => PInv'
  BY NextPInv
<1> QED  BY <1>1, <1>2, PTL DEF Spec

(* The blocks the exec loop has run in this super block were taken.       *)
LEMMA VisitedTaken ==
  ASSUME PInv, HOrderIsGrid
  PROVE  Visited \subseteq Taken
<1> USE NBPos
<1> SUFFICES ASSUME NEW p \in 0 .. pos - 1, blocks[Entry(p)] # Null
             PROVE  blocks[Entry(p)] \in Taken
  BY DEF Visited
<1>1. pc = "exec" /\ i = NB /\ p \in 0 .. NB * NB - 1
  <2>1. ExecLen = NB * NB
    BY EntryFacts DEF PInv, Ctl
  <2> QED  BY <2>1 DEF PInv, Ctl, IInv
<1>2. Entry(p) \in Idx
  BY <1>1, EntryFacts DEF PInv, Ctl
<1>3. Entry(p) \div NB \in Rows /\ Entry(p) % NB \in 0 .. NB - 1
      /\ Entry(p) = (Entry(p) \div NB) * NB + (Entry(p) % NB)
  BY <1>2, IdxSplit
<1>4. Scanned(Entry(p) \div NB, Entry(p) % NB)
  BY <1>1, <1>3 DEF Scanned, Rows
<1>5. blocks[Entry(p)] = <<Entry(p) \div NB, sb + (Entry(p) % NB)>>
  BY <1>1, <1>3, <1>4 DEF PInv, IInv
<1> QED  BY <1>1, <1>3, <1>4, <1>5 DEF PInv, Found

(* The inductive invariant gives ProcessedExactlyOnce in the same state. *)
LEMMA PInvProcessed ==
  ASSUME PInv, HOrderIsGrid
  PROVE  ProcessedExactlyOnce
<1>1. Taken \subseteq AllBlocks
  <2> SUFFICES ASSUME NEW b \in Taken PROVE b \in AllBlocks
    OBVIOUS
  <2>1. PICK k \in 1 .. its[b[1]] - 1 : mat[b[1]][k] = b[2]
    BY DEF Taken
  <2>2. /\ b \in Blocks /\ its[b[1]] <= Len(mat[b[1]]) + 1 /\ its[b[1]] \in Nat
        /\ mat[b[1]] \in BlockRows
    BY DEF Taken, Blocks, PInv, Ctl, IInv
  <2>3. k \in DOMAIN mat[b[1]]
    <3>1. mat[b[1]] \in Seq(Cols) /\ Len(mat[b[1]]) \in Nat
      BY <2>2, RowFacts
    <3>2. k \in 1 .. Len(mat[b[1]])
      BY <2>2, <3>1
    <3> QED  BY <3>1, <3>2
  <2> QED  BY <2>1, <2>2, <2>3 DEF AllBlocks
<1>2. Range(processed) \subseteq AllBlocks
  BY <1>1, VisitedTaken DEF PInv, Got
<1>3. ASSUME pc = "done" PROVE Range(processed) = AllBlocks
  <2>1. Visited = {}
    BY <1>3 DEF PInv, Ctl, Visited
  <2>2. AllBlocks \subseteq Taken
    <3> SUFFICES ASSUME NEW b \in AllBlocks PROVE b \in Taken
      OBVIOUS
    <3>1. PICK k \in DOMAIN mat[b[1]] : mat[b[1]][k] = b[2]
      BY DEF AllBlocks
    <3>2. b[1] \in Rows /\ b \in Blocks /\ mat[b[1]] \in BlockRows
      BY DEF AllBlocks, Blocks, PInv, IInv
    <3>3. its[b[1]] = Len(mat[b[1]]) + 1 /\ k \in 1 .. Len(mat[b[1]])
      <4>1. mat[b[1]] \in Seq(Cols) /\ Len(mat[b[1]]) \in Nat
        BY <3>2, RowFacts
      <4>2. ~HasNext(b[1]) /\ its[b[1]] <= Len(mat[b[1]]) + 1 /\ its[b[1]] \in Nat
        BY <1>3, <3>2 DEF PInv, More, Ctl, IInv
      <4>3. its[b[1]] = Len(mat[b[1]]) + 1
        BY <4>1, <4>2 DEF HasNext
      <4> QED  BY <3>1, <4>1, <4>3
    <3> QED  BY <3>1, <3>2, <3>3 DEF Taken
  <2>3. \A b \in Taken : b[2] < sb
    <3> SUFFICES ASSUME NEW b \in Taken PROVE b[2] < sb
      OBVIOUS
    <3>1. PICK k \in 1 .. its[b[1]] - 1 : mat[b[1]][k] = b[2]
      BY DEF Taken
    <3>2. b[1] \in Rows /\ Bound(b[1]) = sb
      BY <1>3 DEF Taken, Blocks, Bound
    <3> QED  BY <3>1, <3>2 DEF PInv, Behind
  <2> QED  BY <1>1, <2>1, <2>2, <2>3 DEF PInv, Got
<1> QED  BY <1>2, <1>3 DEF PInv, Proc, ProcessedExactlyOnce

(* Every block of the task is passed to run_on_block exactly once, by      *)
(* either exec order, for every number of block rows, every width and     *)
(* every content of the block rows, given that hilbert_orders lists the    *)
(* cells of its grid once each, as its constructor makes it do.           *)
THEOREM ProcessedExactlyOnceInvariant ==
  HOrderIsGrid => (Spec => []ProcessedExactlyOnce)
<1> SUFFICES ASSUME HOrderIsGrid PROVE Spec => []ProcessedExactlyOnce
  OBVIOUS
<1>1. PInv => ProcessedExactlyOnce
  BY PInvProcessed
<1> QED  BY <1>1, PInvHolds, PTL

(* run() keeps every variable of the task within its type, the processed  *)
(* blocks among them: exec never runs a NULL entry of the super block.    *)
THEOREM TypeOKInvariant == HOrderIsGrid => (Spec => []TypeOK)
<1> SUFFICES ASSUME HOrderIsGrid PROVE Spec => []TypeOK
  OBVIOUS
<1>1. PInv => TypeOK
  <2> SUFFICES ASSUME PInv PROVE TypeOK
    OBVIOUS
  <2>1. pos \in 0 .. NB * NB
    <3>1. ExecLen \in {0, NB * NB}
      BY DEF ExecLen
    <3> QED  BY <3>1, NBPos DEF PInv, Ctl
  <2> QED  BY <2>1 DEF PInv, IInv, Ctl, Proc, TypeOK
<1> QED  BY <1>1, PInvHolds, PTL

=============================================================================
