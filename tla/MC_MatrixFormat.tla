---------------------------- MODULE MC_MatrixFormat ----------------------------
(* The instances of the 2D block format checked by TLC.                    *)
EXTENDS MatrixFormat
=============================================================================
