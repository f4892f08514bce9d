--------------------------- MODULE MC_MatrixInit ---------------------------
(* Model-checking instances of MatrixInit: three library users.            *)
EXTENDS MatrixInit

CONSTANTS t1, t2, t3

(* The users are interchangeable threads.                                  *)
ThreadSet == {t1, t2, t3}
=============================================================================
