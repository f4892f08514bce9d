-------------------------- MODULE MC_GlobalPermute --------------------------
(* Three workloads over four pages, ranges [0, 1), [1, 3) and [3, 4).      *)
EXTENDS GlobalPermute, TLC

CONSTANTS t1, t2, t3

MCThreads == {t1, t2, t3}
MCBounds == (t1 :> <<0, 1>>) @@ (t2 :> <<1, 3>>) @@ (t3 :> <<3, 4>>)
=============================================================================
