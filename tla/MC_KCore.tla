------------------------------ MODULE MC_KCore ------------------------------
(* Model-checking instances of KCore: small graphs on which peeling        *)
(* cascades across levels and across the two workers.                      *)
EXTENDS KCore

(* Graph E1 of the specification: two directed triangles joined by 2->3;  *)
(* at k = 3 the degree-2 vertices go in level 0 and 2, 3 in level 1.       *)
GraphE1 == {<<0, 1>>, <<1, 2>>, <<2, 0>>, <<2, 3>>, <<3, 4>>, <<4, 5>>,
            <<5, 3>>}

(* E1 with a pendant chain 7 -> 6 -> 1 and a pendant 8 -> 2: at k = 2 the *)
(* chain is peeled over two levels, 1 drops to exactly degree 2 and stays, *)
(* 2 drops to 3 and returns early, and deleted vertices receive messages.  *)
GraphMix == GraphE1 \cup {<<6, 1>>, <<7, 6>>, <<8, 2>>}

(* A 4-clique 0..3 (every vertex of degree 3), vertex 4 with out-edges to  *)
(* 0 and 1, and a pendant 5 -> 4: at k = 2 the pendant goes and 4 keeps    *)
(* degree 2, so 4 is outside the 3-core but has 3 edges in the index.      *)
GraphStale == {<<0, 1>>, <<0, 2>>, <<0, 3>>, <<1, 2>>, <<1, 3>>, <<2, 3>>,
               <<4, 0>>, <<4, 1>>, <<5, 4>>}
=============================================================================
