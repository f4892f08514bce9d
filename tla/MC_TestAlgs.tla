----------------------------- MODULE MC_TestAlgs -----------------------------
(* The algorithm names tried by the runs of the test_algs driver.          *)
EXTENDS TestAlgs

AllAlgs == Known \cup {"no_such_alg"}
KnownAlgs == Known
=============================================================================
