----------------------------- MODULE MCTaskEngine -----------------------------
(* Small plans for TLC. *)
EXTENDS TaskEngine

CONSTANTS a, b, c, p1, p2, x1, x2

NoDeps == {}
PairDeps == {<<a, b>>}
ChainDeps == {<<a, b>>, <<b, c>>}
JoinDeps == {<<a, c>>, <<b, c>>}
=============================================================================
