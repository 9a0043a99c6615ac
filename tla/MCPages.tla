------------------------------ MODULE MCPages ------------------------------
(***************************************************************************)
(* A small instance of Pages for TLC: every page in turn, with two calls   *)
(* of its own and one made elsewhere.  A list, whose filters add to the    *)
(* interleavings, has fewer loads and calls together.                      *)
(***************************************************************************)
EXTENDS Pages, FiniteSets, TLC

CONSTANTS k1, k2, o1

Started == {c \in Calls : call[c].state # "idle"}

Budget == IF page.search = "timer" THEN 3 ELSE 4

SmallLists == page.filter # "none" => issued + Cardinality(Started) <= Budget

Symmetric == Permutations({k1, k2})
=============================================================================
