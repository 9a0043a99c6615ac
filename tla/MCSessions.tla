----------------------------- MODULE MCSessions -----------------------------
(***************************************************************************)
(* A small instance of Sessions for TLC: two tabs, one of them with        *)
(* several requests at a time.                                             *)
(***************************************************************************)
EXTENDS Sessions

CONSTANTS t1, t2, r1, r2, r3

MCTabOf == [r \in Requests |-> IF r = r3 THEN t2 ELSE t1]
=============================================================================
