----------------------------- MODULE MCAccounts -----------------------------
(***************************************************************************)
(* A small instance of Accounts for TLC.                                   *)
(***************************************************************************)
EXTENDS Accounts, TLC

(* Calls differ only in what they do.                                      *)
Symmetry == Permutations(Calls)
=============================================================================
