--------------------------- MODULE MCWalletAccount ---------------------------
(***************************************************************************)
(* Small instances of WalletAccount for TLC.                               *)
(***************************************************************************)
EXTENDS WalletAccount, TLC

CONSTANTS t1, b1, s1, d1, d2, a1

(* The award earns the points of one of the two redemptions.               *)
MCAmountOf == [h \in Handlers |-> IF h = s1 THEN 2 ELSE 1]

(* The two redemptions are alike.                                          *)
Redemptions == Permutations({d1, d2})
=============================================================================
