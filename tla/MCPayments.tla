----------------------------- MODULE MCPayments -----------------------------
(***************************************************************************)
(* Small instances of Payments for TLC.                                    *)
(***************************************************************************)
EXTENDS Payments

CONSTANTS p1, p2, v1, w1, w2, w3, f1, f2

(* p1 tops the wallet up, p2 pays a booking.                               *)
MCTypeOf == [p \in Payments |-> IF p = p1 THEN "wallet_topup" ELSE "booking_online"]

(* Two refunds of 1 fit in a payment of 2, two of 2 do not.                *)
MCAmountOf == [p \in Payments |-> 2]
=============================================================================
