--------------------------- MODULE MCCreditBooking ---------------------------
(***************************************************************************)
(* Small instances of CreditBooking for TLC.                               *)
(***************************************************************************)
EXTENDS CreditBooking

CONSTANTS c1, r1, r2, k1, k2, a1, o1

(* Two requests of one agency that its credit cannot both afford.          *)
SameCompany == [r \in Requests \cup OnlineBookings |-> c1]

(* Both cancel calls name the booking of r1: two tabs, or a retried click. *)
CancelsOfR1 == [k \in Cancels |-> r1]

(* Each booking is cancelled by one call.                                  *)
CancelsApart == [k \in Cancels |-> IF k = k1 THEN r1 ELSE r2]

(* The admin refunds the booking that is cancelled, or one paid online.    *)
RefundsOfR1 == [a \in Refunds |-> r1]
RefundsOnline == [a \in Refunds |-> o1]
=============================================================================
