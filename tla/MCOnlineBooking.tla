-------------------------- MODULE MCOnlineBooking --------------------------
(***************************************************************************)
(* A small instance of OnlineBooking for TLC.  Bookings do not meet one    *)
(* another: one of them, with all the calls about it, shows every case.    *)
(***************************************************************************)
EXTENDS OnlineBooking, TLC

CONSTANTS b1, c1, c2, r1, r2, r3

MCBookingOf == [c \in Calls |-> b1]

Symmetric == Permutations({c1, c2}) \cup Permutations({r1, r2, r3})
=============================================================================
