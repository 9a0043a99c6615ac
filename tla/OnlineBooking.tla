--------------------------- MODULE OnlineBooking ---------------------------
(***************************************************************************)
(* Bookings paid by card: the online branch of BookingsService.            *)
(* createBooking, cancelBooking, and what administrators do to such a      *)
(* booking with updateBookingStatus and refundBooking, against the rooms   *)
(* the supplier holds.                                                     *)
(*                                                                         *)
(* cancelBooking and refundBooking read the booking, wait, and save what   *)
(* they changed of their copy; updateBookingStatus is one write.  A call   *)
(* may stop at any await: its process dies, or the database refuses.       *)
(*                                                                         *)
(* The payment is not looked at: createBooking asks for some paymentId and *)
(* copies it.  Prices and fees are left out.  What paying a refund does to *)
(* the agency's wallet is in WalletAccount; here a payment is counted.     *)
(***************************************************************************)
EXTENDS Naturals, FiniteSets

CONSTANTS
  Bookings,  \* POST /bookings with paymentMethod online, and the booking it makes
  Cancels,   \* calls of cancelBooking
  Refunds,   \* calls of refundBooking
  BookingOf  \* the booking each of those calls is about

Calls == Cancels \cup Refunds

ASSUME CallsAssumption ==
  /\ Cancels \cap Refunds = {} /\ Bookings \cap Calls = {}
  /\ BookingOf \in [Calls -> Bookings]
  /\ IsFiniteSet(Refunds)

VARIABLES
  pc,        \* where each createBooking is, and each of the calls
  answer,    \* what the supplier answered to book()
  booking,   \* the booking document
  held,      \* the supplier holds the room
  awarded,   \* loyalty points were awarded
  copy,      \* refundStatus in the booking as each call read it
  paid,      \* refunds paid into the wallet
  byAdmin,   \* history: an administrator has set the status
  unpaid,    \* history: a refund was processed without paying
  kept,      \* history: the supplier refused a cancel that was taken for done
  forgotten  \* history: a cancel reached the supplier and was not saved

history == <<byAdmin, unpaid, kept, forgotten>>
vars == <<pc, answer, booking, held, awarded, copy, paid, history>>

BookingStatus == {"pending", "confirmed", "cancelled", "completed", "failed"}
RefundStatus == {"none", "pending", "processed"}
NoBooking == [status |-> "none", refund |-> "none", ref |-> FALSE]

(* ref: supplierBookingRef is not empty.                                   *)
Booking == [status : BookingStatus \cup {"none"}, refund : RefundStatus, ref : BOOLEAN]

Exists(b) == booking[b].status # "none"
CallsOf(b) == {c \in Calls : BookingOf[c] = b}

TypeOK ==
  /\ pc \in [Bookings \cup Calls ->
       {"idle", "booking", "flagging", "persisting", "awarding",
        "cancelling", "saving", "marking", "paying", "end"}]
  /\ answer \in [Bookings -> {"none", "confirmed", "unconfirmed", "error"}]
  /\ booking \in [Bookings -> Booking]
  /\ held \in [Bookings -> BOOLEAN]
  /\ awarded \in [Bookings -> BOOLEAN]
  /\ copy \in [Calls -> RefundStatus]
  /\ paid \in [Bookings -> 0 .. Cardinality(Refunds)]
  /\ byAdmin \in [Bookings -> BOOLEAN]
  /\ unpaid \in [Bookings -> BOOLEAN]
  /\ kept \in [Bookings -> BOOLEAN]
  /\ forgotten \in [Bookings -> BOOLEAN]

Init ==
  /\ pc = [p \in Bookings \cup Calls |-> "idle"]
  /\ answer = [b \in Bookings |-> "none"]
  /\ booking = [b \in Bookings |-> NoBooking]
  /\ held = [b \in Bookings |-> FALSE]
  /\ awarded = [b \in Bookings |-> FALSE]
  /\ copy = [c \in Calls |-> "none"]
  /\ paid = [b \in Bookings |-> 0]
  /\ byAdmin = [b \in Bookings |-> FALSE]
  /\ unpaid = [b \in Bookings |-> FALSE]
  /\ kept = [b \in Bookings |-> FALSE]
  /\ forgotten = [b \in Bookings |-> FALSE]

Step(p, from, to) == pc[p] = from /\ pc' = [pc EXCEPT ![p] = to]
Mark(flags, b) == [flags EXCEPT ![b] = TRUE]

-----------------------------------------------------------------------------
(* createBooking.                                                          *)

(* A paymentId is given and prebook() has answered; without either, the    *)
(* request ends and nothing is kept.                                       *)
createBooking(b) ==
  /\ Step(b, "idle", "booking")
  /\ UNCHANGED <<answer, booking, held, awarded, copy, paid, history>>

(* book() answers, and the room is held if the answer confirms it.         *)
Book(b, confirmed) ==
  /\ Step(b, "booking", "persisting")
  /\ answer' = [answer EXCEPT ![b] = IF confirmed THEN "confirmed" ELSE "unconfirmed"]
  /\ held' = [held EXCEPT ![b] = confirmed]
  /\ UNCHANGED <<booking, awarded, copy, paid, history>>

(* book() throws: the supplier did not book, or its answer was lost.       *)
BookThrows(b) ==
  /\ Step(b, "booking", "flagging")
  /\ answer' = [answer EXCEPT ![b] = "error"]
  /\ held' \in {held, [held EXCEPT ![b] = TRUE]}
  /\ UNCHANGED <<booking, awarded, copy, paid, history>>

(* Mutant: the failed booking is recorded without a cancellation.          *)
SaveFailedPlain(b) ==
  /\ Step(b, "flagging", "end")
  /\ booking' = [booking EXCEPT ![b] = [@ EXCEPT !.status = "failed"]]
  /\ UNCHANGED <<answer, held, awarded, copy, paid, history>>

(* The failed booking is recorded with its refund pending.                 *)
SaveFailed(b) ==
  /\ Step(b, "flagging", "end")
  /\ booking' = [booking EXCEPT ![b] = [status |-> "failed", refund |-> "pending", ref |-> FALSE]]
  /\ UNCHANGED <<answer, held, awarded, copy, paid, history>>

(* Mutant: whatever book() answered is a confirmed booking.                *)
PersistConfirmed(b, ref) ==
  /\ Step(b, "persisting", "awarding")
  /\ booking' = [booking EXCEPT ![b] = [status |-> "confirmed", refund |-> "none", ref |-> ref]]
  /\ UNCHANGED <<answer, held, awarded, copy, paid, history>>

(* The transaction: an unconfirmed booking fails without a cancellation.   *)
Persist(b, ref) ==
  LET confirmed == answer[b] = "confirmed" IN
  /\ Step(b, "persisting", IF confirmed THEN "awarding" ELSE "end")
  /\ booking' = [booking EXCEPT ![b] =
       [status |-> IF confirmed THEN "confirmed" ELSE "failed", refund |-> "none", ref |-> ref]]
  /\ UNCHANGED <<answer, held, awarded, copy, paid, history>>

(* Points, if there is a rule, it applies, and nothing throws.             *)
awardLoyaltyPoints(b) ==
  /\ Step(b, "awarding", "end")
  /\ awarded' \in {awarded, Mark(awarded, b)}
  /\ UNCHANGED <<answer, booking, held, copy, paid, history>>

(* The process dies, or the insert or the transaction throws.              *)
CreateStops(b) ==
  /\ pc[b] \notin {"idle", "end"}
  /\ pc' = [pc EXCEPT ![b] = "end"]
  /\ UNCHANGED <<answer, booking, held, awarded, copy, paid, history>>

-----------------------------------------------------------------------------
(* cancelBooking.                                                          *)

ReadBy(c) == copy' = [copy EXCEPT ![c] = booking[BookingOf[c]].refund]

(* Mutant: any booking that is at the supplier.                            *)
CancelAny(c) ==
  /\ Exists(BookingOf[c]) /\ booking[BookingOf[c]].ref
  /\ Step(c, "idle", "cancelling")
  /\ ReadBy(c)
  /\ UNCHANGED <<answer, booking, held, awarded, paid, history>>

(* Mutant: the supplier is not called.                                     *)
CancelUncalled(c) ==
  /\ booking[BookingOf[c]].status \in {"confirmed", "pending"}
  /\ Step(c, "idle", "saving")
  /\ ReadBy(c)
  /\ UNCHANGED <<answer, booking, held, awarded, paid, history>>

cancelBooking(c) ==
  /\ booking[BookingOf[c]].status \in {"confirmed", "pending"}
  /\ booking[BookingOf[c]].ref
  /\ Step(c, "idle", "cancelling")
  /\ ReadBy(c)
  /\ UNCHANGED <<answer, booking, held, awarded, paid, history>>

(* cancel() answers.  That the answer may be a refusal (success: false) is *)
(* not looked at.                                                          *)
SupplierCancels(c, success) ==
  LET b == BookingOf[c] IN
  /\ Step(c, "cancelling", "saving")
  /\ held' = [held EXCEPT ![b] = @ /\ ~success]
  /\ kept' = [kept EXCEPT ![b] = @ \/ (held[b] /\ ~success)]
  /\ UNCHANGED <<answer, booking, awarded, copy, paid, byAdmin, unpaid, forgotten>>

(* cancel() throws: the supplier did not cancel, or its answer was lost.   *)
SupplierThrows(c, cancelled) ==
  LET b == BookingOf[c] IN
  /\ Step(c, "cancelling", "end")
  /\ held' = [held EXCEPT ![b] = @ /\ ~cancelled]
  /\ forgotten' = [forgotten EXCEPT ![b] = @ \/ cancelled]
  /\ UNCHANGED <<answer, booking, awarded, copy, paid, byAdmin, unpaid, kept>>

(* Mutant: the refund of a booking paid by card is taken for processed, as *)
(* that of a booking on credit is.                                         *)
SaveCancelledProcessed(c) ==
  /\ Step(c, "saving", "end")
  /\ booking' = [booking EXCEPT ![BookingOf[c]].status = "cancelled",
                                ![BookingOf[c]].refund = "processed"]
  /\ UNCHANGED <<answer, held, awarded, copy, paid, history>>

(* A new cancellation, whatever the document has by now.                   *)
SaveCancelled(c) ==
  /\ Step(c, "saving", "end")
  /\ booking' = [booking EXCEPT ![BookingOf[c]].status = "cancelled",
                                ![BookingOf[c]].refund = "pending"]
  /\ UNCHANGED <<answer, held, awarded, copy, paid, history>>

(* The process dies, or the save throws.                                   *)
CancelStops(c) ==
  /\ Step(c, "saving", "end")
  /\ forgotten' = Mark(forgotten, BookingOf[c])
  /\ UNCHANGED <<answer, booking, held, awarded, copy, paid, byAdmin, unpaid, kept>>

-----------------------------------------------------------------------------
(* AdminService.                                                           *)

(* One write of any status, with nothing else: the admin page's Cancel     *)
(* sends this.                                                             *)
updateBookingStatus(b, status) ==
  /\ Exists(b)
  /\ booking' = [booking EXCEPT ![b].status = status]
  /\ byAdmin' = Mark(byAdmin, b)
  /\ UNCHANGED <<pc, answer, held, awarded, copy, paid, unpaid, kept, forgotten>>

(* Any booking, whatever its status, and whatever was refunded.            *)
refundBooking(r) ==
  /\ Exists(BookingOf[r])
  /\ Step(r, "idle", "marking")
  /\ ReadBy(r)
  /\ UNCHANGED <<answer, booking, held, awarded, paid, history>>

(* Mongoose writes what differs from the copy: a booking read without a    *)
(* cancellation stays as it is, and so does one read as processed.  An     *)
(* amount of zero is accepted, and nothing follows.                        *)
SaveProcessed(r, amount) ==
  LET b == BookingOf[r] IN
  /\ Step(r, "marking", IF amount > 0 THEN "paying" ELSE "end")
  /\ booking' = IF copy[r] = "pending"
                THEN [booking EXCEPT ![b].refund = "processed"]
                ELSE booking
  /\ unpaid' = [unpaid EXCEPT ![b] = @ \/ amount = 0]
  /\ UNCHANGED <<answer, held, awarded, copy, paid, byAdmin, kept, forgotten>>

(* Mutant: the call pays again.                                            *)
PayAgain(r) ==
  /\ pc[r] = "paying"
  /\ paid' = [paid EXCEPT ![BookingOf[r]] = @ + 1]
  /\ UNCHANGED <<pc, answer, booking, held, awarded, copy, history>>

(* The wallet and its ledger.                                              *)
Pay(r) ==
  /\ Step(r, "paying", "end")
  /\ paid' = [paid EXCEPT ![BookingOf[r]] = @ + 1]
  /\ UNCHANGED <<answer, booking, held, awarded, copy, history>>

(* The process dies, or reading or saving the company throws.              *)
RefundStops(r) ==
  /\ Step(r, "paying", "end")
  /\ unpaid' = Mark(unpaid, BookingOf[r])
  /\ UNCHANGED <<answer, booking, held, awarded, copy, paid, byAdmin, kept, forgotten>>

-----------------------------------------------------------------------------
Create(b) ==
  \/ createBooking(b) \/ BookThrows(b) \/ SaveFailed(b)
  \/ \E yes \in BOOLEAN : Book(b, yes) \/ Persist(b, yes)
  \/ awardLoyaltyPoints(b) \/ CreateStops(b)

Cancel(c) ==
  \/ cancelBooking(c) \/ SaveCancelled(c) \/ CancelStops(c)
  \/ \E yes \in BOOLEAN : SupplierCancels(c, yes) \/ SupplierThrows(c, yes)

Refund(r) ==
  \/ refundBooking(r) \/ Pay(r) \/ RefundStops(r)
  \/ \E amount \in 0 .. 1 : SaveProcessed(r, amount)

Next ==
  \/ \E b \in Bookings : Create(b)
  \/ \E c \in Cancels : Cancel(c)
  \/ \E r \in Refunds : Refund(r)
  \/ \E b \in Bookings, s \in BookingStatus : updateBookingStatus(b, s)

Spec == Init /\ [][Next]_vars

-----------------------------------------------------------------------------
(* The query "Pending refunds" of RUNBOOK.md finds every booking that      *)
(* failed or was cancelled, until its refund is processed; what it misses  *)
(* is one the supplier answered without confirming, and one whose status   *)
(* an administrator has set.                                               *)
RefundFlagged ==
  \A b \in Bookings :
    booking[b].status \in {"failed", "cancelled"} /\ booking[b].refund = "none" =>
      answer[b] = "unconfirmed" \/ byAdmin[b]

(* Nobody is refunded a room the supplier still holds, unless the answer   *)
(* of book() was lost or the refusal of a cancel was not looked at.        *)
RefundedIsReleased ==
  \A b \in Bookings :
    booking[b].refund # "none" /\ held[b] => answer[b] = "error" \/ kept[b]

(* A confirmed booking has its room, unless a cancel is about to be saved  *)
(* or one that reached the supplier was not saved.                         *)
ConfirmedIsHeld ==
  \A b \in Bookings :
    booking[b].status = "confirmed" /\ ~held[b] =>
      \/ byAdmin[b] \/ forgotten[b]
      \/ \E c \in Cancels \cap CallsOf(b) : pc[c] = "saving"

(* A processed refund was paid, or is about to be, unless a call stopped   *)
(* between the two saves or was for an amount of zero.                     *)
ProcessedIsPaid ==
  \A b \in Bookings :
    booking[b].refund = "processed" =>
      \/ paid[b] > 0 \/ unpaid[b]
      \/ \E r \in Refunds \cap CallsOf(b) : pc[r] = "paying"

(* A processed refund is pending again, and will be paid again, only when  *)
(* two cancels overlapped or an administrator has set the status back.     *)
ProcessedStays ==
  [][\A b \in Bookings :
       booking[b].refund = "processed" /\ booking'[b].refund # "processed" =>
         \/ byAdmin[b]
         \/ \E c \in Cancels \cap CallsOf(b) :
              pc[c] = "saving" /\ pc'[c] = "end" /\ copy[c] = "none"]_vars
=============================================================================
