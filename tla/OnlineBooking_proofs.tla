------------------------- MODULE OnlineBooking_proofs -------------------------
(***************************************************************************)
(* Proofs about OnlineBooking for any number of bookings and calls.        *)
(***************************************************************************)
EXTENDS OnlineBooking, FiniteSetTheorems, TLAPS

(* Until createBooking has saved there is no booking, and what it goes by  *)
(* when it saves is what the supplier did.                                 *)
CreateInv ==
  \A b \in Bookings :
    /\ pc[b] \in {"idle", "booking", "flagging", "persisting"} => booking[b] = NoBooking
    /\ pc[b] = "flagging" => answer[b] = "error"
    /\ pc[b] = "persisting" =>
         answer[b] = "unconfirmed" \/ (answer[b] = "confirmed" /\ held[b])

(* A booking that can be cancelled has no refund.                          *)
OpenInv ==
  \A b \in Bookings :
    booking[b].status \in {"confirmed", "pending"} => booking[b].refund = "none" \/ byAdmin[b]

(* A call is about a booking there is, and no cancellation goes away.      *)
CallInv ==
  \A c \in Calls :
    /\ pc[c] # "idle" => Exists(BookingOf[c])
    /\ copy[c] # "none" => booking[BookingOf[c]].refund # "none"

(* A cancel read no refund, and saves after the supplier let the room go,  *)
(* or refused to.                                                          *)
SavingInv ==
  \A c \in Cancels :
    /\ pc[c] = "saving" /\ held[BookingOf[c]] => kept[BookingOf[c]]
    /\ pc[c] \in {"cancelling", "saving"} => copy[c] = "none" \/ byAdmin[BookingOf[c]]

(* Each refund that was paid is a call that has ended.                     *)
PaidInv == \A b \in Bookings : paid[b] <= Cardinality({r \in Refunds : pc[r] = "end"})

(* TypeOK without the bound on the refunds paid.                           *)
Typed ==
  /\ pc \in [Bookings \cup Calls ->
       {"idle", "booking", "flagging", "persisting", "awarding",
        "cancelling", "saving", "marking", "paying", "end"}]
  /\ answer \in [Bookings -> {"none", "confirmed", "unconfirmed", "error"}]
  /\ booking \in [Bookings -> Booking]
  /\ held \in [Bookings -> BOOLEAN]
  /\ awarded \in [Bookings -> BOOLEAN]
  /\ copy \in [Calls -> RefundStatus]
  /\ paid \in [Bookings -> Nat]
  /\ byAdmin \in [Bookings -> BOOLEAN]
  /\ unpaid \in [Bookings -> BOOLEAN]
  /\ kept \in [Bookings -> BOOLEAN]
  /\ forgotten \in [Bookings -> BOOLEAN]

IInv == Typed /\ CreateInv /\ OpenInv /\ CallInv /\ SavingInv

-----------------------------------------------------------------------------
LEMMA TypedInit == Init => Typed
  BY DEF Init, Typed, NoBooking, Booking, BookingStatus, RefundStatus

(* A booking stays one when its refund is marked.                          *)
LEMMA RefundIsBooking ==
  ASSUME booking \in [Bookings -> Booking], NEW b \in Bookings, NEW f \in RefundStatus
  PROVE  [booking EXCEPT ![b].refund = f] \in [Bookings -> Booking]
  BY DEF Booking

LEMMA CancelledIsBooking ==
  ASSUME booking \in [Bookings -> Booking], NEW b \in Bookings
  PROVE  [booking EXCEPT ![b].status = "cancelled", ![b].refund = "pending"] \in [Bookings -> Booking]
  BY DEF Booking, BookingStatus, RefundStatus

LEMMA TypedNext == Typed /\ [Next]_vars => Typed'
<1> SUFFICES ASSUME Typed, [Next]_vars PROVE Typed'
  OBVIOUS
<1> USE CallsAssumption DEF Typed, Booking, BookingStatus, RefundStatus, NoBooking, Step, Mark, Calls, history
<1>1. ASSUME NEW b \in Bookings, createBooking(b) PROVE Typed'
  BY <1>1 DEF createBooking
<1>2. ASSUME NEW b \in Bookings, BookThrows(b) PROVE Typed'
  BY <1>2 DEF BookThrows
<1>3. ASSUME NEW b \in Bookings, SaveFailed(b) PROVE Typed'
  BY <1>3 DEF SaveFailed
<1>4. ASSUME NEW b \in Bookings, NEW yes \in BOOLEAN, Book(b, yes) PROVE Typed'
  BY <1>4 DEF Book
<1>5. ASSUME NEW b \in Bookings, NEW yes \in BOOLEAN, Persist(b, yes) PROVE Typed'
  BY <1>5 DEF Persist
<1>6. ASSUME NEW b \in Bookings, awardLoyaltyPoints(b) PROVE Typed'
  BY <1>6 DEF awardLoyaltyPoints
<1>7. ASSUME NEW b \in Bookings, CreateStops(b) PROVE Typed'
  BY <1>7 DEF CreateStops
<1>8. ASSUME NEW c \in Cancels, cancelBooking(c) PROVE Typed'
  BY <1>8 DEF cancelBooking, ReadBy
<1>9. ASSUME NEW c \in Cancels, SaveCancelled(c) PROVE Typed'
  <2>1. BookingOf[c] \in Bookings /\ booking' \in [Bookings -> Booking]
    <3>1. BookingOf[c] \in Bookings
      OBVIOUS
    <3>2. booking' = [booking EXCEPT ![BookingOf[c]].status = "cancelled", ![BookingOf[c]].refund = "pending"]
      BY <1>9 DEF SaveCancelled
    <3> HIDE DEF Booking, BookingStatus, RefundStatus
    <3> QED
      BY <3>1, <3>2, CancelledIsBooking
  <2>2. pc' = [pc EXCEPT ![c] = "end"]
    BY <1>9 DEF SaveCancelled
  <2> QED
    BY <1>9, <2>1, <2>2 DEF SaveCancelled
<1>10. ASSUME NEW c \in Cancels, CancelStops(c) PROVE Typed'
  BY <1>10 DEF CancelStops
<1>11. ASSUME NEW c \in Cancels, NEW yes \in BOOLEAN, SupplierCancels(c, yes) PROVE Typed'
  BY <1>11 DEF SupplierCancels
<1>12. ASSUME NEW c \in Cancels, NEW yes \in BOOLEAN, SupplierThrows(c, yes) PROVE Typed'
  BY <1>12 DEF SupplierThrows
<1>13. ASSUME NEW r \in Refunds, refundBooking(r) PROVE Typed'
  BY <1>13 DEF refundBooking, ReadBy
<1>14. ASSUME NEW r \in Refunds, Pay(r) PROVE Typed'
  BY <1>14 DEF Pay
<1>15. ASSUME NEW r \in Refunds, RefundStops(r) PROVE Typed'
  BY <1>15 DEF RefundStops
<1>16. ASSUME NEW r \in Refunds, NEW amount \in 0 .. 1, SaveProcessed(r, amount) PROVE Typed'
  <2>1. BookingOf[r] \in Bookings /\ booking' \in [Bookings -> Booking]
    <3>1. BookingOf[r] \in Bookings /\ "processed" \in RefundStatus
      OBVIOUS
    <3>2. booking' \in {booking, [booking EXCEPT ![BookingOf[r]].refund = "processed"]}
      BY <1>16 DEF SaveProcessed
    <3> HIDE DEF Booking, BookingStatus, RefundStatus
    <3> QED
      BY <3>1, <3>2, RefundIsBooking
  <2>2. pc' \in {[pc EXCEPT ![r] = "paying"], [pc EXCEPT ![r] = "end"]}
    BY <1>16 DEF SaveProcessed
  <2>3. unpaid' \in [Bookings -> BOOLEAN]
    BY <1>16, <2>1 DEF SaveProcessed
  <2> QED
    BY <1>16, <2>1, <2>2, <2>3 DEF SaveProcessed
<1>17. ASSUME NEW b \in Bookings, NEW s \in BookingStatus, updateBookingStatus(b, s) PROVE Typed'
  BY <1>17 DEF updateBookingStatus
<1>18. CASE UNCHANGED vars
  BY <1>18 DEF vars
<1>19. ASSUME NEW b \in Bookings, Create(b) PROVE Typed'
  BY <1>19, <1>1, <1>2, <1>3, <1>4, <1>5, <1>6, <1>7 DEF Create
<1>20. ASSUME NEW c \in Cancels, Cancel(c) PROVE Typed'
  BY <1>20, <1>8, <1>9, <1>10, <1>11, <1>12 DEF Cancel
<1>21. ASSUME NEW r \in Refunds, Refund(r) PROVE Typed'
  BY <1>21, <1>13, <1>14, <1>15, <1>16 DEF Refund
<1> HIDE DEF Typed
<1> QED
  BY <1>17, <1>18, <1>19, <1>20, <1>21 DEF Next

LEMMA IInvInit == Init => IInv
<1> SUFFICES ASSUME Init PROVE IInv
  OBVIOUS
<1>1. Typed
  BY TypedInit
<1>2. CreateInv /\ OpenInv /\ CallInv /\ SavingInv
  BY CallsAssumption DEF Init, CreateInv, OpenInv, CallInv, SavingInv, NoBooking, Calls
<1> QED
  BY <1>1, <1>2 DEF IInv

(* A call that has begun is about a booking that was saved.                *)
LEMMA CallsComeLater ==
  ASSUME IInv, NEW c \in Calls, pc[c] # "idle"
  PROVE  /\ BookingOf[c] \in Bookings
         /\ pc[BookingOf[c]] \notin {"idle", "booking", "flagging", "persisting"}
<1>1. BookingOf[c] \in Bookings /\ booking[BookingOf[c]].status # "none"
  BY CallsAssumption DEF IInv, CallInv, Exists
<1> QED
  BY <1>1 DEF IInv, CreateInv, NoBooking

LEMMA IInvNext == IInv /\ [Next]_vars => IInv'
<1> SUFFICES ASSUME IInv, [Next]_vars PROVE (CreateInv /\ OpenInv /\ CallInv /\ SavingInv)'
  BY TypedNext DEF IInv
<1> USE CallsAssumption DEF IInv, Typed, CreateInv, OpenInv, CallInv, SavingInv, Exists, Booking, BookingStatus, RefundStatus,
      NoBooking, Step, Mark, Calls, history
<1> DEFINE Rest == CreateInv /\ OpenInv /\ CallInv /\ SavingInv
<1>1. ASSUME NEW b \in Bookings, createBooking(b) PROVE Rest'
  BY <1>1 DEF createBooking
<1>2. ASSUME NEW b \in Bookings, BookThrows(b) PROVE Rest'
  <2>1. booking' = booking /\ copy' = copy /\ kept' = kept /\ byAdmin' = byAdmin
    BY <1>2 DEF BookThrows
  <2>2. pc[b] = "booking" /\ pc' = [pc EXCEPT ![b] = "flagging"]
    BY <1>2 DEF BookThrows
  <2>3. \A d \in Calls : pc'[d] = pc[d] /\ (pc[d] # "idle" => BookingOf[d] # b)
    BY <2>2, CallsComeLater
  <2>4. /\ \A a \in Bookings \ {b} : pc'[a] = pc[a] /\ answer'[a] = answer[a] /\ held'[a] = held[a]
        /\ answer'[b] = "error"
    BY <1>2, <2>2 DEF BookThrows
  <2>5. CreateInv'
    BY <2>1, <2>2, <2>4
  <2>6. OpenInv' /\ CallInv'
    BY <2>1, <2>3
  <2>7. SavingInv'
    BY <2>1, <2>3, <2>4
  <2> QED
    BY <2>5, <2>6, <2>7
<1>3. ASSUME NEW b \in Bookings, SaveFailed(b) PROVE Rest'
  BY <1>3 DEF SaveFailed
<1>4. ASSUME NEW b \in Bookings, NEW yes \in BOOLEAN, Book(b, yes) PROVE Rest'
  <2>0. booking[b] = NoBooking /\ \A d \in Calls : BookingOf[d] = b => pc[d] = "idle"
    BY <1>4 DEF Book
  <2>1. CreateInv'
    BY <1>4, <2>0 DEF Book
  <2>2. OpenInv'
    BY <1>4, <2>0 DEF Book
  <2>3. CallInv'
    BY <1>4, <2>0 DEF Book
  <2>4. SavingInv'
    BY <1>4, <2>0 DEF Book
  <2> QED
    BY <2>1, <2>2, <2>3, <2>4
<1>5. ASSUME NEW b \in Bookings, NEW yes \in BOOLEAN, Persist(b, yes) PROVE Rest'
  BY <1>5 DEF Persist
<1>6. ASSUME NEW b \in Bookings, awardLoyaltyPoints(b) PROVE Rest'
  BY <1>6 DEF awardLoyaltyPoints
<1>7. ASSUME NEW b \in Bookings, CreateStops(b) PROVE Rest'
  BY <1>7 DEF CreateStops
<1>8. ASSUME NEW c \in Cancels, cancelBooking(c) PROVE Rest'
  BY <1>8 DEF cancelBooking, ReadBy
<1>9. ASSUME NEW c \in Cancels, SaveCancelled(c) PROVE Rest'
  <2>0. pc[BookingOf[c]] \notin {"idle", "booking", "flagging", "persisting"} /\ BookingOf[c] \in Bookings
    BY <1>9, CallsComeLater DEF SaveCancelled
  <2>1. CreateInv'
    BY <1>9, <2>0 DEF SaveCancelled
  <2>2. OpenInv'
    BY <1>9, <2>0 DEF SaveCancelled
  <2>3. CallInv'
    BY <1>9, <2>0 DEF SaveCancelled
  <2>4. SavingInv'
    BY <1>9, <2>0 DEF SaveCancelled
  <2> QED
    BY <2>1, <2>2, <2>3, <2>4
<1>10. ASSUME NEW c \in Cancels, CancelStops(c) PROVE Rest'
  BY <1>10 DEF CancelStops
<1>11. ASSUME NEW c \in Cancels, NEW yes \in BOOLEAN, SupplierCancels(c, yes) PROVE Rest'
  <2>0. pc[BookingOf[c]] \notin {"idle", "booking", "flagging", "persisting"} /\ BookingOf[c] \in Bookings
    BY <1>11, CallsComeLater DEF SupplierCancels
  <2>a. ASSUME NEW a \in Bookings, pc[a] = "persisting" PROVE held'[a] = held[a]
    BY <1>11, <2>0, <2>a DEF SupplierCancels
  <2>b. booking' = booking /\ answer' = answer /\ \A a \in Bookings : pc'[a] = pc[a]
    BY <1>11 DEF SupplierCancels
  <2>1. CreateInv'
    BY <2>a, <2>b
  <2>2. OpenInv'
    BY <1>11, <2>0 DEF SupplierCancels
  <2>3. CallInv'
    BY <1>11, <2>0 DEF SupplierCancels
  <2>4. SavingInv'
    BY <1>11, <2>0 DEF SupplierCancels
  <2> QED
    BY <2>1, <2>2, <2>3, <2>4
<1>12. ASSUME NEW c \in Cancels, NEW yes \in BOOLEAN, SupplierThrows(c, yes) PROVE Rest'
  BY <1>12 DEF SupplierThrows
<1>13. ASSUME NEW r \in Refunds, refundBooking(r) PROVE Rest'
  BY <1>13 DEF refundBooking, ReadBy
<1>14. ASSUME NEW r \in Refunds, Pay(r) PROVE Rest'
  BY <1>14 DEF Pay
<1>15. ASSUME NEW r \in Refunds, RefundStops(r) PROVE Rest'
  BY <1>15 DEF RefundStops
<1>16. ASSUME NEW r \in Refunds, NEW amount \in 0 .. 1, SaveProcessed(r, amount) PROVE Rest'
  <2>0. pc[BookingOf[r]] \notin {"idle", "booking", "flagging", "persisting"} /\ BookingOf[r] \in Bookings
    BY <1>16, CallsComeLater DEF SaveProcessed
  <2>1. CreateInv'
    BY <1>16, <2>0 DEF SaveProcessed
  <2>2. OpenInv'
    BY <1>16, <2>0 DEF SaveProcessed
  <2>3. CallInv'
    BY <1>16, <2>0 DEF SaveProcessed
  <2>4. SavingInv'
    BY <1>16, <2>0 DEF SaveProcessed
  <2> QED
    BY <2>1, <2>2, <2>3, <2>4
<1>17. ASSUME NEW b \in Bookings, NEW s \in BookingStatus, updateBookingStatus(b, s) PROVE Rest'
  <2>0. pc[b] \notin {"idle", "booking", "flagging", "persisting"}
    BY <1>17 DEF updateBookingStatus
  <2>1. CreateInv'
    BY <1>17, <2>0 DEF updateBookingStatus
  <2>2. OpenInv'
    BY <1>17, <2>0 DEF updateBookingStatus
  <2>3. CallInv'
    BY <1>17, <2>0 DEF updateBookingStatus
  <2>4. SavingInv'
    BY <1>17, <2>0 DEF updateBookingStatus
  <2> QED
    BY <2>1, <2>2, <2>3, <2>4
<1>18. CASE UNCHANGED vars
  BY <1>18 DEF vars
<1> QED
  BY <1>1, <1>2, <1>3, <1>4, <1>5, <1>6, <1>7, <1>8, <1>9, <1>10, <1>11, <1>12, <1>13, <1>14, <1>15, <1>16, <1>17, <1>18
     DEF Next, Create, Cancel, Refund

LEMMA IInvLemma == Spec => []IInv
  BY IInvInit, IInvNext, PTL DEF Spec

-----------------------------------------------------------------------------
(* Each call pays at most once, so a booking is refunded at most as often  *)
(* as refundBooking is called.                                             *)

LEMMA EndedGrows == IInv /\ [Next]_vars => \A r \in Refunds : pc[r] = "end" => pc'[r] = "end"
<1> SUFFICES ASSUME IInv, [Next]_vars, NEW r \in Refunds, pc[r] = "end" PROVE pc'[r] = "end"
  OBVIOUS
<1> USE CallsAssumption DEF Calls, Step, IInv, Typed
<1>1. ASSUME NEW b \in Bookings, Create(b) PROVE pc'[r] = "end"
  BY <1>1 DEF Create, createBooking, Book, BookThrows, SaveFailed, Persist, awardLoyaltyPoints, CreateStops
<1>2. ASSUME NEW c \in Cancels, Cancel(c) PROVE pc'[r] = "end"
  BY <1>2 DEF Cancel, cancelBooking, SupplierCancels, SupplierThrows, SaveCancelled, CancelStops
<1>3. ASSUME NEW q \in Refunds, Refund(q) PROVE pc'[r] = "end"
  BY <1>3 DEF Refund, refundBooking, SaveProcessed, Pay, RefundStops
<1>4. ASSUME NEW b \in Bookings, NEW s \in BookingStatus, updateBookingStatus(b, s) PROVE pc'[r] = "end"
  BY <1>4 DEF updateBookingStatus
<1>5. CASE UNCHANGED vars
  BY <1>5 DEF vars
<1> QED
  BY <1>1, <1>2, <1>3, <1>4, <1>5 DEF Next

LEMMA PaidOnce ==
  ASSUME IInv, [Next]_vars, NEW b \in Bookings, paid'[b] # paid[b]
  PROVE  /\ paid'[b] = paid[b] + 1
         /\ \E r \in Refunds : pc[r] # "end" /\ pc'[r] = "end"
<1> USE CallsAssumption DEF Calls, Step, IInv, Typed, Mark, history
<1>1. ASSUME NEW a \in Bookings, Create(a) PROVE FALSE
  BY <1>1 DEF Create, createBooking, Book, BookThrows, SaveFailed, Persist, awardLoyaltyPoints, CreateStops
<1>2. ASSUME NEW c \in Cancels, Cancel(c) PROVE FALSE
  BY <1>2 DEF Cancel, cancelBooking, SupplierCancels, SupplierThrows, SaveCancelled, CancelStops
<1>3. ASSUME NEW r \in Refunds, Refund(r) PROVE Pay(r)
  BY <1>3 DEF Refund, refundBooking, SaveProcessed, RefundStops
<1>4. ASSUME NEW a \in Bookings, NEW s \in BookingStatus, updateBookingStatus(a, s) PROVE FALSE
  BY <1>4 DEF updateBookingStatus
<1>5. ~(UNCHANGED vars)
  BY DEF vars
<1>6. PICK r \in Refunds : Pay(r)
  BY <1>1, <1>2, <1>3, <1>4, <1>5 DEF Next
<1> QED
  BY <1>6 DEF Pay

LEMMA PaidInvInit == Init => PaidInv
<1> SUFFICES ASSUME Init PROVE {r \in Refunds : pc[r] = "end"} = {} /\ \A b \in Bookings : paid[b] = 0
  BY FS_EmptySet DEF PaidInv
<1> QED
  BY CallsAssumption DEF Init, Calls

LEMMA PaidInvNext == IInv /\ PaidInv /\ [Next]_vars => PaidInv'
<1> SUFFICES ASSUME IInv, PaidInv, [Next]_vars, NEW b \in Bookings
             PROVE  paid'[b] <= Cardinality({r \in Refunds : pc'[r] = "end"})
  BY DEF PaidInv
<1> DEFINE Before == {r \in Refunds : pc[r] = "end"}
           After == {r \in Refunds : pc'[r] = "end"}
<1>1. Before \subseteq After
  BY EndedGrows
<1>2. IsFiniteSet(Before) /\ IsFiniteSet(After)
  BY FS_Subset, CallsAssumption
<1>3. Cardinality(Before) \in Nat /\ Cardinality(After) \in Nat /\ Cardinality(Before) <= Cardinality(After)
  BY <1>1, <1>2, FS_Subset, FS_CardinalityType
<1>4. paid[b] \in Nat /\ paid[b] <= Cardinality(Before)
  BY DEF PaidInv, IInv, Typed
<1>5. CASE paid'[b] = paid[b]
  BY <1>3, <1>4, <1>5
<1>6. CASE paid'[b] # paid[b]
  <2>1. PICK r \in Refunds : pc[r] # "end" /\ pc'[r] = "end"
    BY <1>6, PaidOnce
  <2>2. Before \cup {r} \subseteq After /\ r \notin Before
    BY <1>1, <2>1
  <2>3. Cardinality(Before \cup {r}) = Cardinality(Before) + 1
    BY <1>2, <2>2, FS_AddElement
  <2>4. Cardinality(Before \cup {r}) <= Cardinality(After)
    BY <1>2, <2>2, FS_Subset
  <2> HIDE DEF Before, After
  <2>5. paid'[b] = paid[b] + 1
    BY <1>6, PaidOnce
  <2>6. paid'[b] <= Cardinality(After)
    BY <1>3, <1>4, <2>3, <2>4, <2>5
  <2> QED
    BY <2>6 DEF After
<1> QED
  BY <1>5, <1>6

(* Every variable keeps to its type: a call of refundBooking pays a refund *)
(* once, or not at all.                                                    *)
THEOREM TypeCorrect == Spec => []TypeOK
<1>1. IInv /\ PaidInv => TypeOK
  <2> SUFFICES ASSUME IInv, PaidInv, NEW b \in Bookings PROVE paid[b] \in 0 .. Cardinality(Refunds)
    BY DEF TypeOK, IInv, Typed
  <2>1. {r \in Refunds : pc[r] = "end"} \in SUBSET Refunds
    OBVIOUS
  <2>2. IsFiniteSet({r \in Refunds : pc[r] = "end"})
        /\ Cardinality({r \in Refunds : pc[r] = "end"}) <= Cardinality(Refunds)
    BY <2>1, FS_Subset, CallsAssumption
  <2>3. Cardinality({r \in Refunds : pc[r] = "end"}) \in Nat /\ Cardinality(Refunds) \in Nat
    BY <2>2, FS_CardinalityType, CallsAssumption
  <2>4. paid[b] \in Nat /\ paid[b] <= Cardinality({r \in Refunds : pc[r] = "end"})
    BY DEF PaidInv, IInv, Typed
  <2> QED
    BY <2>2, <2>3, <2>4
<1>2. Spec => []PaidInv
  BY IInvLemma, PaidInvInit, PaidInvNext, PTL DEF Spec
<1> QED
  BY IInvLemma, <1>1, <1>2, PTL

-----------------------------------------------------------------------------
LEMMA RefundFlaggedNext == IInv /\ RefundFlagged /\ [Next]_vars => RefundFlagged'
<1> SUFFICES ASSUME IInv, RefundFlagged, [Next]_vars PROVE RefundFlagged'
  OBVIOUS
<1> USE CallsAssumption DEF RefundFlagged, IInv, Typed, Booking, RefundStatus, NoBooking, Exists, CallsOf, Calls,
      Step, Mark, history
<1>1. ASSUME NEW b \in Bookings, Create(b) PROVE RefundFlagged'
  <2>1. CASE createBooking(b)
    BY <2>1 DEF createBooking, CreateInv, CallInv
  <2>2. CASE BookThrows(b)
    BY <2>2 DEF BookThrows, CreateInv, CallInv
  <2>3. CASE SaveFailed(b)
    BY <2>3 DEF SaveFailed, CreateInv, CallInv
  <2>4. ASSUME NEW yes \in BOOLEAN, Book(b, yes) PROVE RefundFlagged'
    BY <2>4 DEF Book, CreateInv, CallInv
  <2>5. ASSUME NEW yes \in BOOLEAN, Persist(b, yes) PROVE RefundFlagged'
    BY <2>5 DEF Persist, CreateInv, CallInv
  <2>6. CASE awardLoyaltyPoints(b)
    BY <2>6 DEF awardLoyaltyPoints, CreateInv, CallInv
  <2>7. CASE CreateStops(b)
    BY <2>7 DEF CreateStops, CreateInv, CallInv
  <2> QED
    BY <1>1, <2>1, <2>2, <2>3, <2>4, <2>5, <2>6, <2>7 DEF Create
<1>2. ASSUME NEW c \in Cancels, Cancel(c) PROVE RefundFlagged'
  <2>1. CASE cancelBooking(c)
    BY <2>1 DEF cancelBooking, ReadBy, CallInv, SavingInv
  <2>2. CASE SaveCancelled(c)
    BY <2>2 DEF SaveCancelled, CallInv, SavingInv
  <2>3. CASE CancelStops(c)
    BY <2>3 DEF CancelStops, CallInv, SavingInv
  <2>4. ASSUME NEW yes \in BOOLEAN, SupplierCancels(c, yes) PROVE RefundFlagged'
    BY <2>4 DEF SupplierCancels, CallInv, SavingInv
  <2>5. ASSUME NEW yes \in BOOLEAN, SupplierThrows(c, yes) PROVE RefundFlagged'
    BY <2>5 DEF SupplierThrows, CallInv, SavingInv
  <2> QED
    BY <1>2, <2>1, <2>2, <2>3, <2>4, <2>5 DEF Cancel
<1>3. ASSUME NEW r \in Refunds, Refund(r) PROVE RefundFlagged'
  <2>1. CASE refundBooking(r) \/ Pay(r) \/ RefundStops(r)
    BY <2>1 DEF refundBooking, Pay, RefundStops
  <2>2. ASSUME NEW amount \in 0 .. 1, SaveProcessed(r, amount) PROVE RefundFlagged'
    BY <2>2 DEF SaveProcessed, CallInv
  <2> QED
    BY <1>3, <2>1, <2>2 DEF Refund
<1>4. ASSUME NEW b \in Bookings, NEW s \in BookingStatus, updateBookingStatus(b, s) PROVE RefundFlagged'
  BY <1>4 DEF updateBookingStatus
<1>5. CASE UNCHANGED vars
  BY <1>5 DEF vars
<1> QED
  BY <1>1, <1>2, <1>3, <1>4, <1>5 DEF Next

(* The runbook's query for pending refunds misses no booking that failed   *)
(* or was cancelled, but one the supplier answered without confirming and  *)
(* one whose status an administrator set.                                  *)
THEOREM RefundFlaggedAlways == Spec => []RefundFlagged
<1>1. Init => RefundFlagged
  BY CallsAssumption DEF Init, RefundFlagged, NoBooking, Calls, CallsOf
<1> QED
  BY <1>1, IInvLemma, RefundFlaggedNext, PTL DEF Spec

-----------------------------------------------------------------------------
LEMMA RefundedIsReleasedNext == IInv /\ RefundedIsReleased /\ [Next]_vars => RefundedIsReleased'
<1> SUFFICES ASSUME IInv, RefundedIsReleased, [Next]_vars PROVE RefundedIsReleased'
  OBVIOUS
<1> USE CallsAssumption DEF RefundedIsReleased, IInv, Typed, Booking, RefundStatus, NoBooking, Exists, CallsOf, Calls,
      Step, Mark, history
<1>1. ASSUME NEW b \in Bookings, Create(b) PROVE RefundedIsReleased'
  <2>1. CASE createBooking(b) \/ awardLoyaltyPoints(b) \/ CreateStops(b)
    BY <2>1 DEF createBooking, awardLoyaltyPoints, CreateStops
  <2>2. CASE BookThrows(b)
    BY <2>2 DEF BookThrows, CreateInv
  <2>3. CASE SaveFailed(b)
    BY <2>3 DEF SaveFailed, CreateInv
  <2>4. ASSUME NEW yes \in BOOLEAN, Book(b, yes) PROVE RefundedIsReleased'
    BY <2>4 DEF Book, CreateInv
  <2>5. ASSUME NEW yes \in BOOLEAN, Persist(b, yes) PROVE RefundedIsReleased'
    BY <2>5 DEF Persist, CreateInv
  <2> QED
    BY <1>1, <2>1, <2>2, <2>3, <2>4, <2>5 DEF Create
<1>2. ASSUME NEW c \in Cancels, Cancel(c) PROVE RefundedIsReleased'
  <2>1. CASE cancelBooking(c)
    BY <2>1 DEF cancelBooking, ReadBy, CallInv, SavingInv
  <2>2. CASE SaveCancelled(c)
    BY <2>2 DEF SaveCancelled, CallInv, SavingInv
  <2>3. CASE CancelStops(c)
    BY <2>3 DEF CancelStops, CallInv, SavingInv
  <2>4. ASSUME NEW yes \in BOOLEAN, SupplierCancels(c, yes) PROVE RefundedIsReleased'
    BY <2>4 DEF SupplierCancels, CallInv, SavingInv
  <2>5. ASSUME NEW yes \in BOOLEAN, SupplierThrows(c, yes) PROVE RefundedIsReleased'
    BY <2>5 DEF SupplierThrows, CallInv, SavingInv
  <2> QED
    BY <1>2, <2>1, <2>2, <2>3, <2>4, <2>5 DEF Cancel
<1>3. ASSUME NEW r \in Refunds, Refund(r) PROVE RefundedIsReleased'
  <2>1. CASE refundBooking(r) \/ Pay(r) \/ RefundStops(r)
    BY <2>1 DEF refundBooking, Pay, RefundStops
  <2>2. ASSUME NEW amount \in 0 .. 1, SaveProcessed(r, amount) PROVE RefundedIsReleased'
    BY <2>2 DEF SaveProcessed, CallInv
  <2> QED
    BY <1>3, <2>1, <2>2 DEF Refund
<1>4. ASSUME NEW b \in Bookings, NEW s \in BookingStatus, updateBookingStatus(b, s) PROVE RefundedIsReleased'
  BY <1>4 DEF updateBookingStatus
<1>5. CASE UNCHANGED vars
  BY <1>5 DEF vars
<1> QED
  BY <1>1, <1>2, <1>3, <1>4, <1>5 DEF Next

(* A room is not refunded while the supplier holds it, unless the answer   *)
(* of book() was lost or the refusal of a cancel was not looked at.        *)
THEOREM RefundedIsReleasedAlways == Spec => []RefundedIsReleased
<1>1. Init => RefundedIsReleased
  BY CallsAssumption DEF Init, RefundedIsReleased, NoBooking, Calls, CallsOf
<1> QED
  BY <1>1, IInvLemma, RefundedIsReleasedNext, PTL DEF Spec

-----------------------------------------------------------------------------
LEMMA ConfirmedIsHeldNext == IInv /\ ConfirmedIsHeld /\ [Next]_vars => ConfirmedIsHeld'
<1> SUFFICES ASSUME IInv, ConfirmedIsHeld, [Next]_vars PROVE ConfirmedIsHeld'
  OBVIOUS
<1> USE CallsAssumption DEF ConfirmedIsHeld, IInv, Typed, Booking, RefundStatus, NoBooking, Exists, CallsOf, Calls,
      Step, Mark, history
<1>1. ASSUME NEW b \in Bookings, Create(b) PROVE ConfirmedIsHeld'
  <2>1. CASE createBooking(b) \/ awardLoyaltyPoints(b) \/ CreateStops(b)
    BY <2>1 DEF createBooking, awardLoyaltyPoints, CreateStops
  <2>2. CASE BookThrows(b)
    BY <2>2 DEF BookThrows, CreateInv
  <2>3. CASE SaveFailed(b)
    BY <2>3 DEF SaveFailed, CreateInv
  <2>4. ASSUME NEW yes \in BOOLEAN, Book(b, yes) PROVE ConfirmedIsHeld'
    BY <2>4 DEF Book, CreateInv
  <2>5. ASSUME NEW yes \in BOOLEAN, Persist(b, yes) PROVE ConfirmedIsHeld'
    BY <2>5 DEF Persist, CreateInv
  <2> QED
    BY <1>1, <2>1, <2>2, <2>3, <2>4, <2>5 DEF Create
<1>2. ASSUME NEW c \in Cancels, Cancel(c) PROVE ConfirmedIsHeld'
  BY <1>2 DEF Cancel, cancelBooking, SupplierCancels, SupplierThrows, SaveCancelled, CancelStops, ReadBy, CallInv, SavingInv
<1>3. ASSUME NEW r \in Refunds, Refund(r) PROVE ConfirmedIsHeld'
  <2>1. CASE refundBooking(r)
    BY <2>1 DEF refundBooking, ReadBy, CallInv
  <2>2. CASE Pay(r)
    BY <2>2 DEF Pay, CallInv
  <2>3. CASE RefundStops(r)
    BY <2>3 DEF RefundStops, CallInv
  <2>4. ASSUME NEW amount \in 0 .. 1, SaveProcessed(r, amount) PROVE ConfirmedIsHeld'
    BY <2>4 DEF SaveProcessed, CallInv
  <2> QED
    BY <1>3, <2>1, <2>2, <2>3, <2>4 DEF Refund
<1>4. ASSUME NEW b \in Bookings, NEW s \in BookingStatus, updateBookingStatus(b, s) PROVE ConfirmedIsHeld'
  BY <1>4 DEF updateBookingStatus
<1>5. CASE UNCHANGED vars
  BY <1>5 DEF vars
<1> QED
  BY <1>1, <1>2, <1>3, <1>4, <1>5 DEF Next

(* A confirmed booking has its room, whatever stops wherever, but for a    *)
(* cancel that was not saved and a status an administrator set.            *)
THEOREM ConfirmedIsHeldAlways == Spec => []ConfirmedIsHeld
<1>1. Init => ConfirmedIsHeld
  BY CallsAssumption DEF Init, ConfirmedIsHeld, NoBooking, Calls, CallsOf
<1> QED
  BY <1>1, IInvLemma, ConfirmedIsHeldNext, PTL DEF Spec

-----------------------------------------------------------------------------
LEMMA ProcessedIsPaidNext == IInv /\ ProcessedIsPaid /\ [Next]_vars => ProcessedIsPaid'
<1> SUFFICES ASSUME IInv, ProcessedIsPaid, [Next]_vars PROVE ProcessedIsPaid'
  OBVIOUS
<1> USE CallsAssumption DEF ProcessedIsPaid, IInv, Typed, Booking, RefundStatus, NoBooking, Exists, CallsOf, Calls,
      Step, Mark, history
<1>1. ASSUME NEW b \in Bookings, Create(b) PROVE ProcessedIsPaid'
  BY <1>1 DEF Create, createBooking, Book, BookThrows, SaveFailed, Persist, awardLoyaltyPoints, CreateStops, CreateInv, CallInv
<1>2. ASSUME NEW c \in Cancels, Cancel(c) PROVE ProcessedIsPaid'
  <2>1. CASE cancelBooking(c)
    BY <2>1 DEF cancelBooking, ReadBy, CallInv, SavingInv
  <2>2. CASE SaveCancelled(c)
    BY <2>2 DEF SaveCancelled, CallInv, SavingInv
  <2>3. CASE CancelStops(c)
    BY <2>3 DEF CancelStops, CallInv, SavingInv
  <2>4. ASSUME NEW yes \in BOOLEAN, SupplierCancels(c, yes) PROVE ProcessedIsPaid'
    BY <2>4 DEF SupplierCancels, CallInv, SavingInv
  <2>5. ASSUME NEW yes \in BOOLEAN, SupplierThrows(c, yes) PROVE ProcessedIsPaid'
    BY <2>5 DEF SupplierThrows, CallInv, SavingInv
  <2> QED
    BY <1>2, <2>1, <2>2, <2>3, <2>4, <2>5 DEF Cancel
<1>3. ASSUME NEW r \in Refunds, Refund(r) PROVE ProcessedIsPaid'
  <2>1. CASE refundBooking(r)
    BY <2>1 DEF refundBooking, ReadBy, CallInv
  <2>2. CASE Pay(r)
    BY <2>2 DEF Pay, CallInv
  <2>3. CASE RefundStops(r)
    BY <2>3 DEF RefundStops, CallInv
  <2>4. ASSUME NEW amount \in 0 .. 1, SaveProcessed(r, amount) PROVE ProcessedIsPaid'
    <3>1. r \in Calls /\ BookingOf[r] \in Bookings
      OBVIOUS
    <3>2. ASSUME NEW a \in Bookings, NEW q \in Refunds, pc[q] = "paying" PROVE pc'[q] = "paying"
      BY <2>4, <3>2 DEF SaveProcessed
    <3>3. pc'[r] = "paying" \/ unpaid'[BookingOf[r]]
      <4>1. CASE amount > 0
        BY <2>4, <3>1, <4>1 DEF SaveProcessed
      <4>2. CASE amount = 0
        BY <2>4, <3>1, <4>2 DEF SaveProcessed
      <4> QED
        BY <4>1, <4>2
    <3>4. \A a \in Bookings : a # BookingOf[r] => booking'[a] = booking[a]
      BY <2>4 DEF SaveProcessed
    <3>5. paid' = paid /\ \A a \in Bookings : unpaid[a] => unpaid'[a]
      BY <2>4 DEF SaveProcessed
    <3> QED
      BY <3>1, <3>2, <3>3, <3>4, <3>5
  <2> QED
    BY <1>3, <2>1, <2>2, <2>3, <2>4 DEF Refund
<1>4. ASSUME NEW b \in Bookings, NEW s \in BookingStatus, updateBookingStatus(b, s) PROVE ProcessedIsPaid'
  BY <1>4 DEF updateBookingStatus
<1>5. CASE UNCHANGED vars
  BY <1>5 DEF vars
<1> QED
  BY <1>1, <1>2, <1>3, <1>4, <1>5 DEF Next

(* A processed refund is paid, or about to be, however calls overlap, but  *)
(* for a call that stopped between its two saves or gave no amount.        *)
THEOREM ProcessedIsPaidAlways == Spec => []ProcessedIsPaid
<1>1. Init => ProcessedIsPaid
  BY CallsAssumption DEF Init, ProcessedIsPaid, NoBooking, Calls, CallsOf
<1> QED
  BY <1>1, IInvLemma, ProcessedIsPaidNext, PTL DEF Spec

-----------------------------------------------------------------------------
LEMMA SaveCancelledEnds ==
  ASSUME Typed, NEW c \in Cancels, SaveCancelled(c)
  PROVE  pc[c] = "saving" /\ pc'[c] = "end"
<1>1. pc[c] = "saving" /\ pc' = [pc EXCEPT ![c] = "end"]
  BY DEF SaveCancelled, Step
<1>2. c \in DOMAIN pc
  BY DEF Typed, Calls
<1> QED
  BY <1>1, <1>2

(* createBooking saves a booking that was not there.                       *)
LEMMA CreateSaves ==
  ASSUME IInv, NEW a \in Bookings, Create(a), NEW b \in Bookings, booking[b].refund = "processed"
  PROVE  booking'[b] = booking[b]
<1>1. CASE SaveFailed(a) \/ \E yes \in BOOLEAN : Persist(a, yes)
  <2>1. pc[a] \in {"flagging", "persisting"}
    BY <1>1 DEF SaveFailed, Persist, Step
  <2>2. booking[a].refund = "none"
    BY <2>1 DEF IInv, CreateInv, NoBooking
  <2>3. \E x : booking' = [booking EXCEPT ![a] = x]
    BY <1>1 DEF SaveFailed, Persist
  <2> QED
    BY <2>2, <2>3 DEF IInv, Typed
<1>2. CASE ~(SaveFailed(a) \/ \E yes \in BOOLEAN : Persist(a, yes))
  <2>1. booking' = booking
    BY <1>2 DEF Create, createBooking, Book, BookThrows, awardLoyaltyPoints, CreateStops
  <2> QED
    BY <2>1
<1> QED
  BY <1>1, <1>2

(* A processed refund is pending again, and would be paid again, only when *)
(* two cancels overlapped or an administrator has set the status back.     *)
THEOREM ProcessedStaysAlways == Spec => ProcessedStays
<1> DEFINE Reopened(b) ==
      \/ byAdmin[b]
      \/ \E c \in Cancels \cap CallsOf(b) :
           pc[c] = "saving" /\ pc'[c] = "end" /\ copy[c] = "none"
<1>1. ASSUME IInv, [Next]_vars, NEW b \in Bookings,
             booking[b].refund = "processed", booking'[b].refund # "processed"
      PROVE  Reopened(b)
  <2>0. \A c \in Cancels : SaveCancelled(c) => pc[c] = "saving" /\ pc'[c] = "end"
    BY <1>1, SaveCancelledEnds DEF IInv
  <2> USE CallsAssumption DEF IInv, Typed, Booking, RefundStatus, NoBooking, CallsOf, Calls, Step, Mark, history
  <2>1. ASSUME NEW a \in Bookings, Create(a) PROVE FALSE
    BY <1>1, <2>1, CreateSaves
  <2>2. ASSUME NEW c \in Cancels, Cancel(c) PROVE SaveCancelled(c) /\ b = BookingOf[c]
    BY <1>1, <2>2 DEF Cancel, cancelBooking, SupplierCancels, SupplierThrows, SaveCancelled, CancelStops, ReadBy
  <2>3. ASSUME NEW r \in Refunds, Refund(r) PROVE FALSE
    <3>1. PICK amount \in 0 .. 1 : SaveProcessed(r, amount)
      BY <1>1, <2>3 DEF Refund, refundBooking, Pay, RefundStops, ReadBy
    <3> QED
      BY <1>1, <3>1 DEF SaveProcessed
  <2>4. ASSUME NEW a \in Bookings, NEW s \in BookingStatus, updateBookingStatus(a, s) PROVE FALSE
    BY <1>1, <2>4 DEF updateBookingStatus
  <2>5. ~(UNCHANGED vars)
    BY <1>1 DEF vars
  <2>6. PICK c \in Cancels : SaveCancelled(c) /\ b = BookingOf[c]
    BY <1>1, <2>1, <2>2, <2>3, <2>4, <2>5 DEF Next
  <2>7. pc[c] = "saving" /\ pc'[c] = "end" /\ c \in Cancels \cap CallsOf(b)
    BY <2>0, <2>6
  <2>8. copy[c] = "none" \/ byAdmin[b]
    BY <1>1, <2>6, <2>7 DEF SavingInv
  <2> QED
    BY <2>7, <2>8
<1>2. IInv /\ [Next]_vars => [\A b \in Bookings :
        booking[b].refund = "processed" /\ booking'[b].refund # "processed" => Reopened(b)]_vars
  BY <1>1
<1> QED
  BY <1>2, IInvLemma, PTL DEF Spec, ProcessedStays
=============================================================================
