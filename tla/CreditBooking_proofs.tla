------------------------ MODULE CreditBooking_proofs ------------------------
(***************************************************************************)
(* Theorems about CreditBooking for any agencies, requests, prices, fees   *)
(* and limits, with any number of retries, cancels and crashes.            *)
(***************************************************************************)
EXTENDS CreditBooking, SumTheorems, TLAPS

-----------------------------------------------------------------------------
(* The inductive invariant.                                                *)

(* A booking document exists exactly when its request ended with one.      *)
BookedInv == \A r \in Requests : status[r] # "none" <=> reqState[r] = "booked"

(* A reference that was drawn was drawn once; a request that writes has one. *)
RefInv ==
  /\ \A r \in Requests : bookingRef[r] <= seq
  /\ \A r \in Requests : reqState[r] \in {"writing", "booked"} => bookingRef[r] > 0
  /\ \A r, s \in Requests : r # s /\ bookingRef[r] > 0 => bookingRef[r] # bookingRef[s]

(* A running cancel has read a booking that stays; what it is about to give
   back is positive, and what it gave back stands until it is recorded.    *)
CancelInv ==
  \A k \in Cancels :
    /\ cancelState[k] \in CancelBusy => status[TargetOf[k]] # "none"
    /\ cancelState[k] \in {"idle", "calling", "crediting"} => credited[k] = 0
    /\ cancelState[k] = "crediting" => fee[k] < totalAmount[TargetOf[k]]
    /\ cancelState[k] = "recording" => credited[k] > 0
    /\ credited[k] > 0 => status[TargetOf[k]] # "none"

(* A refund that has begun is of a booking that stays, and of an amount.   *)
RefundInv ==
  \A a \in Refunds :
    refundState[a] # "idle" =>
      /\ RefundOf[a] \in Requests => status[RefundOf[a]] # "none"
      /\ refundAmount[a] > 0

(* A debit entry and its booking come together and stay as they were
   written; so do a refund entry and what its cancel gave back, or what the
   admin paid into the wallet.                                             *)
Finished == {"saving"} \cup CancelEnd

Claimed(e) ==
  \/ \E r \in Requests : status[r] # "none" /\ e = DebitEntry(r)
  \/ \E k \in Cancels : /\ status[TargetOf[k]] # "none"
                        /\ cancelState[k] \in Finished
                        /\ credited[k] > 0
                        /\ e = RefundEntry(k)
  \/ \E a \in Refunds : refundState[a] = "done" /\ e = WalletEntry(a)

LedgerInv ==
  /\ \A r \in Requests : status[r] # "none" => DebitEntry(r) \in walletTx
  /\ \A e \in walletTx : Claimed(e)

IInv == TypeOK /\ BookedInv /\ RefInv /\ CancelInv /\ RefundInv /\ LedgerInv

-----------------------------------------------------------------------------
LEMMA TypeInit == Init => TypeOK
<1> SUFFICES ASSUME Init PROVE TypeOK
  OBVIOUS
<1>1. creditLimit \in [Companies -> Nat]
  BY AmountsAssumption DEF Init
<1>2. attempts \in [Requests -> 0..MaxAttempts]
  BY AmountsAssumption DEF Init
<1>3. /\ reqState \in [Requests -> RequestState] /\ cancelState \in [Cancels -> CancelState]
      /\ refundState \in [Refunds -> RefundState]
  BY DEF Init, RequestState, CancelState, RefundState
<1>4. room \in [Requests -> Rooms] /\ status \in [Requests -> BookingStatus \cup {"none"}]
  BY DEF Init, Rooms
<1> QED
  BY <1>1, <1>2, <1>3, <1>4 DEF Init, TypeOK

LEMMA TypeNext == TypeOK /\ CancelInv /\ [Next]_vars => TypeOK'
<1> SUFFICES ASSUME TypeOK, CancelInv, [Next]_vars PROVE TypeOK'
  OBVIOUS
<1> USE RequestsAssumption, AmountsAssumption DEF TypeOK, account, requestVars, cancelVars,
      refundVars
<1>1. CASE UNCHANGED vars
  BY <1>1 DEF vars
<1>2. CASE Arrival
  <2>1. CASE \E r \in Requests : PrebookFails(r) \/ \E total \in Prices : Prebook(r, total)
    BY <2>1 DEF PrebookFails, Prebook, Goto, RequestState, RequestEnd
  <2>2. CASE \E k \in Cancels : CancelRead(k)
    BY <2>2 DEF CancelRead, CancelGoto, CancelState, CancelEnd, CancelBusy
  <2>3. ASSUME NEW a \in Refunds, NEW amount \in RefundAmounts, RefundRead(a, amount)
        PROVE  TypeOK'
    BY <2>3 DEF RefundRead, RefundGoto, RefundState, RefundBusy
  <2> QED
    BY <1>2, <2>1, <2>2, <2>3 DEF Arrival
<1>3. ASSUME NEW r \in Requests, RequestStep(r) PROVE TypeOK'
  <2> USE DEF Goto, RequestState, HoldingStates, RequestEnd
  <2>1. CASE atomicDeductCredit(r)
    BY <2>1 DEF atomicDeductCredit
  <2>2. CASE DeductRefused(r)
    BY <2>2 DEF DeductRefused
  <2>3. CASE BookConfirmed(r) \/ BookFails(r)
    BY <2>3 DEF BookConfirmed, BookFails, Rooms
  <2>4. CASE Compensate(r)
    BY <2>4 DEF Compensate, creditBack
  <2>5. CASE CompensationFails(r) \/ RetryTransaction(r) \/ TransactionFails(r)
    BY <2>5 DEF CompensationFails, RetryTransaction, TransactionFails
  <2>6. CASE generateBookingRef(r)
    BY <2>6 DEF generateBookingRef
  <2>7. CASE CommitBooking(r)
    BY <2>7 DEF CommitBooking, DebitEntry, Entries, BookingStatus
  <2> QED
    BY <1>3, <2>1, <2>2, <2>3, <2>4, <2>5, <2>6, <2>7 DEF RequestStep
<1>4. ASSUME NEW k \in Cancels, CancelStep(k) PROVE TypeOK'
  <2> USE DEF CancelGoto, CancelState, CancelBusy, CancelEnd
  <2>1. ASSUME NEW charge \in Fees, SupplierCancels(k, charge) PROVE TypeOK'
    BY <2>1 DEF SupplierCancels, Rooms
  <2>2. CASE SupplierCancelFails(k)
    BY <2>2 DEF SupplierCancelFails, Rooms
  <2>3. CASE CancelCreditBack(k)
    <3>1. totalAmount[TargetOf[k]] - fee[k] \in Nat
      BY <2>3 DEF CancelCreditBack, CancelInv
    <3> QED
      BY <2>3, <3>1 DEF CancelCreditBack, creditBack
  <2>4. CASE RecordRefund(k)
    <3>1. RefundEntry(k) \in Entries
      BY DEF RefundEntry, Entries
    <3> QED
      BY <2>4, <3>1 DEF RecordRefund
  <2>5. CASE RefundFails(k) \/ SaveFails(k)
    BY <2>5 DEF RefundFails, SaveFails
  <2>6. CASE SaveCancelled(k)
    BY <2>6 DEF SaveCancelled, BookingStatus
  <2> QED
    BY <1>4, <2>1, <2>2, <2>3, <2>4, <2>5, <2>6 DEF CancelStep
<1>5. CASE AccountStep
  BY <1>5 DEF AccountStep, updateCreditLimit, topUpWallet, deductWallet
<1>6. ASSUME NEW r \in Requests, NEW s \in AdminStatuses, updateBookingStatus(r, s) PROVE TypeOK'
  BY <1>6, AdminAssumption DEF updateBookingStatus
<1>7. CASE Crash
  BY <1>7 DEF Crash, RequestState, HoldingStates, RequestEnd, CancelState, CancelBusy, CancelEnd,
    RefundState, RefundBusy, RefundEnd
<1>8. ASSUME NEW a \in Refunds, RefundStep(a) PROVE TypeOK'
  <2> USE DEF RefundGoto, RefundState, RefundBusy, RefundEnd
  <2>1. CASE RefundSave(a)
    <3>1. readBalance[a] + refundAmount[a] \in Nat
      OBVIOUS
    <3> QED
      BY <2>1, <3>1 DEF RefundSave
  <2>2. CASE RefundPost(a)
    <3>1. WalletEntry(a) \in Entries
      BY DEF WalletEntry, Entries
    <3> QED
      BY <2>2, <3>1 DEF RefundPost
  <2>3. CASE RefundThrows(a)
    BY <2>3 DEF RefundThrows
  <2> QED
    BY <1>8, <2>1, <2>2, <2>3 DEF RefundStep
<1> QED
  BY <1>1, <1>2, <1>3, <1>4, <1>5, <1>6, <1>7, <1>8 DEF Next

LEMMA BookedNext == TypeOK /\ CancelInv /\ BookedInv /\ [Next]_vars => BookedInv'
<1> SUFFICES ASSUME TypeOK, CancelInv, BookedInv, [Next]_vars PROVE BookedInv'
  OBVIOUS
<1> USE RequestsAssumption DEF TypeOK, BookedInv, account, requestVars, cancelVars, refundVars
<1>1. CASE UNCHANGED vars
  BY <1>1 DEF vars
<1>2. CASE Arrival
  BY <1>2 DEF Arrival, PrebookFails, Prebook, CancelRead, RefundRead, RefundGoto, Goto
<1>3. ASSUME NEW r \in Requests, RequestStep(r) PROVE BookedInv'
  BY <1>3 DEF RequestStep, Goto, atomicDeductCredit, DeductRefused, BookConfirmed, BookFails,
    Compensate, CompensationFails, generateBookingRef, CommitBooking, RetryTransaction,
    TransactionFails
<1>4. ASSUME NEW k \in Cancels, CancelStep(k) PROVE BookedInv'
  BY <1>4 DEF CancelStep, SupplierCancels, SupplierCancelFails, CancelCreditBack, RecordRefund,
    RefundFails, SaveCancelled, SaveFails, CancelInv, CancelBusy
<1>5. CASE AccountStep
  BY <1>5 DEF AccountStep, updateCreditLimit, topUpWallet, deductWallet
<1>6. ASSUME NEW r \in Requests, NEW s \in AdminStatuses, updateBookingStatus(r, s)
      PROVE BookedInv'
  BY <1>6, AdminAssumption DEF updateBookingStatus, BookingStatus
<1>7. CASE Crash
  BY <1>7 DEF Crash, HoldingStates
<1>8. ASSUME NEW a \in Refunds, RefundStep(a) PROVE BookedInv'
  BY <1>8 DEF RefundStep, RefundSave, RefundPost, RefundThrows
<1> QED
  BY <1>1, <1>2, <1>3, <1>4, <1>5, <1>6, <1>7, <1>8 DEF Next

LEMMA RefNext == TypeOK /\ RefInv /\ [Next]_vars => RefInv'
<1> SUFFICES ASSUME TypeOK, RefInv, [Next]_vars PROVE RefInv'
  OBVIOUS
<1> USE RequestsAssumption DEF TypeOK, RefInv, account, requestVars, cancelVars, refundVars
<1>1. CASE UNCHANGED vars
  BY <1>1 DEF vars
<1>2. CASE Arrival
  BY <1>2 DEF Arrival, PrebookFails, Prebook, CancelRead, RefundRead, RefundGoto, Goto
<1>3. ASSUME NEW r \in Requests, RequestStep(r) PROVE RefInv'
  <2>1. CASE generateBookingRef(r)
    BY <2>1 DEF generateBookingRef, Goto
  <2>2. CASE CommitBooking(r)
    BY <2>2 DEF CommitBooking, Goto
  <2>3. CASE ~ generateBookingRef(r) /\ ~ CommitBooking(r)
    BY <1>3, <2>3 DEF RequestStep, Goto, atomicDeductCredit, DeductRefused, BookConfirmed,
      BookFails, Compensate, CompensationFails, RetryTransaction, TransactionFails
  <2> QED
    BY <2>1, <2>2, <2>3
<1>4. ASSUME NEW k \in Cancels, CancelStep(k) PROVE RefInv'
  BY <1>4 DEF CancelStep, SupplierCancels, SupplierCancelFails, CancelCreditBack, RecordRefund,
    RefundFails, SaveCancelled, SaveFails
<1>5. CASE AccountStep
  BY <1>5 DEF AccountStep, updateCreditLimit, topUpWallet, deductWallet
<1>6. ASSUME NEW r \in Requests, NEW s \in AdminStatuses, updateBookingStatus(r, s)
      PROVE RefInv'
  BY <1>6 DEF updateBookingStatus
<1>7. CASE Crash
  BY <1>7 DEF Crash, HoldingStates
<1>8. ASSUME NEW a \in Refunds, RefundStep(a) PROVE RefInv'
  BY <1>8 DEF RefundStep, RefundSave, RefundPost, RefundThrows
<1> QED
  BY <1>1, <1>2, <1>3, <1>4, <1>5, <1>6, <1>7, <1>8 DEF Next

LEMMA CancelNext == TypeOK /\ BookedInv /\ CancelInv /\ [Next]_vars => CancelInv'
<1> SUFFICES ASSUME TypeOK, BookedInv, CancelInv, [Next]_vars PROVE CancelInv'
  OBVIOUS
<1> USE RequestsAssumption, AmountsAssumption DEF TypeOK, BookedInv, CancelInv, CancelBusy,
      account, requestVars, cancelVars, refundVars
<1>1. CASE UNCHANGED vars
  BY <1>1 DEF vars
<1>2. CASE Arrival
  BY <1>2 DEF Arrival, PrebookFails, Prebook, CancelRead, RefundRead, RefundGoto, Goto, CancelGoto
<1>3. ASSUME NEW r \in Requests, RequestStep(r) PROVE CancelInv'
  BY <1>3 DEF RequestStep, Goto, atomicDeductCredit, DeductRefused, BookConfirmed, BookFails,
    Compensate, CompensationFails, generateBookingRef, CommitBooking, RetryTransaction,
    TransactionFails
<1>4. ASSUME NEW k \in Cancels, CancelStep(k) PROVE CancelInv'
  <2> USE DEF CancelGoto
  <2>1. ASSUME NEW charge \in Fees, SupplierCancels(k, charge) PROVE CancelInv'
    BY <2>1 DEF SupplierCancels
  <2>2. CASE CancelCreditBack(k)
    BY <2>2 DEF CancelCreditBack
  <2>3. CASE SupplierCancelFails(k) \/ RecordRefund(k) \/ RefundFails(k) \/ SaveFails(k)
    BY <2>3 DEF SupplierCancelFails, RecordRefund, RefundFails, SaveFails
  <2>4. CASE SaveCancelled(k)
    BY <2>4 DEF SaveCancelled
  <2> QED
    BY <1>4, <2>1, <2>2, <2>3, <2>4 DEF CancelStep
<1>5. CASE AccountStep
  BY <1>5 DEF AccountStep, updateCreditLimit, topUpWallet, deductWallet
<1>6. ASSUME NEW r \in Requests, NEW s \in AdminStatuses, updateBookingStatus(r, s)
      PROVE CancelInv'
  BY <1>6, AdminAssumption DEF updateBookingStatus, BookingStatus
<1>7. CASE Crash
  <2>1. ASSUME NEW k \in Cancels PROVE cancelState'[k] \in {cancelState[k], "lost"}
    BY <1>7 DEF Crash
  <2>2. ASSUME NEW k \in Cancels, cancelState'[k] \in CancelBusy \cup {"idle"}
        PROVE cancelState'[k] = cancelState[k]
    BY <2>1, <2>2
  <2>3. UNCHANGED <<status, credited, fee, totalAmount>>
    BY <1>7 DEF Crash
  <2> QED
    BY <2>2, <2>3
<1>8. ASSUME NEW a \in Refunds, RefundStep(a) PROVE CancelInv'
  BY <1>8 DEF RefundStep, RefundSave, RefundPost, RefundThrows
<1> QED
  BY <1>1, <1>2, <1>3, <1>4, <1>5, <1>6, <1>7, <1>8 DEF Next

LEMMA RefundNext ==
  TypeOK /\ BookedInv /\ CancelInv /\ RefundInv /\ [Next]_vars => RefundInv'
<1> SUFFICES ASSUME TypeOK, BookedInv, CancelInv, RefundInv, [Next]_vars,
                    NEW a \in Refunds, refundState'[a] # "idle"
             PROVE  /\ RefundOf[a] \in Requests => status'[RefundOf[a]] # "none"
                    /\ refundAmount'[a] > 0
  BY DEF RefundInv
<1> USE RequestsAssumption, AmountsAssumption DEF TypeOK, account, requestVars, cancelVars,
      refundVars
<1>1. \A r \in Requests : status[r] # "none" => status'[r] # "none"
  BY AdminAssumption DEF Next, vars, Arrival, Prebook, PrebookFails, CancelRead, RefundRead,
    RequestStep, atomicDeductCredit, DeductRefused, BookConfirmed, BookFails, Compensate,
    CompensationFails, generateBookingRef, CommitBooking, RetryTransaction, TransactionFails,
    CancelStep, SupplierCancels, SupplierCancelFails, CancelCreditBack, RecordRefund, RefundFails,
    SaveCancelled, SaveFails, RefundStep, RefundSave, RefundPost, RefundThrows, AccountStep,
    updateCreditLimit, topUpWallet, deductWallet, updateBookingStatus, BookingStatus, Crash
<1>2. CASE refundState[a] # "idle"
  <2>1. refundAmount'[a] = refundAmount[a]
    BY <1>2 DEF Next, vars, Arrival, Prebook, PrebookFails, CancelRead, RefundRead,
      RequestStep, atomicDeductCredit, DeductRefused, BookConfirmed, BookFails, Compensate,
      CompensationFails, generateBookingRef, CommitBooking, RetryTransaction, TransactionFails,
      CancelStep, SupplierCancels, SupplierCancelFails, CancelCreditBack, RecordRefund,
      RefundFails, SaveCancelled, SaveFails, RefundStep, RefundSave, RefundPost, RefundThrows,
      AccountStep, updateCreditLimit, topUpWallet, deductWallet, updateBookingStatus, Crash
  <2> QED
    BY <1>1, <1>2, <2>1 DEF RefundInv
<1>3. CASE refundState[a] = "idle"
  <2>1. \E amount \in RefundAmounts : RefundRead(a, amount)
    BY <1>3 DEF Next, vars, Arrival, Prebook, PrebookFails, CancelRead, RefundRead, RefundGoto,
      RequestStep, atomicDeductCredit, DeductRefused, BookConfirmed, BookFails, Compensate,
      CompensationFails, generateBookingRef, CommitBooking, RetryTransaction, TransactionFails,
      CancelStep, SupplierCancels, SupplierCancelFails, CancelCreditBack, RecordRefund,
      RefundFails, SaveCancelled, SaveFails, RefundStep, RefundSave, RefundPost, RefundThrows,
      AccountStep, updateCreditLimit, topUpWallet, deductWallet, updateBookingStatus, Crash,
      RefundBusy
  <2> QED
    BY <2>1 DEF RefundRead
<1> QED
  BY <1>2, <1>3

(* A claim on an entry outlives a step that neither removes nor rewrites a
   booking, a finished cancel or a finished refund.                        *)
ClaimsKept ==
  /\ \A r \in Requests : status[r] # "none" =>
       status'[r] # "none" /\ totalAmount'[r] = totalAmount[r] /\ bookingRef'[r] = bookingRef[r]
  /\ \A k \in Cancels : cancelState[k] \in Finished =>
       cancelState'[k] \in Finished /\ credited'[k] = credited[k]
  /\ \A a \in Refunds : refundState[a] = "done" =>
       refundState'[a] = "done" /\ refundAmount'[a] = refundAmount[a]

Undisturbed ==
  /\ ClaimsKept /\ walletTx' = walletTx
  /\ \A r \in Requests : status'[r] # "none" => status[r] # "none"

LEMMA ClaimKept ==
  ASSUME RefundInv, ClaimsKept, NEW e, Claimed(e)
  PROVE  Claimed(e)'
<1> USE RequestsAssumption DEF ClaimsKept
<1>1. CASE \E r \in Requests : status[r] # "none" /\ e = DebitEntry(r)
  BY <1>1 DEF Claimed, DebitEntry
<1>2. CASE \E k \in Cancels : /\ status[TargetOf[k]] # "none" /\ cancelState[k] \in Finished
                              /\ credited[k] > 0 /\ e = RefundEntry(k)
  <2>1. PICK k \in Cancels : /\ status[TargetOf[k]] # "none" /\ cancelState[k] \in Finished
                             /\ credited[k] > 0 /\ e = RefundEntry(k)
    BY <1>2
  <2>2. /\ status'[TargetOf[k]] # "none" /\ cancelState'[k] \in Finished
        /\ credited'[k] = credited[k] /\ RefundEntry(k)' = RefundEntry(k)
    BY <2>1 DEF RefundEntry
  <2> QED
    BY <2>1, <2>2 DEF Claimed, Finished
<1>3. CASE \E a \in Refunds : refundState[a] = "done" /\ e = WalletEntry(a)
  <2>1. PICK a \in Refunds : refundState[a] = "done" /\ e = WalletEntry(a)
    BY <1>3
  <2>2. refundState'[a] = "done" /\ WalletEntry(a)' = WalletEntry(a)
    BY <2>1 DEF WalletEntry, RefundInv
  <2> QED
    BY <2>1, <2>2 DEF Claimed
<1> QED
  BY <1>1, <1>2, <1>3 DEF Claimed

LEMMA LedgerKept == RefundInv /\ LedgerInv /\ Undisturbed => LedgerInv'
<1> SUFFICES ASSUME RefundInv, LedgerInv, Undisturbed PROVE LedgerInv'
  OBVIOUS
<1>1. \A r \in Requests : status'[r] # "none" => DebitEntry(r)' \in walletTx'
  BY DEF Undisturbed, ClaimsKept, LedgerInv, DebitEntry
<1>2. \A e \in walletTx' : Claimed(e)'
  BY ClaimKept DEF Undisturbed, LedgerInv
<1> QED
  BY <1>1, <1>2 DEF LedgerInv

(* A step that writes one entry, with the claim to it.                     *)
LEMMA LedgerExtended ==
  ASSUME RefundInv, LedgerInv, ClaimsKept, NEW new, walletTx' = walletTx \cup {new},
         Claimed(new)',
         \A r \in Requests : status'[r] # "none" => status[r] # "none" \/ new = DebitEntry(r)'
  PROVE  LedgerInv'
<1>1. \A r \in Requests : status'[r] # "none" => DebitEntry(r)' \in walletTx'
  BY DEF ClaimsKept, LedgerInv, DebitEntry
<1>2. \A e \in walletTx' : Claimed(e)'
  BY ClaimKept DEF LedgerInv
<1> QED
  BY <1>1, <1>2 DEF LedgerInv

LEMMA LedgerNext ==
  TypeOK /\ BookedInv /\ CancelInv /\ RefundInv /\ LedgerInv /\ [Next]_vars => LedgerInv'
<1> SUFFICES ASSUME TypeOK, BookedInv, CancelInv, RefundInv, LedgerInv, [Next]_vars
             PROVE  LedgerInv'
  OBVIOUS
<1> USE RequestsAssumption DEF TypeOK, BookedInv, CancelInv, Finished, CancelBusy, CancelEnd,
      Undisturbed, ClaimsKept, account, requestVars, cancelVars, refundVars
<1>1. CASE UNCHANGED vars
  BY <1>1, LedgerKept DEF vars
<1>2. CASE Arrival
  <2>1. Undisturbed
    BY <1>2 DEF Arrival, PrebookFails, Prebook, CancelRead, RefundRead, RefundGoto, Goto,
      CancelGoto
  <2> QED
    BY <2>1, LedgerKept
<1>3. ASSUME NEW r \in Requests, RequestStep(r) PROVE LedgerInv'
  <2>1. CASE CommitBooking(r)
    <3>1. /\ walletTx' = walletTx \cup {DebitEntry(r)} /\ status[r] = "none"
          /\ status' = [status EXCEPT ![r] = "confirmed"]
          /\ UNCHANGED <<totalAmount, bookingRef, credited, cancelState, refundVars>>
      BY <2>1 DEF CommitBooking
    <3>2. PICK new : new = DebitEntry(r)
      OBVIOUS
    <3>3. new = DebitEntry(r)' /\ status'[r] # "none"
      BY <3>1, <3>2 DEF DebitEntry
    <3>4. Claimed(new)'
      BY <3>3 DEF Claimed
    <3>5. ClaimsKept
      BY <3>1
    <3>6. \A q \in Requests : status'[q] # "none" => status[q] # "none" \/ new = DebitEntry(q)'
      BY <3>1, <3>3
    <3> QED
      BY <3>1, <3>2, <3>4, <3>5, <3>6, LedgerExtended
  <2>2. CASE ~ CommitBooking(r)
    <3>1. Undisturbed
      BY <1>3, <2>2 DEF RequestStep, Goto, atomicDeductCredit, DeductRefused, BookConfirmed,
        BookFails, Compensate, CompensationFails, generateBookingRef, RetryTransaction,
        TransactionFails
    <3> QED
      BY <3>1, LedgerKept
  <2> QED
    BY <2>1, <2>2
<1>4. ASSUME NEW k \in Cancels, CancelStep(k) PROVE LedgerInv'
  <2>1. CASE RecordRefund(k)
    <3>1. /\ walletTx' = walletTx \cup {RefundEntry(k)} /\ credited[k] > 0
          /\ cancelState[k] = "recording" /\ status[TargetOf[k]] # "none"
          /\ cancelState' = [cancelState EXCEPT ![k] = "saving"]
          /\ UNCHANGED <<totalAmount, bookingRef, credited, status, refundVars>>
      BY <2>1 DEF RecordRefund, CancelGoto
    <3>2. PICK new : new = RefundEntry(k)
      OBVIOUS
    <3>3. /\ new = RefundEntry(k)' /\ cancelState'[k] = "saving"
          /\ credited'[k] > 0 /\ status'[TargetOf[k]] # "none"
      BY <3>1, <3>2 DEF RefundEntry
    <3>4. Claimed(new)'
      BY <3>3 DEF Claimed
    <3>5. ClaimsKept
      BY <3>1
    <3> QED
      BY <3>1, <3>2, <3>4, <3>5, LedgerExtended
  <2>2. CASE ~ RecordRefund(k)
    <3>1. Undisturbed
      BY <1>4, <2>2 DEF CancelStep, CancelGoto, SupplierCancels, SupplierCancelFails,
        CancelCreditBack, RefundFails, SaveCancelled, SaveFails
    <3> QED
      BY <3>1, LedgerKept
  <2> QED
    BY <2>1, <2>2
<1>5. CASE AccountStep
  <2>1. Undisturbed
    BY <1>5 DEF AccountStep, updateCreditLimit, topUpWallet, deductWallet
  <2> QED
    BY <2>1, LedgerKept
<1>6. ASSUME NEW r \in Requests, NEW s \in AdminStatuses, updateBookingStatus(r, s)
      PROVE LedgerInv'
  <2>1. Undisturbed
    BY <1>6, AdminAssumption DEF updateBookingStatus, BookingStatus
  <2> QED
    BY <2>1, LedgerKept
<1>7. CASE Crash
  <2>1. Undisturbed
    BY <1>7 DEF Crash, RefundBusy
  <2> QED
    BY <2>1, LedgerKept
<1>8. ASSUME NEW a \in Refunds, RefundStep(a) PROVE LedgerInv'
  <2>1. CASE RefundPost(a)
    <3>1. /\ walletTx' = walletTx \cup {WalletEntry(a)}
          /\ refundState' = [refundState EXCEPT ![a] = "done"]
          /\ UNCHANGED <<refundAmount, requestVars, status, cancelVars>>
      BY <2>1 DEF RefundPost, RefundGoto
    <3>2. PICK new : new = WalletEntry(a)
      OBVIOUS
    <3>3. new = WalletEntry(a)' /\ refundState'[a] = "done"
      BY <3>1, <3>2 DEF WalletEntry
    <3>4. Claimed(new)'
      BY <3>3 DEF Claimed
    <3>5. ClaimsKept
      BY <3>1
    <3> QED
      BY <3>1, <3>2, <3>4, <3>5, LedgerExtended
  <2>2. CASE RefundSave(a) \/ RefundThrows(a)
    <3>1. Undisturbed
      BY <2>2 DEF RefundSave, RefundThrows, RefundGoto, RefundBusy
    <3> QED
      BY <3>1, LedgerKept
  <2> QED
    BY <1>8, <2>1, <2>2 DEF RefundStep
<1> QED
  BY <1>1, <1>2, <1>3, <1>4, <1>5, <1>6, <1>7, <1>8 DEF Next

LEMMA IInvInit == Init => IInv
<1> SUFFICES ASSUME Init PROVE IInv
  OBVIOUS
<1>1. TypeOK
  BY TypeInit
<1>2. BookedInv /\ RefInv /\ RefundInv /\ LedgerInv
  BY DEF Init, BookedInv, RefInv, RefundInv, LedgerInv
<1>3. CancelInv
  BY DEF Init, CancelInv, CancelBusy
<1> QED
  BY <1>1, <1>2, <1>3 DEF IInv

LEMMA IInvNext == IInv /\ [Next]_vars => IInv'
  BY TypeNext, BookedNext, RefNext, CancelNext, RefundNext, LedgerNext DEF IInv

LEMMA IInvCorrect == Spec => []IInv
  BY IInvInit, IInvNext, PTL DEF Spec

-----------------------------------------------------------------------------
(* Every variable keeps to its type: no handler of createBooking,
   cancelBooking or refundBooking leaves a state, an amount or a ledger entry out of range. *)
THEOREM TypeCorrect == Spec => []TypeOK
<1>1. IInv => TypeOK
  BY DEF IInv
<1> QED
  BY <1>1, IInvCorrect, PTL

(* No two requests write the same booking reference, however often their
   transactions run (bookings.service.ts 42-51).                           *)
THEOREM RefsAreUnique == Spec => []UniqueBookingRefs
<1>1. IInv => UniqueBookingRefs
  BY DEF IInv, RefInv, UniqueBookingRefs
<1> QED
  BY <1>1, IInvCorrect, PTL

(* Assertion 2 of verify-ledger.ts: a confirmed or completed booking has
   exactly one debit entry, of its total amount.                           *)
THEOREM OneDebit == Spec => []OneDebitPerBooking
<1>1. IInv => OneDebitPerBooking
  <2> SUFFICES ASSUME IInv, NEW r \in Requests, status[r] \in {"confirmed", "completed"}
               PROVE \E e \in walletTx :
                       /\ e.amount = totalAmount[r]
                       /\ \A d \in walletTx :
                            d.type = "credit_use" /\ d.bookingRef = bookingRef[r] <=> d = e
    BY DEF OneDebitPerBooking
  <2> USE DEF IInv
  <2>1. DebitEntry(r) \in walletTx /\ DebitEntry(r).amount = totalAmount[r]
    BY DEF LedgerInv, DebitEntry
  <2>2. DebitEntry(r).type = "credit_use" /\ DebitEntry(r).bookingRef = bookingRef[r]
    BY DEF DebitEntry
  <2>3. ASSUME NEW d \in walletTx, d.type = "credit_use", d.bookingRef = bookingRef[r]
        PROVE d = DebitEntry(r)
    <3>1. /\ \A k \in Cancels : RefundEntry(k).type = "credit_refund"
          /\ \A a \in Refunds : WalletEntry(a).type = "credit_refund"
      BY DEF RefundEntry, WalletEntry
    <3>2. PICK q \in Requests : status[q] # "none" /\ d = DebitEntry(q)
      BY <2>3, <3>1 DEF LedgerInv, Claimed
    <3>3. bookingRef[q] = bookingRef[r]
      BY <2>3, <3>2 DEF DebitEntry
    <3>4. bookingRef[q] > 0
      BY <3>2 DEF BookedInv, RefInv
    <3> QED
      BY <3>2, <3>3, <3>4 DEF RefInv
  <2> QED
    BY <2>1, <2>2, <2>3
<1> QED
  BY <1>1, IInvCorrect, PTL

(* No ledger entry is an orphan: each names a booking that exists, of its
   own company, and a refund entry either what its cancel gave back or what
   refundBooking put into the wallet.                                      *)
THEOREM NoOrphanEntries == Spec => []EntriesHaveBookings
<1>1. IInv => EntriesHaveBookings
  <2> SUFFICES ASSUME IInv, NEW e \in walletTx
               PROVE \/ \E r \in RequestsOf(e.company) :
                          /\ status[r] # "none"
                          /\ bookingRef[r] = e.bookingRef
                          /\ \/ e = DebitEntry(r)
                             \/ \E k \in CancelsOf(r) : e = RefundEntry(k) /\ e.amount > 0
                     \/ \E a \in Refunds :
                          /\ RefundOf[a] \in Requests => status[RefundOf[a]] # "none"
                          /\ refundState[a] = "done"
                          /\ e = WalletEntry(a) /\ e.amount > 0
    BY DEF EntriesHaveBookings
  <2> USE RequestsAssumption DEF IInv
  <2>1. CASE \E r \in Requests : status[r] # "none" /\ e = DebitEntry(r)
    BY <2>1 DEF DebitEntry, RequestsOf
  <2>2. CASE \E k \in Cancels : /\ status[TargetOf[k]] # "none" /\ credited[k] > 0
                                /\ e = RefundEntry(k)
    BY <2>2 DEF RefundEntry, RequestsOf, CancelsOf
  <2>3. CASE \E a \in Refunds : refundState[a] = "done" /\ e = WalletEntry(a)
    BY <2>3 DEF WalletEntry, RefundInv
  <2> QED
    BY <2>1, <2>2, <2>3 DEF LedgerInv, Claimed
<1> QED
  BY <1>1, IInvCorrect, PTL

-----------------------------------------------------------------------------
(* The handlers implement the credit account.                              *)

(* What a request holds is positive.                                       *)
HoldInv ==
  \A r \in Requests :
    reqState[r] \in HoldingStates \cup {"booked", "leaked"} => totalAmount[r] > 0

LEMMA HoldNext == TypeOK /\ HoldInv /\ [Next]_vars => HoldInv'
<1> SUFFICES ASSUME TypeOK, HoldInv, [Next]_vars PROVE HoldInv'
  OBVIOUS
<1> USE DEF TypeOK, HoldInv, HoldingStates, account, requestVars, cancelVars, refundVars
<1>1. CASE UNCHANGED vars
  BY <1>1 DEF vars
<1>2. CASE Arrival
  BY <1>2 DEF Arrival, PrebookFails, Prebook, CancelRead, RefundRead, RefundGoto, Goto
<1>3. ASSUME NEW r \in Requests, RequestStep(r) PROVE HoldInv'
  BY <1>3 DEF RequestStep, Goto, atomicDeductCredit, DeductRefused, BookConfirmed, BookFails,
    Compensate, CompensationFails, generateBookingRef, CommitBooking, RetryTransaction,
    TransactionFails
<1>4. ASSUME NEW k \in Cancels, CancelStep(k) PROVE HoldInv'
  BY <1>4 DEF CancelStep, SupplierCancels, SupplierCancelFails, CancelCreditBack, RecordRefund,
    RefundFails, SaveCancelled, SaveFails
<1>5. CASE AccountStep
  BY <1>5 DEF AccountStep, updateCreditLimit, topUpWallet, deductWallet
<1>6. ASSUME NEW r \in Requests, NEW s \in AdminStatuses, updateBookingStatus(r, s)
      PROVE HoldInv'
  BY <1>6 DEF updateBookingStatus
<1>7. CASE Crash
  BY <1>7 DEF Crash
<1>8. ASSUME NEW a \in Refunds, RefundStep(a) PROVE HoldInv'
  BY <1>8 DEF RefundStep, RefundSave, RefundPost, RefundThrows
<1> QED
  BY <1>1, <1>2, <1>3, <1>4, <1>5, <1>6, <1>7, <1>8 DEF Next

LEMMA HoldCorrect == Spec => []HoldInv
<1>1. Init => HoldInv
  BY DEF Init, HoldInv, HoldingStates
<1>2. IInv => TypeOK
  BY DEF IInv
<1> QED
  BY <1>1, <1>2, HoldNext, IInvCorrect, PTL DEF Spec

(* With one cancel call per booking, what a request got back is what that
   call gave back.                                                         *)
LEMMA OneGivesBack ==
  ASSUME OneCancelPerBooking, NEW k \in Cancels
  PROVE  GivenBack(TargetOf[k]) = credited[k] /\ GivenBack(TargetOf[k])' = credited'[k]
<1>1. CancelsOf(TargetOf[k]) = {k}
  BY DEF CancelsOf, OneCancelPerBooking
<1>2. (CHOOSE j \in CancelsOf(TargetOf[k]) : TRUE) = k
  BY <1>1
<1> QED
  BY <1>1, <1>2 DEF GivenBack

LEMMA OthersKeep ==
  ASSUME NEW k \in Cancels, NEW r \in Requests, r # TargetOf[k],
         \A j \in Cancels : j # k => credited'[j] = credited[j]
  PROVE  GivenBack(r)' = GivenBack(r)
<1>1. CASE CancelsOf(r) = {}
  BY <1>1 DEF GivenBack, CancelsOf
<1>2. CASE CancelsOf(r) # {}
  <2> DEFINE j == CHOOSE i \in CancelsOf(r) : TRUE
  <2>1. j \in CancelsOf(r)
    BY <1>2
  <2>2. j \in Cancels /\ j # k
    BY <2>1 DEF CancelsOf
  <2>3. credited'[j] = credited[j]
    BY <2>2
  <2> QED
    BY <1>2, <2>3 DEF GivenBack, CancelsOf
<1> QED
  BY <1>1, <1>2

(* Nothing was given back to a request without a booking.                  *)
LEMMA NothingBackYet ==
  ASSUME TypeOK, CancelInv, NEW r \in Requests, status[r] = "none"
  PROVE  GivenBack(r) = 0
<1>1. CASE CancelsOf(r) # {}
  <2> DEFINE j == CHOOSE i \in CancelsOf(r) : TRUE
  <2>1. j \in CancelsOf(r)
    BY <1>1
  <2>2. j \in Cancels /\ TargetOf[j] = r
    BY <2>1 DEF CancelsOf
  <2>3. credited[j] = 0
    BY <2>2 DEF TypeOK, CancelInv
  <2> QED
    BY <1>1, <2>3 DEF GivenBack
<1> QED
  BY <1>1 DEF GivenBack

(* Steps that touch neither the debt nor any commitment.                   *)
Neutral ==
  /\ UNCHANGED outstandingBalance
  /\ \A r \in Requests : Committed(r)' = Committed(r)
  /\ Admitted' = Admitted

LEMMA NeutralStutters ==
  Neutral /\ UNCHANGED <<creditLimit, walletBalance>> => UNCHANGED Account!avars
  BY DEF Neutral, Account!avars

LEMMA NeutralCover ==
  TypeOK' /\ Neutral => Account!ChangeCover
  BY DEF Neutral, Account!ChangeCover, TypeOK

(* When one request alone changes what it has committed.                   *)
LEMMA CommittedMoves ==
  ASSUME NEW r \in Requests, \A q \in Requests \ {r} : Committed(q)' = Committed(q)
  PROVE  [q \in Requests |-> Committed(q)]'
           = [[q \in Requests |-> Committed(q)] EXCEPT ![r] = Committed(r)']
  BY ZenonT(30)

LEMMA AccountStepOf ==
  ASSUME OneCancelPerBooking, IInv, IInv', HoldInv, [Next]_vars
  PROVE  [Account!Next]_(Account!avars)
<1> USE RequestsAssumption DEF IInv, TypeOK, account, requestVars, cancelVars, refundVars
<1>1. CASE UNCHANGED vars
  <2>1. Neutral
    BY <1>1 DEF vars, Neutral, Committed, Hold, GivenBack, CancelsOf, Admitted
  <2> QED
    BY <1>1, <2>1, NeutralStutters DEF vars
<1>2. CASE Arrival
  <2>1. Neutral
    <3>1. UNCHANGED <<outstandingBalance, credited>>
      BY <1>2 DEF Arrival, PrebookFails, Prebook, CancelRead, RefundRead, RefundGoto
    <3>2. \A r \in Requests : Hold(r)' = Hold(r)
      BY <1>2 DEF Arrival, PrebookFails, Prebook, CancelRead, RefundRead, Goto, Hold,
        HoldingStates
    <3>3. Admitted' = Admitted
      BY <1>2 DEF Arrival, PrebookFails, Prebook, CancelRead, RefundRead, RefundGoto, Goto, Admitted
    <3> QED
      BY <3>1, <3>2, <3>3 DEF Neutral, Committed, GivenBack, CancelsOf
  <2> QED
    BY <1>2, <2>1, NeutralStutters DEF Arrival, PrebookFails, Prebook, CancelRead, RefundRead
<1>3. ASSUME NEW r \in Requests, RequestStep(r) PROVE [Account!Next]_(Account!avars)
  <2>0. UNCHANGED <<creditLimit, walletBalance, credited>>
    BY <1>3 DEF RequestStep, atomicDeductCredit, DeductRefused, BookConfirmed, BookFails,
      Compensate, CompensationFails, generateBookingRef, CommitBooking, RetryTransaction,
      TransactionFails
  <2>1. \A q \in Requests : GivenBack(q)' = GivenBack(q)
    BY <2>0 DEF GivenBack, CancelsOf
  <2>2. CASE atomicDeductCredit(r)
    <3>1. /\ reqState[r] = "called" /\ reqState' = [reqState EXCEPT ![r] = "deducted"]
          /\ totalAmount[r] \in 1..Account!Available(CompanyOf[r])
          /\ outstandingBalance' =
               [outstandingBalance EXCEPT ![CompanyOf[r]] = @ + totalAmount[r]]
          /\ totalAmount' = totalAmount
      BY <2>2 DEF atomicDeductCredit, Goto, AvailableCredit, Account!Available
    <3>2. GivenBack(r) = 0
      BY <3>1, NothingBackYet DEF BookedInv
    <3>3. Committed(r)' = totalAmount[r]
      BY <2>1, <3>1, <3>2 DEF Committed, Hold, HoldingStates
    <3>4. \A q \in Requests \ {r} : Committed(q)' = Committed(q)
      BY <2>1, <3>1 DEF Committed, Hold
    <3>5. r \notin Admitted /\ Admitted' = Admitted \cup {r}
      BY <3>1 DEF Admitted
    <3>6. [q \in Requests |-> Committed(q)]'
            = [[q \in Requests |-> Committed(q)] EXCEPT ![r] = totalAmount[r]]
      BY <3>3, <3>4, CommittedMoves
    <3>7. Account!Commit(r)
      BY <2>0, <3>1, <3>5, <3>6 DEF Account!Commit
    <3> QED
      BY <3>7 DEF Account!Next
  <2>3. CASE Compensate(r)
    <3>1. /\ reqState[r] = "compensating" /\ reqState' = [reqState EXCEPT ![r] = "released"]
          /\ outstandingBalance' =
               [outstandingBalance EXCEPT ![CompanyOf[r]] = @ - totalAmount[r]]
          /\ totalAmount' = totalAmount
      BY <2>3 DEF Compensate, creditBack, Goto
    <3>2. GivenBack(r) = 0
      BY <3>1, NothingBackYet DEF BookedInv
    <3>3. Committed(r) = totalAmount[r] /\ Committed(r)' = 0
      BY <2>1, <3>1, <3>2 DEF Committed, Hold, HoldingStates
    <3>4. \A q \in Requests \ {r} : Committed(q)' = Committed(q)
      BY <2>1, <3>1 DEF Committed, Hold
    <3>5. Admitted' = Admitted
      BY <3>1 DEF Admitted
    <3>6. totalAmount[r] \in 1..Committed(r)
      BY <3>1, <3>3 DEF HoldInv, HoldingStates
    <3>7. [q \in Requests |-> Committed(q)]'
            = [[q \in Requests |-> Committed(q)] EXCEPT ![r] = @ - totalAmount[r]]
      <4>1. [q \in Requests |-> Committed(q)][r] - totalAmount[r] = Committed(r)'
        BY <3>3
      <4>2. [q \in Requests |-> Committed(q)]'
              = [[q \in Requests |-> Committed(q)] EXCEPT ![r] = Committed(r)']
        BY <3>4, CommittedMoves, Zenon
      <4> QED
        BY <4>1, <4>2, Zenon
    <3>8. [q \in Requests |-> Committed(q)][r] = Committed(r)
      OBVIOUS
    <3>9. Account!GiveBack(r)
      <4>1. totalAmount[r] \in 1..[q \in Requests |-> Committed(q)][r]
        BY <3>6, <3>8
      <4>2. \E amount \in 1..[q \in Requests |-> Committed(q)][r] :
              /\ [q \in Requests |-> Committed(q)]'
                   = [[q \in Requests |-> Committed(q)] EXCEPT ![r] = @ - amount]
              /\ outstandingBalance' =
                   [outstandingBalance EXCEPT ![CompanyOf[r]] = @ - amount]
        BY <3>1, <3>7, <4>1, Zenon
      <4> QED
        BY <2>0, <3>5, <4>2, Zenon DEF Account!GiveBack
    <3> QED
      BY <3>9 DEF Account!Next
  <2>4. CASE ~ atomicDeductCredit(r) /\ ~ Compensate(r)
    <3>1. UNCHANGED <<outstandingBalance, totalAmount>>
      BY <1>3, <2>4 DEF RequestStep, DeductRefused, BookConfirmed, BookFails,
        CompensationFails, generateBookingRef, CommitBooking, RetryTransaction, TransactionFails
    <3>2. \A q \in Requests : Hold(q)' = Hold(q)
      BY <1>3, <2>4, <3>1 DEF RequestStep, DeductRefused, BookConfirmed, BookFails, Goto, Hold,
        HoldingStates, CompensationFails, generateBookingRef, CommitBooking, RetryTransaction,
        TransactionFails
    <3>3. Admitted' = Admitted
      BY <1>3, <2>4 DEF RequestStep, DeductRefused, BookConfirmed, BookFails, Goto, Admitted,
        CompensationFails, generateBookingRef, CommitBooking, RetryTransaction, TransactionFails
    <3>4. Neutral
      BY <2>1, <3>1, <3>2, <3>3 DEF Neutral, Committed
    <3> QED
      BY <2>0, <3>4, NeutralStutters
  <2> QED
    BY <2>2, <2>3, <2>4
<1>4. ASSUME NEW k \in Cancels, CancelStep(k) PROVE [Account!Next]_(Account!avars)
  <2>0. UNCHANGED <<creditLimit, walletBalance, reqState, totalAmount>>
    BY <1>4 DEF CancelStep, SupplierCancels, SupplierCancelFails, CancelCreditBack,
      RecordRefund, RefundFails, SaveCancelled, SaveFails
  <2>1. Admitted' = Admitted /\ \A q \in Requests : Hold(q)' = Hold(q)
    BY <2>0 DEF Admitted, Hold
  <2>2. CASE CancelCreditBack(k)
    <3> DEFINE r == TargetOf[k]
               refundable == totalAmount[r] - fee[k]
    <3>1. /\ cancelState[k] = "crediting" /\ r \in Requests
          /\ outstandingBalance' = [outstandingBalance EXCEPT ![CompanyOf[r]] = @ - refundable]
          /\ credited' = [credited EXCEPT ![k] = refundable]
      BY <2>2 DEF CancelCreditBack, creditBack
    <3>2. /\ credited[k] = 0 /\ refundable \in 1..totalAmount[r] /\ reqState[r] = "booked"
      BY <3>1 DEF CancelInv, CancelBusy, BookedInv
    <3>3. Hold(r) = totalAmount[r]
      BY <3>1, <3>2 DEF Hold
    <3>4. GivenBack(r) = 0 /\ GivenBack(r)' = refundable
      <4>1. credited'[k] = refundable
        BY <3>1
      <4> QED
        BY <3>2, <4>1, OneGivesBack
    <3>5. Committed(r) = totalAmount[r] /\ Committed(r)' = totalAmount[r] - refundable
      BY <2>1, <3>1, <3>3, <3>4 DEF Committed
    <3>6. \A j \in Cancels : j # k => credited'[j] = credited[j]
      BY <3>1
    <3>7. \A q \in Requests \ {r} : Committed(q)' = Committed(q)
      BY <2>1, <3>6, OthersKeep DEF Committed
    <3>8. [q \in Requests |-> Committed(q)]'
            = [[q \in Requests |-> Committed(q)] EXCEPT ![r] = @ - refundable]
      <4>1. [q \in Requests |-> Committed(q)][r] - refundable = Committed(r)'
        BY <3>1, <3>5
      <4>2. r \in Requests
        BY <3>1
      <4> HIDE DEF r, refundable
      <4>3. [q \in Requests |-> Committed(q)]'
              = [[q \in Requests |-> Committed(q)] EXCEPT ![r] = Committed(r)']
        BY <3>7, <4>2, CommittedMoves, Zenon
      <4> QED
        BY <4>1, <4>3, Zenon
    <3>9. [q \in Requests |-> Committed(q)][r] = totalAmount[r]
      BY <3>1, <3>5
    <3>10. Account!GiveBack(r)
      <4>1. refundable \in 1..[q \in Requests |-> Committed(q)][r]
        BY <3>2, <3>9
      <4> HIDE DEF refundable
      <4>2. \E amount \in 1..[q \in Requests |-> Committed(q)][r] :
              /\ [q \in Requests |-> Committed(q)]'
                   = [[q \in Requests |-> Committed(q)] EXCEPT ![r] = @ - amount]
              /\ outstandingBalance' =
                   [outstandingBalance EXCEPT ![CompanyOf[r]] = @ - amount]
        BY <3>1, <3>8, <4>1, Zenon
      <4> QED
        BY <2>0, <2>1, <4>2, Zenon DEF Account!GiveBack
    <3> QED
      BY <3>1, <3>10 DEF Account!Next
  <2>3. CASE ~ CancelCreditBack(k)
    <3>1. UNCHANGED <<outstandingBalance, credited>>
      BY <1>4, <2>3 DEF CancelStep, SupplierCancels, SupplierCancelFails, RecordRefund,
        RefundFails, SaveCancelled, SaveFails
    <3>2. Neutral
      BY <2>1, <3>1 DEF Neutral, Committed, GivenBack, CancelsOf
    <3> QED
      BY <2>0, <3>2, NeutralStutters
  <2> QED
    BY <2>2, <2>3
<1>5. CASE AccountStep
  <2>1. UNCHANGED <<outstandingBalance, reqState, totalAmount, credited>>
    BY <1>5 DEF AccountStep, updateCreditLimit, topUpWallet, deductWallet
  <2>2. Neutral
    BY <2>1 DEF Neutral, Committed, Hold, GivenBack, CancelsOf, Admitted
  <2> QED
    BY <2>2, NeutralCover DEF Account!Next
<1>6. ASSUME NEW r \in Requests, NEW s \in AdminStatuses, updateBookingStatus(r, s)
      PROVE [Account!Next]_(Account!avars)
  <2>1. UNCHANGED <<account, reqState, totalAmount, credited>>
    BY <1>6 DEF updateBookingStatus
  <2>2. Neutral
    BY <2>1 DEF Neutral, Committed, Hold, GivenBack, CancelsOf, Admitted
  <2> QED
    BY <2>1, <2>2, NeutralStutters
<1>7. CASE Crash
  <2>1. UNCHANGED <<account, totalAmount, credited>>
    BY <1>7 DEF Crash
  <2>2. \A r \in Requests : Hold(r)' = Hold(r)
    BY <1>7, <2>1 DEF Crash, Hold, HoldingStates
  <2>3. Admitted' = Admitted
    BY <1>7 DEF Crash, Admitted, HoldingStates
  <2>4. Neutral
    BY <2>1, <2>2, <2>3 DEF Neutral, Committed, GivenBack, CancelsOf
  <2> QED
    BY <2>1, <2>4, NeutralStutters
<1>8. ASSUME NEW a \in Refunds, RefundStep(a) PROVE [Account!Next]_(Account!avars)
  <2>1. UNCHANGED <<outstandingBalance, reqState, totalAmount, credited>>
    BY <1>8 DEF RefundStep, RefundSave, RefundPost, RefundThrows
  <2>2. Neutral
    BY <2>1 DEF Neutral, Committed, Hold, GivenBack, CancelsOf, Admitted
  <2> QED
    BY <2>2, NeutralCover DEF Account!Next
<1> QED
  BY <1>1, <1>2, <1>3, <1>4, <1>5, <1>6, <1>7, <1>8 DEF Next

(* createBooking and cancelBooking implement the credit account when at
   most one cancel call names each booking: a request commits once, on
   credit that covers it at that moment, and gives back once.              *)
THEOREM AccountImplemented ==
  ASSUME OneCancelPerBooking
  PROVE  Spec => ImplementsCreditAccount
<1>1. Init => Account!Init
  <2> SUFFICES ASSUME Init PROVE Account!Init
    OBVIOUS
  <2>1. creditLimit \in [Companies -> Nat]
    BY AmountsAssumption DEF Init
  <2>2. ASSUME NEW r \in Requests PROVE Committed(r) = 0
    <3>1. GivenBack(r) = 0
      BY IInvInit, NothingBackYet DEF Init, IInv
    <3>2. Hold(r) = 0
      BY DEF Init, Hold, HoldingStates
    <3> QED
      BY <3>1, <3>2 DEF Committed
  <2>3. Admitted = {}
    BY DEF Init, Admitted
  <2> QED
    BY <2>1, <2>2, <2>3 DEF Init, Account!Init
<1>2. IInv /\ IInv' /\ HoldInv /\ [Next]_vars => [Account!Next]_(Account!avars)
  BY AccountStepOf
<1> QED
  BY <1>1, <1>2, IInvCorrect, HoldCorrect, PTL
  DEF Spec, ImplementsCreditAccount, Account!Spec

-----------------------------------------------------------------------------
(* The debt of a company against its ledger.                               *)

(* What each request, cancel and refund adds to Unbooked, to Unrecorded and
   to PaidToWallet.                                                        *)
UnbookedTerm(c) ==
  [r \in Requests |-> IF CompanyOf[r] = c /\ status[r] = "none" THEN Hold(r) ELSE 0]

UnrecordedTerm(c) ==
  [k \in Cancels |->
     IF CompanyOf[TargetOf[k]] = c /\ RefundEntry(k) \notin walletTx THEN credited[k] ELSE 0]

PaidTerm(c) ==
  [a \in Refunds |->
     IF CompanyOf[RefundOf[a]] = c /\ WalletEntry(a) \in walletTx THEN refundAmount[a] ELSE 0]

Signed(e) == IF e.type = "credit_use" THEN e.amount ELSE -e.amount

GapInv == IsFiniteSet(walletTx) /\ LedgerGapExplained

LEMMA UnbookedIsSum ==
  TypeOK => \A c \in Companies :
    /\ \A r \in Requests : UnbookedTerm(c)[r] \in Int
    /\ Unbooked(c) = SumFunctionOnSet(UnbookedTerm(c), Requests)
<1> SUFFICES ASSUME TypeOK, NEW c \in Companies
             PROVE  /\ \A r \in Requests : UnbookedTerm(c)[r] \in Int
                    /\ Unbooked(c) = SumFunctionOnSet(UnbookedTerm(c), Requests)
  OBVIOUS
<1> DEFINE T == {r \in RequestsOf(c) : status[r] = "none"}
           g == [r \in T |-> Hold(r)]
<1>1. \A r \in Requests : UnbookedTerm(c)[r] \in Int
  BY DEF UnbookedTerm, Hold, TypeOK
<1>2. T \in SUBSET Requests /\ \A r \in Requests \ T : UnbookedTerm(c)[r] = 0
  BY DEF UnbookedTerm, RequestsOf
<1>3. \A r \in T : g[r] = UnbookedTerm(c)[r]
  BY DEF UnbookedTerm, RequestsOf
<1>4. Unbooked(c) = SumFunctionOnSet(g, T)
  BY DEF Unbooked, SumOver
<1> HIDE DEF T, g
<1> QED
  BY <1>1, <1>2, <1>3, <1>4, SumRestricts, FinitenessAssumption

LEMMA UnrecordedIsSum ==
  TypeOK => \A c \in Companies :
    /\ \A k \in Cancels : UnrecordedTerm(c)[k] \in Int
    /\ Unrecorded(c) = SumFunctionOnSet(UnrecordedTerm(c), Cancels)
<1> SUFFICES ASSUME TypeOK, NEW c \in Companies
             PROVE  /\ \A k \in Cancels : UnrecordedTerm(c)[k] \in Int
                    /\ Unrecorded(c) = SumFunctionOnSet(UnrecordedTerm(c), Cancels)
  OBVIOUS
<1> DEFINE T == {k \in Cancels : CompanyOf[TargetOf[k]] = c /\ RefundEntry(k) \notin walletTx}
           g == [k \in T |-> credited[k]]
<1>1. \A k \in Cancels : UnrecordedTerm(c)[k] \in Int
  BY DEF UnrecordedTerm, TypeOK
<1>2. T \in SUBSET Cancels /\ \A k \in Cancels \ T : UnrecordedTerm(c)[k] = 0
  BY DEF UnrecordedTerm
<1>3. \A k \in T : g[k] = UnrecordedTerm(c)[k]
  BY DEF UnrecordedTerm
<1>4. Unrecorded(c) = SumFunctionOnSet(g, T)
  BY DEF Unrecorded, SumOver
<1> HIDE DEF T, g
<1> QED
  BY <1>1, <1>2, <1>3, <1>4, SumRestricts, FinitenessAssumption

LEMMA PaidIsSum ==
  TypeOK => \A c \in Companies :
    /\ \A a \in Refunds : PaidTerm(c)[a] \in Int
    /\ PaidToWallet(c) = SumFunctionOnSet(PaidTerm(c), Refunds)
<1> SUFFICES ASSUME TypeOK, NEW c \in Companies
             PROVE  /\ \A a \in Refunds : PaidTerm(c)[a] \in Int
                    /\ PaidToWallet(c) = SumFunctionOnSet(PaidTerm(c), Refunds)
  OBVIOUS
<1> DEFINE T == {a \in Refunds : CompanyOf[RefundOf[a]] = c /\ WalletEntry(a) \in walletTx}
           g == [a \in T |-> refundAmount[a]]
<1>1. \A a \in Refunds : PaidTerm(c)[a] \in Int
  BY DEF PaidTerm, TypeOK
<1>2. T \in SUBSET Refunds /\ \A a \in Refunds \ T : PaidTerm(c)[a] = 0
  BY DEF PaidTerm
<1>3. \A a \in T : g[a] = PaidTerm(c)[a]
  BY DEF PaidTerm
<1>4. PaidToWallet(c) = SumFunctionOnSet(g, T)
  BY DEF PaidToWallet, SumOver
<1> HIDE DEF T, g
<1> QED
  BY <1>1, <1>2, <1>3, <1>4, SumRestricts, FinitenessAssumption

LEMMA LedgerIsInt ==
  ASSUME TypeOK, IsFiniteSet(walletTx), NEW c \in Companies
  PROVE  LedgerBalance(c) \in Int
<1> DEFINE T == {e \in walletTx : e.company = c}
           g == [e \in T |-> Signed(e)]
<1>1. IsFiniteSet(T)
  BY FS_Subset
<1>2. \A e \in T : g[e] \in Int
  BY DEF TypeOK, Entries, Signed
<1>3. LedgerBalance(c) = SumFunctionOnSet(g, T)
  BY DEF LedgerBalance, SumOver, Signed
<1> HIDE DEF T, g
<1> QED
  BY <1>1, <1>2, <1>3, SumInt

(* A new entry moves the balance of its company by its signed amount.      *)
LEMMA LedgerGrows ==
  ASSUME TypeOK, IsFiniteSet(walletTx), NEW e \in Entries, e \notin walletTx,
         walletTx' = walletTx \cup {e}, NEW c \in Companies
  PROVE  LedgerBalance(c)' = LedgerBalance(c) + (IF e.company = c THEN Signed(e) ELSE 0)
<1> DEFINE T == {d \in walletTx : d.company = c}
           g == [d \in T |-> Signed(d)]
           U == {d \in walletTx' : d.company = c}
           h == [d \in U |-> Signed(d)]
<1>1. LedgerBalance(c) = SumFunctionOnSet(g, T)
  BY DEF LedgerBalance, SumOver, Signed
<1>2. LedgerBalance(c)' = SumFunctionOnSet(h, U)
  BY DEF LedgerBalance, SumOver, Signed
<1>3. LedgerBalance(c) \in Int
  BY LedgerIsInt
<1>4. IsFiniteSet(T) /\ e \notin T
  BY FS_Subset
<1>5. CASE e.company # c
  <2>1. U = T
    BY <1>5
  <2> QED
    BY <1>1, <1>2, <1>3, <1>5, <2>1
<1>6. CASE e.company = c
  <2>1. U = T \cup {e}
    BY <1>6
  <2>2. \A d \in U : h[d] \in Int
    BY DEF TypeOK, Entries, Signed
  <2>3. h[e] = Signed(e) /\ \A d \in T : h[d] = g[d]
    BY <1>6
  <2>4. \A d \in T : g[d] \in Int
    BY DEF TypeOK, Entries, Signed
  <2> HIDE DEF T, U, g, h
  <2>5. SumFunctionOnSet(h, U) = h[e] + SumFunctionOnSet(h, T)
    BY <1>4, <2>1, <2>2, SumAdds
  <2>6. SumFunctionOnSet(h, T) = SumFunctionOnSet(g, T)
    BY <1>4, <2>3, <2>4, SumAgrees
  <2>7. Signed(e) \in Int
    BY DEF Entries, Signed
  <2> QED
    BY <1>1, <1>2, <1>3, <1>6, <2>3, <2>5, <2>6, <2>7
<1> QED
  BY <1>5, <1>6

(* One request moves Unbooked, one cancel moves Unrecorded.                *)
LEMMA UnbookedMoves ==
  TypeOK /\ TypeOK' => \A c \in Companies, r \in Requests :
    (\A q \in Requests : q # r => UnbookedTerm(c)'[q] = UnbookedTerm(c)[q])
      => /\ Unbooked(c) \in Int
         /\ Unbooked(c)' = Unbooked(c) + UnbookedTerm(c)'[r] - UnbookedTerm(c)[r]
<1>1. (TypeOK => \A c \in Companies :
         /\ \A r \in Requests : UnbookedTerm(c)[r] \in Int
         /\ Unbooked(c) = SumFunctionOnSet(UnbookedTerm(c), Requests))'
  BY UnbookedIsSum, PTL
<1> SUFFICES ASSUME TypeOK, TypeOK', NEW c \in Companies, NEW r \in Requests,
                    \A q \in Requests : q # r => UnbookedTerm(c)'[q] = UnbookedTerm(c)[q]
             PROVE  /\ Unbooked(c) \in Int
                    /\ Unbooked(c)' = Unbooked(c) + UnbookedTerm(c)'[r] - UnbookedTerm(c)[r]
  OBVIOUS
<1>2. /\ \A q \in Requests : UnbookedTerm(c)[q] \in Int /\ UnbookedTerm(c)'[q] \in Int
      /\ Unbooked(c) = SumFunctionOnSet(UnbookedTerm(c), Requests)
      /\ Unbooked(c)' = SumFunctionOnSet(UnbookedTerm(c)', Requests)
  BY <1>1, UnbookedIsSum
<1>3. IsFiniteSet(Requests)
  BY FinitenessAssumption
<1>4. Unbooked(c) \in Int
  BY <1>2, <1>3, SumInt
<1>5. SumFunctionOnSet(UnbookedTerm(c)', Requests)
        = SumFunctionOnSet(UnbookedTerm(c), Requests) + UnbookedTerm(c)'[r] - UnbookedTerm(c)[r]
  BY <1>2, <1>3, SumChanges
<1> QED
  BY <1>2, <1>4, <1>5

LEMMA UnrecordedMoves ==
  TypeOK /\ TypeOK' => \A c \in Companies, k \in Cancels :
    (\A j \in Cancels : j # k => UnrecordedTerm(c)'[j] = UnrecordedTerm(c)[j])
      => /\ Unrecorded(c) \in Int
         /\ Unrecorded(c)' = Unrecorded(c) + UnrecordedTerm(c)'[k] - UnrecordedTerm(c)[k]
<1>1. (TypeOK => \A c \in Companies :
         /\ \A k \in Cancels : UnrecordedTerm(c)[k] \in Int
         /\ Unrecorded(c) = SumFunctionOnSet(UnrecordedTerm(c), Cancels))'
  BY UnrecordedIsSum, PTL
<1> SUFFICES ASSUME TypeOK, TypeOK', NEW c \in Companies, NEW k \in Cancels,
                    \A j \in Cancels : j # k => UnrecordedTerm(c)'[j] = UnrecordedTerm(c)[j]
             PROVE  /\ Unrecorded(c) \in Int
                    /\ Unrecorded(c)' = Unrecorded(c) + UnrecordedTerm(c)'[k] - UnrecordedTerm(c)[k]
  OBVIOUS
<1>2. /\ \A j \in Cancels : UnrecordedTerm(c)[j] \in Int /\ UnrecordedTerm(c)'[j] \in Int
      /\ Unrecorded(c) = SumFunctionOnSet(UnrecordedTerm(c), Cancels)
      /\ Unrecorded(c)' = SumFunctionOnSet(UnrecordedTerm(c)', Cancels)
  BY <1>1, UnrecordedIsSum
<1>3. IsFiniteSet(Cancels)
  BY FinitenessAssumption
<1>4. Unrecorded(c) \in Int
  BY <1>2, <1>3, SumInt
<1>5. SumFunctionOnSet(UnrecordedTerm(c)', Cancels)
        = SumFunctionOnSet(UnrecordedTerm(c), Cancels) + UnrecordedTerm(c)'[k]
            - UnrecordedTerm(c)[k]
  BY <1>2, <1>3, SumChanges
<1> QED
  BY <1>2, <1>4, <1>5

LEMMA PaidMoves ==
  TypeOK /\ TypeOK' => \A c \in Companies, a \in Refunds :
    (\A b \in Refunds : b # a => PaidTerm(c)'[b] = PaidTerm(c)[b])
      => /\ PaidToWallet(c) \in Int
         /\ PaidToWallet(c)' = PaidToWallet(c) + PaidTerm(c)'[a] - PaidTerm(c)[a]
<1>1. (TypeOK => \A c \in Companies :
         /\ \A a \in Refunds : PaidTerm(c)[a] \in Int
         /\ PaidToWallet(c) = SumFunctionOnSet(PaidTerm(c), Refunds))'
  BY PaidIsSum, PTL
<1> SUFFICES ASSUME TypeOK, TypeOK', NEW c \in Companies, NEW a \in Refunds,
                    \A b \in Refunds : b # a => PaidTerm(c)'[b] = PaidTerm(c)[b]
             PROVE  /\ PaidToWallet(c) \in Int
                    /\ PaidToWallet(c)' = PaidToWallet(c) + PaidTerm(c)'[a] - PaidTerm(c)[a]
  OBVIOUS
<1>2. /\ \A b \in Refunds : PaidTerm(c)[b] \in Int /\ PaidTerm(c)'[b] \in Int
      /\ PaidToWallet(c) = SumFunctionOnSet(PaidTerm(c), Refunds)
      /\ PaidToWallet(c)' = SumFunctionOnSet(PaidTerm(c)', Refunds)
  BY <1>1, PaidIsSum
<1>3. IsFiniteSet(Refunds)
  BY FinitenessAssumption
<1>4. PaidToWallet(c) \in Int
  BY <1>2, <1>3, SumInt
<1>5. SumFunctionOnSet(PaidTerm(c)', Refunds)
        = SumFunctionOnSet(PaidTerm(c), Refunds) + PaidTerm(c)'[a] - PaidTerm(c)[a]
  BY <1>2, <1>3, SumChanges
<1> QED
  BY <1>2, <1>4, <1>5

LEMMA UnbookedStays ==
  TypeOK /\ TypeOK' => \A c \in Companies :
    (\A r \in Requests : UnbookedTerm(c)'[r] = UnbookedTerm(c)[r])
      => Unbooked(c)' = Unbooked(c) /\ Unbooked(c) \in Int
<1>1. (TypeOK => \A c \in Companies :
         /\ \A r \in Requests : UnbookedTerm(c)[r] \in Int
         /\ Unbooked(c) = SumFunctionOnSet(UnbookedTerm(c), Requests))'
  BY UnbookedIsSum, PTL
<1> QED
  BY <1>1, UnbookedIsSum, SumAgrees, SumInt, FinitenessAssumption

LEMMA UnrecordedStays ==
  TypeOK /\ TypeOK' => \A c \in Companies :
    (\A k \in Cancels : UnrecordedTerm(c)'[k] = UnrecordedTerm(c)[k])
      => Unrecorded(c)' = Unrecorded(c) /\ Unrecorded(c) \in Int
<1>1. (TypeOK => \A c \in Companies :
         /\ \A k \in Cancels : UnrecordedTerm(c)[k] \in Int
         /\ Unrecorded(c) = SumFunctionOnSet(UnrecordedTerm(c), Cancels))'
  BY UnrecordedIsSum, PTL
<1> QED
  BY <1>1, UnrecordedIsSum, SumAgrees, SumInt, FinitenessAssumption

LEMMA PaidStays ==
  TypeOK /\ TypeOK' => \A c \in Companies :
    (\A a \in Refunds : PaidTerm(c)'[a] = PaidTerm(c)[a])
      => PaidToWallet(c)' = PaidToWallet(c) /\ PaidToWallet(c) \in Int
<1>1. (TypeOK => \A c \in Companies :
         /\ \A a \in Refunds : PaidTerm(c)[a] \in Int
         /\ PaidToWallet(c) = SumFunctionOnSet(PaidTerm(c), Refunds))'
  BY PaidIsSum, PTL
<1> QED
  BY <1>1, PaidIsSum, SumAgrees, SumInt, FinitenessAssumption

Gap(c) ==
  outstandingBalance[c] = LedgerBalance(c) + Unbooked(c) - Unrecorded(c) + PaidToWallet(c)

(* The four sums and the debt stay as they are.                            *)
TermsKept(c) ==
  /\ walletTx' = walletTx /\ outstandingBalance'[c] = outstandingBalance[c]
  /\ \A r \in Requests : UnbookedTerm(c)'[r] = UnbookedTerm(c)[r]
  /\ \A k \in Cancels : UnrecordedTerm(c)'[k] = UnrecordedTerm(c)[k]
  /\ \A a \in Refunds : PaidTerm(c)'[a] = PaidTerm(c)[a]

LEMMA GapKept ==
  ASSUME TypeOK, TypeOK', NEW c \in Companies, Gap(c), TermsKept(c)
  PROVE  Gap(c)'
<1>1. LedgerBalance(c)' = LedgerBalance(c)
  BY DEF TermsKept, LedgerBalance, SumOver
<1> QED
  BY <1>1, UnbookedStays, UnrecordedStays, PaidStays DEF Gap, TermsKept

(* A cancel or a refund that is still to write its entry has none.         *)
LEMMA NoEntryYet ==
  ASSUME LedgerInv
  PROVE  /\ \A k \in Cancels : cancelState[k] \notin Finished => \A e \in walletTx : e.by # k
         /\ \A a \in Refunds : refundState[a] # "done" => \A e \in walletTx : e.by # a
<1>1. \A r \in Requests : DebitEntry(r).by = r
  BY DEF DebitEntry
<1>2. \A j \in Cancels : RefundEntry(j).by = j
  BY DEF RefundEntry
<1>3. \A a \in Refunds : WalletEntry(a).by = a
  BY DEF WalletEntry
<1> QED
  BY <1>1, <1>2, <1>3, RequestsAssumption DEF LedgerInv, Claimed

LEMMA GapOfRequest ==
  ASSUME IInv, IInv', IsFiniteSet(walletTx), NEW c \in Companies, Gap(c),
         NEW r \in Requests, RequestStep(r)
  PROVE  Gap(c)'
<1> USE RequestsAssumption DEF IInv, TypeOK, account, requestVars, cancelVars, refundVars, Goto
<1>0. TypeOK /\ TypeOK'
  OBVIOUS
<1>1. UNCHANGED <<totalAmount, credited, cancelState, refundVars>>
  BY DEF RequestStep, atomicDeductCredit, DeductRefused, BookConfirmed, BookFails, Compensate,
    CompensationFails, generateBookingRef, CommitBooking, RetryTransaction, TransactionFails
<1>2. CASE atomicDeductCredit(r) \/ Compensate(r)
  <2>1. /\ UNCHANGED <<walletTx, status, bookingRef>>
        /\ status[r] = "none"
        /\ \A q \in Requests : q # r => reqState'[q] = reqState[q]
    BY <1>2 DEF atomicDeductCredit, Compensate, BookedInv
  <2>2. LedgerBalance(c)' = LedgerBalance(c)
    BY <2>1 DEF LedgerBalance, SumOver
  <2>3. \A k \in Cancels : UnrecordedTerm(c)'[k] = UnrecordedTerm(c)[k]
    BY <1>1, <2>1 DEF UnrecordedTerm, RefundEntry
  <2>4. \A q \in Requests : q # r => UnbookedTerm(c)'[q] = UnbookedTerm(c)[q]
    BY <1>1, <2>1 DEF UnbookedTerm, Hold
  <2>5. outstandingBalance'[c] = outstandingBalance[c] + UnbookedTerm(c)'[r] - UnbookedTerm(c)[r]
    <3>1. CASE atomicDeductCredit(r)
      BY <1>1, <2>1, <3>1 DEF atomicDeductCredit, UnbookedTerm, Hold, HoldingStates
    <3>2. CASE Compensate(r)
      BY <1>1, <2>1, <3>2 DEF Compensate, creditBack, UnbookedTerm, Hold, HoldingStates
    <3> QED
      BY <1>2, <3>1, <3>2
  <2>6. LedgerBalance(c) \in Int
    BY LedgerIsInt
  <2>7. UnbookedTerm(c)'[r] \in Int /\ UnbookedTerm(c)[r] \in Int
    BY DEF UnbookedTerm, Hold
  <2>8. /\ Unbooked(c) \in Int
        /\ Unbooked(c)' = Unbooked(c) + UnbookedTerm(c)'[r] - UnbookedTerm(c)[r]
    BY <1>0, <2>4, UnbookedMoves
  <2>9. Unrecorded(c)' = Unrecorded(c) /\ Unrecorded(c) \in Int
    BY <1>0, <2>3, UnrecordedStays
  <2>10. outstandingBalance[c] \in Int
    OBVIOUS
  <2>11. \A a \in Refunds : PaidTerm(c)'[a] = PaidTerm(c)[a]
    BY <1>1, <2>1 DEF PaidTerm, WalletEntry
  <2>12. PaidToWallet(c)' = PaidToWallet(c) /\ PaidToWallet(c) \in Int
    BY <1>0, <2>11, PaidStays
  <2> QED
    BY <2>2, <2>5, <2>6, <2>7, <2>8, <2>9, <2>10, <2>12 DEF Gap
<1>3. CASE CommitBooking(r)
  <2> DEFINE e == DebitEntry(r)
  <2>1. /\ walletTx' = walletTx \cup {e}
        /\ reqState[r] = "writing" /\ reqState' = [reqState EXCEPT ![r] = "booked"]
        /\ status[r] = "none" /\ status' = [status EXCEPT ![r] = "confirmed"]
        /\ UNCHANGED <<outstandingBalance, bookingRef>>
    BY <1>3 DEF CommitBooking, BookedInv
  <2>2. /\ e \in Entries /\ e.type = "credit_use" /\ e.by = r
        /\ e.company = CompanyOf[r] /\ e.amount = totalAmount[r]
    BY DEF DebitEntry, Entries
  <2>3. e \notin walletTx
    <3>1. \A q \in Requests : DebitEntry(q).by = q
      BY DEF DebitEntry
    <3>2. /\ \A k \in Cancels : RefundEntry(k).type = "credit_refund"
          /\ \A a \in Refunds : WalletEntry(a).type = "credit_refund"
      BY DEF RefundEntry, WalletEntry
    <3> HIDE DEF e
    <3>3. SUFFICES ASSUME Claimed(e) PROVE FALSE
      BY DEF LedgerInv
    <3>4. PICK q \in Requests : status[q] # "none" /\ e = DebitEntry(q)
      BY <2>2, <3>2, <3>3 DEF Claimed
    <3> QED
      BY <2>1, <2>2, <3>1, <3>4
  <2>4. LedgerBalance(c)' = LedgerBalance(c) + (IF CompanyOf[r] = c THEN totalAmount[r] ELSE 0)
    <3> HIDE DEF e
    <3>1. LedgerBalance(c)' = LedgerBalance(c) + (IF e.company = c THEN Signed(e) ELSE 0)
      BY <2>1, <2>2, <2>3, LedgerGrows
    <3> QED
      BY <2>2, <3>1 DEF Signed
  <2>5. \A k \in Cancels : UnrecordedTerm(c)'[k] = UnrecordedTerm(c)[k]
    <3>1. \A k \in Cancels : RefundEntry(k)' = RefundEntry(k) /\ RefundEntry(k) # e
      BY <1>1, <2>1, <2>2 DEF RefundEntry
    <3> HIDE DEF e
    <3> QED
      BY <1>1, <2>1, <3>1 DEF UnrecordedTerm
  <2>6. \A q \in Requests : q # r => UnbookedTerm(c)'[q] = UnbookedTerm(c)[q]
    BY <1>1, <2>1 DEF UnbookedTerm, Hold
  <2>7. /\ UnbookedTerm(c)'[r] = 0
        /\ UnbookedTerm(c)[r] = IF CompanyOf[r] = c THEN totalAmount[r] ELSE 0
    BY <1>1, <2>1 DEF UnbookedTerm, Hold, HoldingStates
  <2>8. /\ Unbooked(c) \in Int
        /\ Unbooked(c)' = Unbooked(c) + UnbookedTerm(c)'[r] - UnbookedTerm(c)[r]
    BY <1>0, <2>6, UnbookedMoves
  <2>9. Unrecorded(c)' = Unrecorded(c) /\ Unrecorded(c) \in Int
    BY <1>0, <2>5, UnrecordedStays
  <2>10. /\ outstandingBalance'[c] = outstandingBalance[c] /\ outstandingBalance[c] \in Int
         /\ totalAmount[r] \in Int /\ LedgerBalance(c) \in Int
    BY <2>1, LedgerIsInt
  <2>11. \A a \in Refunds : PaidTerm(c)'[a] = PaidTerm(c)[a]
    <3>1. \A a \in Refunds : WalletEntry(a)' = WalletEntry(a) /\ WalletEntry(a) # e
      BY <1>1, <2>1, <2>2 DEF WalletEntry
    <3> HIDE DEF e
    <3> QED
      BY <1>1, <2>1, <3>1 DEF PaidTerm
  <2>12. PaidToWallet(c)' = PaidToWallet(c) /\ PaidToWallet(c) \in Int
    BY <1>0, <2>11, PaidStays
  <2> HIDE DEF e
  <2> QED
    BY <2>4, <2>7, <2>8, <2>9, <2>10, <2>12 DEF Gap
<1>4. CASE generateBookingRef(r)
  <2>1. /\ UNCHANGED <<walletTx, status, outstandingBalance>>
        /\ status[r] = "none"
        /\ reqState[r] = "confirmed" /\ reqState' = [reqState EXCEPT ![r] = "writing"]
        /\ \A q \in Requests : q # r => bookingRef'[q] = bookingRef[q]
    BY <1>4 DEF generateBookingRef, BookedInv
  <2>2. ASSUME NEW k \in Cancels PROVE UnrecordedTerm(c)'[k] = UnrecordedTerm(c)[k]
    <3>1. CASE TargetOf[k] = r
      <4>1. credited[k] = 0
        BY <2>1, <3>1 DEF CancelInv
      <4> QED
        BY <1>1, <4>1 DEF UnrecordedTerm
    <3>2. CASE TargetOf[k] # r
      BY <1>1, <2>1, <3>2 DEF UnrecordedTerm, RefundEntry
    <3> QED
      BY <3>1, <3>2
  <2>3. \A q \in Requests : UnbookedTerm(c)'[q] = UnbookedTerm(c)[q]
    BY <1>1, <2>1 DEF UnbookedTerm, Hold, HoldingStates
  <2>4. ASSUME NEW a \in Refunds PROVE PaidTerm(c)'[a] = PaidTerm(c)[a]
    <3>1. CASE RefundOf[a] = r
      <4>1. refundState[a] = "idle" /\ WalletEntry(a).by = a /\ WalletEntry(a)'.by = a
        BY <2>1, <3>1 DEF RefundInv, WalletEntry
      <4>2. WalletEntry(a) \notin walletTx /\ WalletEntry(a)' \notin walletTx'
        BY <2>1, <4>1, NoEntryYet
      <4> QED
        BY <4>2 DEF PaidTerm
    <3>2. CASE RefundOf[a] # r
      BY <1>1, <2>1, <3>2 DEF PaidTerm, WalletEntry
    <3> QED
      BY <3>1, <3>2
  <2> QED
    BY <1>0, <2>1, <2>2, <2>3, <2>4, GapKept DEF TermsKept
<1>5. CASE ~ (atomicDeductCredit(r) \/ Compensate(r) \/ CommitBooking(r) \/ generateBookingRef(r))
  <2>1. UNCHANGED <<walletTx, status, bookingRef, outstandingBalance>>
    BY <1>5 DEF RequestStep, DeductRefused, BookConfirmed, BookFails, CompensationFails,
      RetryTransaction, TransactionFails
  <2>2. \A q \in Requests : Hold(q)' = Hold(q)
    BY <1>1, <1>5 DEF RequestStep, DeductRefused, BookConfirmed, BookFails, CompensationFails,
      RetryTransaction, TransactionFails, Hold, HoldingStates
  <2>3. TermsKept(c)
    BY <1>1, <2>1, <2>2 DEF TermsKept, UnbookedTerm, UnrecordedTerm, RefundEntry, PaidTerm,
      WalletEntry
  <2> QED
    BY <1>0, <2>3, GapKept
<1> QED
  BY <1>2, <1>3, <1>4, <1>5

LEMMA GapOfCancel ==
  ASSUME IInv, IInv', IsFiniteSet(walletTx), NEW c \in Companies, Gap(c),
         NEW k \in Cancels, CancelStep(k)
  PROVE  Gap(c)'
<1> USE RequestsAssumption DEF IInv, TypeOK, account, requestVars, cancelVars, refundVars,
      CancelGoto
<1>0. TypeOK /\ TypeOK'
  OBVIOUS
<1>1. UNCHANGED <<totalAmount, bookingRef, reqState, refundVars>>
  BY DEF CancelStep, SupplierCancels, SupplierCancelFails, CancelCreditBack, RecordRefund,
    RefundFails, SaveCancelled, SaveFails
<1>2. \A r \in Requests : UnbookedTerm(c)'[r] = UnbookedTerm(c)[r]
  <2>1. \A r \in Requests : status'[r] = "none" <=> status[r] = "none"
    BY DEF CancelStep, SupplierCancels, SupplierCancelFails, CancelCreditBack, RecordRefund,
      RefundFails, SaveCancelled, SaveFails, CancelInv, CancelBusy
  <2> QED
    BY <1>1, <2>1 DEF UnbookedTerm, Hold
<1>3. Unbooked(c)' = Unbooked(c) /\ Unbooked(c) \in Int
  BY <1>0, <1>2, UnbookedStays
<1>4. CASE CancelCreditBack(k)
  <2> DEFINE r == TargetOf[k]
             refundable == totalAmount[r] - fee[k]
  <2>1. /\ cancelState[k] = "crediting" /\ credited[k] = 0 /\ walletTx' = walletTx
        /\ outstandingBalance' = [outstandingBalance EXCEPT ![CompanyOf[r]] = @ - refundable]
        /\ credited' = [credited EXCEPT ![k] = refundable]
    BY <1>4 DEF CancelCreditBack, creditBack, CancelInv
  <2>2. RefundEntry(k)' \notin walletTx
    <3>1. RefundEntry(k)'.by = k
      BY DEF RefundEntry
    <3> QED
      BY <2>1, <3>1, NoEntryYet DEF Finished, CancelEnd
  <2>3. LedgerBalance(c)' = LedgerBalance(c)
    BY <2>1 DEF LedgerBalance, SumOver
  <2>4. \A j \in Cancels : j # k => UnrecordedTerm(c)'[j] = UnrecordedTerm(c)[j]
    BY <1>1, <2>1 DEF UnrecordedTerm, RefundEntry
  <2>5. /\ UnrecordedTerm(c)[k] = 0
        /\ UnrecordedTerm(c)'[k] = IF CompanyOf[r] = c THEN refundable ELSE 0
    BY <2>1, <2>2 DEF UnrecordedTerm
  <2>6. /\ Unrecorded(c) \in Int
        /\ Unrecorded(c)' = Unrecorded(c) + UnrecordedTerm(c)'[k] - UnrecordedTerm(c)[k]
    BY <1>0, <2>4, UnrecordedMoves
  <2>7. /\ outstandingBalance'[c]
              = outstandingBalance[c] - (IF CompanyOf[r] = c THEN refundable ELSE 0)
        /\ outstandingBalance[c] \in Int /\ refundable \in Int /\ LedgerBalance(c) \in Int
    BY <2>1, LedgerIsInt
  <2>8. \A a \in Refunds : PaidTerm(c)'[a] = PaidTerm(c)[a]
    BY <1>1, <2>1 DEF PaidTerm, WalletEntry
  <2>9. PaidToWallet(c)' = PaidToWallet(c) /\ PaidToWallet(c) \in Int
    BY <1>0, <2>8, PaidStays
  <2> HIDE DEF r, refundable
  <2> QED
    BY <1>3, <2>3, <2>5, <2>6, <2>7, <2>9 DEF Gap
<1>5. CASE RecordRefund(k)
  <2> DEFINE e == RefundEntry(k)
             owner == CompanyOf[TargetOf[k]]
  <2>1. /\ cancelState[k] = "recording"
        /\ walletTx' = walletTx \cup {e}
        /\ UNCHANGED <<outstandingBalance, credited>>
    BY <1>5 DEF RecordRefund
  <2>2. /\ e \in Entries /\ e.type = "credit_refund" /\ e.by = k
        /\ e.company = owner /\ e.amount = credited[k]
    BY DEF RefundEntry, Entries
  <2>3. e \notin walletTx
    <3> HIDE DEF e
    <3> QED
      BY <2>1, <2>2, NoEntryYet DEF Finished, CancelEnd
  <2>4. LedgerBalance(c)' = LedgerBalance(c) + (IF owner = c THEN -credited[k] ELSE 0)
    <3> HIDE DEF e
    <3>1. LedgerBalance(c)' = LedgerBalance(c) + (IF e.company = c THEN Signed(e) ELSE 0)
      BY <2>1, <2>2, <2>3, LedgerGrows
    <3> QED
      BY <2>2, <3>1 DEF Signed
  <2>5. \A j \in Cancels : RefundEntry(j)' = RefundEntry(j) /\ (j # k => RefundEntry(j) # e)
    BY <1>1, <2>1 DEF RefundEntry
  <2>6. \A j \in Cancels : j # k => UnrecordedTerm(c)'[j] = UnrecordedTerm(c)[j]
    <3> HIDE DEF e
    <3> QED
      BY <2>1, <2>5 DEF UnrecordedTerm
  <2>7. /\ UnrecordedTerm(c)'[k] = 0
        /\ UnrecordedTerm(c)[k] = IF owner = c THEN credited[k] ELSE 0
    BY <2>1, <2>3, <2>5 DEF UnrecordedTerm
  <2>8. /\ Unrecorded(c) \in Int
        /\ Unrecorded(c)' = Unrecorded(c) + UnrecordedTerm(c)'[k] - UnrecordedTerm(c)[k]
    BY <1>0, <2>6, UnrecordedMoves
  <2>9. /\ outstandingBalance'[c] = outstandingBalance[c] /\ outstandingBalance[c] \in Int
        /\ credited[k] \in Int /\ LedgerBalance(c) \in Int
    BY <2>1, LedgerIsInt
  <2>10. \A a \in Refunds : PaidTerm(c)'[a] = PaidTerm(c)[a]
    <3>1. \A a \in Refunds : WalletEntry(a)' = WalletEntry(a) /\ WalletEntry(a).by = a
      BY <1>1 DEF WalletEntry
    <3>2. \A a \in Refunds : WalletEntry(a) # e
      BY <2>2, <3>1
    <3> HIDE DEF e
    <3> QED
      BY <1>1, <2>1, <3>1, <3>2 DEF PaidTerm
  <2>11. PaidToWallet(c)' = PaidToWallet(c) /\ PaidToWallet(c) \in Int
    BY <1>0, <2>10, PaidStays
  <2> HIDE DEF e, owner
  <2> QED
    BY <1>3, <2>4, <2>7, <2>8, <2>9, <2>11 DEF Gap
<1>6. CASE ~ (CancelCreditBack(k) \/ RecordRefund(k))
  <2>1. UNCHANGED <<walletTx, outstandingBalance, credited>>
    BY <1>6 DEF CancelStep, SupplierCancels, SupplierCancelFails, RefundFails, SaveCancelled,
      SaveFails
  <2>2. TermsKept(c)
    BY <1>1, <1>2, <2>1 DEF TermsKept, UnrecordedTerm, RefundEntry, PaidTerm, WalletEntry
  <2> QED
    BY <1>0, <2>2, GapKept
<1> QED
  BY <1>4, <1>5, <1>6

LEMMA GapOfRefund ==
  ASSUME IInv, IInv', IsFiniteSet(walletTx), NEW c \in Companies, Gap(c),
         NEW a \in Refunds, RefundStep(a)
  PROVE  Gap(c)'
<1> USE RequestsAssumption DEF IInv, TypeOK, account, requestVars, cancelVars, refundVars,
      RefundGoto
<1>0. TypeOK /\ TypeOK'
  OBVIOUS
<1>1. UNCHANGED <<outstandingBalance, requestVars, status, cancelVars, refundAmount>>
  BY DEF RefundStep, RefundSave, RefundPost, RefundThrows
<1>2. /\ \A r \in Requests : UnbookedTerm(c)'[r] = UnbookedTerm(c)[r]
      /\ \A k \in Cancels : RefundEntry(k)' = RefundEntry(k)
      /\ \A b \in Refunds : WalletEntry(b)' = WalletEntry(b)
  BY <1>1 DEF UnbookedTerm, Hold, RefundEntry, WalletEntry
<1>3. CASE RefundPost(a)
  <2> DEFINE e == WalletEntry(a)
             owner == CompanyOf[RefundOf[a]]
  <2>1. refundState[a] = "posting" /\ walletTx' = walletTx \cup {e}
    BY <1>3 DEF RefundPost
  <2>2. /\ e \in Entries /\ e.type = "credit_refund" /\ e.by = a
        /\ e.company = owner /\ e.amount = refundAmount[a]
    BY DEF WalletEntry, Entries
  <2>3. e \notin walletTx
    <3> HIDE DEF e
    <3> QED
      BY <2>1, <2>2, NoEntryYet
  <2>4. /\ \A k \in Cancels : RefundEntry(k) # e
        /\ \A b \in Refunds : b # a => WalletEntry(b) # e
    BY DEF RefundEntry, WalletEntry
  <2>5. LedgerBalance(c)' = LedgerBalance(c) + (IF owner = c THEN -refundAmount[a] ELSE 0)
    <3> HIDE DEF e
    <3>1. LedgerBalance(c)' = LedgerBalance(c) + (IF e.company = c THEN Signed(e) ELSE 0)
      BY <2>1, <2>2, <2>3, LedgerGrows
    <3> QED
      BY <2>2, <3>1 DEF Signed
  <2>6. \A k \in Cancels : UnrecordedTerm(c)'[k] = UnrecordedTerm(c)[k]
    <3> HIDE DEF e
    <3> QED
      BY <1>1, <1>2, <2>1, <2>4 DEF UnrecordedTerm
  <2>7. \A b \in Refunds : b # a => PaidTerm(c)'[b] = PaidTerm(c)[b]
    <3> HIDE DEF e
    <3> QED
      BY <1>1, <1>2, <2>1, <2>4 DEF PaidTerm
  <2>8. /\ PaidTerm(c)[a] = 0
        /\ PaidTerm(c)'[a] = IF owner = c THEN refundAmount[a] ELSE 0
    BY <1>1, <1>2, <2>1, <2>3 DEF PaidTerm
  <2>9. /\ PaidToWallet(c) \in Int
        /\ PaidToWallet(c)' = PaidToWallet(c) + PaidTerm(c)'[a] - PaidTerm(c)[a]
    BY <1>0, <2>7, PaidMoves
  <2>10. /\ Unbooked(c)' = Unbooked(c) /\ Unbooked(c) \in Int
         /\ Unrecorded(c)' = Unrecorded(c) /\ Unrecorded(c) \in Int
    BY <1>0, <1>2, <2>6, UnbookedStays, UnrecordedStays
  <2>11. /\ outstandingBalance'[c] = outstandingBalance[c] /\ outstandingBalance[c] \in Int
         /\ refundAmount[a] \in Int /\ LedgerBalance(c) \in Int
    BY <1>1, LedgerIsInt
  <2> HIDE DEF e, owner
  <2> QED
    BY <2>5, <2>8, <2>9, <2>10, <2>11 DEF Gap
<1>4. CASE RefundSave(a) \/ RefundThrows(a)
  <2>1. walletTx' = walletTx
    BY <1>4 DEF RefundSave, RefundThrows
  <2>2. TermsKept(c)
    BY <1>1, <1>2, <2>1 DEF TermsKept, UnrecordedTerm, PaidTerm
  <2> QED
    BY <1>0, <2>2, GapKept
<1> QED
  BY <1>3, <1>4 DEF RefundStep

(* The entries are finitely many: a step writes one at most.               *)
LEMMA FiniteNext == IsFiniteSet(walletTx) /\ [Next]_vars => IsFiniteSet(walletTx')
<1> SUFFICES ASSUME IsFiniteSet(walletTx), [Next]_vars PROVE IsFiniteSet(walletTx')
  OBVIOUS
<1>1. walletTx' = walletTx \/ \E e : walletTx' = walletTx \cup {e}
  BY DEF Next, vars, Arrival, Prebook, PrebookFails, CancelRead, RefundRead, RefundStep,
    RefundSave, RefundPost, RefundThrows, RequestStep, atomicDeductCredit, DeductRefused,
    BookConfirmed, BookFails, Compensate, CompensationFails, generateBookingRef,
    CommitBooking, RetryTransaction, TransactionFails, CancelStep, SupplierCancels,
    SupplierCancelFails, CancelCreditBack, RecordRefund, RefundFails, SaveCancelled, SaveFails,
    AccountStep, updateCreditLimit, topUpWallet, deductWallet, updateBookingStatus, Crash
<1> QED
  BY <1>1, FS_AddElement

LEMMA GapNext == IInv /\ IInv' /\ GapInv /\ [Next]_vars => GapInv'
<1> SUFFICES ASSUME IInv, IInv', GapInv, [Next]_vars, NEW c \in Companies PROVE Gap(c)'
  BY FiniteNext DEF GapInv, LedgerGapExplained, Gap
<1> USE RequestsAssumption DEF account, requestVars, cancelVars, refundVars
<1>0. TypeOK /\ TypeOK' /\ BookedInv /\ LedgerInv /\ Gap(c) /\ IsFiniteSet(walletTx)
  BY DEF IInv, GapInv, LedgerGapExplained, Gap
<1>1. CASE UNCHANGED vars
  <2>1. TermsKept(c)
    BY <1>1 DEF vars, TermsKept, UnbookedTerm, Hold, UnrecordedTerm, RefundEntry, PaidTerm,
      WalletEntry
  <2> QED
    BY <1>0, <2>1, GapKept
<1>2. CASE Arrival
  <2>1. UNCHANGED <<walletTx, outstandingBalance, bookingRef, credited, status>>
    BY <1>2 DEF Arrival, PrebookFails, Prebook, CancelRead, RefundRead
  <2>2. \A r \in Requests : Hold(r)' = Hold(r)
    BY <1>0, <1>2 DEF Arrival, PrebookFails, Prebook, CancelRead, RefundRead, Goto, Hold,
      HoldingStates, TypeOK
  <2>3. ASSUME NEW a \in Refunds PROVE PaidTerm(c)'[a] = PaidTerm(c)[a]
    <3>1. CASE refundState[a] = "idle"
      <4>1. WalletEntry(a).by = a /\ WalletEntry(a)'.by = a
        BY DEF WalletEntry
      <4>2. WalletEntry(a) \notin walletTx /\ WalletEntry(a)' \notin walletTx'
        BY <1>0, <2>1, <3>1, <4>1, NoEntryYet
      <4> QED
        BY <4>2 DEF PaidTerm
    <3>2. CASE refundState[a] # "idle"
      <4>1. refundAmount'[a] = refundAmount[a]
        BY <1>0, <1>2, <3>2 DEF Arrival, PrebookFails, Prebook, CancelRead, RefundRead, TypeOK
      <4> QED
        BY <2>1, <4>1 DEF PaidTerm, WalletEntry
    <3> QED
      BY <3>1, <3>2
  <2>4. TermsKept(c)
    BY <2>1, <2>2, <2>3 DEF TermsKept, UnbookedTerm, UnrecordedTerm, RefundEntry
  <2> QED
    BY <1>0, <2>4, GapKept
<1>3. ASSUME NEW r \in Requests, RequestStep(r) PROVE Gap(c)'
  BY <1>0, <1>3, GapOfRequest
<1>4. ASSUME NEW k \in Cancels, CancelStep(k) PROVE Gap(c)'
  BY <1>0, <1>4, GapOfCancel
<1>5. CASE AccountStep
  <2>1. /\ UNCHANGED <<walletTx, bookingRef, credited, status, reqState, totalAmount>>
        /\ UNCHANGED <<outstandingBalance, refundAmount>>
    BY <1>5 DEF AccountStep, updateCreditLimit, topUpWallet, deductWallet
  <2>2. TermsKept(c)
    BY <2>1 DEF TermsKept, UnbookedTerm, Hold, UnrecordedTerm, RefundEntry, PaidTerm, WalletEntry
  <2> QED
    BY <1>0, <2>2, GapKept
<1>6. ASSUME NEW r \in Requests, NEW s \in AdminStatuses, updateBookingStatus(r, s)
      PROVE Gap(c)'
  <2>1. /\ UNCHANGED <<walletTx, bookingRef, credited, reqState, totalAmount>>
        /\ UNCHANGED <<outstandingBalance, refundAmount>>
    BY <1>6 DEF updateBookingStatus
  <2>2. \A q \in Requests : status'[q] = "none" <=> status[q] = "none"
    BY <1>0, <1>6, AdminAssumption DEF updateBookingStatus, BookingStatus, TypeOK
  <2>3. TermsKept(c)
    BY <2>1, <2>2 DEF TermsKept, UnbookedTerm, Hold, UnrecordedTerm, RefundEntry, PaidTerm,
      WalletEntry
  <2> QED
    BY <1>0, <2>3, GapKept
<1>7. CASE Crash
  <2>1. /\ UNCHANGED <<walletTx, bookingRef, credited, status, totalAmount>>
        /\ UNCHANGED <<outstandingBalance, refundAmount>>
    BY <1>7 DEF Crash
  <2>2. \A r \in Requests : Hold(r)' = Hold(r)
    BY <1>7, <2>1 DEF Crash, Hold, HoldingStates
  <2>3. TermsKept(c)
    BY <2>1, <2>2 DEF TermsKept, UnbookedTerm, UnrecordedTerm, RefundEntry, PaidTerm, WalletEntry
  <2> QED
    BY <1>0, <2>3, GapKept
<1>8. ASSUME NEW a \in Refunds, RefundStep(a) PROVE Gap(c)'
  BY <1>0, <1>8, GapOfRefund
<1> QED
  BY <1>1, <1>2, <1>3, <1>4, <1>5, <1>6, <1>7, <1>8 DEF Next

LEMMA GapInit == Init => GapInv
<1> SUFFICES ASSUME Init, NEW c \in Companies PROVE IsFiniteSet(walletTx) /\ Gap(c)
  BY FS_EmptySet DEF Init, GapInv, LedgerGapExplained, Gap
<1>1. TypeOK /\ IsFiniteSet(walletTx)
  BY TypeInit, FS_EmptySet DEF Init
<1>2. \A r \in Requests : UnbookedTerm(c)[r] = 0
  BY DEF Init, UnbookedTerm, Hold, HoldingStates
<1>3. \A k \in Cancels : UnrecordedTerm(c)[k] = 0
  BY DEF Init, UnrecordedTerm
<1>4. Unbooked(c) = 0 /\ Unrecorded(c) = 0 /\ PaidToWallet(c) = 0
  <2>1. \A a \in Refunds : PaidTerm(c)[a] = 0
    BY DEF Init, PaidTerm
  <2> QED
    BY <1>1, <1>2, <1>3, <2>1, UnbookedIsSum, UnrecordedIsSum, PaidIsSum, SumOfZeros,
      FinitenessAssumption
<1>5. LedgerBalance(c) = 0
  <2>1. {e \in walletTx : e.company = c} = {}
    BY DEF Init
  <2>2. LedgerBalance(c)
          = SumFunctionOnSet([e \in {d \in walletTx : d.company = c} |-> Signed(e)],
                             {d \in walletTx : d.company = c})
    BY DEF LedgerBalance, SumOver, Signed
  <2> QED
    BY <2>1, <2>2, SumOfNone
<1> QED
  BY <1>1, <1>4, <1>5 DEF Init, Gap

(* A company's debt is what its ledger says, plus the holds no booking
   stands for, less the credit no refund entry stands for, plus what the
   admin's refunds took off the ledger and put into the wallet: bookings,
   cancels, refunds, retried transactions, failures and crashes lose
   nothing and count nothing twice, whatever their order.                  *)
THEOREM GapExplained == Spec => []LedgerGapExplained
<1>1. GapInv => LedgerGapExplained
  BY DEF GapInv
<1> QED
  BY <1>1, GapInit, GapNext, IInvCorrect, PTL DEF Spec

(* Assertion 1 of verify-ledger.ts: between requests the ledger says what
   the debt says, unless a hold was leaked, a cancel gave back what it did
   not record, or the admin refunded a booking into the wallet.
   LedgerAssertion1 itself does not hold.                                  *)
THEOREM AssertionOneHolds ==
  Spec => []( /\ Quiet
              /\ \A r \in Requests : reqState[r] # "leaked"
              /\ \A k \in Cancels : credited[k] > 0 => RefundEntry(k) \in walletTx
              /\ \A a \in Refunds : WalletEntry(a) \notin walletTx
              => \A c \in Companies : LedgerBalance(c) = outstandingBalance[c])
<1>1. IInv /\ GapInv =>
        ( /\ Quiet
          /\ \A r \in Requests : reqState[r] # "leaked"
          /\ \A k \in Cancels : credited[k] > 0 => RefundEntry(k) \in walletTx
          /\ \A a \in Refunds : WalletEntry(a) \notin walletTx
          => \A c \in Companies : LedgerBalance(c) = outstandingBalance[c])
  <2> SUFFICES ASSUME IInv, GapInv, Quiet, NEW c \in Companies,
                      \A r \in Requests : reqState[r] # "leaked",
                      \A k \in Cancels : credited[k] > 0 => RefundEntry(k) \in walletTx,
                      \A a \in Refunds : WalletEntry(a) \notin walletTx
               PROVE  LedgerBalance(c) = outstandingBalance[c]
    OBVIOUS
  <2> USE DEF IInv
  <2>1. \A r \in Requests : UnbookedTerm(c)[r] = 0
    BY DEF UnbookedTerm, Hold, HoldingStates, Quiet, RequestEnd, BookedInv
  <2>2. \A k \in Cancels : UnrecordedTerm(c)[k] = 0
    BY DEF UnrecordedTerm, TypeOK
  <2>3. \A a \in Refunds : PaidTerm(c)[a] = 0
    BY DEF PaidTerm
  <2>4. Unbooked(c) = 0 /\ Unrecorded(c) = 0 /\ PaidToWallet(c) = 0
    BY <2>1, <2>2, <2>3, UnbookedIsSum, UnrecordedIsSum, PaidIsSum, SumOfZeros,
      FinitenessAssumption
  <2>5. LedgerBalance(c) \in Int /\ outstandingBalance[c] \in Int
    BY LedgerIsInt DEF GapInv, TypeOK
  <2> QED
    BY <2>4, <2>5 DEF GapInv, LedgerGapExplained
<1> QED
  BY <1>1, GapInit, GapNext, IInvCorrect, PTL DEF Spec

-----------------------------------------------------------------------------
(* How far a handler can still go.                                         *)

(* Twice the runs its transaction has left, and where it is around them.   *)
RequestRank(r) ==
  CASE reqState[r] = "idle" -> 2 * MaxAttempts + 4
    [] reqState[r] = "called" -> 2 * MaxAttempts + 3
    [] reqState[r] = "deducted" -> 2 * MaxAttempts + 2
    [] reqState[r] = "writing" -> 2 * (MaxAttempts - attempts[r]) + 2
    [] reqState[r] = "confirmed" -> 2 * (MaxAttempts - attempts[r]) + 1
    [] reqState[r] = "compensating" -> 1
    [] OTHER -> 0

CancelRank(k) ==
  CASE cancelState[k] = "idle" -> 5
    [] cancelState[k] = "calling" -> 4
    [] cancelState[k] = "crediting" -> 3
    [] cancelState[k] = "recording" -> 2
    [] cancelState[k] = "saving" -> 1
    [] OTHER -> 0

RefundRank(a) ==
  CASE refundState[a] = "idle" -> 3
    [] refundState[a] = "paying" -> 2
    [] refundState[a] = "posting" -> 1
    [] OTHER -> 0

LEMMA RankType ==
  ASSUME TypeOK
  PROVE  /\ \A r \in Requests : /\ RequestRank(r) \in 0 .. 2 * MaxAttempts + 4
                                /\ RequestRank(r) = 0 <=> reqState[r] \in RequestEnd
         /\ \A k \in Cancels : /\ CancelRank(k) \in 0 .. 5
                               /\ CancelRank(k) = 0 <=> cancelState[k] \in CancelEnd
         /\ \A a \in Refunds : /\ RefundRank(a) \in 0 .. 3
                               /\ RefundRank(a) = 0 <=> refundState[a] \in RefundEnd
<1>1. ASSUME NEW r \in Requests
      PROVE  /\ RequestRank(r) \in 0 .. 2 * MaxAttempts + 4
             /\ RequestRank(r) = 0 <=> reqState[r] \in RequestEnd
  BY AmountsAssumption DEF TypeOK, RequestRank, RequestState, HoldingStates, RequestEnd
<1>2. ASSUME NEW k \in Cancels
      PROVE  /\ CancelRank(k) \in 0 .. 5
             /\ CancelRank(k) = 0 <=> cancelState[k] \in CancelEnd
  BY DEF TypeOK, CancelRank, CancelState, CancelBusy, CancelEnd
<1>3. ASSUME NEW a \in Refunds
      PROVE  /\ RefundRank(a) \in 0 .. 3
             /\ RefundRank(a) = 0 <=> refundState[a] \in RefundEnd
  BY DEF TypeOK, RefundRank, RefundState, RefundBusy, RefundEnd
<1> QED
  BY <1>1, <1>2, <1>3

(* Every step of a handler brings its end nearer, and no other step takes
   it further away: a request ends within 2 * MaxAttempts + 4 steps of its
   own, a cancel within 5 and a refund within 3, whatever fails, races or is
   tried again.                                                            *)
HandlersRunDown ==
  /\ \A r \in Requests : /\ RequestRank(r)' <= RequestRank(r)
                         /\ RequestStep(r) => RequestRank(r)' < RequestRank(r)
  /\ \A k \in Cancels : /\ CancelRank(k)' <= CancelRank(k)
                        /\ CancelStep(k) => CancelRank(k)' < CancelRank(k)
  /\ \A a \in Refunds : /\ RefundRank(a)' <= RefundRank(a)
                        /\ RefundStep(a) => RefundRank(a)' < RefundRank(a)

LEMMA RankFalls ==
  ASSUME IInv, TypeOK', Next
  PROVE  HandlersRunDown
<1>1. /\ \A r \in Requests : RequestRank(r) \in Nat
      /\ \A k \in Cancels : CancelRank(k) \in Nat
      /\ \A a \in Refunds : RefundRank(a) \in Nat
  <2>1. TypeOK
    BY DEF IInv
  <2> QED
    BY <2>1, RankType, AmountsAssumption
<1> USE AmountsAssumption DEF IInv, TypeOK, account, requestVars, cancelVars, refundVars, Goto,
      CancelGoto, RefundGoto
<1>2. ASSUME NEW r \in Requests, RequestStep(r)
      PROVE  /\ RequestRank(r)' < RequestRank(r)
             /\ \A q \in Requests : q # r => RequestRank(q)' = RequestRank(q)
             /\ cancelState' = cancelState /\ refundState' = refundState
  <2>1. cancelState' = cancelState /\ refundState' = refundState
    BY <1>2 DEF RequestStep, atomicDeductCredit, DeductRefused, BookConfirmed, BookFails,
      Compensate, CompensationFails, generateBookingRef, CommitBooking, RetryTransaction,
      TransactionFails
  <2>2. \A q \in Requests : q # r => reqState'[q] = reqState[q] /\ attempts'[q] = attempts[q]
    BY <1>2 DEF RequestStep, atomicDeductCredit, DeductRefused, BookConfirmed, BookFails,
      Compensate, CompensationFails, generateBookingRef, CommitBooking, RetryTransaction,
      TransactionFails
  <2>3. RequestRank(r)' < RequestRank(r)
    <3> USE DEF RequestRank
    <3>1. CASE atomicDeductCredit(r) \/ DeductRefused(r)
      BY <3>1 DEF atomicDeductCredit, DeductRefused
    <3>2. CASE BookConfirmed(r) \/ BookFails(r)
      BY <3>2 DEF BookConfirmed, BookFails
    <3>3. CASE Compensate(r) \/ CompensationFails(r)
      BY <3>3 DEF Compensate, CompensationFails
    <3>4. CASE generateBookingRef(r)
      BY <3>4 DEF generateBookingRef
    <3>5. CASE CommitBooking(r) \/ RetryTransaction(r) \/ TransactionFails(r)
      BY <3>5 DEF CommitBooking, RetryTransaction, TransactionFails
    <3> QED
      BY <1>2, <3>1, <3>2, <3>3, <3>4, <3>5 DEF RequestStep
  <2> QED
    BY <2>1, <2>2, <2>3 DEF RequestRank
<1>3. ASSUME NEW k \in Cancels, CancelStep(k)
      PROVE  /\ CancelRank(k)' < CancelRank(k)
             /\ \A j \in Cancels : j # k => CancelRank(j)' = CancelRank(j)
             /\ UNCHANGED <<reqState, attempts, refundState>>
  BY <1>3 DEF CancelStep, SupplierCancels, SupplierCancelFails, CancelCreditBack, RecordRefund,
    RefundFails, SaveCancelled, SaveFails, CancelRank
<1>4. ASSUME NEW a \in Refunds, RefundStep(a)
      PROVE  /\ RefundRank(a)' < RefundRank(a)
             /\ \A b \in Refunds : b # a => RefundRank(b)' = RefundRank(b)
             /\ UNCHANGED <<reqState, attempts, cancelState>>
  BY <1>4 DEF RefundStep, RefundSave, RefundPost, RefundThrows, RefundBusy, RefundRank
<1> DEFINE NoneRises ==
      /\ \A r \in Requests : RequestRank(r)' <= RequestRank(r)
      /\ \A k \in Cancels : CancelRank(k)' <= CancelRank(k)
      /\ \A a \in Refunds : RefundRank(a)' <= RefundRank(a)
<1>5. NoneRises
  <2>0. /\ \A r \in Requests : RequestRank(r)' \in Int
        /\ \A k \in Cancels : CancelRank(k)' \in Int
        /\ \A a \in Refunds : RefundRank(a)' \in Int
    BY DEF RequestRank, CancelRank, RefundRank
  <2>1. CASE Arrival
    <3>1. \A r \in Requests : RequestRank(r)' <= RequestRank(r)
      BY <2>1 DEF Arrival, Prebook, PrebookFails, CancelRead, RefundRead, RequestRank
    <3>2. \A k \in Cancels : CancelRank(k)' <= CancelRank(k)
      BY <2>1 DEF Arrival, Prebook, PrebookFails, CancelRead, RefundRead, CancelRank
    <3>3. \A a \in Refunds : RefundRank(a)' <= RefundRank(a)
      BY <2>1 DEF Arrival, Prebook, PrebookFails, CancelRead, RefundRead, RefundRank
    <3> QED
      BY <3>1, <3>2, <3>3
  <2>2. ASSUME NEW r \in Requests, RequestStep(r) PROVE NoneRises
    <3>1. /\ \A k \in Cancels : CancelRank(k)' = CancelRank(k)
          /\ \A a \in Refunds : RefundRank(a)' = RefundRank(a)
      BY <1>2, <2>2 DEF CancelRank, RefundRank
    <3> QED
      BY <1>1, <1>2, <2>0, <2>2, <3>1
  <2>3. ASSUME NEW k \in Cancels, CancelStep(k) PROVE NoneRises
    <3>1. /\ \A r \in Requests : RequestRank(r)' = RequestRank(r)
          /\ \A a \in Refunds : RefundRank(a)' = RefundRank(a)
      BY <1>3, <2>3 DEF RequestRank, RefundRank
    <3> QED
      BY <1>1, <1>3, <2>0, <2>3, <3>1
  <2>4. ASSUME NEW a \in Refunds, RefundStep(a) PROVE NoneRises
    <3>1. /\ \A r \in Requests : RequestRank(r)' = RequestRank(r)
          /\ \A k \in Cancels : CancelRank(k)' = CancelRank(k)
      BY <1>4, <2>4 DEF RequestRank, CancelRank
    <3> QED
      BY <1>1, <1>4, <2>0, <2>4, <3>1
  <2>5. CASE AccountStep \/ \E r \in Requests : \E s \in AdminStatuses : updateBookingStatus(r, s)
    <3>1. UNCHANGED <<reqState, attempts, cancelState, refundState>>
      BY <2>5 DEF AccountStep, updateCreditLimit, topUpWallet, deductWallet, updateBookingStatus
    <3> QED
      BY <1>1, <3>1 DEF RequestRank, CancelRank, RefundRank
  <2>6. CASE Crash
    <3>1. \A r \in Requests : RequestRank(r)' <= RequestRank(r)
      <4>1. ASSUME NEW r \in Requests
            PROVE  /\ reqState'[r] \in RequestEnd \/ reqState'[r] = reqState[r]
                   /\ attempts'[r] = attempts[r]
        BY <2>6 DEF Crash, RequestEnd
      <4>2. ASSUME NEW r \in Requests, reqState'[r] \in RequestEnd PROVE RequestRank(r)' = 0
        BY <4>2 DEF RequestRank, RequestEnd
      <4>3. ASSUME NEW r \in Requests, reqState'[r] = reqState[r], attempts'[r] = attempts[r]
            PROVE  RequestRank(r)' = RequestRank(r)
        BY <4>3 DEF RequestRank
      <4> QED
        BY <1>1, <4>1, <4>2, <4>3
    <3>2. \A k \in Cancels : CancelRank(k)' <= CancelRank(k)
      BY <2>6 DEF Crash, CancelRank, CancelBusy
    <3>3. \A a \in Refunds : RefundRank(a)' <= RefundRank(a)
      BY <2>6 DEF Crash, RefundRank, RefundBusy
    <3> QED
      BY <3>1, <3>2, <3>3
  <2> QED
    BY <2>1, <2>2, <2>3, <2>4, <2>5, <2>6 DEF Next
<1> QED
  BY <1>2, <1>3, <1>4, <1>5 DEF HandlersRunDown

(* No handler runs for ever: the bound on what HandlersEnd asks for.       *)
THEOREM HandlersAreBounded ==
  Spec => /\ [][HandlersRunDown]_vars
          /\ []( /\ \A r \in Requests : /\ RequestRank(r) \in 0 .. 2 * MaxAttempts + 4
                                        /\ RequestRank(r) = 0 <=> reqState[r] \in RequestEnd
                 /\ \A k \in Cancels : /\ CancelRank(k) \in 0 .. 5
                                       /\ CancelRank(k) = 0 <=> cancelState[k] \in CancelEnd
                 /\ \A a \in Refunds : /\ RefundRank(a) \in 0 .. 3
                                       /\ RefundRank(a) = 0 <=> refundState[a] \in RefundEnd )
<1>1. IInv /\ IInv' /\ [Next]_vars => [HandlersRunDown]_vars
  BY RankFalls DEF IInv
<1>2. IInv => /\ \A r \in Requests : /\ RequestRank(r) \in 0 .. 2 * MaxAttempts + 4
                                     /\ RequestRank(r) = 0 <=> reqState[r] \in RequestEnd
              /\ \A k \in Cancels : /\ CancelRank(k) \in 0 .. 5
                                    /\ CancelRank(k) = 0 <=> cancelState[k] \in CancelEnd
              /\ \A a \in Refunds : /\ RefundRank(a) \in 0 .. 3
                                    /\ RefundRank(a) = 0 <=> refundState[a] \in RefundEnd
  BY RankType DEF IInv
<1> QED
  BY <1>1, <1>2, IInvCorrect, PTL DEF Spec

-----------------------------------------------------------------------------
(* What a client of the credit account may conclude from its specification,
   carried over to the handlers: it is proved of the steps of CreditAccount
   and holds of CreditBooking because that implements them. *)

Held == [r \in Requests |-> Committed(r)]

HeldIsOwed ==
  /\ Held \in [Requests -> Nat]
  /\ \A r \in Requests \ Admitted : Held[r] = 0
  /\ outstandingBalance \in [Companies -> Int]
  /\ \A c \in Companies : outstandingBalance[c] = SumFunctionOnSet(Held, RequestsOf(c))

LEMMA FiniteRequestsOf == \A c : IsFiniteSet(RequestsOf(c))
  BY FinitenessAssumption, FS_Subset DEF RequestsOf

(* One commitment and the debt of its company move together.               *)
LEMMA HeldMoves ==
  ASSUME HeldIsOwed, NEW r \in Requests, NEW d \in Int, Held[r] + d \in Nat,
         Held' = [Held EXCEPT ![r] = @ + d],
         outstandingBalance' = [outstandingBalance EXCEPT ![CompanyOf[r]] = @ + d],
         \A q \in Requests \ Admitted' : q # r /\ q \in Requests \ Admitted
  PROVE  HeldIsOwed'
<1> DEFINE h == Held
           t == Held[r] + d
<1>0. /\ h \in [Requests -> Nat] /\ t \in Nat /\ Held' = [h EXCEPT ![r] = t]
      /\ outstandingBalance \in [Companies -> Int]
      /\ CompanyOf[r] \in Companies
  BY RequestsAssumption DEF HeldIsOwed
<1>1. Held' \in [Requests -> Nat] /\ outstandingBalance' \in [Companies -> Int]
  <2>1. Held' \in [Requests -> Nat]
    <3> HIDE DEF h, t
    <3> QED
      BY <1>0
  <2>2. outstandingBalance' \in [Companies -> Int]
    BY <1>0
  <2> QED
    BY <2>1, <2>2
<1>2. \A q \in Requests \ Admitted' : Held'[q] = 0
  <2> SUFFICES ASSUME NEW q \in Requests \ Admitted'
               PROVE  Held'[q] = 0
    OBVIOUS
  <2>1. q # r /\ h[q] = 0
    BY DEF HeldIsOwed
  <2> HIDE DEF h, t
  <2> QED
    BY <1>0, <2>1
<1>3. ASSUME NEW c \in Companies
      PROVE  outstandingBalance'[c] = SumFunctionOnSet(Held', RequestsOf(c))
  <2>1. /\ \A q \in RequestsOf(c) : Held[q] \in Int /\ Held'[q] \in Int
        /\ \A q \in RequestsOf(c) : q # r => Held'[q] = Held[q]
        /\ Held'[r] = Held[r] + d
        /\ Held[r] \in Int
    <3>1. Requests = DOMAIN h /\ \A q \in Requests : Held'[q] = IF q = r THEN t ELSE h[q]
      <4> HIDE DEF h, t
      <4> QED
        BY <1>0
    <3> QED
      BY <1>0, <3>1 DEF RequestsOf
  <2>2. SumFunctionOnSet(Held, RequestsOf(c)) \in Int
    BY <2>1, FiniteRequestsOf, SumInt
  <2>3. CASE CompanyOf[r] = c
    <3>1. r \in RequestsOf(c)
      BY <2>3 DEF RequestsOf
    <3>2. SumFunctionOnSet(Held', RequestsOf(c))
            = SumFunctionOnSet(Held, RequestsOf(c)) + Held'[r] - Held[r]
      <4> DEFINE S == RequestsOf(c)
                 g == Held'
      <4>1. /\ IsFiniteSet(S) /\ r \in S
            /\ \A q \in S : h[q] \in Int
            /\ g[r] \in Int
            /\ \A q \in S : q # r => g[q] = h[q]
        BY <2>1, <3>1, FiniteRequestsOf
      <4> HIDE DEF S, g, h
      <4>2. SumFunctionOnSet(g, S) = SumFunctionOnSet(h, S) + g[r] - h[r]
        BY <4>1, SumChanges
      <4> QED
        BY <4>2 DEF S, g, h
    <3>3. outstandingBalance'[c] = outstandingBalance[c] + d
      BY <1>0, <2>3
    <3> QED
      BY <2>1, <2>2, <3>2, <3>3 DEF HeldIsOwed
  <2>4. CASE CompanyOf[r] # c
    <3>1. \A q \in RequestsOf(c) : Held'[q] = Held[q]
      BY <2>1, <2>4 DEF RequestsOf
    <3>2. SumFunctionOnSet(Held', RequestsOf(c)) = SumFunctionOnSet(Held, RequestsOf(c))
      BY <2>1, <3>1, FiniteRequestsOf, SumAgrees
    <3>3. outstandingBalance'[c] = outstandingBalance[c]
      BY <1>0, <2>4
    <3> QED
      BY <3>2, <3>3 DEF HeldIsOwed
  <2> QED
    BY <2>3, <2>4
<1>4. \A c \in Companies : RequestsOf(c)' = RequestsOf(c)
  BY DEF RequestsOf
<1> QED
  BY <1>1, <1>2, <1>3, <1>4 DEF HeldIsOwed

LEMMA HeldInit == Account!Init => HeldIsOwed
<1> SUFFICES ASSUME Account!Init
             PROVE  HeldIsOwed
  OBVIOUS
<1>1. /\ Held = [r \in Requests |-> 0]
      /\ outstandingBalance = [c \in Companies |-> 0]
  BY DEF Account!Init, Held
<1>2. ASSUME NEW c \in Companies
      PROVE  SumFunctionOnSet(Held, RequestsOf(c)) = 0
  BY <1>1, FiniteRequestsOf, SumOfZeros DEF RequestsOf
<1> QED
  BY <1>1, <1>2 DEF HeldIsOwed

LEMMA HeldNext == HeldIsOwed /\ [Account!Next]_(Account!avars) => HeldIsOwed'
<1> SUFFICES ASSUME HeldIsOwed, [Account!Next]_(Account!avars)
             PROVE  HeldIsOwed'
  OBVIOUS
<1>1. ASSUME NEW r \in Requests, Account!Commit(r) PROVE HeldIsOwed'
  <2>1. PICK amount \in 1..Account!Available(CompanyOf[r]) :
          /\ Held' = [Held EXCEPT ![r] = amount]
          /\ outstandingBalance'
               = [outstandingBalance EXCEPT ![CompanyOf[r]] = @ + amount]
    BY <1>1 DEF Account!Commit, Held
  <2>2. r \notin Admitted /\ Admitted' = Admitted \cup {r} /\ amount \in Int /\ amount > 0
    BY <1>1 DEF Account!Commit
  <2>3. Held[r] = 0 /\ Held \in [Requests -> Nat]
    BY <2>2 DEF HeldIsOwed
  <2>4. Held' = [Held EXCEPT ![r] = @ + amount] /\ Held[r] + amount \in Nat
    BY <2>1, <2>2, <2>3
  <2> QED
    BY <2>1, <2>2, <2>4, HeldMoves
<1>2. ASSUME NEW r \in Requests, Account!GiveBack(r) PROVE HeldIsOwed'
  <2>1. PICK amount \in 1..Held[r] :
          /\ Held' = [Held EXCEPT ![r] = @ - amount]
          /\ outstandingBalance'
               = [outstandingBalance EXCEPT ![CompanyOf[r]] = @ - amount]
    BY <1>2 DEF Account!GiveBack, Held
  <2>2. Admitted' = Admitted
    BY <1>2 DEF Account!GiveBack
  <2>3. Held[r] \in Nat /\ Held \in [Requests -> Nat]
        /\ outstandingBalance \in [Companies -> Int]
    BY DEF HeldIsOwed
  <2>4. PICK d \in Int : d = -amount
    BY <2>3
  <2>5. /\ Held' = [Held EXCEPT ![r] = @ + d]
        /\ outstandingBalance' = [outstandingBalance EXCEPT ![CompanyOf[r]] = @ + d]
        /\ Held[r] + d \in Nat
    <3>1. CompanyOf[r] \in Companies
      BY RequestsAssumption
    <3>2. Held[r] + d = Held[r] - amount /\ Held[r] + d \in Nat /\ amount \in Int
      BY <2>3, <2>4
    <3>3. outstandingBalance[CompanyOf[r]] + d = outstandingBalance[CompanyOf[r]] - amount
      BY <2>3, <2>4, <3>1
    <3> QED
      BY <2>1, <3>2, <3>3
  <2>6. \A q \in Requests \ Admitted : q # r
    BY <2>1, <2>3 DEF HeldIsOwed
  <2> QED
    BY <2>2, <2>5, <2>6, HeldMoves
<1>3. CASE Account!ChangeCover \/ UNCHANGED Account!avars
  BY <1>3 DEF Account!ChangeCover, Account!avars, HeldIsOwed, Held, RequestsOf
<1> QED
  BY <1>1, <1>2, <1>3 DEF Account!Next

(* As long as a booking is cancelled by one call at most, the debt of a
   company is exactly what its requests hold of it, in flight, as bookings
   or leaked, less what their cancels gave back: it never falls below zero
   and never contains an amount no request stands for.  It is what
   atomicDeductCredit and creditBack are for (companies.service.ts), and
   what the two tabs of DebtCoversBookings break. *)
THEOREM DebtIsHeld ==
  ASSUME OneCancelPerBooking
  PROVE  Spec => [](\A c \in Companies :
                      /\ outstandingBalance[c] = SumFunctionOnSet(Held, RequestsOf(c))
                      /\ outstandingBalance[c] >= 0)
<1>1. Spec => Account!Spec
  BY AccountImplemented DEF ImplementsCreditAccount
<1>2. HeldIsOwed => \A c \in Companies :
                      /\ outstandingBalance[c] = SumFunctionOnSet(Held, RequestsOf(c))
                      /\ outstandingBalance[c] >= 0
  <2> SUFFICES ASSUME HeldIsOwed, NEW c \in Companies
               PROVE  /\ outstandingBalance[c] = SumFunctionOnSet(Held, RequestsOf(c))
                      /\ outstandingBalance[c] >= 0
    OBVIOUS
  <2>1. \A r \in RequestsOf(c) : Held[r] \in Nat
    BY DEF HeldIsOwed, RequestsOf
  <2>2. SumFunctionOnSet(Held, RequestsOf(c)) \in Nat
    BY <2>1, FiniteRequestsOf, SumNat
  <2> QED
    BY <2>2 DEF HeldIsOwed
<1> QED
  BY <1>1, <1>2, HeldInit, HeldNext, PTL DEF Account!Spec

-----------------------------------------------------------------------------
(* Whatever runs at the same time, a step that raises the debt of a company
   leaves it within the credit limit and the wallet of that very moment
   (companies.service.ts, the condition of atomicDeductCredit), and no step
   that lowers limit or wallet raises it: only the admin's and the wallet's
   own steps can leave a debt above its cover. *)
THEOREM DebtGrowsWithinCover ==
  Spec => [][\A c \in Companies :
               outstandingBalance'[c] > outstandingBalance[c] =>
                 /\ outstandingBalance'[c] <= creditLimit'[c] + walletBalance'[c]
                 /\ UNCHANGED <<creditLimit, walletBalance>>]_vars
<1> DEFINE Covered ==
      \A c \in Companies :
        outstandingBalance'[c] > outstandingBalance[c] =>
          /\ outstandingBalance'[c] <= creditLimit'[c] + walletBalance'[c]
          /\ UNCHANGED <<creditLimit, walletBalance>>
<1>1. ASSUME IInv, [Next]_vars
      PROVE  Covered
  <2> USE <1>1 DEF IInv
  <2>0. ASSUME outstandingBalance' = outstandingBalance
        PROVE  Covered
    BY <2>0 DEF TypeOK
  <2>1. ASSUME NEW r \in Requests, atomicDeductCredit(r)
        PROVE  Covered
    <3>1. /\ CompanyOf[r] \in Companies /\ totalAmount[r] \in Nat
          /\ outstandingBalance \in [Companies -> Int]
          /\ creditLimit \in [Companies -> Nat] /\ walletBalance \in [Companies -> Nat]
      BY RequestsAssumption DEF TypeOK
    <3>2. /\ outstandingBalance' =
               [outstandingBalance EXCEPT ![CompanyOf[r]] = @ + totalAmount[r]]
          /\ creditLimit[CompanyOf[r]] + walletBalance[CompanyOf[r]]
               - outstandingBalance[CompanyOf[r]] >= totalAmount[r]
          /\ creditLimit' = creditLimit /\ walletBalance' = walletBalance
      BY <2>1 DEF atomicDeductCredit, AvailableCredit
    <3> QED
      BY <3>1, <3>2
  <2>2. ASSUME NEW c \in Companies, NEW amount \in Nat, creditBack(c, amount)
        PROVE  Covered
    <3>1. \A d \in Companies : outstandingBalance'[d] <= outstandingBalance[d]
      BY <2>2 DEF creditBack, TypeOK
    <3>2. \A d \in Companies : outstandingBalance'[d] \in Int /\ outstandingBalance[d] \in Int
      BY <2>2 DEF creditBack, TypeOK
    <3> QED
      BY <3>1, <3>2
  <2>3. ASSUME NEW r \in Requests, Compensate(r)
        PROVE  Covered
    <3>1. CompanyOf[r] \in Companies /\ totalAmount[r] \in Nat
      BY RequestsAssumption DEF TypeOK
    <3> QED
      BY <2>2, <2>3, <3>1 DEF Compensate
  <2>4. ASSUME NEW k \in Cancels, CancelCreditBack(k)
        PROVE  Covered
    <3>1. /\ CompanyOf[TargetOf[k]] \in Companies
          /\ totalAmount[TargetOf[k]] \in Nat /\ fee[k] \in Nat
      BY RequestsAssumption DEF TypeOK
    <3>2. fee[k] < totalAmount[TargetOf[k]]
      BY <2>4 DEF CancelCreditBack, CancelInv
    <3>3. totalAmount[TargetOf[k]] - fee[k] \in Nat
      BY <3>1, <3>2
    <3> QED
      BY <2>2, <2>4, <3>1, <3>3 DEF CancelCreditBack
  <2>5. CASE Arrival
    BY <2>0, <2>5 DEF Arrival, PrebookFails, Prebook, CancelRead, RefundRead, RefundGoto, account
  <2>6. ASSUME NEW r \in Requests, RequestStep(r)
        PROVE  Covered
    BY <2>0, <2>1, <2>3, <2>6 DEF RequestStep, DeductRefused, BookConfirmed, BookFails,
      CompensationFails, generateBookingRef, CommitBooking, RetryTransaction,
      TransactionFails, account
  <2>7. ASSUME NEW k \in Cancels, CancelStep(k)
        PROVE  Covered
    BY <2>0, <2>4, <2>7 DEF CancelStep, SupplierCancels, SupplierCancelFails, RecordRefund,
      RefundFails, SaveCancelled, SaveFails, account
  <2>8. CASE AccountStep
    BY <2>0, <2>8 DEF AccountStep, updateCreditLimit, topUpWallet, deductWallet
  <2>9. ASSUME NEW r \in Requests, NEW s \in AdminStatuses, updateBookingStatus(r, s)
        PROVE  Covered
    BY <2>0, <2>9 DEF updateBookingStatus, account
  <2>10. CASE Crash \/ UNCHANGED vars
    BY <2>0, <2>10 DEF Crash, vars, account
  <2>11. ASSUME NEW a \in Refunds, RefundStep(a)
         PROVE  Covered
    BY <2>0, <2>11 DEF RefundStep, RefundSave, RefundPost, RefundThrows, account
  <2> QED
    BY <2>5, <2>6, <2>7, <2>8, <2>9, <2>10, <2>11 DEF Next
<1> QED
  BY <1>1, IInvCorrect, PTL DEF Spec
=============================================================================
