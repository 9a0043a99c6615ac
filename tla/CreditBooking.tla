---------------------------- MODULE CreditBooking ----------------------------
(***************************************************************************)
(* Hotel bookings on credit: BookingsService.createBooking (credit flow)   *)
(* and cancelBooking, on the balances that CompaniesService keeps in the   *)
(* company document, with the ledger (wallet_transactions), the counter of *)
(* booking references (booking_sequences) and the supplier TBO; and the    *)
(* admin's refundBooking, which pays any booking back into the wallet and  *)
(* writes an entry of the same type into the same ledger.                  *)
(*                                                                         *)
(* One action is what a handler does between two awaits.  MongoDB makes a  *)
(* single-document update and a transaction atomic; everything else        *)
(* interleaves.  A database write may throw without taking effect; the     *)
(* supplier may take an order and its reply be lost; the server may crash, *)
(* which kills every handler at the await where it is.  A write whose      *)
(* effect happens and whose reply is lost leaves the state a crash right   *)
(* after the write leaves.                                                 *)
(*                                                                         *)
(* Loyalty points, awarded after the answer, change none of these          *)
(* variables.                                                              *)
(***************************************************************************)
EXTENDS Integers, FiniteSets, FiniteSetsExt

CONSTANTS
  Companies,     \* the agencies
  Requests,      \* calls of createBooking on credit; a booking is named after its request
  Cancels,       \* calls of cancelBooking
  OnlineBookings, \* bookings paid online, of the module OnlineBooking
  Refunds,       \* the admin's calls of refundBooking with a positive amount
  CompanyOf,     \* the agency of each request and online booking
  TargetOf,      \* the booking each cancel call names
  RefundOf,      \* the booking each refund call names, of either kind
  Prices,        \* total amounts (supplier price and markup), minor units
  Fees,          \* cancellation fees the supplier may charge
  Limits,        \* credit limits the admin assigns
  TopUps,        \* amounts of wallet top-ups and of their refunds
  RefundAmounts, \* amounts the admin refunds
  MaxWallet,     \* bound on walletBalance
  MaxAttempts,   \* callback runs of withTransaction within its 120 s limit
  AdminStatuses  \* statuses the admin sets by hand

ASSUME RequestsAssumption ==
  /\ CompanyOf \in [Requests \cup OnlineBookings -> Companies]
  /\ TargetOf \in [Cancels -> Requests]
  /\ RefundOf \in [Refunds -> Requests \cup OnlineBookings]
  /\ Requests \cap Cancels = {}
  /\ Refunds \cap (Requests \cup Cancels) = {}
  /\ Requests \cap OnlineBookings = {}

(* Up to any moment the server has received finitely many calls.           *)
ASSUME FinitenessAssumption ==
  IsFiniteSet(Requests) /\ IsFiniteSet(Cancels) /\ IsFiniteSet(Refunds)

ASSUME AmountsAssumption ==
  /\ Prices \subseteq Nat /\ Fees \subseteq Nat
  /\ Limits \subseteq Nat /\ TopUps \subseteq Nat \ {0} /\ RefundAmounts \subseteq Nat \ {0}
  /\ MaxWallet \in Nat /\ MaxAttempts \in Nat \ {0}

BookingStatus == {"pending", "confirmed", "failed", "cancelled", "completed"}

ASSUME AdminAssumption == AdminStatuses \subseteq BookingStatus

VARIABLES
  creditLimit, walletBalance, outstandingBalance,  \* the company document
  seq,           \* booking_sequences.seq
  reqState,      \* where the handler of each request is
  totalAmount,   \* the request's price after markup
  bookingRef,    \* the reference drawn by the last run of its transaction, 0 before
  attempts,      \* runs of its transaction
  room,          \* the supplier's record of the request
  status,        \* status of the booking document, "none" before it exists
  walletTx,      \* wallet_transactions of the types credit_use and credit_refund
  cancelState,   \* where the handler of each cancel is
  fee,           \* cancellationFee it was told
  credited,      \* what it gave back to outstandingBalance
  refundState,   \* where the handler of each refund is
  refundAmount,  \* the amount it was called with
  readBalance    \* walletBalance in its copy of the company document

account == <<creditLimit, walletBalance, outstandingBalance>>
requestVars == <<seq, reqState, totalAmount, bookingRef, attempts>>
cancelVars == <<cancelState, fee, credited>>
refundVars == <<refundState, refundAmount, readBalance>>
vars == <<account, requestVars, room, status, walletTx, cancelVars, refundVars>>

(* Where a request waits: "called" for atomicDeductCredit, "deducted" for
   book, "compensating" for creditBack, "confirmed" for the reference,
   "writing" for the inserts.  It ends refused (nothing held), released
   (the hold given back), booked, or leaked (the hold stays, no booking).  *)
RequestEnd == {"refused", "released", "booked", "leaked"}
HoldingStates == {"deducted", "compensating", "confirmed", "writing"}
RequestState == {"idle", "called"} \cup HoldingStates \cup RequestEnd

CancelEnd == {"refused", "failed", "done", "lost"}
CancelBusy == {"calling", "crediting", "recording", "saving"}
CancelState == {"idle"} \cup CancelBusy \cup CancelEnd

RefundEnd == {"failed", "done", "lost"}
RefundBusy == {"paying", "posting"}
RefundState == {"idle"} \cup RefundBusy \cup RefundEnd

(* "unnamed" is a room confirmed without a booking id.                     *)
Rooms == {"none", "reserved", "unnamed", "cancelled"}

DebitEntry(r) ==
  [type |-> "credit_use", company |-> CompanyOf[r], amount |-> totalAmount[r],
   bookingRef |-> bookingRef[r], by |-> r]

RefundEntry(k) ==
  [type |-> "credit_refund", company |-> CompanyOf[TargetOf[k]], amount |-> credited[k],
   bookingRef |-> bookingRef[TargetOf[k]], by |-> k]

(* refundBooking's entry has the type of RefundEntry; the references of
   online bookings are told apart in OnlineBooking, here they are all 0.   *)
WalletEntry(a) ==
  [type |-> "credit_refund", company |-> CompanyOf[RefundOf[a]], amount |-> refundAmount[a],
   bookingRef |-> IF RefundOf[a] \in Requests THEN bookingRef[RefundOf[a]] ELSE 0, by |-> a]

Entries ==
  [type : {"credit_use", "credit_refund"}, company : Companies, amount : Nat,
   bookingRef : Nat, by : Requests \cup Cancels \cup Refunds]

TypeOK ==
  /\ creditLimit \in [Companies -> Nat]
  /\ walletBalance \in [Companies -> Nat]
  /\ outstandingBalance \in [Companies -> Int]
  /\ seq \in Nat
  /\ reqState \in [Requests -> RequestState]
  /\ totalAmount \in [Requests -> Nat]
  /\ bookingRef \in [Requests -> Nat]
  /\ attempts \in [Requests -> 0..MaxAttempts]
  /\ room \in [Requests -> Rooms]
  /\ status \in [Requests -> BookingStatus \cup {"none"}]
  /\ walletTx \in SUBSET Entries
  /\ cancelState \in [Cancels -> CancelState]
  /\ fee \in [Cancels -> Nat]
  /\ credited \in [Cancels -> Nat]
  /\ refundState \in [Refunds -> RefundState]
  /\ refundAmount \in [Refunds -> Nat]
  /\ readBalance \in [Refunds -> Nat]

Init ==
  /\ creditLimit \in [Companies -> Limits]
  /\ walletBalance = [c \in Companies |-> 0]
  /\ outstandingBalance = [c \in Companies |-> 0]
  /\ seq = 0
  /\ reqState = [r \in Requests |-> "idle"]
  /\ totalAmount = [r \in Requests |-> 0]
  /\ bookingRef = [r \in Requests |-> 0]
  /\ attempts = [r \in Requests |-> 0]
  /\ room = [r \in Requests |-> "none"]
  /\ status = [r \in Requests |-> "none"]
  /\ walletTx = {}
  /\ cancelState = [k \in Cancels |-> "idle"]
  /\ fee = [k \in Cancels |-> 0]
  /\ credited = [k \in Cancels |-> 0]
  /\ refundState = [a \in Refunds |-> "idle"]
  /\ refundAmount = [a \in Refunds |-> 0]
  /\ readBalance = [a \in Refunds |-> 0]

-----------------------------------------------------------------------------
(* The balances of the company document.                                   *)

AvailableCredit(c) == creditLimit[c] + walletBalance[c] - outstandingBalance[c]

creditBack(c, amount) ==
  outstandingBalance' = [outstandingBalance EXCEPT ![c] = @ - amount]

(* The admin's.  Its ledger entry, an adjustment, is of neither type here;
   the wallet's other changes are those of refundBooking, below, and of
   WalletAccount and Payments.                                             *)
updateCreditLimit(c, new) ==
  /\ creditLimit' = [creditLimit EXCEPT ![c] = new]
  /\ UNCHANGED <<walletBalance, outstandingBalance, requestVars, room, status, walletTx,
                 cancelVars, refundVars>>

topUpWallet(c, amount) ==
  /\ walletBalance[c] + amount <= MaxWallet
  /\ walletBalance' = [walletBalance EXCEPT ![c] = @ + amount]
  /\ UNCHANGED <<creditLimit, outstandingBalance, requestVars, room, status, walletTx,
                 cancelVars, refundVars>>

(* Mutant: the update is not conditional on the balance.                   *)
DeductUnguarded(c, amount) ==
  /\ walletBalance' = [walletBalance EXCEPT ![c] = @ - amount]
  /\ UNCHANGED <<creditLimit, outstandingBalance, requestVars, room, status, walletTx,
                 cancelVars, refundVars>>

deductWallet(c, amount) ==
  /\ walletBalance[c] >= amount
  /\ walletBalance' = [walletBalance EXCEPT ![c] = @ - amount]
  /\ UNCHANGED <<creditLimit, outstandingBalance, requestVars, room, status, walletTx,
                 cancelVars, refundVars>>

-----------------------------------------------------------------------------
(* createBooking, credit flow.                                             *)

Goto(r, s) == reqState' = [reqState EXCEPT ![r] = s]

(* Mutants of the actions below, the bugs the properties are there to find. *)

(* The credit test forgets what is already owed.                           *)
DeductAgainstLimit(r) ==
  LET c == CompanyOf[r] IN
  /\ reqState[r] = "called"
  /\ totalAmount[r] > 0
  /\ creditLimit[c] + walletBalance[c] >= totalAmount[r]
  /\ outstandingBalance' = [outstandingBalance EXCEPT ![c] = @ + totalAmount[r]]
  /\ Goto(r, "deducted")
  /\ UNCHANGED <<creditLimit, walletBalance, seq, totalAmount, bookingRef, attempts, room,
                 status, walletTx, cancelVars, refundVars>>

(* book() is tried again for as long as it throws.                         *)
BookRetriedForEver(r) ==
  /\ reqState[r] = "deducted"
  /\ \E s \in {"none", "reserved"} : room' = [room EXCEPT ![r] = s]
  /\ UNCHANGED <<account, requestVars, status, walletTx, cancelVars, refundVars>>

(* The reference is one more than the number of bookings.                  *)
RefFromCount(r) ==
  /\ reqState[r] = "confirmed"
  /\ attempts[r] < MaxAttempts
  /\ bookingRef' = [bookingRef EXCEPT ![r] = Cardinality({s \in Requests : status[s] # "none"}) + 1]
  /\ attempts' = [attempts EXCEPT ![r] = @ + 1]
  /\ Goto(r, "writing")
  /\ UNCHANGED <<account, seq, totalAmount, room, status, walletTx, cancelVars, refundVars>>

(* The ledger insert is outside the transaction and may fail alone.        *)
CommitWithoutEntry(r) ==
  /\ reqState[r] = "writing"
  /\ status' = [status EXCEPT ![r] = "confirmed"]
  /\ walletTx' \in {walletTx, walletTx \cup {DebitEntry(r)}}
  /\ Goto(r, "booked")
  /\ UNCHANGED <<account, seq, totalAmount, bookingRef, attempts, room, cancelVars,
                 refundVars>>

(* The ledger insert lacks the session option and survives the abort.      *)
RetryKeepsEntry(r) ==
  /\ reqState[r] = "writing"
  /\ attempts[r] < MaxAttempts
  /\ walletTx' = walletTx \cup {DebitEntry(r)}
  /\ Goto(r, "confirmed")
  /\ UNCHANGED <<account, seq, totalAmount, bookingRef, attempts, room, status, cancelVars,
                 refundVars>>

(* The price comes from TBO's prebook, the markup from the configuration.  *)
Prebook(r, total) ==
  /\ reqState[r] = "idle"
  /\ totalAmount' = [totalAmount EXCEPT ![r] = total]
  /\ Goto(r, "called")
  /\ UNCHANGED <<account, seq, bookingRef, attempts, room, status, walletTx, cancelVars,
                 refundVars>>

PrebookFails(r) ==
  /\ reqState[r] = "idle"
  /\ Goto(r, "refused")
  /\ UNCHANGED <<account, seq, totalAmount, bookingRef, attempts, room, status, walletTx,
                 cancelVars, refundVars>>

(* One conditional findOneAndUpdate: the test and the increment are one step. *)
atomicDeductCredit(r) ==
  LET c == CompanyOf[r] IN
  /\ reqState[r] = "called"
  /\ totalAmount[r] > 0
  /\ AvailableCredit(c) >= totalAmount[r]
  /\ outstandingBalance' = [outstandingBalance EXCEPT ![c] = @ + totalAmount[r]]
  /\ Goto(r, "deducted")
  /\ UNCHANGED <<creditLimit, walletBalance, seq, totalAmount, bookingRef, attempts, room,
                 status, walletTx, cancelVars, refundVars>>

(* Not positive, insufficient credit, or the update threw.                 *)
DeductRefused(r) ==
  /\ reqState[r] = "called"
  /\ Goto(r, "refused")
  /\ UNCHANGED <<account, seq, totalAmount, bookingRef, attempts, room, status, walletTx,
                 cancelVars, refundVars>>

(* tboService.book answers "confirmed", with a booking id or without.      *)
BookConfirmed(r) ==
  /\ reqState[r] = "deducted"
  /\ \E s \in {"reserved", "unnamed"} : room' = [room EXCEPT ![r] = s]
  /\ Goto(r, "confirmed")
  /\ UNCHANGED <<account, seq, totalAmount, bookingRef, attempts, status, walletTx,
                 cancelVars, refundVars>>

(* It answers "not confirmed", or throws: a fault, or a timeout after which
   nobody here knows whether the supplier holds the room.                  *)
BookFails(r) ==
  /\ reqState[r] = "deducted"
  /\ \E s \in {"none", "reserved"} : room' = [room EXCEPT ![r] = s]
  /\ Goto(r, "compensating")
  /\ UNCHANGED <<account, seq, totalAmount, bookingRef, attempts, status, walletTx,
                 cancelVars, refundVars>>

Compensate(r) ==
  /\ reqState[r] = "compensating"
  /\ creditBack(CompanyOf[r], totalAmount[r])
  /\ Goto(r, "released")
  /\ UNCHANGED <<creditLimit, walletBalance, seq, totalAmount, bookingRef, attempts, room,
                 status, walletTx, cancelVars, refundVars>>

(* creditBack throws: logged as critical, or passed on to the client.      *)
CompensationFails(r) ==
  /\ reqState[r] = "compensating"
  /\ Goto(r, "leaked")
  /\ UNCHANGED <<account, seq, totalAmount, bookingRef, attempts, room, status, walletTx,
                 cancelVars, refundVars>>

(* generateBookingRef runs inside the callback but outside the session.    *)
generateBookingRef(r) ==
  /\ reqState[r] = "confirmed"
  /\ attempts[r] < MaxAttempts
  /\ seq' = seq + 1
  /\ bookingRef' = [bookingRef EXCEPT ![r] = seq + 1]
  /\ attempts' = [attempts EXCEPT ![r] = @ + 1]
  /\ Goto(r, "writing")
  /\ UNCHANGED <<account, totalAmount, room, status, walletTx, cancelVars, refundVars>>

(* The booking and its debit entry appear together.                        *)
CommitBooking(r) ==
  /\ reqState[r] = "writing"
  /\ status' = [status EXCEPT ![r] = "confirmed"]
  /\ walletTx' = walletTx \cup {DebitEntry(r)}
  /\ Goto(r, "booked")
  /\ UNCHANGED <<account, seq, totalAmount, bookingRef, attempts, room, cancelVars,
                 refundVars>>

(* A transient error: withTransaction undoes the inserts and runs the
   callback again.                                                         *)
RetryTransaction(r) ==
  /\ reqState[r] = "writing"
  /\ attempts[r] < MaxAttempts
  /\ Goto(r, "confirmed")
  /\ UNCHANGED <<account, seq, totalAmount, bookingRef, attempts, room, status, walletTx,
                 cancelVars, refundVars>>

(* Any other error, in the callback or after the time limit, leaves the
   handler: there is no catch, so the deduction stays.                     *)
TransactionFails(r) ==
  /\ reqState[r] \in {"confirmed", "writing"}
  /\ Goto(r, "leaked")
  /\ UNCHANGED <<account, seq, totalAmount, bookingRef, attempts, room, status, walletTx,
                 cancelVars, refundVars>>

-----------------------------------------------------------------------------
(* cancelBooking, for a booking on credit.                                 *)

CancelGoto(k, s) == cancelState' = [cancelState EXCEPT ![k] = s]

(* The document is read once; nothing is read again after the await.       *)
CancelRead(k) ==
  LET r == TargetOf[k] IN
  /\ cancelState[k] = "idle"
  /\ status[r] # "none"
  /\ CancelGoto(k, IF status[r] \in {"confirmed", "pending"} /\ room[r] # "unnamed"
                   THEN "calling" ELSE "refused")
  /\ UNCHANGED <<account, requestVars, room, status, walletTx, fee, credited, refundVars>>

(* TBO answers with a fee; its success flag is not looked at.              *)
SupplierCancels(k, charge) ==
  LET r == TargetOf[k] IN
  /\ cancelState[k] = "calling"
  /\ \E s \in {room[r], "cancelled"} : room' = [room EXCEPT ![r] = s]
  /\ fee' = [fee EXCEPT ![k] = charge]
  /\ CancelGoto(k, IF totalAmount[r] - charge > 0 THEN "crediting" ELSE "saving")
  /\ UNCHANGED <<account, requestVars, status, walletTx, credited, refundVars>>

(* The call throws, with the room cancelled or not.                        *)
SupplierCancelFails(k) ==
  LET r == TargetOf[k] IN
  /\ cancelState[k] = "calling"
  /\ \E s \in {room[r], "cancelled"} : room' = [room EXCEPT ![r] = s]
  /\ CancelGoto(k, "failed")
  /\ UNCHANGED <<account, requestVars, status, walletTx, fee, credited, refundVars>>

(* Mutant: the fee is not kept back.                                       *)
CreditBackWhole(k) ==
  LET r == TargetOf[k] IN
  /\ cancelState[k] = "crediting"
  /\ creditBack(CompanyOf[r], totalAmount[r])
  /\ credited' = [credited EXCEPT ![k] = totalAmount[r] - fee[k]]
  /\ CancelGoto(k, "recording")
  /\ UNCHANGED <<creditLimit, walletBalance, requestVars, room, status, walletTx, fee,
                 refundVars>>

CancelCreditBack(k) ==
  LET r == TargetOf[k]
      refundable == totalAmount[r] - fee[k] IN
  /\ cancelState[k] = "crediting"
  /\ creditBack(CompanyOf[r], refundable)
  /\ credited' = [credited EXCEPT ![k] = refundable]
  /\ CancelGoto(k, "recording")
  /\ UNCHANGED <<creditLimit, walletBalance, requestVars, room, status, walletTx, fee,
                 refundVars>>

RecordRefund(k) ==
  /\ cancelState[k] = "recording"
  /\ walletTx' = walletTx \cup {RefundEntry(k)}
  /\ CancelGoto(k, "saving")
  /\ UNCHANGED <<account, requestVars, room, status, fee, credited, refundVars>>

(* creditBack or the ledger insert throws: one catch logs either of them.  *)
RefundFails(k) ==
  /\ cancelState[k] \in {"crediting", "recording"}
  /\ CancelGoto(k, "saving")
  /\ UNCHANGED <<account, requestVars, room, status, walletTx, fee, credited, refundVars>>

SaveCancelled(k) ==
  /\ cancelState[k] = "saving"
  /\ status' = [status EXCEPT ![TargetOf[k]] = "cancelled"]
  /\ CancelGoto(k, "done")
  /\ UNCHANGED <<account, requestVars, room, walletTx, fee, credited, refundVars>>

SaveFails(k) ==
  /\ cancelState[k] = "saving"
  /\ CancelGoto(k, "failed")
  /\ UNCHANGED <<account, requestVars, room, status, walletTx, fee, credited, refundVars>>

-----------------------------------------------------------------------------
(* refundBooking, by the admin: for any booking on credit or online, in any
   status and as often as the admin calls it.  Its marks on the booking are
   those of OnlineBooking; the debt is not its concern.                    *)

RefundGoto(a, s) == refundState' = [refundState EXCEPT ![a] = s]

(* The booking is found and saved, then the company document is read.      *)
RefundRead(a, amount) ==
  /\ refundState[a] = "idle"
  /\ RefundOf[a] \in Requests => status[RefundOf[a]] # "none"
  /\ refundAmount' = [refundAmount EXCEPT ![a] = amount]
  /\ readBalance' = [readBalance EXCEPT ![a] = walletBalance[CompanyOf[RefundOf[a]]]]
  /\ RefundGoto(a, "paying")
  /\ UNCHANGED <<account, requestVars, room, status, walletTx, cancelVars>>

(* company.save writes the sum made from the copy, whatever came between.  *)
RefundSave(a) ==
  /\ refundState[a] = "paying"
  /\ walletBalance' =
       [walletBalance EXCEPT ![CompanyOf[RefundOf[a]]] = readBalance[a] + refundAmount[a]]
  /\ RefundGoto(a, "posting")
  /\ UNCHANGED <<creditLimit, outstandingBalance, requestVars, room, status, walletTx,
                 cancelVars, refundAmount, readBalance>>

RefundPost(a) ==
  /\ refundState[a] = "posting"
  /\ walletTx' = walletTx \cup {WalletEntry(a)}
  /\ RefundGoto(a, "done")
  /\ UNCHANGED <<account, requestVars, room, status, cancelVars, refundAmount, readBalance>>

(* A save or the ledger insert throws; there is no catch.                  *)
RefundThrows(a) ==
  /\ refundState[a] \in RefundBusy
  /\ RefundGoto(a, "failed")
  /\ UNCHANGED <<account, requestVars, room, status, walletTx, cancelVars, refundAmount,
                 readBalance>>

-----------------------------------------------------------------------------
updateBookingStatus(r, s) ==
  /\ status[r] # "none"
  /\ status' = [status EXCEPT ![r] = s]
  /\ UNCHANGED <<account, requestVars, room, walletTx, cancelVars, refundVars>>

Crash ==
  /\ reqState' = [r \in Requests |->
                    CASE reqState[r] = "called" -> "refused"
                      [] reqState[r] \in HoldingStates -> "leaked"
                      [] OTHER -> reqState[r]]
  /\ cancelState' = [k \in Cancels |->
                       IF cancelState[k] \in CancelBusy THEN "lost" ELSE cancelState[k]]
  /\ refundState' = [a \in Refunds |->
                       IF refundState[a] \in RefundBusy THEN "lost" ELSE refundState[a]]
  /\ UNCHANGED <<account, seq, totalAmount, bookingRef, attempts, room, status, walletTx,
                 fee, credited, refundAmount, readBalance>>

(* What the server does for a request once it has arrived.                 *)
RequestStep(r) ==
  \/ atomicDeductCredit(r) \/ DeductRefused(r)
  \/ BookConfirmed(r) \/ BookFails(r)
  \/ Compensate(r) \/ CompensationFails(r)
  \/ generateBookingRef(r) \/ CommitBooking(r) \/ RetryTransaction(r) \/ TransactionFails(r)

CancelStep(k) ==
  \/ \E charge \in Fees : SupplierCancels(k, charge)
  \/ SupplierCancelFails(k)
  \/ CancelCreditBack(k) \/ RecordRefund(k) \/ RefundFails(k)
  \/ SaveCancelled(k) \/ SaveFails(k)

RefundStep(a) == RefundSave(a) \/ RefundPost(a) \/ RefundThrows(a)

Arrival ==
  \/ \E r \in Requests : PrebookFails(r) \/ \E total \in Prices : Prebook(r, total)
  \/ \E k \in Cancels : CancelRead(k)
  \/ \E a \in Refunds, amount \in RefundAmounts : RefundRead(a, amount)

AccountStep ==
  \E c \in Companies :
    \/ \E new \in Limits : updateCreditLimit(c, new)
    \/ \E amount \in TopUps : topUpWallet(c, amount) \/ deductWallet(c, amount)

Next ==
  \/ Arrival
  \/ \E r \in Requests : RequestStep(r)
  \/ \E k \in Cancels : CancelStep(k)
  \/ \E a \in Refunds : RefundStep(a)
  \/ AccountStep
  \/ \E r \in Requests : \E s \in AdminStatuses : updateBookingStatus(r, s)
  \/ Crash

Spec == Init /\ [][Next]_vars

(* Every await of a running handler is answered: the SOAP client times out
   after 60 s, the database driver after its own limits.  Clients, admins
   and crashes owe nothing.                                                *)
Fairness ==
  /\ \A r \in Requests : WF_vars(RequestStep(r))
  /\ \A k \in Cancels : WF_vars(CancelStep(k))
  /\ \A a \in Refunds : WF_vars(RefundStep(a))

FairSpec == Spec /\ Fairness

-----------------------------------------------------------------------------
(* Correctness.                                                            *)

(* What a request takes of its company's credit, in flight, as a booking,
   or leaked.                                                              *)
Hold(r) == IF reqState[r] \in HoldingStates \cup {"booked", "leaked"} THEN totalAmount[r] ELSE 0

CancelsOf(r) == {k \in Cancels : TargetOf[k] = r}

RequestsOf(c) == {r \in Requests : CompanyOf[r] = c}

SumOver(Op(_), S) == SumFunctionOnSet([x \in S |-> Op(x)], S)

(* The two sides of verify-ledger.ts, Assertion 1. *)
LedgerBalance(c) ==
  LET Signed(e) == IF e.type = "credit_use" THEN e.amount ELSE -e.amount
  IN  SumOver(Signed, {e \in walletTx : e.company = c})

(* Holds that no booking document stands for.                              *)
Unbooked(c) == SumOver(Hold, {r \in RequestsOf(c) : status[r] = "none"})

(* Credit given back by cancels that no refund entry stands for.           *)
Unrecorded(c) ==
  LET Given(k) == credited[k]
  IN  SumOver(Given, {k \in Cancels : CompanyOf[TargetOf[k]] = c /\ RefundEntry(k) \notin walletTx})

(* Entries of refundBooking, which lower the ledger and not the debt.      *)
PaidToWallet(c) ==
  LET Paid(a) == refundAmount[a]
  IN  SumOver(Paid, {a \in Refunds : CompanyOf[RefundOf[a]] = c /\ WalletEntry(a) \in walletTx})

(* The debt of a company differs from its ledger by exactly the holds in
   flight or leaked, the refunds in flight or unrecorded, and the refunds
   the admin paid into the wallet and entered as if they had lowered the
   debt: no interleaving of bookings, cancels, admin refunds, retries,
   failures and crashes loses or counts twice an amount.  This is
   Assertion 1 of verify-ledger.ts (73-104) with each deviation a term of
   its own: these handlers are all that write the debt and these entries.  *)
LedgerGapExplained ==
  \A c \in Companies :
    outstandingBalance[c]
      = LedgerBalance(c) + Unbooked(c) - Unrecorded(c) + PaidToWallet(c)

(* Assertion 2 of verify-ledger.ts (109-135): a confirmed or completed
   booking has exactly one debit entry, of its total amount, across
   retried transactions, crashes and status changes by the admin.          *)
OneDebitPerBooking ==
  \A r \in Requests :
    status[r] \in {"confirmed", "completed"} =>
      \E e \in walletTx :
        /\ e.amount = totalAmount[r]
        /\ \A d \in walletTx :
             d.type = "credit_use" /\ d.bookingRef = bookingRef[r] <=> d = e

(* The converse: an entry of the ledger never outlives the transaction that
   wrote it; it names a booking that exists, of the same company, and a
   refund entry names either a cancel that lowered the debt by that amount
   or a call of refundBooking that put that amount into the wallet
   (bookings.service.ts 528-539, admin.service.ts 329-338).                *)
EntriesHaveBookings ==
  \A e \in walletTx :
    \/ \E r \in RequestsOf(e.company) :
         /\ status[r] # "none"
         /\ bookingRef[r] = e.bookingRef
         /\ \/ e = DebitEntry(r)
            \/ \E k \in CancelsOf(r) : e = RefundEntry(k) /\ e.amount > 0
    \/ \E a \in Refunds :
         /\ RefundOf[a] \in Requests => status[RefundOf[a]] # "none"
         /\ refundState[a] = "done"
         /\ e = WalletEntry(a) /\ e.amount > 0

(* No two requests ever try to write the same reference, although the
   counter is not part of the transaction, a retry draws again and a crash
   drops what was drawn (bookings.service.ts 42-51): the unique index on
   bookingRef never rejects a paid room.                                   *)
UniqueBookingRefs ==
  \A r, s \in Requests :
    {reqState[r], reqState[s]} \subseteq {"writing", "booked"} /\ r # s
      => bookingRef[r] # bookingRef[s]

(* At most one cancel call names a booking.                                *)
OneCancelPerBooking == \A j, k \in Cancels : TargetOf[j] = TargetOf[k] => j = k

(* What a request has committed and not got back, when one call at most
   cancels its booking.                                                    *)
GivenBack(r) == IF CancelsOf(r) = {} THEN 0 ELSE credited[CHOOSE k \in CancelsOf(r) : TRUE]

Committed(r) == Hold(r) - GivenBack(r)

Admitted == {r \in Requests : reqState[r] \notin {"idle", "called", "refused"}}

Account ==
  INSTANCE CreditAccount WITH
    limit <- creditLimit, funds <- walletBalance, outstanding <- outstandingBalance,
    committed <- [r \in Requests |-> Committed(r)], admitted <- Admitted

(* The handlers implement the credit account: a request commits once, on
   credit that covers it when it commits, and gives back once, as long as
   a booking is cancelled by one call.                                     *)
ImplementsCreditAccount == Account!Spec

(* Every request, cancel and refund the server accepts comes to an end,
   whatever fails in between: no hold waits for ever for its compensation,
   and a transaction is not retried without end.                           *)
HandlersEnd ==
  /\ \A r \in Requests : reqState[r] # "idle" ~> reqState[r] \in RequestEnd
  /\ \A k \in Cancels : cancelState[k] # "idle" ~> cancelState[k] \in CancelEnd
  /\ \A a \in Refunds : refundState[a] # "idle" ~> refundState[a] \in RefundEnd

(* verify-ledger.ts 73-104: between requests the ledger says what
   outstandingBalance says.                                                *)
Quiet ==
  /\ \A r \in Requests : reqState[r] \in RequestEnd \cup {"idle"}
  /\ \A k \in Cancels : cancelState[k] \in CancelEnd \cup {"idle"}
  /\ \A a \in Refunds : refundState[a] \in RefundEnd \cup {"idle"}

LedgerAssertion1 == Quiet => \A c \in Companies : LedgerBalance(c) = outstandingBalance[c]

(* ARCHITECTURE.md 44: outstandingBalance is the accumulated unpaid credit
   bookings; between requests it covers at least those still confirmed.    *)
DebtCoversBookings ==
  Quiet => \A c \in Companies :
             outstandingBalance[c] >= SumOver(Hold, {r \in RequestsOf(c) : status[r] = "confirmed"})
=============================================================================
