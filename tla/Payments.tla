------------------------------ MODULE Payments ------------------------------
(***************************************************************************)
(* Payments through PayTabs and the wallet they top up: PaymentsService's  *)
(* createOrder, verifyPayment, handleWebhook, handlePostPaymentSuccess and *)
(* processRefund, with topUpWallet and deductWallet of CompaniesService,   *)
(* for the payments of one agency.                                         *)
(*                                                                         *)
(* A handler reads the payment document once and decides on that copy.     *)
(* payment.save() writes, with no version check, the fields the handler    *)
(* changed in its copy: a status set to the value it was read with is not  *)
(* written.  PayTabs posts its notification of an attempt any number of    *)
(* times, late, concurrently and in any order, or never.  A save may throw *)
(* without taking effect; the server may crash.                            *)
(***************************************************************************)
EXTENDS Integers, FiniteSets, FiniteSetsExt

CONSTANTS
  Payments,       \* payment documents
  Verifies,       \* calls of verifyPayment
  Webhooks,       \* deliveries of a notification
  Refunds,        \* calls of processRefund
  TypeOf,         \* "wallet_topup" or "booking_online"
  AmountOf,       \* payment.amount
  RefundAmounts,  \* amounts a refund call may name
  NoPayment       \* the payment of a handler that has not begun

Handlers == Verifies \cup Webhooks \cup Refunds

ASSUME HandlersAssumption ==
  /\ Verifies \cap Webhooks = {} /\ Verifies \cap Refunds = {} /\ Webhooks \cap Refunds = {}

ASSUME PaymentsAssumption ==
  /\ TypeOf \in [Payments -> {"wallet_topup", "booking_online"}]
  /\ AmountOf \in [Payments -> Nat \ {0}]
  /\ RefundAmounts \subseteq Nat \ {0}
  /\ NoPayment \notin Payments

(* Up to any moment the server has seen finitely many documents and calls. *)
ASSUME FinitenessAssumption == IsFiniteSet(Payments) /\ IsFiniteSet(Handlers)

VARIABLES
  walletBalance,  \* of the agency
  status,         \* payment.status, "none" before the document exists
  order,          \* where createOrder is
  paid,           \* PayTabs: the last attempt of the customer
  ipn,            \* PayTabs: the notifications it may deliver
  refunded,       \* PayTabs: how much it has paid back
  pc, target,     \* where each handler is, and the payment it works on
  seen,           \* the status it read
  share,          \* the amount of a refund call
  topUps,         \* history: top-ups made for each payment
  deducted,       \* history: deductions made for each payment
  overlapped      \* history: payments two verify or webhook handlers had in hand at once

gateway == <<paid, ipn, refunded>>
handlerVars == <<pc, target, seen, share>>
history == <<topUps, deducted, overlapped>>
vars == <<walletBalance, status, order, gateway, handlerVars, history>>

PaymentStatus == {"created", "pending", "success", "failed", "refunded"}
OrderState == {"idle", "calling", "saving", "failing", "open", "failed", "lost"}

(* The awaits of verifyPayment and handleWebhook, then of processRefund.   *)
Settling == {"querying", "savingSuccess", "savingFailed", "toppingUp"}
Refunding == {"refunding", "savingRefunded", "deducting"}

TypeOK ==
  /\ walletBalance \in Nat
  /\ status \in [Payments -> PaymentStatus \cup {"none"}]
  /\ order \in [Payments -> OrderState]
  /\ paid \in [Payments -> {"open", "declined", "authorised"}]
  /\ ipn \in SUBSET [payment : Payments, authorised : BOOLEAN]
  /\ refunded \in [Payments -> Nat]
  /\ pc \in [Handlers -> {"idle", "end"} \cup Settling \cup Refunding]
  /\ target \in [Handlers -> Payments \cup {NoPayment}]
  /\ seen \in [Handlers -> PaymentStatus \cup {"none"}]
  /\ share \in [Handlers -> Nat]
  /\ topUps \in [Payments -> Nat]
  /\ deducted \in [Payments -> Nat]
  /\ overlapped \in [Payments -> BOOLEAN]

Init ==
  /\ walletBalance = 0
  /\ status = [p \in Payments |-> "none"]
  /\ order = [p \in Payments |-> "idle"]
  /\ paid = [p \in Payments |-> "open"]
  /\ ipn = {}
  /\ refunded = [p \in Payments |-> 0]
  /\ pc = [h \in Handlers |-> "idle"]
  /\ target = [h \in Handlers |-> NoPayment]
  /\ seen = [h \in Handlers |-> "none"]
  /\ share = [h \in Handlers |-> 0]
  /\ topUps = [p \in Payments |-> 0]
  /\ deducted = [p \in Payments |-> 0]
  /\ overlapped = [p \in Payments |-> FALSE]

-----------------------------------------------------------------------------
(* createOrder.                                                            *)

OrderGoto(p, s) == order' = [order EXCEPT ![p] = s]
SetStatus(p, s) == status' = [status EXCEPT ![p] = s]

createOrder(p) ==
  /\ order[p] = "idle"
  /\ SetStatus(p, "created")
  /\ OrderGoto(p, "calling")
  /\ UNCHANGED <<walletBalance, gateway, handlerVars, history>>

GatewayAnswers(p) ==
  /\ order[p] = "calling"
  /\ \E s \in {"saving", "failing"} : OrderGoto(p, s)
  /\ UNCHANGED <<walletBalance, status, gateway, handlerVars, history>>

(* Saved with its gatewayOrderId; the client gets the payment page.        *)
OrderOpened(p) ==
  /\ order[p] = "saving"
  /\ SetStatus(p, "pending")
  /\ OrderGoto(p, "open")
  /\ UNCHANGED <<walletBalance, gateway, handlerVars, history>>

OrderSaveFails(p) ==
  /\ order[p] = "saving"
  /\ OrderGoto(p, "failing")
  /\ UNCHANGED <<walletBalance, status, gateway, handlerVars, history>>

OrderFailed(p) ==
  /\ order[p] = "failing"
  /\ \/ SetStatus(p, "failed") /\ OrderGoto(p, "failed")
     \/ OrderGoto(p, "lost") /\ UNCHANGED status
  /\ UNCHANGED <<walletBalance, gateway, handlerVars, history>>

(* On the payment page the customer may be declined and try again; PayTabs
   has a notification to deliver for each outcome.                         *)
CustomerPays(p, authorised) ==
  /\ order[p] = "open"
  /\ paid[p] # "authorised"
  /\ paid' = [paid EXCEPT ![p] = IF authorised THEN "authorised" ELSE "declined"]
  /\ ipn' = ipn \cup {[payment |-> p, authorised |-> authorised]}
  /\ UNCHANGED <<walletBalance, status, order, refunded, handlerVars, history>>

-----------------------------------------------------------------------------
(* verifyPayment and handleWebhook.                                        *)

Goto(h, s) == pc' = [pc EXCEPT ![h] = s]

InHand(p) == {h \in Handlers : pc[h] \in Settling /\ target[h] = p}

(* Mutant: the status is not looked at.                                    *)
TakeUpAlways(h, p, s) ==
  /\ pc[h] = "idle"
  /\ target' = [target EXCEPT ![h] = p]
  /\ seen' = [seen EXCEPT ![h] = status[p]]
  /\ Goto(h, s)
  /\ overlapped' = [overlapped EXCEPT ![p] = @ \/ InHand(p) # {}]
  /\ UNCHANGED <<walletBalance, status, order, gateway, share, topUps, deducted>>

(* The handler takes a copy of the payment and goes on to s, unless the
   copy says SUCCESS.                                                      *)
TakeUp(h, p, s) ==
  /\ pc[h] = "idle"
  /\ target' = [target EXCEPT ![h] = p]
  /\ seen' = [seen EXCEPT ![h] = status[p]]
  /\ IF status[p] = "success"
     THEN Goto(h, "end") /\ UNCHANGED overlapped
     ELSE Goto(h, s) /\ overlapped' = [overlapped EXCEPT ![p] = @ \/ InHand(p) # {}]
  /\ UNCHANGED <<walletBalance, status, order, gateway, share, topUps, deducted>>

verifyPayment(h, p) == order[p] = "open" /\ TakeUp(h, p, "querying")

(* Mutant: every notification is taken for a success.                       *)
WebhookOutcomeIgnored(h, m) == TakeUp(h, m.payment, "savingSuccess")

handleWebhook(h, m) ==
  TakeUp(h, m.payment, IF m.authorised THEN "savingSuccess" ELSE "savingFailed")

(* paytabsService.verifyPayment tells how the last attempt stands, or throws. *)
QueryAnswers(h) ==
  /\ pc[h] = "querying"
  /\ \/ Goto(h, IF paid[target[h]] = "authorised" THEN "savingSuccess" ELSE "savingFailed")
     \/ Goto(h, "end")
  /\ UNCHANGED <<walletBalance, status, order, gateway, target, seen, share, history>>

SaveSuccess(h) ==
  /\ pc[h] = "savingSuccess"
  /\ SetStatus(target[h], "success")
  /\ Goto(h, "toppingUp")
  /\ UNCHANGED <<walletBalance, order, gateway, target, seen, share, history>>

SaveFailed(h) ==
  /\ pc[h] = "savingFailed"
  /\ IF seen[h] = "failed" THEN UNCHANGED status ELSE SetStatus(target[h], "failed")
  /\ Goto(h, "end")
  /\ UNCHANGED <<walletBalance, order, gateway, target, seen, share, history>>

(* handlePostPaymentSuccess: a top-up credits the wallet, a booking payment
   does nothing.                                                           *)
handlePostPaymentSuccess(h) ==
  LET p == target[h] IN
  /\ pc[h] = "toppingUp"
  /\ Goto(h, "end")
  /\ IF TypeOf[p] = "wallet_topup"
     THEN /\ walletBalance' = walletBalance + AmountOf[p]
          /\ topUps' = [topUps EXCEPT ![p] = @ + 1]
     ELSE UNCHANGED <<walletBalance, topUps>>
  /\ UNCHANGED <<status, order, gateway, target, seen, share, deducted, overlapped>>

-----------------------------------------------------------------------------
(* processRefund.                                                          *)

processRefund(h, p, amount) ==
  /\ pc[h] = "idle"
  /\ status[p] = "success"
  /\ target' = [target EXCEPT ![h] = p]
  /\ seen' = [seen EXCEPT ![h] = status[p]]
  /\ share' = [share EXCEPT ![h] = amount]
  /\ Goto(h, "refunding")
  /\ UNCHANGED <<walletBalance, status, order, gateway, history>>

(* PayTabs pays back no more than was paid; its approval may be lost.      *)
RefundAnswered(h) ==
  LET p == target[h] IN
  /\ pc[h] = "refunding"
  /\ \/ /\ refunded[p] + share[h] <= AmountOf[p]
        /\ refunded' = [refunded EXCEPT ![p] = @ + share[h]]
        /\ \E s \in {"savingRefunded", "end"} : Goto(h, s)
     \/ Goto(h, "end") /\ UNCHANGED refunded
  /\ UNCHANGED <<walletBalance, status, order, paid, ipn, target, seen, share, history>>

SaveRefunded(h) ==
  /\ pc[h] = "savingRefunded"
  /\ SetStatus(target[h], "refunded")
  /\ Goto(h, IF TypeOf[target[h]] = "wallet_topup" THEN "deducting" ELSE "end")
  /\ UNCHANGED <<walletBalance, order, gateway, target, seen, share, history>>

(* What is taken from the wallet, and what is noted for the payment.       *)
Deduct(h, taken, noted) ==
  /\ pc[h] = "deducting"
  /\ walletBalance' = walletBalance - taken
  /\ deducted' = [deducted EXCEPT ![target[h]] = @ + noted]
  /\ Goto(h, "end")
  /\ UNCHANGED <<status, order, gateway, target, seen, share, topUps, overlapped>>

(* Mutants: the wallet is emptied when it does not cover the refund; it is
   lowered by the payment instead of the refund; the condition is missing.  *)
DeductUpToZero(h) ==
  Deduct(h, IF walletBalance >= share[h] THEN share[h] ELSE walletBalance, share[h])

DeductPayment(h) ==
  /\ pc[h] = "deducting" /\ walletBalance >= AmountOf[target[h]]
  /\ Deduct(h, AmountOf[target[h]], AmountOf[target[h]])

DeductUnguarded(h) == Deduct(h, share[h], share[h])

deductWallet(h) == walletBalance >= share[h] /\ Deduct(h, share[h], share[h])

(* A save, the top-up or the deduction throws: the handler ends there.     *)
HandlerFails(h) ==
  /\ pc[h] \in {"savingSuccess", "savingFailed", "toppingUp", "savingRefunded", "deducting"}
  /\ Goto(h, "end")
  /\ UNCHANGED <<walletBalance, status, order, gateway, target, seen, share, history>>

Crash ==
  /\ pc' = [h \in Handlers |-> IF pc[h] = "idle" THEN "idle" ELSE "end"]
  /\ order' = [p \in Payments |->
                 IF order[p] \in {"calling", "saving", "failing"} THEN "lost" ELSE order[p]]
  /\ UNCHANGED <<walletBalance, status, gateway, target, seen, share, history>>

OrderStep(p) ==
  \/ createOrder(p) \/ GatewayAnswers(p) \/ OrderOpened(p) \/ OrderSaveFails(p) \/ OrderFailed(p)
  \/ \E authorised \in BOOLEAN : CustomerPays(p, authorised)

HandlerStep(h) ==
  \/ QueryAnswers(h) \/ SaveSuccess(h) \/ SaveFailed(h) \/ handlePostPaymentSuccess(h)
  \/ RefundAnswered(h) \/ SaveRefunded(h) \/ deductWallet(h)
  \/ HandlerFails(h)

Next ==
  \/ \E p \in Payments : OrderStep(p)
  \/ \E h \in Verifies, p \in Payments : verifyPayment(h, p)
  \/ \E h \in Webhooks, m \in ipn : handleWebhook(h, m)
  \/ \E h \in Refunds, p \in Payments, amount \in RefundAmounts : processRefund(h, p, amount)
  \/ \E h \in Handlers : HandlerStep(h)
  \/ Crash

Spec == Init /\ [][Next]_vars

-----------------------------------------------------------------------------
(* Correctness.                                                            *)

(* The wallet is credited only for a payment the customer made, although a
   decline and an approval of one order may be reported in any order.      *)
PaidBeforeCredited == \A p \in Payments : topUps[p] > 0 => paid[p] = "authorised"

(* The check of the status before processing (payments.service.ts 108 and
   173) credits a payment once, in spite of repeated, late and reordered
   notifications, failed saves and crashes, unless two handlers had the
   payment in hand at once or PayTabs had already paid some of it back.    *)
CreditedTwiceOnlyIfOverlapped ==
  \A p \in Payments : topUps[p] > 1 => overlapped[p] \/ refunded[p] > 0

(* Under the same condition a success is never taken back by a handler that
   decided on an older copy: only a refund ends it.                        *)
SuccessIsKept ==
  [][\A p \in Payments :
       status[p] = "success" /\ status'[p] # "success"
         => overlapped[p] \/ (status'[p] = "refunded" /\ refunded[p] > 0)]_vars

(* The wallet never pays back more of a payment than PayTabs did, whatever
   the refund calls that run at once and wherever they stop.               *)
DeductedWithinRefunded == \A p \in Payments : deducted[p] <= refunded[p]

(* The wallet holds the top-ups less the deductions.                       *)
WalletExplained ==
  LET credit == [p \in Payments |-> topUps[p] * AmountOf[p] - deducted[p]]
  IN  walletBalance = SumFunctionOnSet(credit, Payments)

(* payments.service.ts 133: handleWebhook is idempotent.                   *)
TopUpAtMostOnce == \A p \in Payments : topUps[p] <= 1
=============================================================================
