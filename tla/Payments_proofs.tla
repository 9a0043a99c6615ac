--------------------------- MODULE Payments_proofs ---------------------------
(***************************************************************************)
(* Theorems about Payments for any set of payments, any number of verify,  *)
(* webhook and refund handlers, and any interleaving of them.              *)
(***************************************************************************)
EXTENDS Payments, SumTheorems, TLAPS

(* The payment a handler works on is known while it works.                 *)
TargetInv == \A h \in Handlers : pc[h] \in Settling \cup Refunding => target[h] \in Payments

LEMMA TypeInit == Init => TypeOK /\ TargetInv
  BY DEF Init, TypeOK, TargetInv, OrderState, Settling, Refunding

LEMMA TypeNext == TypeOK /\ TargetInv /\ [Next]_vars => TypeOK' /\ TargetInv'
<1> SUFFICES ASSUME TypeOK, TargetInv, [Next]_vars PROVE TypeOK' /\ TargetInv'
  OBVIOUS
<1> USE PaymentsAssumption DEF TypeOK, TargetInv, gateway, handlerVars, history, Settling,
      Refunding
<1>1. CASE UNCHANGED vars
  BY <1>1 DEF vars
<1>2. ASSUME NEW p \in Payments, OrderStep(p) PROVE TypeOK' /\ TargetInv'
  <2> USE DEF OrderState, OrderGoto, SetStatus
  <2>1. CASE createOrder(p) \/ GatewayAnswers(p) \/ OrderOpened(p)
    BY <2>1 DEF createOrder, GatewayAnswers, OrderOpened, PaymentStatus
  <2>2. CASE OrderSaveFails(p) \/ OrderFailed(p)
    BY <2>2 DEF OrderSaveFails, OrderFailed, PaymentStatus
  <2>3. ASSUME NEW a \in BOOLEAN, CustomerPays(p, a) PROVE TypeOK' /\ TargetInv'
    BY <2>3 DEF CustomerPays
  <2> QED
    BY <1>2, <2>1, <2>2, <2>3 DEF OrderStep
<1>3. ASSUME NEW h \in Handlers, NEW p \in Payments,
             NEW s \in {"querying", "savingSuccess", "savingFailed"}, TakeUp(h, p, s)
      PROVE TypeOK' /\ TargetInv'
  <2>1. pc' = [pc EXCEPT ![h] = "end"] \/ pc' = [pc EXCEPT ![h] = s]
    BY <1>3 DEF TakeUp, Goto
  <2>2. overlapped' \in [Payments -> BOOLEAN]
    BY <1>3 DEF TakeUp
  <2> QED
    BY <1>3, <2>1, <2>2 DEF TakeUp
<1>4. ASSUME NEW h \in Verifies, NEW p \in Payments, verifyPayment(h, p)
      PROVE TypeOK' /\ TargetInv'
  BY <1>3, <1>4 DEF verifyPayment, Handlers
<1>5. ASSUME NEW h \in Webhooks, NEW m \in ipn, handleWebhook(h, m)
      PROVE TypeOK' /\ TargetInv'
  BY <1>3, <1>5 DEF handleWebhook, Handlers
<1>6. ASSUME NEW h \in Refunds, NEW p \in Payments, NEW amount \in RefundAmounts,
             processRefund(h, p, amount)
      PROVE TypeOK' /\ TargetInv'
  BY <1>6 DEF processRefund, Handlers, Goto
<1>7. ASSUME NEW h \in Handlers, HandlerStep(h) PROVE TypeOK' /\ TargetInv'
  <2> USE DEF Goto, SetStatus
  <2>1. CASE QueryAnswers(h) \/ HandlerFails(h)
    BY <2>1 DEF QueryAnswers, HandlerFails
  <2>2. CASE SaveSuccess(h) \/ SaveFailed(h) \/ SaveRefunded(h)
    BY <2>2 DEF SaveSuccess, SaveFailed, SaveRefunded, PaymentStatus
  <2>3. CASE handlePostPaymentSuccess(h)
    BY <2>3 DEF handlePostPaymentSuccess
  <2>4. CASE RefundAnswered(h)
    BY <2>4 DEF RefundAnswered
  <2>5. CASE deductWallet(h)
    BY <2>5 DEF deductWallet, Deduct
  <2> QED
    BY <1>7, <2>1, <2>2, <2>3, <2>4, <2>5 DEF HandlerStep
<1>8. CASE Crash
  <2>1. /\ pc' \in [Handlers -> {"idle", "end"} \cup Settling \cup Refunding]
        /\ \A h \in Handlers : pc'[h] \in {"idle", "end"}
    BY <1>8 DEF Crash
  <2>2. order' \in [Payments -> OrderState]
    BY <1>8 DEF Crash, OrderState
  <2> QED
    BY <1>8, <2>1, <2>2 DEF Crash
<1> QED
  BY <1>1, <1>2, <1>4, <1>5, <1>6, <1>7, <1>8 DEF Next

LEMMA TypeLemma == Spec => [](TypeOK /\ TargetInv)
  BY TypeInit, TypeNext, PTL DEF Spec

(* Every variable keeps to its type; the wallet never goes below zero
   (companies.service.ts 124-135), whatever the refunds that race.         *)
THEOREM TypeCorrect == Spec => []TypeOK
  BY TypeLemma, PTL

-----------------------------------------------------------------------------
(* A payment is credited only when it was paid: the notifications, and the
   handlers that act on one or on PayTabs' answer, vouch for it.           *)
PaidInv ==
  /\ \A m \in ipn : m.authorised => paid[m.payment] = "authorised"
  /\ \A h \in Handlers :
       pc[h] \in {"savingSuccess", "toppingUp"} => paid[target[h]] = "authorised"
  /\ PaidBeforeCredited

LEMMA PaidNext == TypeOK /\ TargetInv /\ PaidInv /\ [Next]_vars => PaidInv'
<1> SUFFICES ASSUME TypeOK, TargetInv, PaidInv, [Next]_vars PROVE PaidInv'
  OBVIOUS
<1> USE DEF TypeOK, TargetInv, PaidInv, PaidBeforeCredited, gateway, handlerVars, history,
      Settling, Refunding
<1>1. CASE UNCHANGED vars
  BY <1>1 DEF vars
<1>2. ASSUME NEW p \in Payments, OrderStep(p) PROVE PaidInv'
  <2>1. ASSUME NEW a \in BOOLEAN, CustomerPays(p, a) PROVE PaidInv'
    BY <2>1 DEF CustomerPays
  <2>2. CASE ~ \E a \in BOOLEAN : CustomerPays(p, a)
    BY <1>2, <2>2 DEF OrderStep, createOrder, GatewayAnswers, OrderOpened, OrderSaveFails,
      OrderFailed
  <2> QED
    BY <2>1, <2>2
<1>3. ASSUME NEW h \in Verifies, NEW p \in Payments, verifyPayment(h, p) PROVE PaidInv'
  BY <1>3 DEF verifyPayment, TakeUp, Goto, Handlers
<1>4. ASSUME NEW h \in Webhooks, NEW m \in ipn, handleWebhook(h, m) PROVE PaidInv'
  <2>1. /\ h \in Handlers /\ m.payment \in Payments
        /\ target' = [target EXCEPT ![h] = m.payment]
        /\ UNCHANGED <<ipn, paid, topUps>>
    BY <1>4 DEF handleWebhook, TakeUp, Handlers
  <2>2. \/ pc' = [pc EXCEPT ![h] = "end"]
        \/ pc' = [pc EXCEPT ![h] = "savingFailed"]
        \/ pc' = [pc EXCEPT ![h] = "savingSuccess"] /\ m.authorised
    BY <1>4 DEF handleWebhook, TakeUp, Goto
  <2> QED
    BY <2>1, <2>2
<1>5. ASSUME NEW h \in Refunds, NEW p \in Payments, NEW amount \in RefundAmounts,
             processRefund(h, p, amount)
      PROVE PaidInv'
  BY <1>5 DEF processRefund, Handlers, Goto
<1>6. ASSUME NEW h \in Handlers, HandlerStep(h) PROVE PaidInv'
  <2> USE DEF Goto
  <2>1. CASE QueryAnswers(h) \/ HandlerFails(h)
    BY <2>1 DEF QueryAnswers, HandlerFails
  <2>2. CASE SaveSuccess(h) \/ SaveFailed(h) \/ SaveRefunded(h)
    BY <2>2 DEF SaveSuccess, SaveFailed, SaveRefunded
  <2>3. CASE handlePostPaymentSuccess(h)
    BY <2>3 DEF handlePostPaymentSuccess
  <2>4. CASE RefundAnswered(h)
    BY <2>4 DEF RefundAnswered
  <2>5. CASE deductWallet(h)
    BY <2>5 DEF deductWallet, Deduct
  <2> QED
    BY <1>6, <2>1, <2>2, <2>3, <2>4, <2>5 DEF HandlerStep
<1>7. CASE Crash
  BY <1>7 DEF Crash
<1> QED
  BY <1>1, <1>2, <1>3, <1>4, <1>5, <1>6, <1>7 DEF Next

(* The wallet is credited only for a payment the customer made.            *)
THEOREM CreditsArePaid == Spec => []PaidBeforeCredited
<1>1. Init => PaidInv
  BY DEF Init, PaidInv, PaidBeforeCredited
<1>2. PaidInv => PaidBeforeCredited
  BY DEF PaidInv
<1> QED
  BY <1>1, <1>2, PaidNext, TypeLemma, PTL DEF Spec
-----------------------------------------------------------------------------
(* What one handler at a time guarantees.                                  *)

(* A payment is taken up, paid back or successful only once its page was
   opened, when createOrder is done with it.                               *)
OpenInv ==
  /\ \A m \in ipn : order[m.payment] = "open"
  /\ \A h \in Handlers : pc[h] \in Settling \cup Refunding => order[target[h]] = "open"
  /\ \A p \in Payments : status[p] \in {"success", "refunded"} => order[p] = "open"

(* Money is on its way back before the status says so.                     *)
RefundInv ==
  \A h \in Handlers :
    /\ pc[h] \in Refunding => share[h] > 0
    /\ pc[h] = "savingRefunded" => refunded[target[h]] > 0

Deciding == {"querying", "savingSuccess", "savingFailed"}

(* While no two handlers have had p in hand: at most one has, it read a
   status that still is not SUCCESS until it writes, and, when nothing was
   paid back, p is credited only after its status is SUCCESS, by the
   handler that wrote it.                                                  *)
AloneInv ==
  \A p \in Payments : ~ overlapped[p] =>
    /\ \A g, h \in InHand(p) : g = h
    /\ \A h \in InHand(p) : pc[h] \in Deciding => status[p] # "success"
    /\ refunded[p] = 0 =>
         /\ status[p] # "refunded"
         /\ topUps[p] <= 1
         /\ status[p] # "success" => topUps[p] = 0
         /\ \A h \in InHand(p) : pc[h] = "toppingUp" => topUps[p] = 0 /\ status[p] = "success"

OnceInv == OpenInv /\ RefundInv /\ AloneInv

LEMMA OpenNext == TypeOK /\ TargetInv /\ OpenInv /\ [Next]_vars => OpenInv'
<1> SUFFICES ASSUME TypeOK, TargetInv, OpenInv, [Next]_vars PROVE OpenInv'
  OBVIOUS
<1> USE DEF TypeOK, TargetInv, OpenInv, gateway, handlerVars, history, Settling, Refunding
<1>1. CASE UNCHANGED vars
  BY <1>1 DEF vars
<1>2. ASSUME NEW p \in Payments, OrderStep(p) PROVE OpenInv'
  <2> USE DEF OrderGoto, SetStatus
  <2>1. ASSUME NEW a \in BOOLEAN, CustomerPays(p, a) PROVE OpenInv'
    BY <2>1 DEF CustomerPays
  <2>2. CASE createOrder(p) \/ GatewayAnswers(p)
    BY <2>2 DEF createOrder, GatewayAnswers
  <2>3. CASE OrderOpened(p) \/ OrderSaveFails(p) \/ OrderFailed(p)
    BY <2>3 DEF OrderOpened, OrderSaveFails, OrderFailed
  <2> QED
    BY <1>2, <2>1, <2>2, <2>3 DEF OrderStep
<1>3. ASSUME NEW h \in Verifies, NEW p \in Payments, verifyPayment(h, p) PROVE OpenInv'
  BY <1>3 DEF verifyPayment, TakeUp, Goto, Handlers
<1>4. ASSUME NEW h \in Webhooks, NEW m \in ipn, handleWebhook(h, m) PROVE OpenInv'
  BY <1>4 DEF handleWebhook, TakeUp, Goto, Handlers
<1>5. ASSUME NEW h \in Refunds, NEW p \in Payments, NEW amount \in RefundAmounts,
             processRefund(h, p, amount)
      PROVE OpenInv'
  BY <1>5 DEF processRefund, Handlers, Goto
<1>6. ASSUME NEW h \in Handlers, HandlerStep(h) PROVE OpenInv'
  <2> USE DEF Goto, SetStatus
  <2>1. CASE QueryAnswers(h) \/ HandlerFails(h)
    BY <2>1 DEF QueryAnswers, HandlerFails
  <2>2. CASE SaveSuccess(h) \/ SaveFailed(h) \/ SaveRefunded(h)
    BY <2>2 DEF SaveSuccess, SaveFailed, SaveRefunded
  <2>3. CASE handlePostPaymentSuccess(h) \/ RefundAnswered(h) \/ deductWallet(h)
    BY <2>3 DEF handlePostPaymentSuccess, RefundAnswered, deductWallet, Deduct
  <2> QED
    BY <1>6, <2>1, <2>2, <2>3 DEF HandlerStep
<1>7. CASE Crash
  BY <1>7 DEF Crash
<1> QED
  BY <1>1, <1>2, <1>3, <1>4, <1>5, <1>6, <1>7 DEF Next

LEMMA RefundNext == TypeOK /\ TargetInv /\ RefundInv /\ [Next]_vars => RefundInv'
<1> SUFFICES ASSUME TypeOK, TargetInv, RefundInv, [Next]_vars PROVE RefundInv'
  OBVIOUS
<1> USE PaymentsAssumption DEF TypeOK, TargetInv, RefundInv, gateway, handlerVars, history, Settling, Refunding
<1>1. CASE UNCHANGED vars
  BY <1>1 DEF vars
<1>2. ASSUME NEW p \in Payments, OrderStep(p) PROVE RefundInv'
  BY <1>2 DEF OrderStep, createOrder, GatewayAnswers, OrderOpened, OrderSaveFails, OrderFailed,
    CustomerPays
<1>3. ASSUME NEW h \in Verifies, NEW p \in Payments, verifyPayment(h, p) PROVE RefundInv'
  BY <1>3 DEF verifyPayment, TakeUp, Goto, Handlers
<1>4. ASSUME NEW h \in Webhooks, NEW m \in ipn, handleWebhook(h, m) PROVE RefundInv'
  BY <1>4 DEF handleWebhook, TakeUp, Goto, Handlers
<1>5. ASSUME NEW h \in Refunds, NEW p \in Payments, NEW amount \in RefundAmounts,
             processRefund(h, p, amount)
      PROVE RefundInv'
  BY <1>5 DEF processRefund, Handlers, Goto
<1>6. ASSUME NEW h \in Handlers, HandlerStep(h) PROVE RefundInv'
  <2> USE DEF Goto
  <2>1. CASE RefundAnswered(h)
    <3>1. /\ share' = share /\ target' = target
          /\ pc' \in {[pc EXCEPT ![h] = "savingRefunded"], [pc EXCEPT ![h] = "end"]}
          /\ \/ refunded' = [refunded EXCEPT ![target[h]] = @ + share[h]]
             \/ refunded' = refunded /\ pc' = [pc EXCEPT ![h] = "end"]
      BY <2>1 DEF RefundAnswered
    <3>2. share[h] > 0 /\ target[h] \in Payments
      BY <2>1 DEF RefundAnswered
    <3> QED
      BY <3>1, <3>2
  <2>2. CASE ~ RefundAnswered(h)
    BY <1>6, <2>2 DEF HandlerStep, QueryAnswers, HandlerFails, SaveSuccess, SaveFailed,
      SaveRefunded, handlePostPaymentSuccess, deductWallet, Deduct
  <2> QED
    BY <2>1, <2>2
<1>7. CASE Crash
  BY <1>7 DEF Crash
<1> QED
  BY <1>1, <1>2, <1>3, <1>4, <1>5, <1>6, <1>7 DEF Next

LEMMA AloneNext ==
  TypeOK /\ TargetInv /\ OnceInv /\ [Next]_vars => AloneInv'
<1> SUFFICES ASSUME TypeOK, TargetInv, OnceInv, [Next]_vars,
                    NEW p \in Payments, ~ overlapped'[p]
             PROVE  /\ \A g, h \in InHand(p)' : g = h
                    /\ \A h \in InHand(p)' : pc'[h] \in Deciding => status'[p] # "success"
                    /\ refunded'[p] = 0 =>
                         /\ status'[p] # "refunded"
                         /\ topUps'[p] <= 1
                         /\ status'[p] # "success" => topUps'[p] = 0
                         /\ \A h \in InHand(p)' :
                              pc'[h] = "toppingUp" => topUps'[p] = 0 /\ status'[p] = "success"
  BY DEF AloneInv
<1> DEFINE Goal == /\ \A g, h \in InHand(p)' : g = h
                   /\ \A h \in InHand(p)' : pc'[h] \in Deciding => status'[p] # "success"
                   /\ refunded'[p] = 0 =>
                        /\ status'[p] # "refunded"
                        /\ topUps'[p] <= 1
                        /\ status'[p] # "success" => topUps'[p] = 0
                        /\ \A h \in InHand(p)' :
                             pc'[h] = "toppingUp" => topUps'[p] = 0 /\ status'[p] = "success"
<1> USE DEF TypeOK, TargetInv, OnceInv, AloneInv, InHand, Deciding, Settling, Refunding,
      gateway, handlerVars, history
<1>1. CASE UNCHANGED vars
  BY <1>1 DEF vars
<1>2. ASSUME NEW q \in Payments, OrderStep(q) PROVE Goal
  <2> USE DEF OrderGoto, SetStatus
  <2>1. ASSUME NEW a \in BOOLEAN, CustomerPays(q, a) PROVE Goal
    BY <2>1 DEF CustomerPays
  <2>2. CASE createOrder(q) \/ GatewayAnswers(q)
    BY <2>2 DEF createOrder, GatewayAnswers, OpenInv
  <2>3. CASE OrderOpened(q) \/ OrderSaveFails(q) \/ OrderFailed(q)
    BY <2>3 DEF OrderOpened, OrderSaveFails, OrderFailed, OpenInv
  <2> QED
    BY <1>2, <2>1, <2>2, <2>3 DEF OrderStep
<1>3. ASSUME NEW h \in Handlers, NEW q \in Payments, NEW s \in Deciding, TakeUp(h, q, s)
      PROVE Goal
  <2>1. CASE status[q] = "success"
    <3>1. /\ pc' = [pc EXCEPT ![h] = "end"] /\ target' = [target EXCEPT ![h] = q]
          /\ UNCHANGED <<status, refunded, topUps, overlapped>>
      BY <1>3, <2>1 DEF TakeUp, Goto
    <3>2. InHand(p)' \subseteq InHand(p) /\ \A g \in InHand(p)' : pc'[g] = pc[g]
      BY <1>3, <3>1
    <3> QED
      BY <3>1, <3>2
  <2>2. CASE status[q] # "success"
    <3>1. /\ pc[h] = "idle"
          /\ pc' = [pc EXCEPT ![h] = s] /\ target' = [target EXCEPT ![h] = q]
          /\ overlapped' = [overlapped EXCEPT ![q] = @ \/ InHand(q) # {}]
          /\ UNCHANGED <<status, refunded, topUps>>
      BY <1>3, <2>2 DEF TakeUp, Goto
    <3>2. CASE p = q
      <4>1. ~ overlapped[p] /\ InHand(p) = {}
        <5> HIDE DEF InHand
        <5> QED
          BY <3>1, <3>2
      <4>2. InHand(p)' = {h} /\ pc'[h] = s
        BY <3>1, <3>2, <4>1
      <4> QED
        BY <2>2, <3>1, <3>2, <4>1, <4>2
    <3>3. CASE p # q
      <4>1. InHand(p)' = InHand(p) /\ \A g \in InHand(p) : pc'[g] = pc[g]
        BY <3>1, <3>3
      <4>2. ~ overlapped[p]
        BY <3>1, <3>3
      <4> QED
        BY <3>1, <4>1, <4>2
    <3> QED
      BY <3>2, <3>3
  <2> QED
    BY <2>1, <2>2
<1>4. ASSUME NEW h \in Verifies, NEW q \in Payments, verifyPayment(h, q) PROVE Goal
  BY <1>3, <1>4 DEF verifyPayment, Handlers
<1>5. ASSUME NEW h \in Webhooks, NEW m \in ipn, handleWebhook(h, m) PROVE Goal
  <2>1. m.payment \in Payments /\ h \in Handlers
    BY DEF Handlers
  <2> QED
    BY <1>3, <1>5, <2>1 DEF handleWebhook
<1>6. ASSUME NEW h \in Refunds, NEW q \in Payments, NEW amount \in RefundAmounts,
             processRefund(h, q, amount)
      PROVE Goal
  <2>1. /\ h \in Handlers /\ pc[h] = "idle"
        /\ pc' = [pc EXCEPT ![h] = "refunding"] /\ target' = [target EXCEPT ![h] = q]
        /\ UNCHANGED <<status, refunded, topUps, overlapped>>
    BY <1>6 DEF processRefund, Handlers, Goto
  <2>2. InHand(p)' = InHand(p) /\ \A g \in InHand(p) : pc'[g] = pc[g]
    BY <2>1
  <2> QED
    BY <2>1, <2>2
<1>7. ASSUME NEW h \in Handlers, HandlerStep(h) PROVE Goal
  <2> USE DEF Goto, SetStatus
  <2>1. CASE QueryAnswers(h) \/ HandlerFails(h)
    BY <2>1 DEF QueryAnswers, HandlerFails
  <2>2. CASE SaveSuccess(h)
    BY <2>2 DEF SaveSuccess
  <2>3. CASE SaveFailed(h)
    BY <2>3 DEF SaveFailed
  <2>4. CASE handlePostPaymentSuccess(h)
    BY <2>4 DEF handlePostPaymentSuccess
  <2>5. CASE RefundAnswered(h)
    BY <2>5 DEF RefundAnswered
  <2>6. CASE SaveRefunded(h)
    BY <2>6 DEF SaveRefunded, RefundInv
  <2>7. CASE deductWallet(h)
    BY <2>7 DEF deductWallet, Deduct
  <2> QED
    BY <1>7, <2>1, <2>2, <2>3, <2>4, <2>5, <2>6, <2>7 DEF HandlerStep
<1>8. CASE Crash
  <2>1. InHand(p)' = {} /\ UNCHANGED <<status, refunded, topUps, overlapped>>
    BY <1>8 DEF Crash
  <2> QED
    BY <2>1
<1> QED
  BY <1>1, <1>2, <1>4, <1>5, <1>6, <1>7, <1>8 DEF Next

LEMMA OnceCorrect == Spec => []OnceInv
<1>1. Init => OnceInv
  BY DEF Init, OnceInv, OpenInv, RefundInv, AloneInv, InHand, Settling, Refunding
<1>2. TypeOK /\ TargetInv /\ OnceInv /\ [Next]_vars => OnceInv'
  BY OpenNext, RefundNext, AloneNext DEF OnceInv
<1> QED
  BY <1>1, <1>2, TypeLemma, PTL DEF Spec

(* A payment is credited once, in spite of repeated, late and reordered
   notifications, failed saves and crashes, unless two handlers had it in
   hand at once or part of it was already paid back.                       *)
THEOREM CreditedOnce == Spec => []CreditedTwiceOnlyIfOverlapped
<1>1. TypeOK /\ OnceInv => CreditedTwiceOnlyIfOverlapped
  BY DEF TypeOK, OnceInv, AloneInv, CreditedTwiceOnlyIfOverlapped
<1> QED
  BY <1>1, TypeLemma, OnceCorrect, PTL

(* Only a refund ends a success, as long as no two handlers had the payment
   in hand at once.                                                        *)
THEOREM SuccessStays == Spec => SuccessIsKept
<1>1. TypeOK /\ TargetInv /\ OnceInv /\ [Next]_vars =>
        [\A p \in Payments :
           status[p] = "success" /\ status'[p] # "success"
             => overlapped[p] \/ (status'[p] = "refunded" /\ refunded[p] > 0)]_vars
  <2> SUFFICES ASSUME TypeOK, TargetInv, OnceInv, Next, NEW p \in Payments,
                      status[p] = "success", status'[p] # "success"
               PROVE  overlapped[p] \/ (status'[p] = "refunded" /\ refunded[p] > 0)
    OBVIOUS
  <2> USE DEF TypeOK, TargetInv, SetStatus
  <2>1. ASSUME NEW q \in Payments, OrderStep(q) PROVE FALSE
    BY <2>1 DEF OrderStep, createOrder, GatewayAnswers, OrderOpened, OrderSaveFails,
      OrderFailed, CustomerPays, OnceInv, OpenInv
  <2>2. ASSUME NEW h \in Handlers, HandlerStep(h)
        PROVE overlapped[p] \/ (status'[p] = "refunded" /\ refunded[p] > 0)
    <3>1. CASE SaveFailed(h)
      <4>1. h \in InHand(p) /\ pc[h] \in Deciding
        BY <3>1 DEF SaveFailed, InHand, Settling, Deciding
      <4> QED
        BY <4>1 DEF OnceInv, AloneInv
    <3>2. CASE SaveRefunded(h)
      BY <3>2 DEF SaveRefunded, OnceInv, RefundInv, Refunding
    <3>3. CASE ~ SaveFailed(h) /\ ~ SaveRefunded(h)
      BY <2>2, <3>3 DEF HandlerStep, QueryAnswers, HandlerFails, SaveSuccess,
        handlePostPaymentSuccess, RefundAnswered, deductWallet, Deduct
    <3> QED
      BY <3>1, <3>2, <3>3
  <2>3. CASE status' = status
    BY <2>3
  <2> QED
    BY <2>1, <2>2, <2>3 DEF Next, verifyPayment, handleWebhook, TakeUp, processRefund, Crash
<1> QED
  BY <1>1, TypeLemma, OnceCorrect, PTL DEF Spec, SuccessIsKept

-----------------------------------------------------------------------------
(* The wallet against the payments it came from.                           *)

(* One step changes what one payment explains by what it puts in the wallet,
   or leaves both alone.                                                   *)
LEMMA WalletStep ==
  ASSUME TypeOK, TargetInv, [Next]_vars
  PROVE  \/ UNCHANGED <<walletBalance, topUps, deducted>>
         \/ \E p \in Payments :
              /\ walletBalance' = walletBalance + AmountOf[p]
              /\ topUps' = [topUps EXCEPT ![p] = @ + 1]
              /\ UNCHANGED deducted
         \/ \E h \in Handlers :
              /\ pc[h] = "deducting" /\ target[h] \in Payments
              /\ walletBalance' = walletBalance - share[h]
              /\ deducted' = [deducted EXCEPT ![target[h]] = @ + share[h]]
              /\ UNCHANGED <<topUps, refunded, target, share>>
              /\ pc' = [pc EXCEPT ![h] = "end"]
<1> USE DEF history, gateway, handlerVars, TargetInv, Settling, Refunding
<1>1. ASSUME NEW p \in Payments, OrderStep(p) PROVE UNCHANGED <<walletBalance, topUps, deducted>>
  BY <1>1 DEF OrderStep, createOrder, GatewayAnswers, OrderOpened, OrderSaveFails, OrderFailed,
    CustomerPays
<1>2. ASSUME NEW h \in Handlers, handlePostPaymentSuccess(h)
      PROVE  \/ UNCHANGED <<walletBalance, topUps, deducted>>
             \/ \E p \in Payments :
                  /\ walletBalance' = walletBalance + AmountOf[p]
                  /\ topUps' = [topUps EXCEPT ![p] = @ + 1]
                  /\ UNCHANGED deducted
  BY <1>2 DEF handlePostPaymentSuccess
<1>3. ASSUME NEW h \in Handlers, deductWallet(h)
      PROVE  /\ pc[h] = "deducting" /\ target[h] \in Payments
             /\ walletBalance' = walletBalance - share[h]
             /\ deducted' = [deducted EXCEPT ![target[h]] = @ + share[h]]
             /\ UNCHANGED <<topUps, refunded, target, share>>
             /\ pc' = [pc EXCEPT ![h] = "end"]
  BY <1>3 DEF deductWallet, Deduct, Goto
<1>4. ASSUME NEW h \in Handlers, HandlerStep(h), ~ handlePostPaymentSuccess(h), ~ deductWallet(h)
      PROVE  UNCHANGED <<walletBalance, topUps, deducted>>
  BY <1>4 DEF HandlerStep, QueryAnswers, HandlerFails, SaveSuccess, SaveFailed, SaveRefunded,
    RefundAnswered
<1>5. ASSUME \/ \E h \in Verifies, p \in Payments : verifyPayment(h, p)
             \/ \E h \in Webhooks, m \in ipn : handleWebhook(h, m)
             \/ \E h \in Refunds, p \in Payments, a \in RefundAmounts : processRefund(h, p, a)
             \/ Crash
             \/ UNCHANGED vars
      PROVE  UNCHANGED <<walletBalance, topUps, deducted>>
  BY <1>5 DEF verifyPayment, handleWebhook, TakeUp, processRefund, Crash, vars
<1> QED
  BY <1>1, <1>2, <1>3, <1>4, <1>5 DEF Next

LEMMA OneMore == \A t, a \in Nat : (t + 1) * a = t * a + a /\ t * a \in Nat
  OBVIOUS

(* The wallet holds the top-ups of the payments the agency made less what
   refunds took back, whatever ran at once and whatever failed between the
   writes of the payment and of the wallet.                                *)
THEOREM WalletIsExplained == Spec => []WalletExplained
<1> DEFINE Credit == [p \in Payments |-> topUps[p] * AmountOf[p] - deducted[p]]
<1>1. Init => WalletExplained
  <2> SUFFICES ASSUME Init PROVE walletBalance = SumFunctionOnSet(Credit, Payments)
    BY DEF WalletExplained
  <2>1. \A p \in Payments : Credit[p] = 0
    BY PaymentsAssumption DEF Init
  <2> HIDE DEF Credit
  <2> QED
    BY <2>1, SumOfZeros, FinitenessAssumption DEF Init
<1>2. TypeOK /\ TargetInv /\ WalletExplained /\ [Next]_vars => WalletExplained'
  <2> SUFFICES ASSUME TypeOK, TargetInv, WalletExplained, [Next]_vars
               PROVE  walletBalance' = SumFunctionOnSet(Credit', Payments)
    BY DEF WalletExplained
  <2>1. walletBalance = SumFunctionOnSet(Credit, Payments)
    BY DEF WalletExplained
  <2>2. \A p \in Payments : Credit[p] \in Int
    BY PaymentsAssumption DEF TypeOK
  <2>3. CASE UNCHANGED <<walletBalance, topUps, deducted>>
    BY <2>1, <2>3
  <2>4. ASSUME NEW p \in Payments, walletBalance' = walletBalance + AmountOf[p],
               topUps' = [topUps EXCEPT ![p] = @ + 1], UNCHANGED deducted
        PROVE  walletBalance' = SumFunctionOnSet(Credit', Payments)
    <3>1. /\ AmountOf[p] \in Nat /\ topUps[p] \in Nat /\ deducted[p] \in Nat
      BY PaymentsAssumption DEF TypeOK
    <3>2. Credit'[p] = (topUps[p] + 1) * AmountOf[p] - deducted[p]
      BY <2>4 DEF TypeOK
    <3>3. Credit'[p] = Credit[p] + AmountOf[p]
      <4>1. /\ Credit[p] = topUps[p] * AmountOf[p] - deducted[p]
            /\ (topUps[p] + 1) * AmountOf[p] = topUps[p] * AmountOf[p] + AmountOf[p]
            /\ topUps[p] * AmountOf[p] \in Nat
        BY <3>1, OneMore
      <4> HIDE DEF Credit
      <4> QED
        BY <3>1, <3>2, <4>1
    <3>4. \A q \in Payments : q # p => Credit'[q] = Credit[q]
      BY <2>4 DEF TypeOK
    <3> HIDE DEF Credit
    <3>5. Credit[p] \in Int /\ Credit'[p] \in Int
      BY <2>2, <3>1, <3>3
    <3>6. SumFunctionOnSet(Credit', Payments)
            = SumFunctionOnSet(Credit, Payments) + Credit'[p] - Credit[p]
      BY <2>2, <3>4, <3>5, SumChanges, FinitenessAssumption
    <3> QED
      BY <2>1, <2>4, <3>1, <3>3, <3>5, <3>6 DEF TypeOK
  <2>5. ASSUME NEW h \in Handlers, target[h] \in Payments,
               walletBalance' = walletBalance - share[h],
               deducted' = [deducted EXCEPT ![target[h]] = @ + share[h]], UNCHANGED topUps
        PROVE  walletBalance' = SumFunctionOnSet(Credit', Payments)
    <3>0. PICK p \in Payments : p = target[h]
      BY <2>5
    <3>1. /\ AmountOf[p] \in Nat /\ topUps[p] \in Nat /\ deducted[p] \in Nat /\ share[h] \in Nat
      BY <2>5, PaymentsAssumption DEF TypeOK
    <3>2. Credit'[p] = topUps[p] * AmountOf[p] - (deducted[p] + share[h])
      BY <2>5, <3>0 DEF TypeOK
    <3>3. Credit'[p] = Credit[p] - share[h]
      <4>1. /\ Credit[p] = topUps[p] * AmountOf[p] - deducted[p]
            /\ topUps[p] * AmountOf[p] \in Nat
        BY <3>1, OneMore
      <4> HIDE DEF Credit
      <4> QED
        BY <3>1, <3>2, <4>1
    <3>4. \A q \in Payments : q # p => Credit'[q] = Credit[q]
      BY <2>5, <3>0 DEF TypeOK
    <3> HIDE DEF Credit
    <3>5. Credit[p] \in Int /\ Credit'[p] \in Int
      BY <2>2, <3>1, <3>3
    <3>6. SumFunctionOnSet(Credit', Payments)
            = SumFunctionOnSet(Credit, Payments) + Credit'[p] - Credit[p]
      BY <2>2, <3>4, <3>5, SumChanges, FinitenessAssumption
    <3> QED
      BY <2>1, <2>5, <3>1, <3>3, <3>5, <3>6 DEF TypeOK
  <2> QED
    BY <2>3, <2>4, <2>5, WalletStep
<1> QED
  BY <1>1, <1>2, TypeLemma, PTL DEF Spec

-----------------------------------------------------------------------------
(* What refunds take from the wallet against what PayTabs paid back.       *)

(* What each handler may still deduct for p: PayTabs approved its refund,
   and the payment or the wallet is yet to be saved.                       *)
Approved(p) ==
  [h \in Handlers |->
     IF pc[h] \in {"savingRefunded", "deducting"} /\ target[h] = p THEN share[h] ELSE 0]

ApprovedInv ==
  \A p \in Payments : deducted[p] + SumFunctionOnSet(Approved(p), Handlers) <= refunded[p]

LEMMA ApprovedType ==
  ASSUME TypeOK, NEW p \in Payments
  PROVE  /\ \A h \in Handlers : Approved(p)[h] \in Nat
         /\ SumFunctionOnSet(Approved(p), Handlers) \in Nat
<1>1. \A h \in Handlers : Approved(p)[h] \in Nat
  BY DEF Approved, TypeOK
<1> QED
  BY <1>1, SumNat, FinitenessAssumption

(* Every other step leaves the amounts, and approves nothing.              *)
LEMMA NothingApproved ==
  ASSUME TypeOK, TargetInv, [Next]_vars,
         ~ \E h \in Handlers : RefundAnswered(h) \/ deductWallet(h)
  PROVE  /\ UNCHANGED <<refunded, deducted>>
         /\ \A p \in Payments, h \in Handlers : Approved(p)'[h] <= Approved(p)[h]
<1> USE DEF TypeOK, gateway, handlerVars, history, Approved
<1> DEFINE Goal == /\ UNCHANGED <<refunded, deducted>>
                   /\ \A p \in Payments, h \in Handlers : Approved(p)'[h] <= Approved(p)[h]
<1>1. CASE UNCHANGED vars
  BY <1>1 DEF vars
<1>2. ASSUME NEW q \in Payments, OrderStep(q) PROVE Goal
  BY <1>2 DEF OrderStep, createOrder, GatewayAnswers, OrderOpened, OrderSaveFails, OrderFailed,
    CustomerPays
<1>3. ASSUME NEW h \in Handlers, NEW q \in Payments,
             NEW s \in {"querying", "savingSuccess", "savingFailed"}, TakeUp(h, q, s)
      PROVE Goal
  <2>1. /\ pc' = [pc EXCEPT ![h] = "end"] \/ pc' = [pc EXCEPT ![h] = s]
        /\ target' = [target EXCEPT ![h] = q]
        /\ UNCHANGED <<refunded, deducted, share>>
    BY <1>3 DEF TakeUp, Goto
  <2> QED
    BY <2>1
<1>4. ASSUME NEW h \in Verifies, NEW q \in Payments, verifyPayment(h, q) PROVE Goal
  BY <1>3, <1>4 DEF verifyPayment, Handlers
<1>5. ASSUME NEW h \in Webhooks, NEW m \in ipn, handleWebhook(h, m) PROVE Goal
  BY <1>3, <1>5 DEF handleWebhook, Handlers
<1>6. ASSUME NEW h \in Refunds, NEW q \in Payments, NEW a \in RefundAmounts,
             processRefund(h, q, a)
      PROVE Goal
  <2>1. /\ pc' = [pc EXCEPT ![h] = "refunding"] /\ target' = [target EXCEPT ![h] = q]
        /\ \A g \in Handlers : g # h => share'[g] = share[g]
        /\ UNCHANGED <<refunded, deducted>>
    BY <1>6 DEF processRefund, Goto
  <2> QED
    BY <2>1
<1>7. ASSUME NEW h \in Handlers, HandlerStep(h) PROVE Goal
  <2>1. UNCHANGED <<refunded, deducted, share, target>>
    BY <1>7 DEF HandlerStep, QueryAnswers, HandlerFails, SaveSuccess, SaveFailed, SaveRefunded,
      handlePostPaymentSuccess
  <2> USE DEF Goto
  <2>2. CASE QueryAnswers(h) \/ HandlerFails(h) \/ handlePostPaymentSuccess(h)
    BY <2>1, <2>2 DEF QueryAnswers, HandlerFails, handlePostPaymentSuccess
  <2>3. CASE SaveSuccess(h) \/ SaveFailed(h) \/ SaveRefunded(h)
    BY <2>1, <2>3 DEF SaveSuccess, SaveFailed, SaveRefunded
  <2> QED
    BY <1>7, <2>2, <2>3 DEF HandlerStep
<1>8. CASE Crash
  BY <1>8 DEF Crash
<1> QED
  BY <1>1, <1>2, <1>4, <1>5, <1>6, <1>7, <1>8 DEF Next

LEMMA ApprovedNext == TypeOK /\ TargetInv /\ ApprovedInv /\ [Next]_vars => ApprovedInv'
<1> SUFFICES ASSUME TypeOK, TargetInv, ApprovedInv, [Next]_vars, NEW p \in Payments
             PROVE  deducted'[p] + SumFunctionOnSet(Approved(p)', Handlers) <= refunded'[p]
  BY DEF ApprovedInv
<1> DEFINE before == SumFunctionOnSet(Approved(p), Handlers)
           after == SumFunctionOnSet(Approved(p)', Handlers)
<1>1. /\ \A h \in Handlers : Approved(p)[h] \in Nat /\ Approved(p)'[h] \in Nat
      /\ before \in Nat /\ after \in Nat
      /\ deducted[p] + before <= refunded[p]
      /\ deducted[p] \in Nat /\ refunded[p] \in Nat
  <2>1. TypeOK'
    BY TypeNext
  <2>2. \A h \in Handlers : Approved(p)'[h] \in Nat
    BY <2>1 DEF Approved, TypeOK
  <2>3. after \in Nat
    BY <2>2, SumNat, FinitenessAssumption
  <2> QED
    BY <2>2, <2>3, ApprovedType DEF ApprovedInv, TypeOK
<1>2. ASSUME NEW h \in Handlers, \A g \in Handlers : g # h => Approved(p)'[g] = Approved(p)[g]
      PROVE  after = before + Approved(p)'[h] - Approved(p)[h]
  BY <1>1, <1>2, SumChanges, FinitenessAssumption
<1>3. ASSUME NEW h \in Handlers, RefundAnswered(h)
      PROVE  deducted'[p] + after <= refunded'[p]
  <2>1. /\ \A g \in Handlers : g # h => Approved(p)'[g] = Approved(p)[g]
        /\ Approved(p)[h] = 0 /\ deducted' = deducted
        /\ \/ target[h] # p /\ Approved(p)'[h] = 0 /\ refunded'[p] = refunded[p]
           \/ Approved(p)'[h] \in {0, share[h]} /\ refunded'[p] = refunded[p] + share[h]
           \/ Approved(p)'[h] = 0 /\ refunded'[p] = refunded[p]
    BY <1>3 DEF RefundAnswered, Goto, Approved, TypeOK, history
  <2>2. share[h] \in Nat
    BY DEF TypeOK
  <2> HIDE DEF before, after
  <2> QED
    BY <1>1, <1>2, <2>1, <2>2
<1>4. ASSUME NEW h \in Handlers, deductWallet(h)
      PROVE  deducted'[p] + after <= refunded'[p]
  <2>1. /\ \A g \in Handlers : g # h => Approved(p)'[g] = Approved(p)[g]
        /\ Approved(p)'[h] = 0 /\ refunded' = refunded
        /\ \/ target[h] # p /\ Approved(p)[h] = 0 /\ deducted'[p] = deducted[p]
           \/ target[h] = p /\ Approved(p)[h] = share[h] /\ deducted'[p] = deducted[p] + share[h]
    BY <1>4 DEF deductWallet, Deduct, Goto, Approved, TypeOK, gateway
  <2>2. share[h] \in Nat
    BY DEF TypeOK
  <2> HIDE DEF before, after
  <2> QED
    BY <1>1, <1>2, <2>1, <2>2
<1>5. ASSUME ~ \E h \in Handlers : RefundAnswered(h) \/ deductWallet(h)
      PROVE  deducted'[p] + after <= refunded'[p]
  <2>1. /\ UNCHANGED <<refunded, deducted>>
        /\ \A h \in Handlers : Approved(p)'[h] <= Approved(p)[h]
    BY <1>5, NothingApproved
  <2>2. after <= before
    BY <1>1, <2>1, SumMonotonic, FinitenessAssumption
  <2>3. refunded'[p] = refunded[p] /\ deducted'[p] = deducted[p]
    BY <2>1
  <2> HIDE DEF before, after
  <2> QED
    BY <1>1, <2>2, <2>3
<1> QED
  BY <1>3, <1>4, <1>5

(* Whatever refund calls run at once and wherever they stop, the wallet
   pays back no more of a payment than PayTabs did: each deduction has an
   approval of its own.                                                    *)
THEOREM DeductionsAreApproved == Spec => []DeductedWithinRefunded
<1>1. Init => ApprovedInv
  <2> SUFFICES ASSUME Init, NEW p \in Payments
               PROVE  deducted[p] + SumFunctionOnSet(Approved(p), Handlers) <= refunded[p]
    BY DEF ApprovedInv
  <2>1. \A h \in Handlers : Approved(p)[h] = 0
    BY DEF Init, Approved
  <2>2. SumFunctionOnSet(Approved(p), Handlers) = 0
    BY <2>1, SumOfZeros, FinitenessAssumption
  <2> QED
    BY <2>2 DEF Init
<1>2. TypeOK /\ ApprovedInv => DeductedWithinRefunded
  <2> SUFFICES ASSUME TypeOK, ApprovedInv, NEW p \in Payments
               PROVE  deducted[p] <= refunded[p]
    BY DEF DeductedWithinRefunded
  <2>1. /\ SumFunctionOnSet(Approved(p), Handlers) \in Nat
        /\ deducted[p] \in Nat /\ refunded[p] \in Nat
        /\ deducted[p] + SumFunctionOnSet(Approved(p), Handlers) <= refunded[p]
    BY ApprovedType DEF ApprovedInv, TypeOK
  <2> QED
    BY <2>1
<1> QED
  BY <1>1, <1>2, ApprovedNext, TypeLemma, PTL DEF Spec

-----------------------------------------------------------------------------
(* What PayTabs took for a payment, as far as the wallet is concerned.     *)
Taken == [p \in Payments |-> IF paid[p] = "authorised" THEN AmountOf[p] ELSE 0]

(* As long as no two handlers had the same payment in hand and nothing was
   paid back, the wallet holds no more than what the customers paid:
   repeated notifications, failed saves and crashes make no money.         *)
THEOREM WalletIsPaidFor ==
  Spec => []((\A p \in Payments : ~ overlapped[p] /\ refunded[p] = 0)
               => walletBalance <= SumFunctionOnSet(Taken, Payments))
<1>1. TypeOK /\ PaidBeforeCredited /\ CreditedTwiceOnlyIfOverlapped /\ WalletExplained =>
        ((\A p \in Payments : ~ overlapped[p] /\ refunded[p] = 0)
           => walletBalance <= SumFunctionOnSet(Taken, Payments))
  <2> SUFFICES ASSUME TypeOK, PaidBeforeCredited, CreditedTwiceOnlyIfOverlapped,
                      WalletExplained, \A p \in Payments : ~ overlapped[p] /\ refunded[p] = 0
               PROVE  walletBalance <= SumFunctionOnSet(Taken, Payments)
    OBVIOUS
  <2> DEFINE Credit == [p \in Payments |-> topUps[p] * AmountOf[p] - deducted[p]]
  <2>1. ASSUME NEW p \in Payments
        PROVE  Credit[p] \in Int /\ Taken[p] \in Int /\ Credit[p] <= Taken[p]
    <3>1. /\ topUps[p] \in Nat /\ deducted[p] \in Nat /\ AmountOf[p] \in Nat
          /\ ~ (refunded[p] > 0)
      BY PaymentsAssumption DEF TypeOK
    <3>2. topUps[p] = 0 \/ (topUps[p] = 1 /\ paid[p] = "authorised")
      <4>1. ~ (topUps[p] > 1)
        BY <3>1, Zenon DEF CreditedTwiceOnlyIfOverlapped
      <4>2. topUps[p] > 0 => paid[p] = "authorised"
        BY Zenon DEF PaidBeforeCredited
      <4>3. topUps[p] = 0 \/ topUps[p] = 1
        BY <3>1, <4>1
      <4> QED
        BY <4>2, <4>3
    <3>3. topUps[p] * AmountOf[p] <= Taken[p] /\ topUps[p] * AmountOf[p] \in Nat
      BY <3>1, <3>2, OneMore DEF Taken
    <3>4. Taken[p] \in Int
      BY <3>1 DEF Taken
    <3>5. Credit[p] = topUps[p] * AmountOf[p] - deducted[p]
      OBVIOUS
    <3> HIDE DEF Credit
    <3> QED
      BY <3>1, <3>3, <3>4, <3>5
  <2>2. walletBalance = SumFunctionOnSet(Credit, Payments)
    BY DEF WalletExplained
  <2> HIDE DEF Credit
  <2> QED
    BY <2>1, <2>2, SumMonotonic, FinitenessAssumption
<1> QED
  BY <1>1, TypeLemma, CreditsArePaid, CreditedOnce, WalletIsExplained, PTL
=============================================================================
