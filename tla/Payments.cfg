CONSTANTS
  p1 = p1
  p2 = p2
  v1 = v1
  w1 = w1
  w2 = w2
  w3 = w3
  f1 = f1
  f2 = f2
  Payments = {p1, p2}
  Verifies = {v1}
  Webhooks = {w1, w2}
  Refunds = {f1, f2}
  TypeOf <- MCTypeOf
  AmountOf <- MCAmountOf
  RefundAmounts = {1}
  NoPayment = NoPayment
SPECIFICATION Spec
INVARIANTS
  TypeOK
  PaidBeforeCredited
  CreditedTwiceOnlyIfOverlapped
  DeductedWithinRefunded
  WalletExplained
PROPERTIES
  SuccessIsKept
