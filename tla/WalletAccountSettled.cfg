CONSTANTS
  t1 = t1
  b1 = b1
  s1 = s1
  d1 = d1
  d2 = d2
  a1 = a1
  TopUps = {}
  Refunds = {}
  Settlements = {s1}
  Redeems = {}
  Awards = {a1}
  AmountOf <- MCAmountOf
  PointValues = {2}
  Payments = {}
  Prices = {4}
  CreditLimit = 4
  MaxWallet = 2
  MaxOverpaid = 4
SPECIFICATION Spec
INVARIANTS
  DebtIsUnsettled
