CONSTANTS
  t1 = t1
  b1 = b1
  s1 = s1
  d1 = d1
  d2 = d2
  a1 = a1
  TopUps = {t1}
  Refunds = {b1}
  Settlements = {s1}
  Redeems = {d1, d2}
  Awards = {a1}
  AmountOf <- MCAmountOf
  PointValues = {2}
  Payments = {1}
  Prices = {4}
  CreditLimit = 4
  MaxWallet = 1
  MaxOverpaid = 4
SPECIFICATION Spec
INVARIANTS
  TypeOK
  WalletIsDue
  PointsCoverRedemptions
SYMMETRY Redemptions
