CONSTANTS
  c1 = c1
  r1 = r1
  r2 = r2
  k1 = k1
  k2 = k2
  a1 = a1
  o1 = o1
  Companies = {c1}
  Requests = {r1, r2}
  Cancels = {k1, k2}
  OnlineBookings = {}
  Refunds = {}
  CompanyOf <- SameCompany
  TargetOf <- CancelsOfR1
  RefundOf <- RefundsOfR1
  Prices = {2}
  Fees = {0}
  Limits = {4}
  TopUps = {}
  RefundAmounts = {}
  MaxWallet = 0
  MaxAttempts = 1
  AdminStatuses = {}
SPECIFICATION Spec
INVARIANTS
  DebtCoversBookings
