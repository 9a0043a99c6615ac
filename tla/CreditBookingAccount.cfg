CONSTANTS
  c1 = c1
  r1 = r1
  r2 = r2
  k1 = k1
  k2 = k2
  a1 = a1
  o1 = o1
  Companies = {c1}
  Requests = {r1, r2}
  Cancels = {k1, k2}
  OnlineBookings = {o1}
  Refunds = {a1}
  CompanyOf <- SameCompany
  TargetOf <- CancelsApart
  RefundOf <- RefundsOnline
  Prices = {2}
  Fees = {1}
  Limits = {2, 3}
  TopUps = {1}
  RefundAmounts = {1}
  MaxWallet = 0
  MaxAttempts = 2
  AdminStatuses = {}
SPECIFICATION FairSpec
PROPERTIES
  ImplementsCreditAccount
  HandlersEnd
