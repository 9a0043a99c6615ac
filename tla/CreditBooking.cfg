CONSTANTS
  c1 = c1
  r1 = r1
  r2 = r2
  k1 = k1
  k2 = k2
  a1 = a1
  o1 = o1
  Companies = {c1}
  Requests = {r1, r2}
  Cancels = {k1, k2}
  OnlineBookings = {}
  Refunds = {a1}
  CompanyOf <- SameCompany
  TargetOf <- CancelsOfR1
  RefundOf <- RefundsOfR1
  Prices = {0, 2}
  Fees = {1, 2}
  Limits = {4}
  TopUps = {1}
  RefundAmounts = {1}
  MaxWallet = 1
  MaxAttempts = 2
  AdminStatuses = {"confirmed"}
SPECIFICATION Spec
INVARIANTS
  TypeOK
  LedgerGapExplained
  OneDebitPerBooking
  EntriesHaveBookings
  UniqueBookingRefs
