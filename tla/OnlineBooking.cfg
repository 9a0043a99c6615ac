CONSTANTS
  b1 = b1
  c1 = c1
  c2 = c2
  r1 = r1
  r2 = r2
  r3 = r3
  Bookings = {b1}
  Cancels = {c1, c2}
  Refunds = {r1, r2, r3}
  BookingOf <- MCBookingOf
SPECIFICATION Spec
SYMMETRY Symmetric
CHECK_DEADLOCK FALSE
INVARIANTS
  TypeOK
  RefundFlagged
  RefundedIsReleased
  ConfirmedIsHeld
  ProcessedIsPaid
PROPERTIES
  ProcessedStays
