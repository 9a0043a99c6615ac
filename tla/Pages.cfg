CONSTANTS
  k1 = k1
  k2 = k2
  o1 = o1
  Clicks = {k1, k2}
  Others = {o1}
  MaxLoads = 4
  MaxPage = 1
  Tabs = {"pending", "open", "topup", "month"}
  Words = {"", "x"}
SPECIFICATION Spec
SYMMETRY Symmetric
CONSTRAINT SmallLists
CHECK_DEADLOCK FALSE
INVARIANTS
  TypeOK
  ListShowsQuery
  ShowsOwnWrites
  OfferedIsAllowed
PROPERTIES
  ClosedStays
