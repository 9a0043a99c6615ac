CONSTANTS
  t1 = t1
  t2 = t2
  r1 = r1
  r2 = r2
  r3 = r3
  Tabs = {t1, t2}
  Requests = {r1, r2, r3}
  TabOf <- MCTabOf
SPECIFICATION Spec
INVARIANTS
  TypeOK
  RemovedHashStaysRemoved
  RefreshTokenUsable
  OneRefreshPerTab
  QueuedBehindRefresh
PROPERTIES
  RequestsEnd
