CONSTANTS
  Calls = {c1, c2, c3, c4}
  MAX_FAILED_ATTEMPTS = 2
SPECIFICATION Spec
SYMMETRY Symmetry
CHECK_DEADLOCK FALSE
INVARIANTS
  TypeOK
  GuessesBounded
  NewestLinkWorks
  LinkUsedOnce
  DecisionTakesEffect
  OrphanStaysOrphan
PROPERTIES
  OutUntilActivated
