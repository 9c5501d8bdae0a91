SPECIFICATION LiveSpec
CONSTANTS
  k1 = k1
  k2 = k2
  k3 = k3
  Client = {k1, k2, k3}
  Slots = 2
  MaxProc = 2
  MaxSent = 1
  Polite = FALSE
  Free = Free
CHECK_DEADLOCK FALSE
INVARIANTS
  TypeOK
  AnswersAreMine
  TableMatchesSet
PROPERTIES
  SlotsAreReleased
