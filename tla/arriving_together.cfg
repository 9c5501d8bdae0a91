SPECIFICATION LiveSpec
CONSTANTS
  k1 = k1
  k2 = k2
  k3 = k3
  Client = {k1, k2, k3}
  Slots = 3
  MaxProc = 3
  MaxSent = 2
  Polite = FALSE
  Free = Free
CHECK_DEADLOCK FALSE
PROPERTIES
  RequestsAreAnswered
