SPECIFICATION Spec
CONSTANTS
  t1 = t1
  t2 = t2
  none = none
  None = none
  Threads = {t1, t2}
  MaxQueue = 2
INVARIANTS AbortReaches WaitedForAreOver WishesAreFresh
PROPERTIES WaitsEnd
