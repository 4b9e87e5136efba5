SPECIFICATION Spec
CONSTANTS
  n1 = n1
  r1 = r1
  k1 = k1
  mod = mod
  Notes = {n1}
  Others = {}
  Configs = {}
  SkipCells = {}
  Modified = mod
  Values = {0, 1}
  Initial = 0
  UNDO_LIMIT = 2
  CoalesceTicks = 1
  MaxWrites = 2
  MaxChanges = 4
  MaxClock = 2
  MaxCounter = 4
INVARIANTS CountersDescend QueuesBounded
PROPERTIES ImplementsSnapshots
CHECK_DEADLOCK FALSE
