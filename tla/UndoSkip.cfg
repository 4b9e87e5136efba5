SPECIFICATION Spec
CONSTANTS
  n1 = n1
  r1 = r1
  k1 = k1
  mod = mod
  Notes = {}
  Others = {r1}
  Configs = {k1}
  SkipCells = {k1}
  Modified = mod
  Values = {0, 1}
  Initial = 0
  UNDO_LIMIT = 2
  CoalesceTicks = 1
  MaxWrites = 1
  MaxChanges = 4
  MaxClock = 2
  MaxCounter = 3
INVARIANTS CleanIsSynced DirtyIsStamped
PROPERTIES ImplementsSnapshots
CHECK_DEADLOCK FALSE
