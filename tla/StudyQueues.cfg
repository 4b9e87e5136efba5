SPECIFICATION Spec
CONSTANTS
  a = a
  b = b
  c = c
  Cards = {a, b, c}
  NoCard = NoCard
  Notes <- TwoNotes
  Order <- ByPosition
  Steps = {1}
  LearnAhead = 2
  DayLength = 3
  Presets <- SomePresets
  Tables <- SomeTables
  Limits <- FewPerDay
  UNDO_LIMIT = 2
  Touched = {b}
  MaxOthers = 1
  MaxTime = 3
INVARIANTS EntriesAreCurrent PatchedIsRebuilt CardsAreFound
PROPERTIES UndoShowsCard
