SPECIFICATION Spec
CONSTANTS
  Homes = {"home", "other"}
  Cram = "cram"
  Peek = "peek"
  NoDeck = "none"
  LearnSteps <- Steps
  RelearnSteps <- Resteps
  DayLen = 2
  LastDay = 1000000000
  Launch = 1700000000
  FilteredStart <- Start
  MaxInterval = 1
  LeechThreshold = 1
  PreviewDelays <- Delays
  FsrsModes = {"off", "short"}
  Positions = {0, 1}
  DueDays = {1}
  FirstTime = 3
  LastTime = 4
  MaxLapses = 1
  MaxPosition = 2
CONSTRAINT Trusted
CHECK_DEADLOCK FALSE
INVARIANTS HomeKnown DueFitsType PositionKnown
PROPERTIES PreviewGivesBack
