SPECIFICATION FairSpec
CONSTANTS
  a = a
  b = b
  p = p
  Cards = {a, b, p}
  NoCard = NoCard
  Concepts = {a, b}
  Kinds = {"choice", "typed", "self"}
  AutoSubmit = TRUE
  AutoAdvance = TRUE
  Configured = {TRUE, FALSE}
  Goal = 1
  Editable = {a}
  Upcoming = {a}
  MaxMod = 2
  MaxSerial = 2
  MaxGrades = 1
INVARIANTS MarksAreTrue
PROPERTIES QuestionIsFresh TimerRatesOwn GradedOnRequest NewestIsServed GradingIsShown
CHECK_DEADLOCK FALSE
