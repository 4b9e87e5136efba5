SPECIFICATION Spec
CONSTANTS
  a = a
  b = b
  c = c
  c1 = c1
  c2 = c2
  d1 = d1
  First = a
  Second = b
  Clients = {a, b}
  Cards = {c1, c2}
  Decks = {d1}
  Shared = {c1, d1}
  ChunkSize = 1
  TicksPerSecond = 2
  MaxClock = 5
  Ops = {"create", "edit", "answer", "delete", "config", "schema"}
  Events = {"fail", "finish_lost", "finish_crash", "overtake", "reimport"}
INVARIANTS SessionOnLatest
PROPERTIES ReviewsKept AttemptsEnd
CHECK_DEADLOCK FALSE
