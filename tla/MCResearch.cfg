SPECIFICATION MCSpec
CONSTANTS
  c1 = c1  c2 = c2  r1 = r1  r2 = r2  r3 = r3
  k1 = k1  k2 = k2  b1 = b1  b2 = b2  b3 = b3
  Workers = {w1, w2}
  Keys = {k1, k2}
  Bodies = {b1, b2, b3}
  KeyOf <- MCKeyOf
  MaxEntries = 2
  Nothing = Nothing
  MaxKills = 2
  None = None  Alien = Alien
  Calls = {c1, c2}
  Runs = {r1, r2, r3}
  RunOf <- MCRunOf
  Tools = {"quote", "history"}
  Sources = {"good", "short", "future"}
  Required = {"quote"}
  HistoryGiven = {c1}
  ToolCalls = 2
  Requests = 2
  ReadLimit = 3
  UsedLimit = 2
  MaxMade = 2
  Ceiling = 5
  MaxRuns = 2
  Rate = 3
  Million = 2
  MaxRecords = 1
  Reserved = 2
  MaxTokens = 3
INVARIANTS
  CompleteIsEarned
  CeilingWatched
  ArchivesSound
  PutsKept
PROPERTIES
  LockFreed
CHECK_DEADLOCK FALSE
