CONSTANTS
  a = a
  b = b
  Paths = {a, b}
  NoPath = NoPath
  MaxVersion = 2
  Rewritable = {a}
  Protected = {a}
  Kinds = {"plan", "blank"}
  Capacity = 1
SPECIFICATION FairSpec
INVARIANTS CacheTellsTheTruth CountIsOfTheInput
PROPERTIES EverySourceIsCounted
CHECK_DEADLOCK FALSE
