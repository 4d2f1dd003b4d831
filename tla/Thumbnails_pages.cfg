CONSTANTS
  PageCounts = {1, 3}
  Capacity = 2
  MaxInFlight = 2
  Batch = 2
  Layouts = {"strip", "grid"}
  StripOpenings = 2
  GridOpenings = 1
  MaxRows = 3
SPECIFICATION FairSpec
INVARIANTS PicturesAreOfThisOpening CacheAndSlotsAgree
PROPERTIES RequestsAreSettled
CHECK_DEADLOCK FALSE
