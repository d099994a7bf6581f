CONSTANTS
  Parts = {p1, p2}
  Counts = {1, 2}
  MaxGen = 3
SPECIFICATION LiveSpec
INVARIANTS
  ObjectsInUse
  SlotsExact
  InOnePlace
  RemovedGone
PROPERTY WaitsEnd
