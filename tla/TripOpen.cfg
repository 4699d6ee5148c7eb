SPECIFICATION Spec
CONSTANTS
  Session = {s1, s2}
  Ordered = TRUE
  MaxTime = 4
  MaxTrips = 2
  MaxDistance = 2
  Debounce = 2
  MergeGap = 3
  MinDistance = 1
  MinDuration = 2
INVARIANTS OnlyActiveTripOpen
CHECK_DEADLOCK FALSE
