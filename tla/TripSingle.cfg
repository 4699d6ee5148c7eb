SPECIFICATION HistorySpec
CONSTANTS
  Session = {s1}
  Ordered = FALSE
  MaxTime = 7
  MaxTrips = 3
  MaxDistance = 2
  Debounce = 2
  MergeGap = 3
  MinDistance = 1
  MinDuration = 2
INVARIANTS TripsDisjoint OnlyActiveTripOpen DistancesAddUp NothingDrivenIsLost
PROPERTIES MergesContinueTheLast LongTripsAreKept
CHECK_DEADLOCK FALSE
