SPECIFICATION FairSpec
CONSTANTS
  Conn = {h1}
  MaxCommands = 3
  Unencodable = {2}
  SingleWriter = TRUE
  MaxFaults = 0
  MaxCrashes = 0
  None = None
INVARIANTS OrderlyAcksMatch
PROPERTIES OldestFirst  OrderlySentIsAcked
CHECK_DEADLOCK FALSE
