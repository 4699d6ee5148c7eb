SPECIFICATION Spec
CONSTANTS
  Conn = {h1, h2}
  MaxCommands = 1
  Unencodable = {}
  SingleWriter = TRUE
  MaxFaults = 0
  MaxCrashes = 0
  None = None
PROPERTIES AckedIsLast
CHECK_DEADLOCK FALSE
