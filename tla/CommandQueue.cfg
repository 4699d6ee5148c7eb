SPECIFICATION Spec
CONSTANTS
  Conn = {h1, h2}
  MaxCommands = 1
  Unencodable = {}
  SingleWriter = TRUE
  MaxFaults = 1
  MaxCrashes = 1
  None = None
INVARIANTS TypeOK SentWasWritten AtMostOncePerConnection RegistryIsLive SingleConnectionRegistered
PROPERTIES SettledIsFinal CancelHoldsAgainstAcks RefinesLifecycle
SYMMETRY Symmetry
CHECK_DEADLOCK FALSE
