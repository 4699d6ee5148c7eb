SPECIFICATION HistorySpec
CONSTANTS
  Handler = {h1}
  Driver = {d1, d2}
  NoDriver = NoDriver
  Settings <- OnceOrContinuous
  Rows = {"geofence", "no_driver"}
  Scheduled = {"geofence"}
  ZoneEvents = {"enter", "exit"}
  Inputs <- AllKindsOfInputs
  AutoClear = TRUE
  Faults = TRUE
INVARIANTS OwnAssignmentRecognized
  
