SPECIFICATION FairHistorySpec
CONSTANTS
  Handler = {h1}
  Driver = {d1}
  NoDriver = NoDriver
  Settings <- OnlyContinuous
  Rows = {"geofence", "offline"}
  Scheduled = {"offline"}
  ZoneEvents = {"enter"}
  Inputs <- SharedInputs
  AutoClear = FALSE
  Faults = TRUE
INVARIANTS TypeOK OfflineOncePerSilence
PROPERTIES SilenceIsReported
