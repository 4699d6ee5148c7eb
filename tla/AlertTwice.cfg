SPECIFICATION HistorySpec
CONSTANTS
  Handler = {h1}
  Driver = {d1}
  NoDriver = NoDriver
  Settings <- OnlyOnce
  Rows = {"geofence", "offline"}
  Scheduled = {}
  ZoneEvents = {"enter"}
  Inputs <- ZoneInputs
  AutoClear = FALSE
  Faults = FALSE
INVARIANT OncePerEpisode
