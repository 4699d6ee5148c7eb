SPECIFICATION DashboardSpec
CONSTANTS
  Vehicle = {v1}
  NoVehicle = NoVehicle
  MaxFix = 2
  Accurate = {2}
  MaxPoints = 2
  MaxLoads = 2
  MaxEvents = 3
  MaxGets = 1
  Alert = {a1, a2}
  Critical = {a1}
  Unloaded = Unloaded
  PageSize = 1
  MaxCopies = 2
  MaxCalls = 2
  MaxWire = 1
  Tracks <- MCTracks
  BatchSize = 3
  Palette = 2
  MaxOffset = 3
  NoLoad = NoLoad
  Steps = {4, 21}
  Speeds = {30, 60, 130}
  Courses = {0, 90}
  SpeedLimit = 120
  FatigueWarning = 6
  FatigueSevere = 10
  StartTime = 100
  MaxDriven = 3
  EcoTrip = {t1, t2}
  NoTrip = NoTrip
  Never = Never
  Sensor = {s1, s2}
  NoSensor = NoSensor
  SpanOfTime = {"day", "week"}
  MaxReadings = 2
  ReadingsPage = 1
  MaxSensorLoads = 2
  MaxAsked = 2
  Places = 2
  MaxRoute = 2
  RoutedVehicle = {v1}
  NoneSelected = NoneSelected
  NoRoute = NoRoute
  MaxRouteCalls = 2
  RouteStates <- MCRouteStates
  EditedRoutes = {r1}
  p1 = p1
  p2 = p2
  StopPlaces = {p1, p2}
  NoneOpen = NoneOpen
  MaxStops = 2
  MaxPreviews = 1
  Geofence = {g1}
  Mine = {g1}
  IsLine = {}
  Shape = {a, b}
  NoShape = NoShape
  NoGeofence = NoGeofence
  New = New
  MaxReloads = 1
INVARIANTS
  DashboardTypeOK
  MapSound
  
  PlaybackSound
  DrawingSound
PROPERTY
  DashboardSteps
CHECK_DEADLOCK FALSE
