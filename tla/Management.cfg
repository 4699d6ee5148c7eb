SPECIFICATION ManagementSpec
CONSTANTS
  VoicePageSize = 1
  MaxVoice = 2
  MaxVoiceLoads = 1
  MaxVoiceWire = 1
  e1 = e1
  e2 = e2
  Entry = {e1, e2}
  EntryOf <- MCEntryOf
  NoEntry = NoEntry
  NoLogbook = "none"
  MaxLists = 2
  MaxEntryCalls = 1
  MaxOdometer = 2
  MaxTripDistance = 1
  MaxFillUps = 3
  Tile = {x1, x2, x3}
  MaxTiles = 1
  TrimEvery = 2
  MaxPuts = 2
  MaxTrims = 2
  File = {f1, f2}
  MaxVersion = 3
  MaxLatePuts = 2
  u1 = u1
  u2 = u2
  k1 = k1
  k2 = k2
  c1 = c1
  c2 = c2
  m1 = m1
  sw = sw
  engine = engine
  first = first
  second = second
  icon = icon
  Reports <- MCReports
  PageSizes = {1}
  Large = 5
  Chunk = 5
  MaxRenders = 2
  ScheduleId = {s1}
  Trigger = {t1, t2}
  NamedAsType = {t1}
  NeedsZones = {t1}
  TimeTrigger = TimeTrigger
  NewSchedule = NewSchedule
  NoFields = NoFields
  MaxParams = 1
  Schedule = {r1, r2}
  NoSchedule = NoSchedule
  MaxListCalls = 2
  LogKind = {l1, l2}
  MaxLogs = 2
  KeepRows = 2
  MaxPushed = 2
  PaneDevice = {d1, d2}
  NoPane = NoPane
  UserCommand = {x1}
  Typed = Typed
  NoText = NoText
  MaxSupport = 1
  MaxPaneCalls = 1
  Channel = {h1}
  ShownChannels = {}
  Recipient = {u1, u2}
  ShownUsers = {u1}
  Outsiders = {}
  Everybody = Everybody
  Profile <- MCProfile
  MaxRows = 2
  MaxUids = 2
  MaxEditorOpenings = 1
  FleetDevice = {d1}
  NewDevice = NewDevice
  NoWindow = NoWindow
  Assignee = {u1, u2}
  Company = {k1, k2}
  NoCompany = NoCompany
  CompanyOf <- MCCompanyOf
  MaxWindowCalls = 1
  Fleet = {c1, c2}
  Sim = {m1}
  Driver = {}
  SimFleet <- MCSimFleet
  DriverFleet <- MCDriverFleet
  NoChoice = NoChoice
  NewOne = NewOne
  MaxWizardOpenings = 1
  MaxCreated = 1
  Setting = {sw, engine, first, second, icon}
  Value = {0, 1}
  Secret = {second}
  ReadOnly = {}
  SwitchOf <- MCSwitchOf
  EngineOf <- MCEngineOf
  Engine = engine
  Icon = icon
  Keys = icon
  MaxSysEdits = 3
  MaxSysLoads = 1
  Ticket = {i1, i2}
  NoTicket = NoTicket
  MaxOpenings = 1
  MaxTicketCalls = 1
  PlannedRoute = {e1}
  NoPlanned = NoPlanned
  Place = {a, b}
  MaxPlannedStops = 2
  MaxPlannerCalls = 1
INVARIANTS
  ManagementTypeOK
  RecordsSound
  ReportsSound
  
PROPERTY
  ManagementSteps
CHECK_DEADLOCK FALSE
