SPECIFICATION MCSpec
CONSTANTS
    NStops = 2
    Dwell <- MCDwell
    Places <- MCPlaces
    MaxRequests = 2
    MaxRollbacks = 1
    Schedules = {s1, s2}
    Tasks = {t1}
    MaxWait = 1
    Keep = 1
    MaxEdits = 2
    MaxFailures = 1
    MaxRestarts = 1
    Listener = {l1, l2}
    Tcp = {l1}
    Syncs = {1, 2}
    MaxChanges = 3
    MaxBindErrors = 1
    MaxPosition = 2
    MaxCredentials = 2
    MaxAsks = 1
    MaxStoreErrors = 1
    MaxPollRestarts = 1
 
PROPERTIES  WorkIsDone
CHECK_DEADLOCK FALSE
