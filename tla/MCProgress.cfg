SPECIFICATION ProgressSpec
CONSTANTS
  Callers = {a}
  MaxEvents = 2
  MaxRestarts = 1
  Sockets = {"a1", "a2"}
  Poses = {1, 2, 3}
  Refined <- TwoGoodMatches
  Lost = 0
  IgnoreTicks = 1
  MaxOutside = 3
  MinFrames = 2
  MaxFailures = 1
  MaxStarts = 2
  LockTimeout = 1
  RequestTimeout = 2
  MaxRequests = 1
  MaxRoutes = 2
  MaxChoices = 1
  Modes = {"route_focus", "full_map"}
INVARIANTS
  ProgressTypeOK
  ReportsAreTrue
PROPERTIES
  DecisionsStand
  SwitchesAreObeyed
  ThreadsSettle
CHECK_DEADLOCK FALSE
