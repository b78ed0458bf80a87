SPECIFICATION PartsSpec
CONSTANTS
  Keys = {"navigation", "perception"}
  Recoverable = {"perception"}
  Debounce = 2
  Cooldown = 2
  Incidents = {1, 2}
INVARIANTS
  PartsTypeOK
  UploadsKeepTheirFiles
  MovingEndsAtArrival
  FilesSurvive
  WheelsStop
  AgentSafe
  MotionHasAnEnd
  VoiceSafe
  ErrorStaysSmall
PROPERTIES
  PatrolStartSafe
  RequestStartsOnce
  SearchIsBounded
  SensorsTrusted
  StopSpeaksOfItsCapture
  GuardReportsWhatLasts
  WallsAreTheRoutes
CHECK_DEADLOCK FALSE
