\* Inspection windows off (the default): the dwell is a plain delay.
CONSTANTS
  None = None
  NavIds = {n1, n2}
  TimerIds = {t1, t2}
  Routes <- MCRoutes
  MaxGoalRejects = 1
  InspectionEnabled = FALSE
  HasSchedules = FALSE
  CycleBound = 2
SPECIFICATION Spec
SYMMETRY Symmetry
INVARIANTS
  NeverStranded
PROPERTIES
  HeldUntilReleased
