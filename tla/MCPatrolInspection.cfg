\* Inspection windows on: the safety of the executor and the mission it
\* carries out.
CONSTANTS
  None = None
  NavIds = {n1, n2}
  TimerIds = {t1, t2}
  Routes <- MCRoutes
  MaxGoalRejects = 1
  InspectionEnabled = TRUE
  HasSchedules = TRUE
  CycleBound = 3
SPECIFICATION Spec
SYMMETRY Symmetry
INVARIANTS
  TypeOK
  NeverStranded
  NoGhostGoal
PROPERTIES
  HeldUntilReleased
  ArrivalIsNav2Success
  ImplementsMission
