\* Liveness: no symmetry, and one short route.
CONSTANTS
  None = None
  NavIds = {n1, n2}
  TimerIds = {t1, t2}
  Routes <- MCShortRoutes
  MaxGoalRejects = 1
  InspectionEnabled = TRUE
  HasSchedules = FALSE
  CycleBound = 2
SPECIFICATION FairSpec
PROPERTY MovingEnds
