\* Inspection windows off: a task delay started before a hold.
CONSTANTS
  None = None
  NavIds = {n1, n2}
  TimerIds = {t1, t2}
  Routes <- MCRoutes
  MaxGoalRejects = 0
  InspectionEnabled = FALSE
  HasSchedules = FALSE
  CycleBound = 1
SPECIFICATION Spec
PROPERTY TargetDoneAfterArrival
