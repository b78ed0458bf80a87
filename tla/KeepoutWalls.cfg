SPECIFICATION Spec
CONSTANTS
  Routes = {"r1", "r2"}
  Maps = {"m1"}
  Fits <- AnyPair
  HardCells <- SameCells
PROPERTY
  CheckerTellsTheRoutes
CHECK_DEADLOCK FALSE
