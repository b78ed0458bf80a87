\* In ticks, with the order of the deployed values kept: a status may be older
\* than a command, and a guard outlasts a period of the timer.
SPECIFICATION FairSpec
CONSTANTS
  SourceTimeout = 1
  StatusTimeout = 2
  SwitchGuard = 3
  TimerPeriod = 2
  AgeCap = 5
INVARIANTS
  TypeOK
  StopBound
PROPERTY GuardedHandover
  SelectedIsForwarded
