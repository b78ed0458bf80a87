---------------------------- MODULE VelocityPath ----------------------------
(* The arbiter with the wheels behind it: each Twist the arbiter publishes on  *)
(* /cmd_vel is a command to the node that drives them, and the arbiter's       *)
(* process may die. A takeover publishes twice, in one handler; the wheels see *)
(* the second. The sensors and the lines to the drive work here: WheelBase has *)
(* their failures.                                                             *)
EXTENDS CmdVelArbiter

CONSTANTS CmdTimeout, ScanTimeout, FeedbackTimeout

VARIABLES alive, drive, wheels, baseAge, stampAge, timedOut, fault, due

Base == INSTANCE WheelBase WITH age <- baseAge, lost <- 0, MaxLost <- 0

baseVars == <<drive, wheels, baseAge, stampAge, timedOut, fault, due>>
pathVars == <<vars, alive, baseVars>>

PathTypeOK == TypeOK /\ Base!TypeOK /\ alive \in BOOLEAN

PathInit ==
  /\ Init /\ alive = TRUE
  /\ drive = "serial" /\ wheels = "still"
  /\ baseAge = [command |-> 0, scan |-> 0, feedback |-> 0] /\ stampAge = 0
  /\ timedOut = FALSE /\ fault = FALSE /\ due = FALSE

Told == IF out'.command = "drive" THEN "moving" ELSE "still"

Publishes(action) == alive /\ action /\ Base!OnCommand(Told) /\ UNCHANGED alive

\* Scans and feedback come in every period.
BaseElapse ==
  /\ ~due /\ due' = TRUE
  /\ baseAge' = [command |-> Base!Older(baseAge.command), scan |-> 0, feedback |-> 0]
  /\ UNCHANGED <<drive, wheels, stampAge, timedOut, fault>>

OverTime ==
  /\ \/ alive /\ Elapse
     \/ /\ ~alive
        /\ age' = [s \in Sources |-> Older(age[s])]
        /\ UNCHANGED <<command, health, statusAge, manual, source, guardLeft, timerAge, out, rest>>
  /\ BaseElapse
  /\ UNCHANGED alive

Receives ==
  /\ alive
  /\ \/ \E s \in Sources : OnCommand(s)
     \/ OnNavigationStatus
     \/ OnManual /\ ~manual'
  /\ UNCHANGED <<alive, baseVars>>

Dies == alive /\ alive' = FALSE /\ UNCHANGED <<vars, baseVars>>

PathNext ==
  \/ Publishes(Tick)
  \/ Publishes(OnManual /\ manual')
  \/ Receives
  \/ Base!Watchdog /\ UNCHANGED <<vars, alive>>
  \/ OverTime
  \/ Dies

PathSpec == PathInit /\ [][PathNext]_pathVars

-----------------------------------------------------------------------------
(* Whoever dies, the publisher of a velocity or the arbiter, the wheels do not *)
(* turn on a command older than the time-outs allow together, and while the    *)
(* arbiter lives never when an operator has taken over.                        *)
WheelsOutliveNobody ==
  wheels = "moving" =>
    /\ Owned
    /\ age[out.owner] <= SourceTimeout + (IF alive THEN TimerPeriod ELSE CmdTimeout + 1)
    /\ alive => ~manual
=============================================================================
