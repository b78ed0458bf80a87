------------------------------ MODULE WheelBase ------------------------------
(* The node that drives the wheels: base_controller.cpp on a serial line, or     *)
(* zlac8015d_canopen_controller.cpp on a CAN bus. The wheels keep the last       *)
(* velocity written to the drive. Time is counted in periods of the node's       *)
(* watchdog; ages stop growing at AgeCap.                                        *)
EXTENDS Integers

CONSTANTS CmdTimeout,      \* cmd_timeout_sec
          ScanTimeout,     \* scan_timeout_sec
          FeedbackTimeout, \* the 1.0 s of feedback_is_fresh
          AgeCap,
          MaxLost          \* bound: writes lost in a row

VARIABLES drive,    \* "serial" or "can"
          wheels,   \* what the drive was last told
          age,      \* since the last command, scan and feedback
          stampAge, \* of the last scan, by its stamp
          timedOut, \* cmd_timed_out_, timed_out_
          fault,    \* fault_latched_
          lost,     \* writes lost since the last one the drive received
          due       \* the watchdog has yet to run in this period

vars == <<drive, wheels, age, stampAge, timedOut, fault, lost, due>>

Ages == 0 .. AgeCap
Older(a) == IF a < AgeCap THEN a + 1 ELSE a

TypeOK ==
    /\ drive \in {"serial", "can"}
    /\ wheels \in {"still", "moving"}
    /\ age \in [{"command", "scan", "feedback"} -> Ages]
    /\ stampAge \in -1 .. AgeCap
    /\ timedOut \in BOOLEAN /\ fault \in BOOLEAN /\ due \in BOOLEAN
    /\ lost \in 0 .. MaxLost

Init == /\ drive \in {"serial", "can"}
        /\ wheels = "still"
        /\ age = [command |-> 0, scan |-> AgeCap, feedback |-> AgeCap]
        /\ stampAge = AgeCap
        /\ timedOut = FALSE /\ fault = FALSE /\ lost = 0 /\ due = FALSE

-----------------------------------------------------------------------------
(* A write to the drive, whose result nobody looks at: the line is not blocking  *)
(* and the acknowledgement of an SDO is not awaited.                             *)
Write(velocity) == \/ wheels' = velocity /\ lost' = 0
                   \/ /\ lost < MaxLost
                      /\ lost' = lost + 1
                      /\ UNCHANGED wheels

ScanIsFresh == age.scan <= ScanTimeout /\ stampAge \in 0 .. ScanTimeout
FeedbackIsFresh == age.feedback <= FeedbackTimeout

\* Mutant of MayDrive: the fault is looked at only where it is reported.
MayDriveFaulty == ScanIsFresh /\ (drive = "can" => FeedbackIsFresh)
MayDrive == ScanIsFresh /\ (drive = "can" => FeedbackIsFresh /\ ~fault)

\* cmdVelCallback, cmd_vel_callback.
\* Mutant of OnCommand: a time-out is reported once for good.
OnCommandKeepsTimeout(velocity) ==
    /\ age' = [age EXCEPT !.command = 0]
    /\ Write(IF MayDrive THEN velocity ELSE "still")
    /\ UNCHANGED <<drive, stampAge, timedOut, fault, due>>
OnCommand(velocity) ==
    /\ age' = [age EXCEPT !.command = 0]
    /\ timedOut' = FALSE
    /\ Write(IF MayDrive THEN velocity ELSE "still")
    /\ UNCHANGED <<drive, stampAge, fault, due>>

\* The stamp may lie in the past or, beyond the tolerance, in the future.
OnScan == /\ age' = [age EXCEPT !.scan = 0]
          /\ stampAge' \in -1 .. AgeCap
          /\ UNCHANGED <<drive, wheels, timedOut, fault, lost, due>>

\* poll_can: the speed the drive reports, and its fault register.
OnFeedback == /\ drive = "can"
              /\ age' = [age EXCEPT !.feedback = 0]
              /\ UNCHANGED <<drive, wheels, stampAge, timedOut, fault, lost, due>>

HandleFault == /\ drive = "can"
               /\ \/ fault' = FALSE /\ UNCHANGED <<wheels, lost>>
                  \/ fault' = TRUE /\ Write("still")
               /\ UNCHANGED <<drive, age, stampAge, timedOut, due>>

\* Mutant of Watchdog: the zero is sent by the next command only.
WatchdogReportsOnly == /\ due /\ due' = FALSE
                       /\ timedOut' = (timedOut \/ age.command > CmdTimeout)
                       /\ UNCHANGED <<drive, wheels, age, stampAge, fault, lost>>

(* updateLoop says zero once, when the last command becomes too old; watchdog    *)
(* repeats it in every period until a command comes.                             *)
Watchdog == /\ due /\ due' = FALSE
            /\ \/ /\ age.command > CmdTimeout
                  /\ timedOut' = TRUE
                  /\ IF drive = "serial" /\ timedOut
                     THEN UNCHANGED <<wheels, lost>>
                     ELSE Write("still")
               \/ /\ age.command <= CmdTimeout
                  /\ UNCHANGED <<timedOut, wheels, lost>>
            /\ UNCHANGED <<drive, age, stampAge, fault>>

Elapse == /\ ~due /\ due' = TRUE
          /\ age' = [k \in DOMAIN age |-> Older(age[k])]
          /\ stampAge' = Older(stampAge)
          /\ UNCHANGED <<drive, wheels, timedOut, fault, lost>>

Inputs == OnScan \/ OnFeedback \/ HandleFault

-----------------------------------------------------------------------------
(* The robot is not driven blind: while the wheels turn and no write was lost,   *)
(* the last command is not older than its time-out, and the scan, and on the CAN *)
(* bus the feedback, not older than theirs and a command's together, plus the    *)
(* period of the watchdog; with a fault latched they do not turn at all. On the  *)
(* CAN bus each write lost costs one period more.                                *)
BlindDriveBounded ==
    wheels = "moving" /\ (lost = 0 \/ drive = "can") =>
        LET late == CmdTimeout + 1 + lost
        IN  /\ age.command <= late
            /\ lost = 0 => /\ age.scan <= ScanTimeout + late
                           /\ drive = "can" => /\ age.feedback <= FeedbackTimeout + late
                                               /\ ~fault

=============================================================================
