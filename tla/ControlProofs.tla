---------------------------- MODULE ControlProofs -----------------------------
(***************************************************************************)
(* What is proved of the parts that move the robot, find out where it is   *)
(* and speak - driving by hand, recovery, fusion, the agent, motions, the  *)
(* swing of the localization and the voice - for any values of their       *)
(* constants.  As in StorageProofs the parts share nothing, and every      *)
(* section has the inductive invariant of its part, the steps that keep it *)
(* and a theorem.                                                          *)
(***************************************************************************)
EXTENDS Integers, Sequences, FiniteSets, WellFoundedInduction, TLAPS

CONSTANTS
  CmdTimeout, ScanTimeout, FeedbackTimeout, AgeCap, MaxLost, Durations, Debounce,
  Statuses, MonitorSources, MonitorDebounce, Cooldown, Sources, Span, Origin, Freshness,
  Gate, MaxStep, Kinds, MaxOps, MaxRequests, MaxSteps, SkillTimeout, Duration, PoseLoss,
  StatusAge, Segments, Tolerance, Timeout, Settle, MaxLag, Keys, Priorities, MaxSegments,
  MaxSpeechRequests, MaxInterrupts

VARIABLES
  drive, wheels, age, stampAge, timedOut, fault, lost, due, timer, firing, stopAge,
  system, executor, heard, chassisHeard, since, recovered, cool, asked, calm, gap, track,
  counted, odom, odomLag, measured, new, good, core, ops, late, robot, reports, queue,
  pending, context, known, worker, lease, reaping, stops, requests, skill, basic, skillMode,
  basicMode, chassis, pose, velocity, motionDue, blocked, driven, yaw, heading, lag,
  odometry, next, target, elapsed, rest, command, ended, enabled, awakened, followup,
  state, wait, speaking, listener, cued, segments, keys, ros, generation, speaker,
  expired, playing

Local == INSTANCE LocalDrive
Monitor == INSTANCE HealthMonitor WITH
  Sources <- MonitorSources, Debounce <- MonitorDebounce, chassis <- chassisHeard
Fuse == INSTANCE Fusion WITH
  lag <- odomLag
Agent == INSTANCE AgentOperations
Motion == INSTANCE MotionSkills WITH
  due <- motionDue
Swing == INSTANCE SwingRelocalization
Voice == INSTANCE VoiceSession WITH
  worker <- listener
Output == INSTANCE VoiceOutput WITH
  MaxRequests <- MaxSpeechRequests, queue <- segments, worker <- speaker

-----------------------------------------------------------------------------
(* Driving by hand.  Wheels that turn were told so by the last command that was    *)
(* not lost, and the watchdog of every period stops them once that command is too *)
(* old (BlindInv).                                                                *)

\* The time-outs are numbers of periods, and one of the durations is the longest.
DriveAssumptions ==
  /\ CmdTimeout \in Nat /\ ScanTimeout \in Nat /\ FeedbackTimeout \in Nat
  /\ AgeCap \in Nat /\ MaxLost \in Nat
  /\ Durations \subseteq Nat /\ \E d \in Durations : \A e \in Durations : e <= d

\* The period that has passed and whose watchdog is still to run.
Period == IF due THEN 1 ELSE 0

\* Wheels that turn were told so by the last command that was not lost, which saw
\* a fresh scan, fresh feedback and no fault; and the watchdog of every period
\* stops them once that command is too old.
BlindInv ==
  /\ wheels = "moving" /\ (lost = 0 \/ drive = "can") =>
        /\ age["command"] <= CmdTimeout + lost + Period
        /\ drive = "serial" => ~timedOut
  /\ wheels = "moving" /\ lost = 0 =>
        /\ age["scan"] <= ScanTimeout + age["command"]
        /\ drive = "can" => ~fault /\ age["feedback"] <= FeedbackTimeout + age["command"]

DriveInv == Local!DriveTypeOK /\ BlindInv

-----------------------------------------------------------------------------
LEMMA LongestIs == ASSUME DriveAssumptions PROVE Local!Longest \in Nat /\ Durations \subseteq 0 .. Local!Longest
<1>1. Local!Longest \in Durations /\ \A e \in Durations : e <= Local!Longest
  BY Zenon DEF DriveAssumptions, Local!Longest
<1>2. Durations \subseteq Nat
  BY DEF DriveAssumptions
<1>. QED
  BY <1>1, <1>2

LEMMA DriveInitInv == ASSUME DriveAssumptions, Local!DriveInit PROVE DriveInv
<1>1. AgeCap \in Nat /\ MaxLost \in Nat /\ 0 \in 0 .. AgeCap /\ AgeCap \in 0 .. AgeCap
  BY DEF DriveAssumptions
<1>5. Local!Init /\ timer = 0 /\ firing = FALSE /\ stopAge = AgeCap
  BY DEF Local!DriveInit
<1>6. /\ drive \in {"serial", "can"} /\ wheels = "still"
      /\ stampAge = AgeCap /\ timedOut = FALSE /\ fault = FALSE /\ lost = 0 /\ due = FALSE
  BY <1>5 DEF Local!Init
<1>7. age \in [{"command", "scan", "feedback"} -> 0 .. AgeCap]
  BY <1>1, <1>5 DEF Local!Init
<1>8. stampAge \in -1 .. AgeCap /\ lost \in 0 .. MaxLost /\ stopAge \in 0 .. AgeCap
  BY <1>1, <1>5, <1>6
<1>9. timedOut \in BOOLEAN /\ fault \in BOOLEAN /\ due \in BOOLEAN /\ firing \in BOOLEAN
  BY <1>5, <1>6
<1>2. Local!TypeOK
  BY <1>6, <1>7, <1>8, <1>9 DEF Local!TypeOK, Local!Ages
<1>10. Local!Longest \in Nat
  BY LongestIs
<1>11. timer \in 0 .. Local!Longest
  BY <1>5, <1>10
<1>3. timer \in 0 .. Local!Longest /\ firing \in BOOLEAN /\ stopAge \in Local!Ages
  BY <1>8, <1>9, <1>11 DEF Local!Ages
<1>4. wheels = "still"
  BY DEF Local!DriveInit, Local!Init
<1>. QED
  BY <1>2, <1>3, <1>4 DEF DriveInv, Local!DriveTypeOK, BlindInv

LEMMA BaseIs ==
  ASSUME DriveAssumptions, DriveInv
  PROVE  /\ drive \in {"serial", "can"} /\ wheels \in {"still", "moving"}
         /\ age \in [{"command", "scan", "feedback"} -> Local!Ages]
         /\ age["command"] \in 0 .. AgeCap /\ age["scan"] \in 0 .. AgeCap
         /\ age["feedback"] \in 0 .. AgeCap
         /\ stampAge \in -1 .. AgeCap /\ lost \in 0 .. MaxLost
         /\ timedOut \in BOOLEAN /\ fault \in BOOLEAN /\ due \in BOOLEAN
         /\ AgeCap \in Nat /\ MaxLost \in Nat /\ CmdTimeout \in Nat /\ ScanTimeout \in Nat
         /\ FeedbackTimeout \in Nat
BY DEF DriveAssumptions, DriveInv, Local!DriveTypeOK, Local!TypeOK, Local!Ages

LEMMA WriteIs ==
  ASSUME DriveAssumptions, DriveInv, NEW v \in {"still", "moving"}, Local!Write(v)
  PROVE  /\ wheels' \in {"still", "moving"} /\ lost' \in 0 .. MaxLost
         /\ \/ wheels' = v /\ lost' = 0
            \/ wheels' = wheels /\ lost' = lost + 1
BY BaseIs DEF Local!Write

LEMMA CommandKeeps ==
  ASSUME DriveAssumptions, DriveInv, NEW v \in {"still", "moving"}, Local!OnCommand(v)
  PROVE  Local!TypeOK' /\ BlindInv'
<1>. DEFINE w == IF Local!MayDrive THEN v ELSE "still"
<1>1. /\ age' = [age EXCEPT !["command"] = 0] /\ timedOut' = FALSE /\ Local!Write(w)
      /\ UNCHANGED <<drive, stampAge, fault, due>>
  BY DEF Local!OnCommand
<1>2. w \in {"still", "moving"} /\ (w = "moving" => Local!MayDrive)
  OBVIOUS
<1>. HIDE DEF w
<1>3. /\ wheels' \in {"still", "moving"} /\ lost' \in 0 .. MaxLost
      /\ \/ wheels' = w /\ lost' = 0
         \/ wheels' = wheels /\ lost' = lost + 1
  BY <1>1, <1>2, WriteIs
<1>4. /\ age' \in [{"command", "scan", "feedback"} -> Local!Ages] /\ age'["command"] = 0
      /\ age'["scan"] = age["scan"] /\ age'["feedback"] = age["feedback"]
  BY <1>1, BaseIs DEF Local!Ages
<1>5. Local!TypeOK'
  BY <1>1, <1>3, <1>4, BaseIs DEF Local!TypeOK
<1>6. Local!MayDrive => age["scan"] <= ScanTimeout /\ (drive = "can" => age["feedback"] <= FeedbackTimeout /\ ~fault)
  BY DEF Local!MayDrive, Local!ScanIsFresh, Local!FeedbackIsFresh
<1>7. lost' = 0 /\ wheels' = "moving" => Local!MayDrive
  BY <1>2, <1>3, BaseIs
<1>8. BlindInv'
  BY <1>1, <1>3, <1>4, <1>6, <1>7, BaseIs DEF BlindInv, Period
<1>. QED
  BY <1>5, <1>8

LEMMA InputsKeep == ASSUME DriveAssumptions, DriveInv, Local!Inputs PROVE Local!TypeOK' /\ BlindInv'
<1>1. CASE Local!OnScan
  <2>1. /\ age' \in [{"command", "scan", "feedback"} -> Local!Ages]
        /\ age'["command"] = age["command"]
        /\ age'["scan"] = 0 /\ age'["feedback"] = age["feedback"]
    BY <1>1, BaseIs DEF Local!OnScan, Local!Ages
  <2>2. stampAge' \in -1 .. AgeCap /\ UNCHANGED <<drive, wheels, timedOut, fault, lost, due>>
    BY <1>1 DEF Local!OnScan
  <2>3. Local!TypeOK'
    BY <2>1, <2>2, BaseIs DEF Local!TypeOK
  <2>. QED
    BY <2>1, <2>2, <2>3, BaseIs DEF DriveInv, BlindInv, Period
<1>2. CASE Local!OnFeedback
  <2>1. /\ age' \in [{"command", "scan", "feedback"} -> Local!Ages]
        /\ age'["command"] = age["command"]
        /\ age'["scan"] = age["scan"] /\ age'["feedback"] = 0
    BY <1>2, BaseIs DEF Local!OnFeedback, Local!Ages
  <2>2. UNCHANGED <<drive, wheels, stampAge, timedOut, fault, lost, due>>
    BY <1>2 DEF Local!OnFeedback
  <2>3. Local!TypeOK'
    BY <2>1, <2>2, BaseIs DEF Local!TypeOK
  <2>. QED
    BY <2>1, <2>2, <2>3, BaseIs DEF DriveInv, BlindInv, Period
<1>3. CASE Local!HandleFault
  <2>1. drive = "can" /\ UNCHANGED <<drive, age, stampAge, timedOut, due>>
    BY <1>3 DEF Local!HandleFault
  <2>2. CASE fault' = FALSE /\ UNCHANGED <<wheels, lost>>
    BY <2>1, <2>2, BaseIs DEF Local!TypeOK, DriveInv, BlindInv, Period
  <2>3. CASE fault' = TRUE /\ Local!Write("still")
    <3>1. /\ wheels' \in {"still", "moving"} /\ lost' \in 0 .. MaxLost
          /\ \/ wheels' = "still" /\ lost' = 0
             \/ wheels' = wheels /\ lost' = lost + 1
      BY <2>3, WriteIs
    <3>. QED
      BY <2>1, <2>3, <3>1, BaseIs DEF Local!TypeOK, DriveInv, BlindInv, Period
  <2>. QED
    BY <1>3, <2>2, <2>3 DEF Local!HandleFault
<1>. QED
  BY <1>1, <1>2, <1>3 DEF Local!Inputs

LEMMA WatchdogKeeps == ASSUME DriveAssumptions, DriveInv, Local!Watchdog PROVE Local!TypeOK' /\ BlindInv'
<1>1. due = TRUE /\ due' = FALSE /\ UNCHANGED <<drive, age, stampAge, fault>>
  BY BaseIs DEF Local!Watchdog
<1>2. CASE /\ age["command"] > CmdTimeout /\ timedOut' = TRUE /\ drive = "serial" /\ timedOut
           /\ UNCHANGED <<wheels, lost>>
  BY <1>1, <1>2, BaseIs DEF Local!TypeOK, DriveInv, BlindInv, Period
<1>3. CASE /\ age["command"] > CmdTimeout /\ timedOut' = TRUE
           /\ ~(drive = "serial" /\ timedOut) /\ Local!Write("still")
  <2>1. /\ wheels' \in {"still", "moving"} /\ lost' \in 0 .. MaxLost
        /\ \/ wheels' = "still" /\ lost' = 0
           \/ wheels' = wheels /\ lost' = lost + 1
    BY <1>3, WriteIs
  <2>2. Local!TypeOK'
    BY <1>1, <1>3, <2>1, BaseIs DEF Local!TypeOK
  <2>. QED
    BY <1>1, <1>3, <2>1, <2>2, BaseIs DEF DriveInv, BlindInv, Period
<1>4. CASE age["command"] <= CmdTimeout /\ UNCHANGED <<timedOut, wheels, lost>>
  <2>1. Local!TypeOK'
    BY <1>1, <1>4, BaseIs DEF Local!TypeOK
  <2>2. age["command"] \in Nat /\ CmdTimeout \in Nat /\ lost \in Nat
    BY BaseIs
  <2>. QED
    BY <1>1, <1>4, <2>1, <2>2 DEF DriveInv, BlindInv, Period
<1>. QED
  BY <1>2, <1>3, <1>4 DEF Local!Watchdog

LEMMA ElapseKeeps == ASSUME DriveAssumptions, DriveInv, Local!Elapse PROVE Local!TypeOK' /\ BlindInv'
<1>1. due = FALSE /\ due' = TRUE /\ UNCHANGED <<drive, wheels, timedOut, fault, lost>>
      /\ stampAge' = Local!Older(stampAge)
  BY BaseIs DEF Local!Elapse
<1>2. age' = [k \in {"command", "scan", "feedback"} |-> Local!Older(age[k])]
  BY BaseIs DEF Local!Elapse
<1>3. age'["command"] = Local!Older(age["command"]) /\ age'["scan"] = Local!Older(age["scan"])
      /\ age'["feedback"] = Local!Older(age["feedback"])
  BY <1>2
<1>4. \A a \in 0 .. AgeCap : Local!Older(a) \in 0 .. AgeCap /\ Local!Older(a) <= a + 1
                             /\ (a < AgeCap => Local!Older(a) = a + 1)
                             /\ (a = AgeCap => Local!Older(a) = AgeCap)
  BY BaseIs DEF Local!Older
<1>5. Local!TypeOK'
  <2>1. age' \in [{"command", "scan", "feedback"} -> Local!Ages]
    BY <1>2, <1>4, BaseIs DEF Local!Ages
  <2>2. stampAge' \in -1 .. AgeCap
    BY <1>1, BaseIs DEF Local!Older
  <2>. QED
    BY <1>1, <2>1, <2>2, BaseIs DEF Local!TypeOK
<1>. DEFINE c == age["command"]
            s == age["scan"]
            f == age["feedback"]
<1>6. /\ c \in 0 .. AgeCap /\ s \in 0 .. AgeCap /\ f \in 0 .. AgeCap
      /\ Local!Older(c) <= c + 1 /\ Local!Older(c) \in Nat /\ Local!Older(s) \in Nat
      /\ Local!Older(f) \in Nat
      /\ s <= ScanTimeout + c => Local!Older(s) <= ScanTimeout + Local!Older(c)
      /\ f <= FeedbackTimeout + c => Local!Older(f) <= FeedbackTimeout + Local!Older(c)
  BY <1>4, BaseIs
<1>. HIDE DEF c, s, f
<1>7. /\ wheels = "moving" /\ (lost = 0 \/ drive = "can") => c <= CmdTimeout + lost /\ (drive = "serial" => ~timedOut)
      /\ wheels = "moving" /\ lost = 0 =>
            s <= ScanTimeout + c /\ (drive = "can" => ~fault /\ f <= FeedbackTimeout + c)
  BY <1>1, BaseIs DEF DriveInv, BlindInv, Period, c, s, f
<1>8. /\ age'["command"] = Local!Older(c) /\ age'["scan"] = Local!Older(s)
      /\ age'["feedback"] = Local!Older(f)
  BY <1>3 DEF c, s, f
<1>9. BlindInv'
  BY <1>1, <1>6, <1>7, <1>8, BaseIs DEF BlindInv, Period
<1>. QED
  BY <1>5, <1>9

LEMMA DriveNextInv == ASSUME DriveAssumptions, DriveInv, [Local!DriveNext]_Local!driveVars PROVE DriveInv'
<1>1. timer \in 0 .. Local!Longest /\ firing \in BOOLEAN /\ stopAge \in 0 .. AgeCap /\ AgeCap \in Nat
      /\ Local!Longest \in Nat /\ Durations \subseteq 0 .. Local!Longest
  BY LongestIs DEF DriveAssumptions, DriveInv, Local!DriveTypeOK, Local!Ages
<1>2. ASSUME Local!TypeOK', BlindInv', timer' \in 0 .. Local!Longest, firing' \in BOOLEAN, stopAge' \in 0 .. AgeCap
      PROVE  DriveInv'
  BY <1>2 DEF DriveInv, Local!DriveTypeOK, Local!Ages
<1>3. CASE Local!OtherCommand
  <2>1. Local!TypeOK' /\ BlindInv'
    BY <1>3, CommandKeeps DEF Local!OtherCommand
  <2>. QED
    BY <1>1, <1>2, <1>3, <2>1 DEF Local!OtherCommand, Local!app
<1>4. CASE Local!Drive
  <2>1. Local!TypeOK' /\ BlindInv'
    BY <1>4, CommandKeeps DEF Local!Drive
  <2>. QED
    BY <1>1, <1>2, <1>4, <2>1 DEF Local!Drive
<1>5. CASE Local!PublishZero
  <2>1. Local!TypeOK' /\ BlindInv'
    BY <1>5, CommandKeeps DEF Local!PublishZero
  <2>. QED
    BY <1>1, <1>2, <1>5, <2>1 DEF Local!PublishZero
<1>6. ASSUME NEW force \in BOOLEAN, Local!Stop(force), firing' \in BOOLEAN PROVE DriveInv'
  <2>1. CASE stopAge' = 0 /\ timer' = 0 /\ Local!OnCommand("still")
    BY <1>1, <1>2, <1>6, <2>1, CommandKeeps
  <2>2. CASE UNCHANGED <<Local!vars, timer, stopAge>>
    <3>1. Local!TypeOK' /\ BlindInv'
      BY <2>2 DEF Local!vars, DriveInv, Local!DriveTypeOK, Local!TypeOK, BlindInv, Period
    <3>. QED
      BY <1>1, <1>2, <1>6, <2>2, <3>1
  <2>. QED
    BY <1>6, <2>1, <2>2 DEF Local!Stop
<1>7. CASE Local!StopRequest
  BY <1>1, <1>6, <1>7 DEF Local!StopRequest
<1>8. CASE Local!TimerRuns
  BY <1>6, <1>8 DEF Local!TimerRuns
<1>9. CASE Local!TimePasses
  <2>1. Local!TypeOK' /\ BlindInv'
    BY <1>9, ElapseKeeps DEF Local!TimePasses
  <2>2. timer' \in 0 .. Local!Longest /\ firing' \in BOOLEAN /\ stopAge' \in 0 .. AgeCap
    BY <1>1, <1>9 DEF Local!TimePasses, Local!Older
  <2>. QED
    BY <1>2, <2>1, <2>2
<1>10. CASE (Local!Inputs \/ Local!Watchdog) /\ UNCHANGED Local!app
  <2>1. Local!TypeOK' /\ BlindInv'
    BY <1>10, InputsKeep, WatchdogKeeps
  <2>. QED
    BY <1>1, <1>2, <1>10, <2>1 DEF Local!app
<1>11. CASE UNCHANGED Local!driveVars
  BY <1>11 DEF Local!driveVars, Local!vars, Local!app, DriveInv, Local!DriveTypeOK,
     Local!TypeOK, BlindInv, Period
<1>. QED
  BY <1>3, <1>4, <1>5, <1>7, <1>8, <1>9, <1>10, <1>11 DEF Local!DriveNext

\* A command sent from the app moves the base for its duration and no longer: the base
\* stands again within bounded time of it, of the last scan and of the last feedback,
\* even when writes to the driver are lost (publish_velocity, the controllers'
\* watchdogs), for any time-outs, durations and numbers of lost writes.
THEOREM BlindDriveIsBounded ==
  ASSUME DriveAssumptions
  PROVE  Local!DriveSpec => [](Local!DriveTypeOK /\ Local!BlindDriveBounded)
<1>1. ASSUME DriveInv PROVE Local!DriveTypeOK /\ Local!BlindDriveBounded
  <2>1. Local!BlindDriveBounded
    BY <1>1, BaseIs DEF DriveInv, BlindInv, Local!BlindDriveBounded, Period
  <2>. QED
    BY <1>1, <2>1 DEF DriveInv
<1>2. DriveInv /\ [Local!DriveNext]_Local!driveVars => DriveInv'
  BY DriveNextInv
<1>. QED
  BY DriveInitInv, <1>1, <1>2, PTL DEF Local!DriveSpec

-----------------------------------------------------------------------------
(* Automatic recovery.  A request leaves its issue among the recovered incidents   *)
(* for as long as the issue is there (RepairInv).                                  *)

\* The times are numbers of ticks and the supervisor tells what it can tell.
MonitorAssumptions == MonitorDebounce \in Nat /\ Cooldown \in Nat /\ \A s \in Statuses : Monitor!StatusOK(s)

\* A request leaves its issue among the recovered incidents for as long as the
\* issue is there, and the clock of the code runs no further than the time since
\* the last request.
RepairInv ==
  \A c \in Monitor!Components :
    /\ asked[c] <= 1 /\ (asked[c] # 0 => c \in recovered)
    /\ cool[c] <= calm[c] /\ gap[c] = Cooldown

MonitorInv == Monitor!TypeOK /\ RepairInv

-----------------------------------------------------------------------------
LEMMA MonitorTickKeeps ==
  ASSUME MonitorAssumptions, MonitorInv, Monitor!HealthMonitorTick
  PROVE  MonitorInv'
<1>1. MonitorDebounce \in Nat /\ Cooldown \in Nat
  BY DEF MonitorAssumptions
<1>2. /\ since \in [Monitor!Issues -> 0 .. MonitorDebounce + 1]
      /\ recovered \subseteq Monitor!Components
      /\ cool \in [Monitor!Components -> 0 .. Cooldown] /\ asked \in [Monitor!Components -> 0 .. 2]
      /\ calm \in [Monitor!Components -> 0 .. Cooldown]
      /\ gap \in [Monitor!Components -> 0 .. Cooldown]
  BY DEF MonitorInv, Monitor!TypeOK, Monitor!Unseen
<1>3. Monitor!Requests \subseteq Monitor!Components
  BY DEF Monitor!Requests
<1>4. \A c \in Monitor!Requests : Monitor!Cause[c] \in Monitor!Found /\ c \notin recovered /\ Monitor!Later(cool)[c] = Cooldown
  BY DEF Monitor!Requests, Monitor!Lasting
<1>5. \A c \in Monitor!Components :
        /\ Monitor!Later(cool)[c] \in 0 .. Cooldown /\ Monitor!Later(calm)[c] \in 0 .. Cooldown
        /\ cool[c] <= calm[c] => Monitor!Later(cool)[c] <= Monitor!Later(calm)[c]
  BY <1>1, <1>2 DEF Monitor!Later
<1>6. since' \in [Monitor!Issues -> 0 .. MonitorDebounce + 1]
  <2>1. \A i \in Monitor!Issues : Monitor!Aged[i] \in 0 .. MonitorDebounce + 1
    BY <1>1, <1>2 DEF Monitor!Aged, Monitor!Unseen
  <2>2. Monitor!Aged = [i \in Monitor!Issues |-> Monitor!Aged[i]]
    BY DEF Monitor!Aged
  <2>3. Monitor!Aged \in [Monitor!Issues -> 0 .. MonitorDebounce + 1]
    BY <2>1, <2>2
  <2>. QED
    BY <2>3 DEF Monitor!HealthMonitorTick
<1>7. recovered' \subseteq Monitor!Components
  BY <1>2, <1>3 DEF Monitor!HealthMonitorTick
<1>8. /\ cool' \in [Monitor!Components -> 0 .. Cooldown]
      /\ asked' \in [Monitor!Components -> 0 .. 2]
      /\ calm' \in [Monitor!Components -> 0 .. Cooldown]
      /\ gap' \in [Monitor!Components -> 0 .. Cooldown]
  BY <1>1, <1>2, <1>5 DEF Monitor!HealthMonitorTick
<1>9. Monitor!TypeOK'
  BY <1>6, <1>7, <1>8 DEF MonitorInv, Monitor!TypeOK, Monitor!HealthMonitorTick,
     Monitor!Unseen
<1>10. ASSUME NEW c \in Monitor!Components
       PROVE  /\ asked'[c] <= 1 /\ (asked'[c] # 0 => c \in recovered')
              /\ cool'[c] <= calm'[c] /\ gap'[c] = Cooldown
  <2>1. /\ asked[c] \in 0 .. 2 /\ asked[c] <= 1 /\ (asked[c] # 0 => c \in recovered)
        /\ cool[c] <= calm[c] /\ gap[c] = Cooldown
    BY <1>2 DEF MonitorInv, RepairInv
  <2>2. Monitor!Later(cool)[c] \in 0 .. Cooldown /\ Monitor!Later(calm)[c] \in 0 .. Cooldown
        /\ Monitor!Later(cool)[c] <= Monitor!Later(calm)[c]
    BY <1>5, <2>1
  <2>3. /\ asked'[c] = IF Monitor!Cause[c] \notin Monitor!Found THEN 0
                       ELSE IF c \in Monitor!Requests /\ asked[c] < 2 THEN asked[c] + 1 ELSE asked[c]
        /\ cool'[c] = IF c \in Monitor!Requests THEN 0 ELSE Monitor!Later(cool)[c]
        /\ calm'[c] = IF c \in Monitor!Requests THEN 0 ELSE Monitor!Later(calm)[c]
        /\ gap'[c] = IF c \in Monitor!Requests THEN Monitor!Later(calm)[c] ELSE gap[c]
        /\ (c \in recovered' <=> c \in recovered \cup Monitor!Requests /\ Monitor!Cause[c] \in Monitor!Found)
    BY <1>2, <1>3 DEF Monitor!HealthMonitorTick
  <2>4. CASE c \in Monitor!Requests
    <3>1. Monitor!Cause[c] \in Monitor!Found /\ asked[c] = 0 /\ Monitor!Later(calm)[c] = Cooldown
      BY <1>1, <1>4, <2>1, <2>2, <2>4
    <3>. QED
      BY <2>1, <2>3, <2>4, <3>1
  <2>5. CASE c \notin Monitor!Requests
    BY <2>1, <2>2, <2>3, <2>5
  <2>. QED
    BY <2>4, <2>5
<1>. QED
  BY <1>9, <1>10 DEF MonitorInv, RepairInv

LEMMA MonitorNextInv ==
  ASSUME MonitorAssumptions, MonitorInv, [Monitor!Next]_Monitor!vars
  PROVE  MonitorInv'
<1>1. CASE Monitor!HealthMonitorTick
  BY <1>1, MonitorTickKeeps
<1>2. ASSUME NEW s \in Statuses, Monitor!OnSystemStatus(s) PROVE MonitorInv'
  <2>1. Monitor!StatusOK(s)
    BY DEF MonitorAssumptions
  <2>2. /\ system' = s
        /\ UNCHANGED <<executor, heard, chassisHeard, since, recovered, cool, asked, calm, gap>>
    BY <1>2 DEF Monitor!OnSystemStatus
  <2>3. (system = Monitor!Unheard \/ Monitor!StatusOK(system))'
    BY <2>1, <2>2 DEF Monitor!StatusOK
  <2>. QED
    BY <2>2, <2>3 DEF MonitorInv, Monitor!TypeOK, RepairInv
<1>3. ASSUME NEW p \in Monitor!Patrols, Monitor!OnPatrolStatus(p) PROVE MonitorInv'
  BY <1>3 DEF Monitor!OnPatrolStatus, MonitorInv, Monitor!TypeOK, RepairInv,
     Monitor!StatusOK, Monitor!Unheard
<1>4. ASSUME NEW s \in MonitorSources, Monitor!Heard(s) \/ Monitor!FallsSilent(s) PROVE MonitorInv'
  <2>1. heard' \in [MonitorSources -> {"never", "fresh", "stale"}]
    BY <1>4 DEF Monitor!Heard, Monitor!FallsSilent, MonitorInv, Monitor!TypeOK
  <2>2. chassisHeard' \in {"online", "fault", "deaf", "other"}
    BY <1>4 DEF Monitor!Heard, Monitor!FallsSilent, MonitorInv, Monitor!TypeOK
  <2>3. UNCHANGED <<system, executor, since, recovered, cool, asked, calm, gap>>
    BY <1>4 DEF Monitor!Heard, Monitor!FallsSilent
  <2>. QED
    BY <2>1, <2>2, <2>3 DEF MonitorInv, Monitor!TypeOK, RepairInv, Monitor!StatusOK,
       Monitor!Unheard
<1>5. CASE UNCHANGED Monitor!vars
  BY <1>5 DEF Monitor!vars, MonitorInv, Monitor!TypeOK, RepairInv, Monitor!StatusOK,
     Monitor!Unheard
<1>. QED
  BY <1>1, <1>2, <1>3, <1>4, <1>5 DEF Monitor!Next

LEMMA MonitorInitInv == ASSUME MonitorAssumptions, Monitor!Init PROVE MonitorInv
<1>1. MonitorDebounce \in Nat /\ Cooldown \in Nat
  BY DEF MonitorAssumptions
<1>2. /\ system = Monitor!Unheard /\ executor = "none" /\ heard = [s \in MonitorSources |-> "never"]
      /\ chassisHeard = "online" /\ since = [i \in Monitor!Issues |-> Monitor!Unseen]
      /\ recovered = {}
      /\ asked = [k \in Monitor!Components |-> 0] /\ calm = [k \in Monitor!Components |-> Cooldown]
      /\ gap = [k \in Monitor!Components |-> Cooldown]
  BY DEF Monitor!Init
<1>3. PICK c \in 0 .. Cooldown : cool = [k \in Monitor!Components |-> c]
  BY DEF Monitor!Init
<1>4. /\ since \in [Monitor!Issues -> 0 .. Monitor!Unseen]
      /\ heard \in [MonitorSources -> {"never", "fresh", "stale"}]
  BY <1>1, <1>2 DEF Monitor!Unseen
<1>5. /\ cool \in [Monitor!Components -> 0 .. Cooldown] /\ asked \in [Monitor!Components -> 0 .. 2]
      /\ calm \in [Monitor!Components -> 0 .. Cooldown]
      /\ gap \in [Monitor!Components -> 0 .. Cooldown]
  BY <1>1, <1>2, <1>3
<1>6. Monitor!TypeOK
  BY <1>2, <1>4, <1>5 DEF Monitor!TypeOK
<1>7. RepairInv
  BY <1>1, <1>2, <1>3 DEF RepairInv
<1>. QED
  BY <1>6, <1>7 DEF MonitorInv

\* The agent has a component restarted once for every fault, however long it lasts,
\* and not again within the cooldown (health_monitor_tick, try_auto_recover), for any
\* sources, times and statuses the supervisor may tell.
THEOREM RepairsAreNotRepeated ==
  ASSUME MonitorAssumptions
  PROVE  Monitor!Spec => [](Monitor!TypeOK /\ Monitor!OneRepairPerFault)
<1>1. MonitorInv => Monitor!TypeOK /\ Monitor!OneRepairPerFault
  BY DEF MonitorInv, RepairInv, Monitor!OneRepairPerFault
<1>2. MonitorInv /\ [Monitor!Next]_Monitor!vars => MonitorInv'
  BY MonitorNextInv
<1>. QED
  BY MonitorInitInv, <1>1, <1>2, PTL DEF Monitor!Spec

-----------------------------------------------------------------------------
(* The fusion.  Odometry and fresh measurements tell where the robot was, and it   *)
(* moves one place a tick at most (TrackInv, OdomInv, MeasuredInv); a core is       *)
(* near the place its odometry tells of (Ok).                                       *)

\* The bounds are numbers, and the map has its origin on the track.
FusionAssumptions ==
  /\ Span \in Nat /\ Freshness \in Nat /\ Gate \in Nat /\ MaxStep \in Nat
  /\ Origin \in 0 .. Span

\* The robot moves one place a tick at most; odometry and measurements tell where
\* it was when they were taken.
TrackInv ==
  /\ track \in [Fuse!Ages -> 0 .. Span]
  /\ \A a, b \in Fuse!Ages : Fuse!Distance(track[a], track[b]) <= Fuse!Distance(a, b)
  /\ odomLag \in 0 .. Freshness /\ counted = track[odomLag]

OdomInv ==
  /\ odom \in {{}} \cup {{o} : o \in [at : 0 .. Span, age : 0 .. Freshness]}
  /\ \A o \in odom : o.at = track[o.age] /\ o.age <= odomLag

MeasuredInv ==
  /\ measured \in [Sources -> {{}} \cup {{m} : m \in [at : 0 .. Span, age : Fuse!Ages]}]
  /\ \A s \in Sources : \A m \in measured[s] : m.age <= Freshness => m.at = track[m.age]

Cores == [pose : SUBSET Int, anchored : BOOLEAN, last : [Sources -> 0 .. Fuse!Never]]

\* A core whose pose belongs to odometry of the place at: before it is anchored
\* it is that place itself, counted from the origin.
Ok(c, at) ==
  /\ c \in Cores
  /\ ~c.anchored => \A p \in c.pose : p = at - Origin
  /\ c.anchored => /\ c.pose # {}
                   /\ \A p \in c.pose : Fuse!Distance(p, at) <= Freshness /\ Fuse!Distance(p, at) <= Span

FusionInv ==
  /\ TrackInv /\ OdomInv /\ MeasuredInv /\ Ok(core, counted)
  /\ new \in [Sources -> BOOLEAN] /\ good \in [Sources -> BOOLEAN]

-----------------------------------------------------------------------------
LEMMA TracksMeet ==
  ASSUME FusionAssumptions, TrackInv, NEW a \in 0 .. Freshness, NEW b \in 0 .. Freshness
  PROVE  /\ track[a] \in 0 .. Span /\ track[b] \in 0 .. Span
         /\ Fuse!Distance(track[a], track[b]) <= Freshness
         /\ Fuse!Distance(track[a], track[b]) <= Span
<1>1. Span \in Nat /\ Freshness \in Nat
  BY DEF FusionAssumptions
<1>2. a \in Fuse!Ages /\ b \in Fuse!Ages
  BY <1>1 DEF Fuse!Ages
<1>3. /\ track[a] \in 0 .. Span /\ track[b] \in 0 .. Span
      /\ Fuse!Distance(track[a], track[b]) <= Fuse!Distance(a, b)
  BY <1>2 DEF TrackInv
<1>4. Fuse!Distance(a, b) <= Freshness
  BY <1>1 DEF Fuse!Distance
<1>5. Fuse!Distance(track[a], track[b]) <= Span /\ Fuse!Distance(track[a], track[b]) \in Nat
  BY <1>1, <1>3 DEF Fuse!Distance
<1>6. Fuse!Distance(a, b) \in Nat
  BY DEF Fuse!Distance
<1>. QED
  BY <1>1, <1>3, <1>4, <1>5, <1>6

\* A place on the way from q to at is no further from x than q and at are.
LEMMA Between ==
  ASSUME NEW p \in Int, NEW q \in Int, NEW at \in Int, NEW x \in Int, NEW b \in Nat,
         Fuse!Distance(p, q) + Fuse!Distance(p, at) = Fuse!Distance(q, at),
         Fuse!Distance(q, x) <= b, Fuse!Distance(at, x) <= b
  PROVE  Fuse!Distance(p, x) <= b
BY DEF Fuse!Distance

LEMMA AppliedIsOk ==
  ASSUME FusionAssumptions, TrackInv, MeasuredInv, NEW l \in 0 .. Freshness,
         NEW c, Ok(c, track[l]), NEW s, Fuse!Usable(s), NEW d \in Fuse!Applied(c, s)
  PROVE  Ok(d, track[l])
<1>. DEFINE m == CHOOSE m \in measured[s] : TRUE
            at == track[l]
<1>1. Span \in Nat /\ Freshness \in Nat
  BY DEF FusionAssumptions
<1>2. s \in Sources /\ \E n \in measured[s] : n.age <= Freshness
  BY DEF Fuse!Usable
<1>3. m \in measured[s]
  BY <1>2
<1>4. measured[s] \in {{}} \cup {{n} : n \in [at : 0 .. Span, age : Fuse!Ages]}
  BY <1>2 DEF MeasuredInv
<1>5. PICK n \in [at : 0 .. Span, age : Fuse!Ages] : measured[s] = {n}
  BY <1>3, <1>4
<1>6. m = n /\ m.age <= Freshness
  BY <1>2, <1>3, <1>5
<1>7. m.age \in 0 .. Freshness /\ m.at \in 0 .. Span /\ m.at = track[m.age]
  BY <1>1, <1>2, <1>3, <1>5, <1>6 DEF MeasuredInv, Fuse!Ages
<1>8. at \in 0 .. Span /\ Fuse!Distance(m.at, at) <= Freshness /\ Fuse!Distance(m.at, at) <= Span
  BY <1>7, TracksMeet
<1>9. \/ d = c
      \/ \E p \in Fuse!Drawn(c, m.at) :
           d = [pose |-> {p}, anchored |-> TRUE, last |-> [c.last EXCEPT ![s] = m.age]]
  BY DEF Fuse!Applied
<1>10. c \in Cores
  BY DEF Ok
<1>. HIDE DEF m, at
<1>11. ASSUME NEW p \in Fuse!Drawn(c, m.at),
              d = [pose |-> {p}, anchored |-> TRUE, last |-> [c.last EXCEPT ![s] = m.age]]
       PROVE  Ok(d, at)
  <2>1. p \in Int /\ Fuse!Distance(p, at) <= Freshness /\ Fuse!Distance(p, at) <= Span
    <3>1. CASE ~c.anchored
      <4>1. p = m.at
        BY <3>1 DEF Fuse!Drawn
      <4>. QED
        BY <1>7, <1>8, <4>1
    <3>2. CASE c.anchored
      <4>1. p \in -Span .. 2 * Span
        BY <3>2 DEF Fuse!Drawn
      <4>2. PICK q \in c.pose : Fuse!Distance(p, q) + Fuse!Distance(p, m.at) = Fuse!Distance(q, m.at)
        BY <3>2 DEF Fuse!Drawn
      <4>3. q \in Int /\ Fuse!Distance(q, at) <= Freshness /\ Fuse!Distance(q, at) <= Span
        BY <1>10, <3>2 DEF Ok, Cores, at
      <4>4. p \in Int /\ m.at \in Int /\ at \in Int
        BY <1>1, <1>7, <1>8, <4>1
      <4>5. Fuse!Distance(p, at) <= Freshness
        BY <1>1, <1>8, <4>2, <4>3, <4>4, Between
      <4>6. Fuse!Distance(p, at) <= Span
        BY <1>1, <1>8, <4>2, <4>3, <4>4, Between
      <4>. QED
        BY <4>4, <4>5, <4>6
    <3>. QED
      BY <3>1, <3>2
  <2>2. [c.last EXCEPT ![s] = m.age] \in [Sources -> 0 .. Fuse!Never]
    <3>1. c.last \in [Sources -> 0 .. Fuse!Never]
      BY <1>10 DEF Cores
    <3>2. m.age \in 0 .. Fuse!Never
      BY <1>1, <1>7 DEF Fuse!Never
    <3>. QED
      BY <3>1, <3>2
  <2>3. d \in Cores /\ d.anchored = TRUE /\ d.pose = {p}
    BY <1>11, <2>1, <2>2 DEF Cores
  <2>. QED
    BY <2>1, <2>3 DEF Ok
<1>. QED
  BY <1>9, <1>11 DEF at

LEMMA AppliedAnyIsOk ==
  ASSUME FusionAssumptions, TrackInv, MeasuredInv, NEW l \in 0 .. Freshness,
         NEW cs, \A c \in cs : Ok(c, track[l]), NEW S, \A s \in S : Fuse!Usable(s),
         NEW d \in Fuse!ApplyAny(cs, S)
  PROVE  Ok(d, track[l])
<1>1. d \in cs \/ \E c \in cs, s \in S : d \in Fuse!Applied(c, s)
  BY DEF Fuse!ApplyAny
<1>2. CASE \E c \in cs, s \in S : d \in Fuse!Applied(c, s)
  BY <1>2, AppliedIsOk
<1>. QED
  BY <1>1, <1>2

LEMMA PropagatedIsOk ==
  ASSUME FusionAssumptions, FusionInv
  PROVE  /\ odom = {} => Ok(Fuse!Propagated, track[odomLag])
         /\ \A o \in odom : o.age \in 0 .. Freshness /\ o.at = track[o.age] /\ Ok(Fuse!Propagated, track[o.age])
<1>1. Span \in Nat /\ Freshness \in Nat /\ Origin \in 0 .. Span
  BY DEF FusionAssumptions
<1>2. Ok(core, counted) /\ counted = track[odomLag] /\ core \in Cores
  BY DEF FusionInv, TrackInv, Ok
<1>3. odom = {} => Ok(Fuse!Propagated, track[odomLag])
  BY <1>2 DEF Fuse!Propagated
<1>4. ASSUME NEW o \in odom
      PROVE  o.age \in 0 .. Freshness /\ o.at = track[o.age] /\ Ok(Fuse!Propagated, track[o.age])
  <2>1. odom \in {{}} \cup {{n} : n \in [at : 0 .. Span, age : 0 .. Freshness]}
    BY DEF FusionInv, OdomInv
  <2>2. PICK n \in [at : 0 .. Span, age : 0 .. Freshness] : odom = {n}
    BY <2>1
  <2>3. o = n /\ (CHOOSE x \in odom : TRUE) = o
    BY <2>2
  <2>4. o.age \in 0 .. Freshness /\ o.at \in 0 .. Span /\ o.at = track[o.age]
    BY <2>2, <2>3 DEF FusionInv, OdomInv
  <2>. DEFINE aligned == IF core.pose = {} THEN {o.at - Origin} ELSE {q + o.at - counted : q \in core.pose}
              new_ == [core EXCEPT !.pose = aligned]
  <2>5. Fuse!Propagated = new_
    BY <2>2, <2>3 DEF Fuse!Propagated
  <2>6. counted \in 0 .. Span
    BY <1>1 DEF FusionInv, TrackInv, Fuse!Ages
  <2>7. core.pose \subseteq Int
    BY <1>2 DEF Cores
  <2>8. aligned \subseteq Int /\ aligned # {}
    <3>1. CASE core.pose = {}
      BY <1>1, <2>4, <3>1
    <3>2. CASE core.pose # {}
      <4>1. \A q \in core.pose : q + o.at - counted \in Int
        BY <2>4, <2>6, <2>7
      <4>. QED
        BY <3>2, <4>1
    <3>. QED
      BY <3>1, <3>2
  <2>9. ASSUME ~core.anchored, NEW p \in aligned PROVE p = o.at - Origin
    <3>1. CASE core.pose = {}
      BY <3>1, <2>9
    <3>2. CASE core.pose # {}
      <4>1. PICK q \in core.pose : p = q + o.at - counted
        BY <2>9, <3>2
      <4>2. q = counted - Origin
        BY <1>2, <2>9 DEF Ok
      <4>. QED
        BY <1>1, <2>4, <2>6, <4>1, <4>2
    <3>. QED
      BY <3>1, <3>2
  <2>10. ASSUME core.anchored, NEW p \in aligned
         PROVE  Fuse!Distance(p, o.at) <= Freshness /\ Fuse!Distance(p, o.at) <= Span
    <3>1. /\ core.pose # {}
          /\ \A q \in core.pose : Fuse!Distance(q, counted) <= Freshness /\ Fuse!Distance(q, counted) <= Span
      BY <1>2, <2>10 DEF Ok
    <3>2. PICK q \in core.pose : p = q + o.at - counted
      BY <2>10, <3>1
    <3>3. Fuse!Distance(p, o.at) = Fuse!Distance(q, counted)
      BY <2>4, <2>6, <2>7, <3>2 DEF Fuse!Distance
    <3>. QED
      BY <3>1, <3>3
  <2>. HIDE DEF aligned
  <2>11. new_ \in Cores /\ new_.pose = aligned /\ new_.anchored = core.anchored
    BY <1>2, <2>8 DEF Cores
  <2>. HIDE DEF new_
  <2>12. Ok(new_, o.at)
    BY <2>8, <2>9, <2>10, <2>11 DEF Ok
  <2>. QED
    BY <2>4, <2>5, <2>12
<1>. QED
  BY <1>3, <1>4

LEMMA ProcessedIsOk ==
  ASSUME FusionAssumptions, TrackInv, MeasuredInv, NEW l \in 0 .. Freshness,
         Ok(Fuse!Propagated, track[l]), NEW d \in Fuse!Processed
  PROVE  Ok(d, track[l])
<1>1. (\A s \in Fuse!Gnss : Fuse!Usable(s)) /\ \A s \in Fuse!Lidar : Fuse!Usable(s)
  BY DEF Fuse!Gnss, Fuse!Lidar
<1>2. \A c \in {Fuse!Propagated} : Ok(c, track[l])
  OBVIOUS
<1>3. CASE Fuse!Propagated.anchored
  <2>1. d \in Fuse!ApplyAny(Fuse!ApplyAny({Fuse!Propagated}, Fuse!Gnss), Fuse!Lidar)
    BY <1>3 DEF Fuse!Processed
  <2>2. \A c \in Fuse!ApplyAny({Fuse!Propagated}, Fuse!Gnss) : Ok(c, track[l])
    BY <1>1, <1>2, AppliedAnyIsOk
  <2>. QED
    BY <1>1, <2>1, <2>2, AppliedAnyIsOk
<1>4. CASE ~Fuse!Propagated.anchored
  <2>1. d \in Fuse!ApplyAny({Fuse!Propagated}, IF Fuse!Lidar # {} THEN Fuse!Lidar ELSE Fuse!Gnss)
    BY <1>4 DEF Fuse!Processed
  <2>. QED
    BY <1>1, <1>2, <2>1, AppliedAnyIsOk
<1>. QED
  BY <1>3, <1>4

-----------------------------------------------------------------------------
LEMMA FusionInitInv == ASSUME FusionAssumptions, Fuse!Init PROVE FusionInv
<1>1. Span \in Nat /\ Freshness \in Nat /\ Origin \in 0 .. Span
  BY DEF FusionAssumptions
<1>2. PICK p \in 0 .. Span : track = [a \in Fuse!Ages |-> p] /\ counted = p
  BY DEF Fuse!Init
<1>3. TrackInv
  BY <1>1, <1>2 DEF Fuse!Init, TrackInv, Fuse!Ages, Fuse!Distance
<1>4. OdomInv /\ MeasuredInv
  BY DEF Fuse!Init, OdomInv, MeasuredInv
<1>5. core \in Cores /\ core.anchored = FALSE /\ core.pose = {}
  BY <1>1 DEF Fuse!Init, Cores, Fuse!Never
<1>6. Ok(core, counted)
  BY <1>5 DEF Ok
<1>. QED
  BY <1>3, <1>4, <1>6 DEF FusionInv, Fuse!Init

LEMMA MoveKeeps == ASSUME FusionAssumptions, FusionInv, Fuse!Move PROVE FusionInv'
<1>1. Span \in Nat /\ Freshness \in Nat /\ Origin \in 0 .. Span
  BY DEF FusionAssumptions
<1>2. odomLag < Freshness /\ odomLag' = odomLag + 1 /\ UNCHANGED <<counted, new, good>>
  BY DEF Fuse!Move
<1>3. PICK p \in 0 .. Span :
        /\ Fuse!Distance(p, track[0]) <= 1
        /\ track' = [a \in Fuse!Ages |-> IF a = 0 THEN p ELSE track[a - 1]]
  BY DEF Fuse!Move
<1>4. /\ track \in [Fuse!Ages -> 0 .. Span] /\ odomLag \in 0 .. Freshness
      /\ counted = track[odomLag]
      /\ \A a, b \in Fuse!Ages : Fuse!Distance(track[a], track[b]) <= Fuse!Distance(a, b)
  BY DEF FusionInv, TrackInv
<1>5. \A a \in Fuse!Ages : a # 0 => a - 1 \in Fuse!Ages /\ track'[a] = track[a - 1] /\ track[a - 1] \in 0 .. Span
  BY <1>1, <1>3, <1>4 DEF Fuse!Ages
<1>6. track'[0] = p /\ 0 \in Fuse!Ages /\ track[0] \in 0 .. Span
  BY <1>1, <1>3, <1>4 DEF Fuse!Ages
<1>7. track' \in [Fuse!Ages -> 0 .. Span]
  BY <1>3, <1>5
<1>8. ASSUME NEW a \in Fuse!Ages, NEW b \in Fuse!Ages PROVE Fuse!Distance(track'[a], track'[b]) <= Fuse!Distance(a, b)
  <2>1. a \in Nat /\ b \in Nat
    BY <1>1 DEF Fuse!Ages
  <2>2. CASE a # 0 /\ b # 0
    <3>1. Fuse!Distance(track[a - 1], track[b - 1]) <= Fuse!Distance(a - 1, b - 1)
      BY <1>4, <1>5, <2>2
    <3>2. Fuse!Distance(a - 1, b - 1) = Fuse!Distance(a, b)
      BY <2>1 DEF Fuse!Distance
    <3>. QED
      BY <1>5, <2>2, <3>1, <3>2
  <2>3. CASE a = 0 /\ b = 0
    BY <1>6, <2>3 DEF Fuse!Distance
  <2>4. CASE a # 0 /\ b = 0
    <3>1. Fuse!Distance(track[a - 1], track[0]) <= Fuse!Distance(a - 1, 0)
      BY <1>4, <1>5, <1>6, <2>4
    <3>. QED
      BY <1>3, <1>5, <1>6, <2>1, <2>4, <3>1 DEF Fuse!Distance
  <2>5. CASE a = 0 /\ b # 0
    <3>1. Fuse!Distance(track[0], track[b - 1]) <= Fuse!Distance(0, b - 1)
      BY <1>4, <1>5, <1>6, <2>5
    <3>. QED
      BY <1>3, <1>5, <1>6, <2>1, <2>5, <3>1 DEF Fuse!Distance
  <2>. QED
    BY <2>2, <2>3, <2>4, <2>5
<1>9. odomLag' \in 0 .. Freshness /\ track'[odomLag'] = track[odomLag]
  BY <1>1, <1>2, <1>4, <1>5 DEF Fuse!Ages
<1>10. TrackInv'
  BY <1>2, <1>4, <1>7, <1>8, <1>9 DEF TrackInv, Fuse!Ages
<1>11. OdomInv'
  <2>1. odom' = {[o EXCEPT !.age = @ + 1] : o \in odom}
    BY DEF Fuse!Move
  <2>2. odom \in {{}} \cup {{n} : n \in [at : 0 .. Span, age : 0 .. Freshness]}
    BY DEF FusionInv, OdomInv
  <2>3. CASE odom = {}
    <3>1. odom' = {}
      BY <2>1, <2>3
    <3>. QED
      BY <3>1 DEF OdomInv
  <2>4. CASE odom # {}
    <3>1. PICK n \in [at : 0 .. Span, age : 0 .. Freshness] : odom = {n}
      BY <2>2, <2>4
    <3>2. n.at = track[n.age] /\ n.age <= odomLag /\ n.age \in 0 .. Freshness /\ n.at \in 0 .. Span
      BY <3>1 DEF FusionInv, OdomInv
    <3>. DEFINE o == [n EXCEPT !.age = n.age + 1]
    <3>3. odom' = {o}
      BY <2>1, <3>1
    <3>4. o \in [at : 0 .. Span, age : 0 .. Freshness] /\ o.at = n.at /\ o.age = n.age + 1
      BY <1>1, <1>2, <1>4, <3>2
    <3>. HIDE DEF o
    <3>5. track'[o.age] = track[n.age]
      <4>1. n.age + 1 \in Fuse!Ages /\ n.age + 1 # 0 /\ n.age + 1 - 1 = n.age
        BY <1>1, <3>2 DEF Fuse!Ages
      <4>2. track'[n.age + 1] = track[n.age + 1 - 1]
        BY <1>5, <4>1
      <4>. QED
        BY <3>4, <4>1, <4>2
    <3>6. o.at = track'[o.age] /\ o.age <= odomLag'
      BY <1>2, <1>4, <3>2, <3>4, <3>5
    <3>. QED
      BY <3>3, <3>4, <3>6 DEF OdomInv
  <2>. QED
    BY <2>3, <2>4
<1>12. MeasuredInv'
  <2>. DEFINE Aged(m) == [m EXCEPT !.age = Fuse!Older(m.age, Freshness + 1)]
  <2>1. measured' = [s \in Sources |-> {Aged(m) : m \in measured[s]}]
    BY DEF Fuse!Move
  <2>2. ASSUME NEW n \in [at : 0 .. Span, age : Fuse!Ages]
        PROVE  /\ Aged(n) \in [at : 0 .. Span, age : Fuse!Ages]
               /\ (n.age <= Freshness => n.at = track[n.age]) =>
                    (Aged(n).age <= Freshness => Aged(n).at = track'[Aged(n).age])
    <3>1. n.age \in Fuse!Ages /\ n.at \in 0 .. Span
      OBVIOUS
    <3>2. Fuse!Older(n.age, Freshness + 1) \in Fuse!Ages
      BY <1>1, <3>1 DEF Fuse!Older, Fuse!Ages
    <3>3. /\ Aged(n) \in [at : 0 .. Span, age : Fuse!Ages] /\ Aged(n).at = n.at
          /\ Aged(n).age = Fuse!Older(n.age, Freshness + 1)
      BY <3>1, <3>2
    <3>4. Fuse!Older(n.age, Freshness + 1) <= Freshness =>
            n.age <= Freshness /\ track'[Fuse!Older(n.age, Freshness + 1)] = track[n.age]
      BY <1>1, <1>5, <3>1, <3>2 DEF Fuse!Older, Fuse!Ages
    <3>. QED
      BY <3>3, <3>4
  <2>. HIDE DEF Aged
  <2>3. ASSUME NEW s \in Sources
        PROVE  /\ measured'[s] \in {{}} \cup {{m} : m \in [at : 0 .. Span, age : Fuse!Ages]}
               /\ \A m \in measured'[s] : m.age <= Freshness => m.at = track'[m.age]
    <3>1. measured'[s] = {Aged(m) : m \in measured[s]}
      BY <2>1
    <3>2. measured[s] \in {{}} \cup {{m} : m \in [at : 0 .. Span, age : Fuse!Ages]}
      BY DEF FusionInv, MeasuredInv
    <3>3. CASE measured[s] = {}
      <4>1. measured'[s] = {}
        BY <3>1, <3>3
      <4>. QED
        BY <4>1
    <3>4. CASE measured[s] # {}
      <4>1. PICK n \in [at : 0 .. Span, age : Fuse!Ages] : measured[s] = {n}
        BY <3>2, <3>4
      <4>2. n.age <= Freshness => n.at = track[n.age]
        BY <4>1 DEF FusionInv, MeasuredInv
      <4>3. measured'[s] = {Aged(n)}
        BY <3>1, <4>1
      <4>. QED
        BY <2>2, <4>2, <4>3
    <3>. QED
      BY <3>3, <3>4
  <2>4. measured' \in [Sources -> {{}} \cup {{m} : m \in [at : 0 .. Span, age : Fuse!Ages]}]
    BY <2>1, <2>3
  <2>. QED
    BY <2>3, <2>4 DEF MeasuredInv, Fuse!Ages
<1>13. Ok(core', counted')
  <2>. DEFINE last == [s \in Sources |-> Fuse!Older(core.last[s], Fuse!Never)]
              new_ == [core EXCEPT !.last = last]
  <2>1. core' = new_
    BY DEF Fuse!Move
  <2>2. core \in Cores
    BY DEF FusionInv, Ok
  <2>3. last \in [Sources -> 0 .. Fuse!Never]
    BY <1>1, <2>2 DEF Cores, Fuse!Older, Fuse!Never
  <2>. HIDE DEF last
  <2>4. new_ \in Cores /\ new_.pose = core.pose /\ new_.anchored = core.anchored
    BY <2>2, <2>3 DEF Cores
  <2>. HIDE DEF new_
  <2>5. Ok(core, counted) /\ counted' = counted
    BY <1>2 DEF FusionInv
  <2>. QED
    BY <2>1, <2>4, <2>5 DEF Ok
<1>. QED
  BY <1>2, <1>10, <1>11, <1>12, <1>13 DEF FusionInv

LEMMA FusionTickKeeps == ASSUME FusionAssumptions, FusionInv, Fuse!Tick PROVE FusionInv'
<1>1. /\ core' \in Fuse!Processed /\ odom' = {} /\ new' = [s \in Sources |-> FALSE]
      /\ UNCHANGED <<track, measured, good>>
  BY DEF Fuse!Tick
<1>2. TrackInv /\ MeasuredInv /\ odomLag \in 0 .. Freshness /\ counted = track[odomLag]
  BY DEF FusionInv, TrackInv
<1>3. OdomInv' /\ MeasuredInv'
  BY <1>1, <1>2 DEF OdomInv, MeasuredInv
<1>4. new' \in [Sources -> BOOLEAN] /\ good' \in [Sources -> BOOLEAN]
  BY <1>1 DEF FusionInv
<1>5. CASE odom = {}
  <2>1. UNCHANGED <<counted, odomLag>>
    BY <1>5 DEF Fuse!Tick
  <2>2. Ok(Fuse!Propagated, track[odomLag])
    BY <1>5, PropagatedIsOk
  <2>3. Ok(core', track[odomLag])
    BY <1>1, <1>2, <2>2, ProcessedIsOk
  <2>4. TrackInv' /\ Ok(core', counted')
    BY <1>1, <1>2, <2>1, <2>3 DEF TrackInv
  <2>. QED
    BY <1>3, <1>4, <2>4 DEF FusionInv
<1>6. CASE odom # {}
  <2>1. PICK o \in odom : counted' = o.at /\ odomLag' = o.age
    BY <1>6 DEF Fuse!Tick
  <2>2. o.age \in 0 .. Freshness /\ o.at = track[o.age] /\ Ok(Fuse!Propagated, track[o.age])
    BY <2>1, PropagatedIsOk
  <2>3. Ok(core', track[o.age])
    BY <1>1, <1>2, <2>2, ProcessedIsOk
  <2>4. TrackInv' /\ Ok(core', counted')
    BY <1>1, <1>2, <2>1, <2>2, <2>3 DEF TrackInv
  <2>. QED
    BY <1>3, <1>4, <2>4 DEF FusionInv
<1>. QED
  BY <1>5, <1>6

LEMMA FusionNextInv == ASSUME FusionAssumptions, FusionInv, [Fuse!Next]_Fuse!vars PROVE FusionInv'
<1>1. Span \in Nat /\ Freshness \in Nat
  BY DEF FusionAssumptions
<1>2. CASE Fuse!Move
  BY <1>2, MoveKeeps
<1>3. CASE Fuse!Tick
  BY <1>3, FusionTickKeeps
<1>4. CASE Fuse!OnOdom
  <2>. DEFINE o == [at |-> track[0], age |-> 0]
  <2>1. odom' = {o} /\ UNCHANGED <<track, counted, odomLag, measured, new, good, core>>
    BY <1>4 DEF Fuse!OnOdom
  <2>2. track[0] \in 0 .. Span /\ odomLag \in 0 .. Freshness
    BY <1>1 DEF FusionInv, TrackInv, Fuse!Ages
  <2>3. o \in [at : 0 .. Span, age : 0 .. Freshness] /\ o.at = track[0] /\ o.age = 0
    BY <1>1, <2>2
  <2>. HIDE DEF o
  <2>4. OdomInv'
    BY <1>1, <2>1, <2>2, <2>3 DEF OdomInv
  <2>5. TrackInv' /\ MeasuredInv' /\ Ok(core', counted')
    BY <2>1 DEF FusionInv, TrackInv, MeasuredInv, Ok
  <2>. QED
    BY <2>1, <2>4, <2>5 DEF FusionInv
<1>5. ASSUME NEW s \in Sources, Fuse!OnMeasurement(s) PROVE FusionInv'
  <2>1. PICK a \in 0 .. Freshness : measured' = [measured EXCEPT ![s] = {[at |-> track[a], age |-> a]}]
    BY <1>5 DEF Fuse!OnMeasurement
  <2>. DEFINE m == [at |-> track[a], age |-> a]
  <2>2. a \in Fuse!Ages /\ track[a] \in 0 .. Span
    BY <1>1 DEF FusionInv, TrackInv, Fuse!Ages
  <2>3. m \in [at : 0 .. Span, age : Fuse!Ages] /\ m.at = track[a] /\ m.age = a
    BY <2>2
  <2>4. measured' = [measured EXCEPT ![s] = {m}]
    BY <2>1
  <2>. HIDE DEF m
  <2>5. UNCHANGED <<track, counted, odom, odomLag, core>>
    BY <1>5 DEF Fuse!OnMeasurement
  <2>6. new' \in [Sources -> BOOLEAN] /\ good' \in [Sources -> BOOLEAN]
    BY <1>5 DEF Fuse!OnMeasurement, FusionInv
  <2>7. MeasuredInv'
    BY <2>3, <2>4, <2>5 DEF FusionInv, MeasuredInv
  <2>8. TrackInv' /\ OdomInv' /\ Ok(core', counted')
    BY <2>5 DEF FusionInv, TrackInv, OdomInv, Ok
  <2>. QED
    BY <2>6, <2>7, <2>8 DEF FusionInv
<1>6. ASSUME NEW s \in Sources, Fuse!OnQuality(s) PROVE FusionInv'
  <2>1. new' \in [Sources -> BOOLEAN] /\ good' \in [Sources -> BOOLEAN]
    BY <1>6 DEF Fuse!OnQuality, FusionInv
  <2>2. UNCHANGED <<track, counted, odom, odomLag, measured, core>>
    BY <1>6 DEF Fuse!OnQuality
  <2>3. TrackInv' /\ OdomInv' /\ MeasuredInv' /\ Ok(core', counted')
    BY <2>2 DEF FusionInv, TrackInv, OdomInv, MeasuredInv, Ok
  <2>. QED
    BY <2>1, <2>3 DEF FusionInv
<1>7. CASE UNCHANGED Fuse!vars
  BY <1>7 DEF Fuse!vars, FusionInv, TrackInv, OdomInv, MeasuredInv, Ok
<1>. QED
  BY <1>2, <1>3, <1>4, <1>5, <1>6, <1>7 DEF Fuse!Next

\* Once it is anchored the pose is no farther from where the odometry left the robot
\* than the robot gets while a measurement stays fresh
\* (MultisourceFusionCore.process), for any track, freshness, gate and step.
THEOREM FusionErrorIsBounded ==
  ASSUME FusionAssumptions
  PROVE  Fuse!Spec => [](Fuse!TypeOK /\ Fuse!ErrorStaysSmall)
<1>1. ASSUME FusionInv PROVE Fuse!TypeOK /\ Fuse!ErrorStaysSmall
  <2>1. Span \in Nat /\ Freshness \in Nat /\ Origin \in 0 .. Span
    BY DEF FusionAssumptions
  <2>2. counted \in 0 .. Span
    BY <1>1, <2>1 DEF FusionInv, TrackInv, Fuse!Ages
  <2>3. core \in Cores /\ Ok(core, counted)
    BY <1>1 DEF FusionInv, Ok
  <2>4. ASSUME NEW p \in core.pose PROVE p \in -Span .. 2 * Span
    <3>1. p \in Int
      BY <2>3 DEF Cores
    <3>2. CASE core.anchored
      <4>1. Fuse!Distance(p, counted) <= Span
        BY <2>3, <3>2 DEF Ok
      <4>. QED
        BY <2>1, <2>2, <3>1, <4>1 DEF Fuse!Distance
    <3>3. CASE ~core.anchored
      BY <2>1, <2>2, <2>3, <3>3 DEF Ok
    <3>. QED
      BY <3>2, <3>3
  <2>5. Fuse!TypeOK
    BY <1>1, <2>2, <2>3, <2>4 DEF Fuse!TypeOK, FusionInv, TrackInv, OdomInv, MeasuredInv,
       Cores
  <2>6. Fuse!ErrorStaysSmall
    BY <2>3 DEF Ok, Fuse!ErrorStaysSmall
  <2>. QED
    BY <2>5, <2>6
<1>2. FusionInv /\ [Fuse!Next]_Fuse!vars => FusionInv'
  BY FusionNextInv
<1>. QED
  BY FusionInitInv, <1>1, <1>2, PTL DEF Fuse!Spec

-----------------------------------------------------------------------------
(* The agent's operations.  Only the current operation moves the robot (Serial),   *)
(* what is queued has ended (Ended), and the worker's place fits the operation it  *)
(* waits for (WorkerOK); a ledger that is updated only goes on (Later).            *)

\* The planner asks for actions, and a turn may take a step.
AgentAssumptions ==
  /\ Kinds \subseteq Agent!Actions
  /\ MaxOps \in Nat /\ MaxRequests \in Nat /\ MaxSteps \in Nat \ {0}

States == {"absent", "created", "sent", "accepted", "running"} \cup Agent!Terminal
Records == [state : States, kind : Agent!Actions \cup {"none", "stop", "release"}, target : 0 .. MaxOps]
Ledgers == [Agent!Ids -> Records]
AgentWorkers == [pc : {"idle", "planning", "published", "waiting", "interrupting", "interrupted"},
                 op : 0 .. MaxOps, resumed : BOOLEAN, steps : 0 .. MaxSteps]

\* A record that is under way.
Open(outcome) == outcome \notin Agent!Terminal \cup {"absent"}

\* What becomes of a ledger when it is read or updated: nothing that has ended
\* begins again, and nothing is added.
Later(l, k) ==
  /\ k \in Ledgers
  /\ \A o \in Agent!Ids : /\ k[o].kind = l[o].kind
                          /\ l[o].state \in Agent!Terminal => k[o].state = l[o].state
                          /\ Open(k[o].state) => Open(l[o].state)

\* The operation that may be under way: one that is published and not yet marked,
\* or the one the suspended turn waits for.
Current(w, p) == IF w.pc = "published" THEN w.op ELSE p

\* Only the current operation moves the robot, what the queue tells of has ended, and
\* the worker's place fits the operation it waits for.
Serial(l, current) == \A o \in Agent!Ids : Open(l[o].state) /\ l[o].kind \in Agent!Actions => o = current
Ended(l, q) == \A i \in 1 .. Len(q) : q[i] # 0 => l[q[i]].state \in Agent!Terminal
AgentWithin(q, n) == \E i \in 1 .. Len(q) : q[i] = n

WorkerOK(w, p) ==
  /\ w.pc \in {"planning", "published"} => p = 0
  /\ w.pc = "planning" => w.steps > 0
  /\ w.pc = "published" => w.op # 0
  /\ w.pc = "waiting" => w.op = p
  /\ w.pc \in {"waiting", "interrupting", "interrupted"} => p # 0

\* What the node was asked to look after is waited for, and it is looked after.
Waited(p, c, q, w, k) ==
  k => p # 0 /\ (c = p \/ AgentWithin(q, p) \/ (w.pc = "waiting" /\ w.op = p))

AgentInv ==
  /\ Agent!TypeOK
  /\ Serial(ops, Current(worker, pending)) /\ Ended(ops, queue)
  /\ WorkerOK(worker, pending)
  /\ Waited(pending, context, queue, worker, known)

-----------------------------------------------------------------------------
LEMMA AgentNumbers ==
  ASSUME AgentAssumptions
  PROVE  /\ MaxOps \in Nat /\ MaxRequests \in Nat /\ MaxSteps \in Nat /\ MaxSteps > 0
         /\ Agent!Ids = 1 .. MaxOps /\ Kinds \subseteq Agent!Actions
BY DEF AgentAssumptions, Agent!Ids

LEMMA AgentIs ==
  ASSUME AgentAssumptions, AgentInv
  PROVE  /\ ops \in Ledgers /\ late \subseteq Agent!Ids /\ stops \subseteq Agent!Ids
         /\ robot \in [Agent!Ids -> {"none", "given", "busy", "done"}]
         /\ reports \in [Agent!Ids -> Seq({"running"} \cup Agent!Terminal)]
         /\ queue \in Seq(0 .. MaxOps) /\ pending \in 0 .. MaxOps /\ context \in 0 .. MaxOps
         /\ known \in BOOLEAN /\ worker \in AgentWorkers /\ lease \in {"none", "active", "release_requested"}
         /\ reaping \in BOOLEAN /\ requests \in 0 .. MaxRequests
BY DEF AgentInv, Agent!TypeOK, Ledgers, Records, States, AgentWorkers

LEMMA IdleIs ==
  ASSUME AgentAssumptions
  PROVE  Agent!Idle \in AgentWorkers /\ Agent!Idle.pc = "idle" /\ Agent!Idle.op = 0
BY AgentNumbers DEF Agent!Idle, AgentWorkers

LEMMA LaterIsReflexive == ASSUME NEW l \in Ledgers PROVE Later(l, l)
BY DEF Later

LEMMA LaterIsTransitive ==
  ASSUME NEW l, NEW k, NEW m, Later(l, k), Later(k, m)
  PROVE  Later(l, m)
BY DEF Later

LEMMA ChangedIsLater ==
  ASSUME AgentAssumptions, NEW l \in Ledgers, NEW o \in Agent!Ids, NEW outcome \in States,
         l[o].state \in Agent!Terminal => outcome = l[o].state,
         Open(outcome) => Open(l[o].state)
  PROVE  Later(l, [l EXCEPT ![o].state = outcome])
<1>. DEFINE record == [l[o] EXCEPT !.state = outcome]
            k == [l EXCEPT ![o].state = outcome]
<1>1. l[o] \in Records
  BY DEF Ledgers
<1>4. /\ record \in Records /\ record.state = outcome /\ record.kind = l[o].kind
  BY <1>1 DEF Records
<1>5. k = [l EXCEPT ![o] = record]
  OBVIOUS
<1>6. k = [l EXCEPT ![o].state = outcome]
  OBVIOUS
<1>. HIDE DEF record, k
<1>2. /\ k \in Ledgers /\ k[o].state = outcome /\ k[o].kind = l[o].kind
      /\ \A p \in Agent!Ids : p # o => k[p] = l[p]
  BY <1>4, <1>5 DEF Ledgers
<1>3. ASSUME NEW p \in Agent!Ids
      PROVE  /\ k[p].kind = l[p].kind
             /\ l[p].state \in Agent!Terminal => k[p].state = l[p].state
             /\ Open(k[p].state) => Open(l[p].state)
  <2>1. CASE p = o
    BY <1>2, <2>1
  <2>2. CASE p # o
    <3>1. k[p] = l[p]
      BY <1>2, <2>2
    <3>. QED
      BY <3>1
  <2>. QED
    BY <2>1, <2>2
<1>7. Later(l, k)
  BY <1>2, <1>3 DEF Later
<1>. QED
  BY <1>6, <1>7

LEMMA ExpiredIsLater ==
  ASSUME AgentAssumptions, NEW l \in Ledgers, NEW o \in Agent!Ids
  PROVE  Later(l, Agent!Expired(l, o))
<1>1. CASE l[o].state \notin Agent!Terminal /\ o \in late
  <2>1. Agent!Expired(l, o) = [l EXCEPT ![o].state = "timeout"]
    BY <1>1 DEF Agent!Expired
  <2>2. "timeout" \in States /\ ~Open("timeout")
    BY DEF States, Agent!Terminal, Open
  <2>3. Later(l, [l EXCEPT ![o].state = "timeout"])
    BY <1>1, <2>2, ChangedIsLater
  <2>. QED
    BY <2>1, <2>3
<1>2. CASE ~(l[o].state \notin Agent!Terminal /\ o \in late)
  <2>1. Agent!Expired(l, o) = l
    BY <1>2 DEF Agent!Expired
  <2>. QED
    BY <2>1, LaterIsReflexive
<1>. QED
  BY <1>1, <1>2

LEMMA UpdatedIsLater ==
  ASSUME AgentAssumptions, NEW l \in Ledgers, NEW o \in Agent!Ids,
         NEW outcome \in {"sent", "running"} \cup Agent!Terminal
  PROVE  Later(l, Agent!Updated(l, o, outcome))
<1>1. CASE outcome = l[o].state \/ outcome \in Agent!After(l[o].state)
  <2>1. Agent!Updated(l, o, outcome) = [l EXCEPT ![o].state = outcome]
    BY <1>1 DEF Agent!Updated
  <2>2. outcome \in States
    BY DEF States
  <2>3. l[o].state \in States
    BY DEF Ledgers, Records
  <2>4. l[o].state \in Agent!Terminal \cup {"absent"} => outcome = l[o].state
    <3>1. \A s \in Agent!Terminal \cup {"absent"} : Agent!After(s) = {}
      BY DEF Agent!After, Agent!Terminal
    <3>. QED
      BY <1>1, <3>1
  <2>5. Later(l, [l EXCEPT ![o].state = outcome])
    BY <2>2, <2>4, ChangedIsLater DEF Open
  <2>. QED
    BY <2>1, <2>5
<1>2. CASE ~(outcome = l[o].state \/ outcome \in Agent!After(l[o].state))
  <2>1. Agent!Updated(l, o, outcome) = l
    BY <1>2 DEF Agent!Updated
  <2>. QED
    BY <2>1, LaterIsReflexive
<1>. QED
  BY <1>1, <1>2

LEMMA AllExpiredIsLater ==
  ASSUME AgentAssumptions, NEW l \in Ledgers
  PROVE  Later(l, Agent!AllExpired(l))
<1>1. \A o \in Agent!Ids : Later(l, Agent!Expired(l, o))
  BY ExpiredIsLater
<1>2. \A o \in Agent!Ids : Agent!AllExpired(l)[o] = Agent!Expired(l, o)[o]
  BY DEF Agent!AllExpired
<1>3. \A o \in Agent!Ids : Agent!Expired(l, o)[o] \in Records
  BY <1>1 DEF Later, Ledgers
<1>4. Agent!AllExpired(l) \in Ledgers
  BY <1>3 DEF Agent!AllExpired, Ledgers
<1>. QED
  BY <1>1, <1>2, <1>4 DEF Later

LEMMA NextIdIsFree ==
  ASSUME AgentAssumptions, Agent!Free # {}
  PROVE  Agent!NextId \in Agent!Ids /\ ops[Agent!NextId].state = "absent"
<1>1. Agent!Free \subseteq Nat
  BY AgentNumbers DEF Agent!Free
<1>2. PICK o \in Agent!Free : \A p \in Agent!Free : ~(p < o)
  <2>1. \E o \in Agent!Free : \A p \in Agent!Free : ~(<<p, o>> \in OpToRel(<, Nat))
    BY <1>1, WFMin, NatLessThanWellFounded
  <2>. QED
    BY <1>1, <2>1 DEF OpToRel
<1>3. \A p \in Agent!Free : o <= p
  BY <1>1, <1>2
<1>4. Agent!NextId \in Agent!Free
  BY <1>3, Zenon DEF Agent!NextId
<1>. QED
  BY <1>4 DEF Agent!Free

\* A new operation leaves the others as they were after the reading.
LEMMA RecordedIs ==
  ASSUME AgentAssumptions, AgentInv, Agent!Free # {},
         NEW kind \in Agent!Actions \cup {"stop", "release"}, NEW goal \in 0 .. MaxOps
  PROVE  LET k == Agent!Recorded(Agent!AllExpired(ops), kind, goal)
         IN /\ k \in Ledgers /\ k[Agent!NextId].kind = kind
            /\ \A o \in Agent!Ids \ {Agent!NextId} : k[o] = Agent!AllExpired(ops)[o]
<1>. DEFINE record == [state |-> "created", kind |-> kind, target |-> goal]
<1>1. record \in Records /\ record.kind = kind
  BY DEF Records, States
<1>2. Agent!AllExpired(ops) \in Ledgers
  BY AgentIs, AllExpiredIsLater DEF Later
<1>3. Agent!Recorded(Agent!AllExpired(ops), kind, goal) = [Agent!AllExpired(ops) EXCEPT ![Agent!NextId] = record]
  BY DEF Agent!Recorded
<1>. HIDE DEF record
<1>. QED
  BY <1>1, <1>2, <1>3, NextIdIsFree DEF Ledgers

-----------------------------------------------------------------------------
LEMMA LaterKeeps ==
  ASSUME NEW l, NEW k, Later(l, k), NEW q \in Seq(0 .. MaxOps), NEW c, MaxOps \in Nat
  PROVE  /\ Serial(l, c) => Serial(k, c)
         /\ Ended(l, q) => Ended(k, q)
<1>1. Serial(l, c) => Serial(k, c)
  BY DEF Later, Serial
<1>2. ASSUME Ended(l, q), NEW i \in 1 .. Len(q), q[i] # 0 PROVE k[q[i]].state \in Agent!Terminal
  <2>1. q[i] \in Agent!Ids
    BY <1>2 DEF Agent!Ids
  <2>2. l[q[i]].state \in Agent!Terminal
    BY <1>2 DEF Ended
  <2>. QED
    BY <2>1, <2>2 DEF Later
<1>. QED
  BY <1>1, <1>2 DEF Ended

\* A ledger with a new operation of the kind none of whose are serial, or of one
\* that is the only one.
LEMMA RecordedKeeps ==
  ASSUME AgentAssumptions, AgentInv, Agent!Free # {}, NEW kind \in Agent!Actions \cup {"stop", "release"},
         NEW k \in Ledgers, k[Agent!NextId].kind = kind,
         \A o \in Agent!Ids \ {Agent!NextId} : k[o] = Agent!AllExpired(ops)[o]
  PROVE  /\ Ended(k, queue)
         /\ kind \notin Agent!Actions => Serial(k, Current(worker, pending))
         /\ \A o \in Agent!Ids \ {Agent!NextId} :
              Open(k[o].state) /\ k[o].kind \in Agent!Actions => o = Current(worker, pending)
<1>1. Later(ops, Agent!AllExpired(ops))
  BY AgentIs, AllExpiredIsLater
<1>2. Serial(Agent!AllExpired(ops), Current(worker, pending)) /\ Ended(Agent!AllExpired(ops), queue)
  BY <1>1, AgentIs, AgentNumbers, LaterKeeps DEF AgentInv
<1>3. ops[Agent!NextId].state = "absent"
  BY NextIdIsFree
<1>4. ASSUME NEW i \in 1 .. Len(queue), queue[i] # 0 PROVE k[queue[i]].state \in Agent!Terminal
  <2>1. queue[i] \in Agent!Ids
    BY <1>4, AgentIs, AgentNumbers
  <2>2. ops[queue[i]].state \in Agent!Terminal
    BY <1>4 DEF AgentInv, Ended
  <2>3. queue[i] # Agent!NextId
    BY <1>3, <2>2 DEF Agent!Terminal
  <2>4. Agent!AllExpired(ops)[queue[i]].state \in Agent!Terminal
    BY <1>2, <1>4 DEF Ended
  <2>. QED
    BY <2>1, <2>3, <2>4
<1>5. \A o \in Agent!Ids \ {Agent!NextId} :
        Open(k[o].state) /\ k[o].kind \in Agent!Actions => o = Current(worker, pending)
  BY <1>2 DEF Serial
<1>. QED
  BY <1>4, <1>5 DEF Ended, Serial

LEMMA QueueShrinks ==
  ASSUME NEW l, MaxOps \in Nat, NEW q \in Seq(0 .. MaxOps), q # << >>, Ended(l, q)
  PROVE  /\ Tail(q) \in Seq(0 .. MaxOps) /\ Ended(l, Tail(q)) /\ Head(q) \in 0 .. MaxOps
         /\ Head(q) # 0 => l[Head(q)].state \in Agent!Terminal
         /\ \A n : AgentWithin(q, n) /\ n # Head(q) => AgentWithin(Tail(q), n)
<1>1. /\ Len(q) \in Nat /\ Len(q) > 0 /\ Tail(q) \in Seq(0 .. MaxOps) /\ Len(Tail(q)) = Len(q) - 1
      /\ \A i \in 1 .. Len(q) - 1 : Tail(q)[i] = q[i + 1]
      /\ Head(q) = q[1] /\ Head(q) \in 0 .. MaxOps
  <2>1. Len(q) \in Nat /\ Len(q) > 0
    OBVIOUS
  <2>2. Tail(q) \in Seq(0 .. MaxOps) /\ Len(Tail(q)) = Len(q) - 1
    BY <2>1
  <2>3. \A i \in 1 .. Len(q) - 1 : Tail(q)[i] = q[i + 1]
    BY <2>1
  <2>4. Head(q) = q[1]
    BY <2>1
  <2>5. \A i \in 1 .. Len(q) : q[i] \in 0 .. MaxOps
    OBVIOUS
  <2>6. 1 \in 1 .. Len(q)
    BY <2>1
  <2>7. q[1] \in 0 .. MaxOps
    BY <2>5, <2>6
  <2>. QED
    BY <2>1, <2>2, <2>3, <2>4, <2>7
<1>2. ASSUME NEW i \in 1 .. Len(Tail(q)) PROVE Tail(q)[i] = q[i + 1] /\ i + 1 \in 1 .. Len(q)
  BY <1>1
<1>3. Ended(l, Tail(q))
  BY <1>2 DEF Ended
<1>4. 1 \in 1 .. Len(q)
  BY <1>1
<1>5. Head(q) # 0 => l[Head(q)].state \in Agent!Terminal
  BY <1>1, <1>4 DEF Ended
<1>6. ASSUME NEW n, AgentWithin(q, n), n # Head(q) PROVE AgentWithin(Tail(q), n)
  <2>1. PICK i \in 1 .. Len(q) : q[i] = n
    BY <1>6 DEF AgentWithin
  <2>2. i # 1
    BY <1>1, <1>6, <2>1
  <2>3. i - 1 \in 1 .. Len(Tail(q)) /\ (i - 1) + 1 = i
    BY <1>1, <2>2
  <2>4. Tail(q)[i - 1] = n
    BY <1>2, <2>1, <2>3
  <2>. QED
    BY <2>3, <2>4 DEF AgentWithin
<1>. QED
  BY <1>1, <1>3, <1>5, <1>6

LEMMA QueueGrows ==
  ASSUME NEW l, MaxOps \in Nat, NEW q \in Seq(0 .. MaxOps), NEW n \in 0 .. MaxOps, Ended(l, q),
         n # 0 => l[n].state \in Agent!Terminal
  PROVE  /\ Append(q, n) \in Seq(0 .. MaxOps) /\ Ended(l, Append(q, n))
         /\ AgentWithin(Append(q, n), n)
         /\ \A m : AgentWithin(q, m) => AgentWithin(Append(q, n), m)
<1>1. /\ Append(q, n) \in Seq(0 .. MaxOps) /\ Len(Append(q, n)) = Len(q) + 1 /\ Len(q) \in Nat
      /\ Append(q, n)[Len(q) + 1] = n
      /\ \A i \in 1 .. Len(q) : Append(q, n)[i] = q[i]
  OBVIOUS
<1>2. Len(q) + 1 \in 1 .. Len(Append(q, n))
  BY <1>1
<1>3. ASSUME NEW i \in 1 .. Len(Append(q, n)), Append(q, n)[i] # 0
      PROVE  l[Append(q, n)[i]].state \in Agent!Terminal
  <2>1. CASE i \in 1 .. Len(q)
    BY <1>1, <1>3, <2>1 DEF Ended
  <2>2. CASE i = Len(q) + 1
    BY <1>1, <1>3, <2>2
  <2>. QED
    BY <1>1, <2>1, <2>2
<1>4. ASSUME NEW m, AgentWithin(q, m) PROVE AgentWithin(Append(q, n), m)
  <2>1. PICK i \in 1 .. Len(q) : q[i] = m
    BY <1>4 DEF AgentWithin
  <2>2. i \in 1 .. Len(Append(q, n)) /\ Append(q, n)[i] = m
    BY <1>1, <2>1
  <2>. QED
    BY <2>2 DEF AgentWithin
<1>. QED
  BY <1>1, <1>2, <1>3, <1>4 DEF Ended, AgentWithin

LEMMA AgentParts ==
  ASSUME AgentAssumptions, AgentInv
  PROVE  /\ Serial(ops, Current(worker, pending)) /\ Ended(ops, queue)
         /\ WorkerOK(worker, pending) /\ Waited(pending, context, queue, worker, known)
BY DEF AgentInv

LEMMA AgentAgain ==
  ASSUME Agent!TypeOK', Serial(ops, Current(worker, pending))', Ended(ops, queue)',
         WorkerOK(worker, pending)', Waited(pending, context, queue, worker, known)'
  PROVE  AgentInv'
BY DEF AgentInv

-----------------------------------------------------------------------------
\* The types of what a step leaves alone or sets.
LEMMA TypesAgain ==
  ASSUME ops' \in Ledgers, late' \subseteq Agent!Ids, stops' \subseteq Agent!Ids,
         robot' \in [Agent!Ids -> {"none", "given", "busy", "done"}],
         reports' \in [Agent!Ids -> Seq({"running"} \cup Agent!Terminal)],
         queue' \in Seq(0 .. MaxOps), pending' \in 0 .. MaxOps, context' \in 0 .. MaxOps,
         known' \in BOOLEAN, worker' \in AgentWorkers, lease' \in {"none", "active", "release_requested"},
         reaping' \in BOOLEAN, requests' \in 0 .. MaxRequests
  PROVE  Agent!TypeOK'
BY DEF Agent!TypeOK, Ledgers, Records, States, AgentWorkers

LEMMA TurnsKeep ==
  ASSUME AgentAssumptions, AgentInv, Agent!Observe \/ Agent!Wait \/ Agent!Finish \/ Agent!NotInterrupted
  PROVE  AgentInv'
<1>1. UNCHANGED <<Agent!ledger, Agent!outside, queue, pending, lease, reaping, stops, requests>>
  BY DEF Agent!Observe, Agent!Wait, Agent!Finish, Agent!NotInterrupted
<1>2. /\ Serial(ops, Current(worker, pending)) /\ Ended(ops, queue)
      /\ WorkerOK(worker, pending) /\ Waited(pending, context, queue, worker, known)
  BY AgentParts
<1>9. known' \in BOOLEAN /\ (~ Agent!Wait => UNCHANGED known)
  BY AgentIs DEF Agent!Observe, Agent!Wait, Agent!Finish, Agent!NotInterrupted, Agent!waited
<1>3. worker' \in AgentWorkers /\ context' \in 0 .. MaxOps
  <2>1. CASE Agent!Observe
    <3>1. worker.steps \in 0 .. MaxSteps /\ MaxSteps \in Nat /\ worker.steps > 1
      BY <2>1, AgentIs, AgentNumbers DEF Agent!Observe, AgentWorkers
    <3>2. worker.steps - 1 \in 0 .. MaxSteps
      BY <3>1
    <3>. QED
      BY <2>1, <3>2, AgentIs DEF Agent!Observe, AgentWorkers, Agent!waited
  <2>2. CASE Agent!Wait \/ Agent!Finish
    <3>1. worker.op \in 0 .. MaxOps /\ 0 \in 0 .. MaxOps
      BY AgentIs, AgentNumbers DEF AgentWorkers
    <3>. QED
      BY <2>2, <3>1, AgentIs, IdleIs DEF Agent!Wait, Agent!Finish
  <2>3. CASE Agent!NotInterrupted
    BY <2>3, AgentIs DEF Agent!NotInterrupted, AgentWorkers, Agent!waited
  <2>. QED
    BY <2>1, <2>2, <2>3
<1>4. Agent!TypeOK'
  BY <1>1, <1>3, <1>9, AgentIs, TypesAgain DEF Agent!ledger, Agent!outside
<1>5. CASE Agent!Observe
  <2>. DEFINE w == [worker EXCEPT !.steps = worker.steps - 1]
  <2>1. /\ worker' = w /\ context' = context /\ known' = known
        /\ worker.pc = "planning" /\ worker.steps > 1
    BY <1>5 DEF Agent!Observe, Agent!waited
  <2>2. w.pc = worker.pc /\ w.op = worker.op /\ w.steps = worker.steps - 1
        /\ worker.steps \in 0 .. MaxSteps
    BY AgentIs DEF AgentWorkers
  <2>. HIDE DEF w
  <2>3. w.steps > 0
    BY <2>1, <2>2, AgentNumbers
  <2>. QED
    BY <1>1, <1>2, <1>4, <2>1, <2>2, <2>3, AgentAgain DEF Agent!ledger, Current, WorkerOK,
       Waited
<1>6. CASE Agent!Wait
  <2>1. worker' = Agent!Idle /\ context' = worker.op /\ known' = TRUE /\ worker.pc = "waiting"
    BY <1>6 DEF Agent!Wait
  <2>. QED
    BY <1>1, <1>2, <1>4, <2>1, IdleIs, AgentAgain DEF Agent!ledger, Current, WorkerOK,
       Waited
<1>7. CASE Agent!Finish
  <2>1. worker' = Agent!Idle /\ known' = known /\ worker.pc = "planning"
    BY <1>7 DEF Agent!Finish
  <2>. QED
    BY <1>1, <1>2, <1>4, <2>1, IdleIs, AgentAgain DEF Agent!ledger, Current, WorkerOK,
       Waited
<1>8. CASE Agent!NotInterrupted
  <2>. DEFINE w == [worker EXCEPT !.pc = "waiting", !.op = pending]
  <2>1. worker' = w /\ context' = context /\ known' = known /\ worker.pc = "interrupting"
    BY <1>8 DEF Agent!NotInterrupted, Agent!waited
  <2>2. w.pc = "waiting" /\ w.op = pending
    BY AgentIs DEF AgentWorkers
  <2>. HIDE DEF w
  <2>. QED
    BY <1>1, <1>2, <1>4, <2>1, <2>2, AgentAgain DEF Agent!ledger, Current, WorkerOK, Waited
<1>. QED
  BY <1>5, <1>6, <1>7, <1>8

LEMMA TakeRequestKeeps == ASSUME AgentAssumptions, AgentInv, Agent!TakeRequest PROVE AgentInv'
<1>1. /\ worker.pc = "idle" /\ queue # << >> /\ Head(queue) = 0 /\ queue' = Tail(queue)
      /\ UNCHANGED <<Agent!ledger, Agent!outside, pending, context, known, lease, reaping, stops, requests>>
  BY DEF Agent!TakeRequest, Agent!waited
<1>2. /\ Serial(ops, Current(worker, pending)) /\ Ended(ops, queue)
      /\ WorkerOK(worker, pending) /\ Waited(pending, context, queue, worker, known)
  BY AgentParts
<1>3. /\ queue' \in Seq(0 .. MaxOps) /\ Ended(ops, queue')
      /\ \A n : AgentWithin(queue, n) /\ n # 0 => AgentWithin(queue', n)
  BY <1>1, <1>2, AgentIs, AgentNumbers, QueueShrinks
<1>. DEFINE asking == [Agent!Idle EXCEPT !.pc = "interrupting"]
            planning == [Agent!Idle EXCEPT !.pc = "planning", !.steps = MaxSteps]
<1>4. asking \in AgentWorkers /\ asking.pc = "interrupting"
  BY IdleIs DEF AgentWorkers
<1>5. planning \in AgentWorkers /\ planning.pc = "planning" /\ planning.steps = MaxSteps
  <2>1. MaxSteps \in 0 .. MaxSteps
    BY AgentNumbers
  <2>. QED
    BY <2>1, IdleIs DEF AgentWorkers
<1>6. worker' = IF pending # 0 THEN asking ELSE planning
  BY DEF Agent!TakeRequest
<1>. HIDE DEF asking, planning
<1>7. Agent!TypeOK'
  BY <1>1, <1>3, <1>4, <1>5, <1>6, AgentIs, TypesAgain DEF Agent!ledger, Agent!outside
<1>8. WorkerOK(worker', pending) /\ Current(worker', pending) = Current(worker, pending)
  BY <1>1, <1>4, <1>5, <1>6, AgentNumbers DEF WorkerOK, Current
<1>9. Waited(pending, context, queue', worker', known)
  BY <1>1, <1>2, <1>3 DEF Waited
<1>. QED
  BY <1>1, <1>2, <1>3, <1>7, <1>8, <1>9, AgentAgain DEF Agent!ledger

\* A ledger to which the release of the runtime is added.
LEMMA ReleasedIs ==
  ASSUME AgentAssumptions, AgentInv, Agent!Free # {}
  PROVE  LET k == [Agent!Recorded(Agent!AllExpired(ops), "release", 0) EXCEPT ![Agent!NextId].state = "sent"]
         IN /\ k \in Ledgers /\ Ended(k, queue)
            /\ Serial(k, Current(worker, pending))
<1>. DEFINE l == Agent!Recorded(Agent!AllExpired(ops), "release", 0)
            k == [l EXCEPT ![Agent!NextId].state = "sent"]
            record == [l[Agent!NextId] EXCEPT !.state = "sent"]
<1>1. /\ l \in Ledgers /\ l[Agent!NextId].kind = "release"
      /\ \A o \in Agent!Ids \ {Agent!NextId} : l[o] = Agent!AllExpired(ops)[o]
  <2>1. 0 \in 0 .. MaxOps
    BY AgentNumbers
  <2>. QED
    BY <2>1, RecordedIs
<1>. HIDE DEF l
<1>2. l[Agent!NextId] \in Records /\ Agent!NextId \in Agent!Ids
  BY <1>1, NextIdIsFree DEF Ledgers
<1>3. record \in Records /\ record.kind = "release"
  BY <1>1, <1>2 DEF Records, States
<1>4. k = [l EXCEPT ![Agent!NextId] = record]
  OBVIOUS
<1>. HIDE DEF k, record
<1>5. /\ k \in Ledgers /\ k[Agent!NextId].kind = "release"
      /\ \A o \in Agent!Ids \ {Agent!NextId} : k[o] = Agent!AllExpired(ops)[o]
  BY <1>1, <1>2, <1>3, <1>4 DEF Ledgers
<1>6. "release" \notin Agent!Actions
  BY DEF Agent!Actions
<1>7. Ended(k, queue) /\ Serial(k, Current(worker, pending))
  BY <1>5, <1>6, RecordedKeeps
<1>. QED
  BY <1>5, <1>7 DEF k, l

LEMMA TakeFeedbackKeeps == ASSUME AgentAssumptions, AgentInv, Agent!TakeFeedback PROVE AgentInv'
<1>. DEFINE o == Head(queue)
<1>1. /\ worker.pc = "idle" /\ queue # << >> /\ o # 0 /\ queue' = Tail(queue)
      /\ UNCHANGED <<late, reports, context, reaping, stops, requests>>
  BY DEF Agent!TakeFeedback
<1>2. /\ Serial(ops, Current(worker, pending)) /\ Ended(ops, queue)
      /\ WorkerOK(worker, pending) /\ Waited(pending, context, queue, worker, known)
  BY AgentParts
<1>3. /\ queue' \in Seq(0 .. MaxOps)
      /\ \A n : AgentWithin(queue, n) /\ n # o => AgentWithin(queue', n)
      /\ \A l : Ended(l, queue) => Ended(l, queue') /\ (o # 0 => l[o].state \in Agent!Terminal)
  BY <1>1, <1>2, AgentIs, AgentNumbers, QueueShrinks
<1>4. CASE o # pending
  <2>1. UNCHANGED <<pending, known, worker, lease, ops, robot>>
    BY <1>4 DEF Agent!TakeFeedback
  <2>2. Agent!TypeOK'
    BY <1>1, <1>3, <2>1, AgentIs, TypesAgain
  <2>3. Waited(pending, context, queue', worker, known)
    BY <1>2, <1>3, <1>4 DEF Waited
  <2>. QED
    BY <1>1, <1>2, <1>3, <2>1, <2>2, <2>3, AgentAgain
<1>5. CASE o = pending
  <2>. DEFINE w == [Agent!Idle EXCEPT !.pc = "planning", !.resumed = TRUE, !.steps = MaxSteps]
              k == [Agent!Recorded(Agent!AllExpired(ops), "release", 0) EXCEPT ![Agent!NextId].state = "sent"]
  <2>1. pending' = 0 /\ known' = FALSE /\ worker' = w
    BY <1>5 DEF Agent!TakeFeedback
  <2>2. w \in AgentWorkers /\ w.pc = "planning" /\ w.steps = MaxSteps
    <3>1. MaxSteps \in 0 .. MaxSteps
      BY AgentNumbers
    <3>. QED
      BY <3>1, IdleIs DEF AgentWorkers
  <2>. HIDE DEF w
  <2>3. lease' \in {"none", "active", "release_requested"}
    BY <1>5, AgentIs DEF Agent!TakeFeedback
  <2>4. \/ ops' = ops /\ robot' = robot
        \/ Agent!Free # {} /\ ops' = k /\ robot' = [robot EXCEPT ![Agent!NextId] = "given"]
    BY <1>5 DEF Agent!TakeFeedback
  <2>5. robot' \in [Agent!Ids -> {"none", "given", "busy", "done"}]
    BY <2>4, AgentIs
  <2>6. Agent!Free # {} => k \in Ledgers /\ Ended(k, queue) /\ Serial(k, Current(worker, pending))
    BY ReleasedIs
  <2>. HIDE DEF k
  <2>7. ops' \in Ledgers /\ Ended(ops', queue) /\ Serial(ops', Current(worker, pending))
    BY <1>2, <2>4, <2>6, AgentIs
  <2>8. Ended(ops', queue') /\ ops'[o].state \in Agent!Terminal
    BY <1>1, <1>3, <2>7
  <2>9. Serial(ops', Current(worker', pending'))
    <3>1. Current(worker, pending) = o
      BY <1>1, <1>5 DEF Current
    <3>2. \A p \in Agent!Ids : ~(Open(ops'[p].state) /\ ops'[p].kind \in Agent!Actions)
      BY <2>7, <2>8, <3>1 DEF Serial, Open
    <3>. QED
      BY <3>2 DEF Serial
  <2>10. Agent!TypeOK'
    <3>1. pending' \in 0 .. MaxOps
      BY <2>1, AgentNumbers
    <3>. QED
      BY <1>1, <1>3, <2>1, <2>2, <2>3, <2>5, <2>7, <3>1, AgentIs, TypesAgain
  <2>11. WorkerOK(worker', pending') /\ Waited(pending', context', queue', worker', known')
    BY <2>1, <2>2, AgentNumbers DEF WorkerOK, Waited
  <2>. QED
    BY <2>8, <2>9, <2>10, <2>11, AgentAgain
<1>. QED
  BY <1>4, <1>5

LEMMA ActKeeps == ASSUME AgentAssumptions, AgentInv, Agent!Act PROVE AgentInv'
<1>1. /\ worker.pc = "planning"
      /\ UNCHANGED <<queue, pending, context, known, lease, reaping, stops, requests>>
  BY DEF Agent!Act, Agent!waited
<1>2. PICK kind \in Kinds : Agent!Publish(kind, 0)
  BY DEF Agent!Act
<1>3. /\ Agent!Free # {} /\ ops' = Agent!Recorded(Agent!AllExpired(ops), kind, 0)
      /\ robot' = [robot EXCEPT ![Agent!NextId] = "given"] /\ UNCHANGED <<late, reports>>
  BY <1>2 DEF Agent!Publish
<1>4. kind \in Agent!Actions /\ 0 \in 0 .. MaxOps
  BY AgentNumbers
<1>5. /\ ops' \in Ledgers /\ ops'[Agent!NextId].kind = kind
      /\ \A o \in Agent!Ids \ {Agent!NextId} : ops'[o] = Agent!AllExpired(ops)[o]
  BY <1>3, <1>4, RecordedIs
<1>6. Agent!NextId \in Agent!Ids /\ Agent!NextId \in 0 .. MaxOps /\ Agent!NextId # 0
  BY <1>3, NextIdIsFree, AgentNumbers
<1>7. /\ Serial(ops, Current(worker, pending)) /\ WorkerOK(worker, pending)
  BY AgentParts
<1>8. pending = 0 /\ worker.steps > 0 /\ worker.steps \in 0 .. MaxSteps
  BY <1>1, <1>7, AgentIs DEF WorkerOK, AgentWorkers
<1>. DEFINE w == [worker EXCEPT !.pc = "published", !.op = Agent!NextId, !.steps = worker.steps - 1]
<1>9. worker' = w
  BY DEF Agent!Act
<1>10. w \in AgentWorkers /\ w.pc = "published" /\ w.op = Agent!NextId
  <2>1. worker.steps - 1 \in 0 .. MaxSteps
    BY <1>8, AgentNumbers
  <2>. QED
    BY <1>6, <2>1, AgentIs DEF AgentWorkers
<1>. HIDE DEF w
<1>11. /\ Ended(ops', queue)
       /\ \A o \in Agent!Ids \ {Agent!NextId} :
             Open(ops'[o].state) /\ ops'[o].kind \in Agent!Actions => o = Current(worker, pending)
  BY <1>3, <1>4, <1>5, RecordedKeeps
<1>12. Serial(ops', Current(worker', pending'))
  <2>1. Current(worker, pending) = 0 /\ Current(worker', pending') = Agent!NextId
    BY <1>1, <1>8, <1>9, <1>10 DEF Current
  <2>2. \A o \in Agent!Ids : o # 0
    BY AgentNumbers
  <2>. QED
    BY <1>11, <2>1, <2>2 DEF Serial
<1>13. robot' \in [Agent!Ids -> {"none", "given", "busy", "done"}]
  BY <1>3, AgentIs
<1>14. Agent!TypeOK'
  BY <1>1, <1>3, <1>5, <1>9, <1>10, <1>13, AgentIs, TypesAgain
<1>15. WorkerOK(worker', pending') /\ Waited(pending', context', queue', worker', known')
  BY <1>1, <1>6, <1>8, <1>9, <1>10, AgentParts DEF WorkerOK, Waited
<1>. QED
  BY <1>1, <1>11, <1>12, <1>14, <1>15, AgentAgain

LEMMA SentKeeps == ASSUME AgentAssumptions, AgentInv, Agent!Suspend \/ Agent!SuspendBroken \/ Agent!Interrupted
  PROVE AgentInv'
<1>1. /\ UNCHANGED <<late, Agent!outside, queue, known, lease, reaping, stops, requests>>
      /\ ~ Agent!SuspendBroken => UNCHANGED context
  BY DEF Agent!Suspend, Agent!SuspendBroken, Agent!Interrupted, Agent!waited
<1>2. ops' = Agent!Updated(ops, worker.op, "sent")
  BY DEF Agent!Suspend, Agent!SuspendBroken, Agent!Interrupted
<1>3. /\ Serial(ops, Current(worker, pending)) /\ Ended(ops, queue)
      /\ WorkerOK(worker, pending) /\ Waited(pending, context, queue, worker, known)
  BY AgentParts
<1>4. worker.op \in 0 .. MaxOps
  BY AgentIs DEF AgentWorkers
<1>5. worker.op \in Agent!Ids => Later(ops, ops')
  BY <1>2, AgentIs, UpdatedIsLater
<1>6. worker.op = 0 => Later(ops, ops')
  <2>1. ASSUME worker.op = 0 PROVE ops' = ops
    <3>1. 0 \notin Agent!Ids
      BY AgentNumbers
    <3>2. [ops EXCEPT ![0].state = "sent"] = ops
      BY <3>1, AgentIs DEF Ledgers
    <3>. QED
      BY <1>2, <2>1, <3>2 DEF Agent!Updated
  <2>. QED
    BY <2>1, AgentIs, LaterIsReflexive
<1>7. Later(ops, ops')
  BY <1>4, <1>5, <1>6, AgentNumbers
<1>8. /\ ops' \in Ledgers /\ Ended(ops', queue) /\ Serial(ops', Current(worker, pending))
  BY <1>3, <1>7, AgentIs, AgentNumbers, LaterKeeps DEF Later
<1>11. CASE Agent!SuspendBroken
  <2>1. /\ worker.pc = "published" /\ pending' = worker.op /\ worker' = Agent!Idle
        /\ context' = context \/ context' = 0
    BY <1>11 DEF Agent!SuspendBroken
  <2>2. pending = 0 /\ known = FALSE
    BY <1>3, <2>1, AgentIs DEF WorkerOK, Waited
  <2>3. Agent!TypeOK'
    <3>1. context' \in 0 .. MaxOps
      BY <2>1, AgentIs, AgentNumbers
    <3>. QED
      BY <1>1, <1>4, <1>8, <2>1, <3>1, AgentIs, IdleIs, TypesAgain DEF Agent!outside
  <2>4. Current(worker', pending') = Current(worker, pending)
    BY <2>1, IdleIs DEF Current
  <2>5. WorkerOK(worker', pending') /\ Waited(pending', context', queue', worker', known')
    BY <1>1, <2>1, <2>2, IdleIs DEF WorkerOK, Waited
  <2>. QED
    BY <1>1, <1>8, <2>3, <2>4, <2>5, AgentAgain
<1>9. CASE Agent!Suspend
  <2>. DEFINE w == [worker EXCEPT !.pc = "waiting"]
  <2>1. worker.pc = "published" /\ pending' = worker.op /\ worker' = w /\ UNCHANGED context
    BY <1>9 DEF Agent!Suspend, Agent!waited
  <2>2. w \in AgentWorkers /\ w.pc = "waiting" /\ w.op = worker.op
    BY AgentIs DEF AgentWorkers
  <2>. HIDE DEF w
  <2>3. Agent!TypeOK'
    BY <1>1, <1>4, <1>8, <2>1, <2>2, AgentIs, TypesAgain DEF Agent!outside
  <2>4. Current(worker', pending') = Current(worker, pending)
    BY <2>1, <2>2 DEF Current
  <2>5. WorkerOK(worker', pending') /\ Waited(pending', context', queue', worker', known')
    BY <1>1, <1>3, <2>1, <2>2 DEF WorkerOK, Waited
  <2>. QED
    BY <1>1, <1>8, <2>3, <2>4, <2>5, AgentAgain
<1>10. CASE Agent!Interrupted
  <2>1. worker.pc = "interrupted" /\ worker' = Agent!Idle /\ UNCHANGED <<pending, context>>
    BY <1>10 DEF Agent!Interrupted, Agent!waited
  <2>2. Agent!TypeOK'
    BY <1>1, <1>8, <2>1, AgentIs, IdleIs, TypesAgain DEF Agent!outside
  <2>3. Current(worker', pending') = Current(worker, pending)
    BY <2>1, IdleIs DEF Current
  <2>4. WorkerOK(worker', pending') /\ Waited(pending', context', queue', worker', known')
    BY <1>1, <1>3, <2>1, IdleIs DEF WorkerOK, Waited
  <2>. QED
    BY <1>1, <1>8, <2>2, <2>3, <2>4, AgentAgain
<1>. QED
  BY <1>9, <1>10, <1>11

LEMMA AgentInterruptKeeps == ASSUME AgentAssumptions, AgentInv, Agent!Interrupt PROVE AgentInv'
<1>1. /\ worker.pc = "interrupting" /\ stops' = stops \cup {pending}
      /\ UNCHANGED <<queue, pending, context, known, lease, reaping, requests>>
  BY DEF Agent!Interrupt, Agent!waited
<1>2. /\ Agent!Free # {} /\ ops' = Agent!Recorded(Agent!AllExpired(ops), "stop", pending)
      /\ robot' = [robot EXCEPT ![Agent!NextId] = "given"] /\ UNCHANGED <<late, reports>>
  BY DEF Agent!Interrupt, Agent!Publish
<1>3. /\ ops' \in Ledgers /\ ops'[Agent!NextId].kind = "stop"
      /\ \A o \in Agent!Ids \ {Agent!NextId} : ops'[o] = Agent!AllExpired(ops)[o]
  <2>1. pending \in 0 .. MaxOps
    BY AgentIs
  <2>2. "stop" \in Agent!Actions \cup {"stop", "release"}
    OBVIOUS
  <2>. QED
    BY <1>2, <2>1, <2>2, AgentIs, RecordedIs
<1>4. "stop" \notin Agent!Actions
  BY DEF Agent!Actions
<1>5. Ended(ops', queue) /\ Serial(ops', Current(worker, pending))
  BY <1>2, <1>3, <1>4, RecordedKeeps
<1>6. WorkerOK(worker, pending) /\ Waited(pending, context, queue, worker, known)
  BY AgentParts
<1>. DEFINE w == [worker EXCEPT !.pc = "interrupted", !.op = Agent!NextId]
<1>7. worker' = w
  BY DEF Agent!Interrupt
<1>8. w \in AgentWorkers /\ w.pc = "interrupted"
  <2>1. Agent!NextId \in 0 .. MaxOps
    BY <1>2, NextIdIsFree, AgentNumbers
  <2>. QED
    BY <2>1, AgentIs DEF AgentWorkers
<1>. HIDE DEF w
<1>9. stops' \subseteq Agent!Ids
  <2>1. pending # 0 /\ pending \in 0 .. MaxOps
    BY <1>1, <1>6, AgentIs DEF WorkerOK
  <2>. QED
    BY <1>1, <2>1, AgentIs, AgentNumbers
<1>10. robot' \in [Agent!Ids -> {"none", "given", "busy", "done"}]
  BY <1>2, AgentIs
<1>11. Agent!TypeOK'
  BY <1>1, <1>2, <1>3, <1>7, <1>8, <1>9, <1>10, AgentIs, TypesAgain
<1>12. Current(worker', pending') = Current(worker, pending)
  BY <1>1, <1>7, <1>8 DEF Current
<1>13. WorkerOK(worker', pending') /\ Waited(pending', context', queue', worker', known')
  BY <1>1, <1>6, <1>7, <1>8 DEF WorkerOK, Waited
<1>. QED
  BY <1>1, <1>5, <1>11, <1>12, <1>13, AgentAgain

-----------------------------------------------------------------------------
LEMMA RequestKeeps == ASSUME AgentAssumptions, AgentInv, Agent!Request PROVE AgentInv'
<1>1. /\ requests < MaxRequests /\ requests' = requests + 1 /\ queue' = Append(queue, 0)
      /\ UNCHANGED <<Agent!ledger, Agent!outside, pending, context, known, worker, lease, reaping, stops>>
  BY DEF Agent!Request, Agent!waited
<1>2. /\ Serial(ops, Current(worker, pending)) /\ Ended(ops, queue)
      /\ WorkerOK(worker, pending) /\ Waited(pending, context, queue, worker, known)
  BY AgentParts
<1>3. 0 \in 0 .. MaxOps /\ requests' \in 0 .. MaxRequests
  BY <1>1, AgentIs, AgentNumbers
<1>4. /\ queue' \in Seq(0 .. MaxOps) /\ Ended(ops, queue')
      /\ \A m : AgentWithin(queue, m) => AgentWithin(queue', m)
  BY <1>1, <1>2, <1>3, AgentIs, AgentNumbers, QueueGrows
<1>5. Agent!TypeOK'
  BY <1>1, <1>3, <1>4, AgentIs, TypesAgain DEF Agent!ledger, Agent!outside
<1>6. Waited(pending, context, queue', worker, known)
  BY <1>2, <1>4 DEF Waited
<1>. QED
  BY <1>1, <1>2, <1>4, <1>5, <1>6, AgentAgain DEF Agent!ledger

\* A reading of the ledger after which an operation that has ended may be handed
\* to the worker.
LEMMA HandedKeeps ==
  ASSUME AgentAssumptions, AgentInv, Later(ops, ops'),
         UNCHANGED <<pending, known, worker>>,
         \/ UNCHANGED <<queue, context>>
         \/ /\ context # 0 /\ ops'[context].state \in Agent!Terminal
            /\ context' = 0 /\ queue' = Append(queue, context)
  PROVE  /\ queue' \in Seq(0 .. MaxOps) /\ context' \in 0 .. MaxOps /\ ops' \in Ledgers
         /\ Serial(ops', Current(worker', pending')) /\ Ended(ops', queue')
         /\ WorkerOK(worker', pending') /\ Waited(pending', context', queue', worker', known')
<1>1. /\ Serial(ops, Current(worker, pending)) /\ Ended(ops, queue)
      /\ WorkerOK(worker, pending) /\ Waited(pending, context, queue, worker, known)
  BY AgentParts
<1>2. ops' \in Ledgers /\ Serial(ops', Current(worker, pending)) /\ Ended(ops', queue)
  BY <1>1, AgentIs, AgentNumbers, LaterKeeps DEF Later
<1>3. CASE UNCHANGED <<queue, context>>
  BY <1>1, <1>2, <1>3, AgentIs
<1>4. CASE /\ context # 0 /\ ops'[context].state \in Agent!Terminal
           /\ context' = 0 /\ queue' = Append(queue, context)
  <2>1. /\ queue' \in Seq(0 .. MaxOps) /\ Ended(ops', queue') /\ AgentWithin(queue', context)
        /\ \A m : AgentWithin(queue, m) => AgentWithin(queue', m)
    BY <1>2, <1>4, AgentIs, AgentNumbers, QueueGrows
  <2>2. Waited(pending, context', queue', worker, known)
    BY <1>1, <2>1 DEF Waited
  <2>3. context' \in 0 .. MaxOps
    BY <1>4, AgentNumbers
  <2>. QED
    BY <1>1, <1>2, <2>1, <2>2, <2>3
<1>. QED
  BY <1>3, <1>4

LEMMA FeedbackKeeps ==
  ASSUME AgentAssumptions, AgentInv, NEW o \in Agent!Ids, Agent!Feedback(o)
  PROVE  AgentInv'
<1>. DEFINE told == Agent!Updated(Agent!Expired(ops, o), o, Head(reports[o]))
            goal == told[o].target
            stopped == goal # 0 /\ told[o].state \in Agent!Terminal
            after == IF stopped THEN Agent!Updated(told, goal, "canceled") ELSE told
            over == IF Agent!Handed(after, o) THEN o
                    ELSE IF stopped /\ Agent!Handed(after, goal) THEN goal ELSE 0
<1>1. /\ reports[o] # << >> /\ reports' = [reports EXCEPT ![o] = Tail(reports[o])]
      /\ ops' = after
      /\ context' = IF over # 0 THEN 0 ELSE context
      /\ queue' = IF over # 0 THEN Append(queue, over) ELSE queue
      /\ UNCHANGED <<late, robot, pending, known, worker, lease, reaping, stops, requests>>
  BY DEF Agent!Feedback
<1>2. reports[o] \in Seq({"running"} \cup Agent!Terminal)
  BY AgentIs
<1>3. /\ Head(reports[o]) \in {"running"} \cup Agent!Terminal
      /\ Tail(reports[o]) \in Seq({"running"} \cup Agent!Terminal)
  <2>. DEFINE Word == {"running"} \cup Agent!Terminal
              s == reports[o]
  <2>1. s \in Seq(Word) /\ s # << >>
    BY <1>1, <1>2
  <2>. HIDE DEF Word, s
  <2>2. Head(s) \in Word /\ Tail(s) \in Seq(Word)
    BY <2>1
  <2>. QED
    BY <2>2 DEF Word, s
<1>4. Later(ops, told)
  <2>1. Later(ops, Agent!Expired(ops, o))
    BY AgentIs, ExpiredIsLater
  <2>2. Agent!Expired(ops, o) \in Ledgers
    BY <2>1 DEF Later
  <2>3. Head(reports[o]) \in {"sent", "running"} \cup Agent!Terminal
    BY <1>3
  <2>4. Later(Agent!Expired(ops, o), told)
    BY <2>2, <2>3, UpdatedIsLater
  <2>. QED
    BY <2>1, <2>4, LaterIsTransitive
<1>. HIDE DEF told
<1>5. told \in Ledgers /\ goal \in 0 .. MaxOps
  BY <1>4 DEF Later, Ledgers, Records
<1>6. Later(ops, after)
  <2>1. CASE stopped
    <3>1. goal \in Agent!Ids /\ "canceled" \in Agent!Terminal
      BY <1>5, <2>1, AgentNumbers DEF Agent!Terminal
    <3>2. Later(told, Agent!Updated(told, goal, "canceled"))
      BY <1>5, <3>1, UpdatedIsLater
    <3>3. Later(ops, Agent!Updated(told, goal, "canceled"))
      BY <1>4, <3>2, LaterIsTransitive
    <3>. QED
      BY <2>1, <3>3
  <2>2. CASE ~stopped
    BY <1>4, <2>2
  <2>. QED
    BY <2>1, <2>2
<1>7. over # 0 => over = context /\ after[over].state \in Agent!Terminal
  BY DEF Agent!Handed
<1>. HIDE DEF after, over, stopped, goal
<1>8. \/ UNCHANGED <<queue, context>>
      \/ /\ context # 0 /\ ops'[context].state \in Agent!Terminal
         /\ context' = 0 /\ queue' = Append(queue, context)
  BY <1>1, <1>7
<1>9. /\ queue' \in Seq(0 .. MaxOps) /\ context' \in 0 .. MaxOps /\ ops' \in Ledgers
      /\ Serial(ops', Current(worker', pending')) /\ Ended(ops', queue')
      /\ WorkerOK(worker', pending') /\ Waited(pending', context', queue', worker', known')
  BY <1>1, <1>6, <1>8, HandedKeeps
<1>10. reports' \in [Agent!Ids -> Seq({"running"} \cup Agent!Terminal)]
  BY <1>1, <1>3, AgentIs
<1>11. Agent!TypeOK'
  BY <1>1, <1>9, <1>10, AgentIs, TypesAgain
<1>. QED
  BY <1>9, <1>11, AgentAgain

LEMMA PollKeeps == ASSUME AgentAssumptions, AgentInv, Agent!Poll PROVE AgentInv'
<1>. DEFINE seen == Agent!Expired(ops, context)
<1>1. /\ context # 0 /\ ops' = seen
      /\ UNCHANGED <<late, Agent!outside, pending, known, worker, lease, reaping, requests>>
  BY DEF Agent!Poll
<1>2. context \in Agent!Ids
  BY <1>1, AgentIs, AgentNumbers
<1>3. Later(ops, ops')
  BY <1>1, <1>2, AgentIs, ExpiredIsLater
<1>4. \/ UNCHANGED <<queue, context, stops>>
      \/ /\ seen[context].state \in Agent!Terminal
         /\ context' = 0 /\ queue' = Append(queue, context)
         /\ stops' = stops \/ stops' = stops \cup {context}
  BY DEF Agent!Poll
<1>. HIDE DEF seen
<1>5. /\ queue' \in Seq(0 .. MaxOps) /\ context' \in 0 .. MaxOps /\ ops' \in Ledgers
      /\ Serial(ops', Current(worker', pending')) /\ Ended(ops', queue')
      /\ WorkerOK(worker', pending') /\ Waited(pending', context', queue', worker', known')
  BY <1>1, <1>3, <1>4, HandedKeeps
<1>6. stops' \subseteq Agent!Ids
  BY <1>2, <1>4, AgentIs
<1>7. Agent!TypeOK'
  BY <1>1, <1>5, <1>6, AgentIs, TypesAgain DEF Agent!outside
<1>. QED
  BY <1>5, <1>7, AgentAgain

LEMMA ReapKeeps == ASSUME AgentAssumptions, AgentInv, Agent!Reap \/ Agent!Release PROVE AgentInv'
<1>1. UNCHANGED <<late, reports, queue, pending, context, known, worker, stops, requests>>
  BY DEF Agent!Reap, Agent!Release, Agent!outside, Agent!waited
<1>2. /\ Serial(ops, Current(worker, pending)) /\ Ended(ops, queue)
      /\ WorkerOK(worker, pending) /\ Waited(pending, context, queue, worker, known)
  BY AgentParts
<1>3. lease' \in {"none", "active", "release_requested"} /\ reaping' \in BOOLEAN
  BY AgentIs DEF Agent!Reap, Agent!Release
<1>. DEFINE k == [Agent!Recorded(Agent!AllExpired(ops), "release", 0) EXCEPT ![Agent!NextId].state = "sent"]
<1>4. \/ ops' = Agent!AllExpired(ops) /\ robot' = robot
      \/ Agent!Free # {} /\ ops' = k /\ robot' = [robot EXCEPT ![Agent!NextId] = "given"]
  BY DEF Agent!Reap, Agent!Release, Agent!outside
<1>5. Agent!Free # {} => k \in Ledgers /\ Ended(k, queue) /\ Serial(k, Current(worker, pending))
  BY ReleasedIs
<1>6. LET l == Agent!AllExpired(ops)
      IN l \in Ledgers /\ Ended(l, queue) /\ Serial(l, Current(worker, pending))
  BY <1>2, AgentIs, AgentNumbers, AllExpiredIsLater, LaterKeeps DEF Later
<1>. HIDE DEF k
<1>7. ops' \in Ledgers /\ Ended(ops', queue) /\ Serial(ops', Current(worker, pending))
  BY <1>4, <1>5, <1>6
<1>8. robot' \in [Agent!Ids -> {"none", "given", "busy", "done"}]
  BY <1>4, AgentIs
<1>9. Agent!TypeOK'
  BY <1>1, <1>3, <1>7, <1>8, AgentIs, TypesAgain
<1>. QED
  BY <1>1, <1>2, <1>7, <1>9, AgentAgain

LEMMA RobotKeeps ==
  ASSUME AgentAssumptions, AgentInv, NEW o \in Agent!Ids, Agent!Begin(o) \/ Agent!End(o) \/ Agent!Deadline(o)
  PROVE  AgentInv'
<1>1. UNCHANGED <<ops, queue, pending, context, known, worker, lease, reaping, stops, requests>>
  BY DEF Agent!Begin, Agent!End, Agent!Deadline, Agent!ledger, Agent!waited
<1>2. /\ Serial(ops, Current(worker, pending)) /\ Ended(ops, queue)
      /\ WorkerOK(worker, pending) /\ Waited(pending, context, queue, worker, known)
  BY AgentParts
<1>3. late' \subseteq Agent!Ids
  BY AgentIs DEF Agent!Begin, Agent!End, Agent!Deadline, Agent!ledger
<1>4. robot' \in [Agent!Ids -> {"none", "given", "busy", "done"}]
  BY AgentIs DEF Agent!Begin, Agent!End, Agent!Deadline, Agent!outside
<1>5. reports' \in [Agent!Ids -> Seq({"running"} \cup Agent!Terminal)]
  <2>1. \/ reports' = reports
        \/ \E word \in {"running"} \cup Agent!Terminal : reports' = [reports EXCEPT ![o] = Append(reports[o], word)]
    BY DEF Agent!Begin, Agent!End, Agent!Deadline, Agent!outside, Agent!Terminal
  <2>2. ASSUME NEW word \in {"running"} \cup Agent!Terminal
        PROVE  Append(reports[o], word) \in Seq({"running"} \cup Agent!Terminal)
    <3>1. reports[o] \in Seq({"running"} \cup Agent!Terminal)
      BY AgentIs
    <3>. QED
      BY <3>1
  <2>. QED
    BY <2>1, <2>2, AgentIs
<1>6. Agent!TypeOK'
  BY <1>1, <1>3, <1>4, <1>5, AgentIs, TypesAgain
<1>. QED
  BY <1>1, <1>2, <1>6, AgentAgain

LEMMA AgentNextInv == ASSUME AgentAssumptions, AgentInv, [Agent!Next]_Agent!vars PROVE AgentInv'
<1>1. CASE Agent!Worker
  BY <1>1, TurnsKeep, TakeRequestKeeps, TakeFeedbackKeeps, ActKeeps, SentKeeps,
     AgentInterruptKeeps
    DEF Agent!Worker
<1>2. CASE Agent!Request \/ Agent!Poll \/ Agent!Reap \/ Agent!Release
  BY <1>2, RequestKeeps, PollKeeps, ReapKeeps
<1>3. ASSUME NEW o \in Agent!Ids, Agent!Feedback(o) \/ Agent!Begin(o) \/ Agent!End(o) \/ Agent!Deadline(o) PROVE AgentInv'
  BY <1>3, FeedbackKeeps, RobotKeeps
<1>4. CASE UNCHANGED Agent!vars
  <2>1. /\ Serial(ops, Current(worker, pending)) /\ Ended(ops, queue)
        /\ WorkerOK(worker, pending) /\ Waited(pending, context, queue, worker, known)
    BY AgentParts
  <2>2. UNCHANGED <<ops, late, robot, reports, queue, pending, context, known, worker, lease, reaping, stops,
                    requests>>
    BY <1>4 DEF Agent!vars
  <2>3. Agent!TypeOK'
    BY <2>2, AgentIs, TypesAgain
  <2>. QED
    BY <2>1, <2>2, <2>3, AgentAgain
<1>. QED
  BY <1>1, <1>2, <1>3, <1>4 DEF Agent!Next

LEMMA AgentInitInv == ASSUME AgentAssumptions, Agent!Init PROVE AgentInv
<1>. DEFINE none == [state |-> "absent", kind |-> "none", target |-> 0]
<1>1. 0 \in 0 .. MaxOps /\ 0 \in 0 .. MaxRequests
  BY AgentNumbers
<1>2. none \in Records /\ none.state = "absent"
  BY <1>1 DEF Records, States
<1>3. ops = [o \in Agent!Ids |-> none]
  BY DEF Agent!Init
<1>. HIDE DEF none
<1>4. ops \in Ledgers /\ \A o \in Agent!Ids : ops[o].state = "absent"
  BY <1>2, <1>3 DEF Ledgers
<1>5. queue \in Seq(0 .. MaxOps) /\ Len(queue) = 0
  BY DEF Agent!Init
<1>6. reports \in [Agent!Ids -> Seq({"running"} \cup Agent!Terminal)]
  BY DEF Agent!Init
<1>7. robot \in [Agent!Ids -> {"none", "given", "busy", "done"}]
  BY DEF Agent!Init
<1>8. /\ late = {} /\ stops = {} /\ pending = 0 /\ context = 0 /\ known = FALSE /\ worker = Agent!Idle
      /\ lease = "none"
      /\ reaping = FALSE /\ requests = 0
  BY DEF Agent!Init
<1>9. Agent!TypeOK
  BY <1>1, <1>4, <1>5, <1>6, <1>7, <1>8, IdleIs DEF Agent!TypeOK, Ledgers, Records, States,
     AgentWorkers
<1>10. Serial(ops, Current(worker, pending)) /\ Ended(ops, queue)
  BY <1>4, <1>5 DEF Serial, Ended, Open
<1>11. WorkerOK(worker, pending) /\ Waited(pending, context, queue, worker, known)
  BY <1>8, IdleIs DEF WorkerOK, Waited
<1>. QED
  BY <1>9, <1>10, <1>11 DEF AgentInv

\* What the node was asked to look after for a suspended turn always has somebody
\* who will resume the turn, and the ledger never
\* holds two of the planner's own operations that have not ended, whatever requests,
\* feedback, interrupts and stops come in between, for any operations the planner may
\* ask for and any bounds.
THEOREM AgentWaitsAndActsAlone ==
  ASSUME AgentAssumptions
  PROVE  Agent!Spec => [](Agent!TypeOK /\ Agent!WaitIsNeverForgotten /\ Agent!OneActionAtATime)
<1>1. ASSUME AgentInv PROVE Agent!TypeOK /\ Agent!WaitIsNeverForgotten /\ Agent!OneActionAtATime
  <2>1. Agent!OneActionAtATime
    BY <1>1 DEF AgentInv, Serial, Open, Agent!OneActionAtATime, Agent!Active
  <2>2. Agent!WaitIsNeverForgotten
    BY <1>1 DEF AgentInv, Waited, AgentWithin, Agent!WaitIsNeverForgotten, Agent!LookedAfter
  <2>. QED
    BY <1>1, <2>1, <2>2 DEF AgentInv
<1>2. AgentInv /\ [Agent!Next]_Agent!vars => AgentInv'
  BY AgentNextInv
<1>. QED
  BY AgentInitInv, <1>1, <1>2, PTL DEF Agent!Spec

-----------------------------------------------------------------------------
(* Motions.  What is left of a command and what the base has been driven since     *)
(* make no more than the command's own time (MotionInv).                           *)

\* The times are numbers of ticks, and a basic motion takes one.
MotionAssumptions ==
  /\ SkillTimeout \in Nat /\ Duration \in Nat \ {0} /\ PoseLoss \in Nat /\ StatusAge \in Nat

Skills == [on : BOOLEAN, left : 0 .. SkillTimeout, lost : 0 .. PoseLoss]
OwnTime == IF SkillTimeout > Duration THEN SkillTimeout ELSE Duration

\* What is left of a command and what the base has been driven since make no more
\* than the command's own time.  A timer that has fired in this period has ended
\* what had no time left.
MotionInv ==
  /\ Motion!TypeOK
  /\ velocity = "skill" => skill.on
  /\ velocity = "basic" => basic > 0
  /\ skillMode = "fault" /\ blocked > 0 => velocity # "skill"
  /\ skill.on => driven + skill.left <= OwnTime
  /\ skill.on /\ "skill" \notin motionDue => skill.left > 0
  /\ basic > 0 => driven + basic <= OwnTime \/ (Duration = 1 /\ driven <= 1)
  /\ basic = 1 /\ "basic" \notin motionDue => Duration = 1 /\ driven = 0

-----------------------------------------------------------------------------
LEMMA MotionIs ==
  ASSUME MotionAssumptions, MotionInv
  PROVE  /\ SkillTimeout \in Nat /\ Duration \in Nat /\ Duration > 0 /\ PoseLoss \in Nat
         /\ StatusAge \in Nat /\ OwnTime \in Nat /\ SkillTimeout <= OwnTime /\ Duration <= OwnTime
         /\ skill \in Skills /\ skill.on \in BOOLEAN /\ skill.left \in 0 .. SkillTimeout
         /\ skill.lost \in 0 .. PoseLoss /\ basic \in 0 .. Duration
         /\ velocity \in {"zero", "skill", "basic"} /\ motionDue \subseteq {"skill", "basic"}
         /\ blocked \in 0 .. 2 /\ driven \in 0 .. SkillTimeout + Duration + 1 /\ driven \in Nat
<1>1. /\ SkillTimeout \in Nat /\ Duration \in Nat /\ Duration > 0 /\ PoseLoss \in Nat
      /\ StatusAge \in Nat
  BY DEF MotionAssumptions
<1>2. OwnTime \in Nat /\ SkillTimeout <= OwnTime /\ Duration <= OwnTime
  BY <1>1 DEF OwnTime
<1>3. /\ skill \in Skills /\ basic \in 0 .. Duration
      /\ velocity \in {"zero", "skill", "basic"} /\ motionDue \subseteq {"skill", "basic"}
      /\ blocked \in 0 .. 2 /\ driven \in 0 .. SkillTimeout + Duration + 1
  BY DEF MotionInv, Motion!TypeOK, Skills, Motion!Cap
<1>4. skill.on \in BOOLEAN /\ skill.left \in 0 .. SkillTimeout /\ skill.lost \in 0 .. PoseLoss
  BY <1>3 DEF Skills
<1>5. driven \in Nat
  BY <1>1, <1>3
<1>. QED
  BY <1>1, <1>2, <1>3, <1>4, <1>5

LEMMA IdleSkill ==
  ASSUME MotionAssumptions
  PROVE  Motion!Idle \in Skills /\ Motion!Idle.on = FALSE
BY DEF MotionAssumptions, Motion!Idle, Skills

LEMMA SkillKeeps ==
  ASSUME MotionAssumptions, MotionInv,
         (\E t \in 1 .. SkillTimeout : Motion!SkillCommand(t)) \/ Motion!SkillStop
  PROVE  MotionInv'
<1>1. UNCHANGED <<Motion!world, basic, motionDue, blocked>>
  BY DEF Motion!SkillCommand, Motion!SkillStop
<1>2. CASE skill' = Motion!Idle /\ velocity' = "zero" /\ UNCHANGED driven
  BY <1>1, <1>2, IdleSkill, MotionIs DEF MotionInv, Motion!TypeOK, Motion!world, Skills,
     OwnTime
<1>3. CASE UNCHANGED <<skill, driven>> /\ velocity' \in {velocity, "zero"}
  BY <1>1, <1>3, MotionIs DEF MotionInv, Motion!TypeOK, Motion!world, OwnTime
<1>4. ASSUME NEW t \in 1 .. SkillTimeout, skill' = [on |-> TRUE, left |-> t, lost |-> 0],
             driven' = 0, UNCHANGED velocity, ~skill.on
      PROVE  MotionInv'
  <2>. DEFINE s == [on |-> TRUE, left |-> t, lost |-> 0]
  <2>1. s \in Skills /\ s.on = TRUE /\ s.left = t
    <3>1. t \in 0 .. SkillTimeout /\ 0 \in 0 .. PoseLoss
      BY MotionIs
    <3>. QED
      BY <3>1 DEF Skills
  <2>2. skill' = s
    BY <1>4
  <2>. HIDE DEF s
  <2>3. Motion!TypeOK'
    <3>1. driven' \in 0 .. Motion!Cap
      BY <1>4, MotionIs DEF Motion!Cap
    <3>. QED
      BY <1>1, <1>4, <2>1, <2>2, <3>1 DEF MotionInv, Motion!TypeOK, Motion!world, Skills,
         Motion!Cap
  <2>. QED
    BY <1>1, <1>4, <2>1, <2>2, <2>3, MotionIs DEF MotionInv, Motion!world, OwnTime
<1>5. CASE Motion!SkillStop
  BY <1>2, <1>3, <1>5 DEF Motion!SkillStop, Motion!StopSkill
<1>6. ASSUME NEW t \in 1 .. SkillTimeout, Motion!SkillCommand(t) PROVE MotionInv'
  BY <1>2, <1>3, <1>4, <1>6 DEF Motion!SkillCommand, Motion!StopSkill
<1>. QED
  BY <1>5, <1>6

LEMMA SkillTickKeeps == ASSUME MotionAssumptions, MotionInv, Motion!SkillTick PROVE MotionInv'
<1>1. /\ "skill" \in motionDue /\ motionDue' = motionDue \ {"skill"}
      /\ UNCHANGED <<Motion!world, basic, driven>>
  BY DEF Motion!SkillTick
<1>2. /\ blocked' \in 0 .. 2
      /\ blocked' > 0 => blocked > 0 \/ skillMode = "fault"
  BY MotionIs DEF Motion!SkillTick
<1>. DEFINE told == [skill EXCEPT !.lost = 0]
<1>3. told \in Skills /\ told.on = skill.on /\ told.left = skill.left
  BY MotionIs DEF Skills
<1>4. \/ ~skill.on /\ UNCHANGED <<skill, velocity>>
      \/ skill' = Motion!Idle /\ velocity' = "zero"
      \/ skill.on /\ skill.left > 0 /\ ~Motion!Blocked /\ skill' = skill /\ velocity' = "zero"
      \/ skill.on /\ skill.left > 0 /\ ~Motion!Blocked /\ skill' = told /\ velocity' = "skill"
  BY DEF Motion!SkillTick, Motion!StopSkill
<1>. HIDE DEF told
<1>5. Motion!TypeOK'
  BY <1>1, <1>2, <1>3, <1>4, IdleSkill, MotionIs DEF MotionInv, Motion!TypeOK,
     Motion!world, Skills, Motion!Cap
<1>6. CASE ~skill.on /\ UNCHANGED <<skill, velocity>>
  BY <1>1, <1>5, <1>6, MotionIs DEF MotionInv, Motion!world, OwnTime
<1>7. CASE skill' = Motion!Idle /\ velocity' = "zero"
  BY <1>1, <1>5, <1>7, IdleSkill, MotionIs DEF MotionInv, Motion!world, OwnTime
<1>8. CASE skill.on /\ skill.left > 0 /\ ~Motion!Blocked /\ skill' = skill /\ velocity' = "zero"
  BY <1>1, <1>5, <1>8, MotionIs DEF MotionInv, Motion!world, OwnTime
<1>9. CASE skill.on /\ skill.left > 0 /\ ~Motion!Blocked /\ skill' = told /\ velocity' = "skill"
  <2>1. skillMode # "fault"
    BY <1>9 DEF Motion!Blocked
  <2>. QED
    BY <1>1, <1>3, <1>5, <1>9, <2>1, MotionIs DEF MotionInv, Motion!world, OwnTime
<1>. QED
  BY <1>4, <1>6, <1>7, <1>8, <1>9

LEMMA BasicKeeps ==
  ASSUME MotionAssumptions, MotionInv, Motion!BasicCommand \/ Motion!BasicStop
  PROVE  MotionInv'
<1>1. UNCHANGED <<Motion!world, skill, motionDue, blocked>>
  BY DEF Motion!BasicCommand, Motion!BasicStop
<1>2. CASE UNCHANGED <<basic, velocity, driven>>
  BY <1>1, <1>2, MotionIs DEF MotionInv, Motion!TypeOK, Motion!world, OwnTime
<1>3. CASE basic' = 0 /\ velocity' = "zero" /\ UNCHANGED driven
  <2>1. Motion!TypeOK'
    BY <1>1, <1>3, MotionIs DEF MotionInv, Motion!TypeOK, Motion!world, Motion!Cap
  <2>. QED
    BY <1>1, <1>3, <2>1, MotionIs DEF MotionInv, Motion!world, OwnTime
<1>4. CASE basic' = Duration /\ velocity' = "basic" /\ driven' = 0
  <2>1. driven' \in 0 .. Motion!Cap /\ basic' \in 0 .. Duration
    BY <1>4, MotionIs DEF Motion!Cap
  <2>2. Motion!TypeOK'
    BY <1>1, <1>4, <2>1 DEF MotionInv, Motion!TypeOK, Motion!world, Motion!Cap
  <2>. QED
    BY <1>1, <1>4, <2>2, MotionIs DEF MotionInv, Motion!world, OwnTime
<1>. QED
  BY <1>2, <1>3, <1>4 DEF Motion!BasicCommand, Motion!BasicStop

LEMMA BasicTickKeeps == ASSUME MotionAssumptions, MotionInv, Motion!BasicTick PROVE MotionInv'
<1>1. /\ "basic" \in motionDue /\ motionDue' = motionDue \ {"basic"}
      /\ UNCHANGED <<Motion!world, skill, blocked, driven>>
  BY DEF Motion!BasicTick
<1>2. \/ basic = 0 /\ UNCHANGED <<basic, velocity>>
      \/ basic \in {1, 2} /\ basic' = 0 /\ velocity' = "zero"
      \/ basic > 1 /\ velocity' = "basic" /\ UNCHANGED basic
  BY DEF Motion!BasicTick
<1>3. Motion!TypeOK'
  BY <1>1, <1>2, MotionIs DEF MotionInv, Motion!TypeOK, Motion!world, Skills, Motion!Cap
<1>. QED
  BY <1>1, <1>2, <1>3, MotionIs DEF MotionInv, Motion!world, OwnTime

LEMMA PassKeeps == ASSUME MotionAssumptions, MotionInv, Motion!Pass PROVE MotionInv'
<1>1. /\ motionDue = {} /\ motionDue' = {"skill", "basic"}
      /\ UNCHANGED <<skillMode, basicMode, pose, velocity, blocked>>
  BY DEF Motion!Pass
<1>. DEFINE left == IF skill.left = 0 THEN 0 ELSE skill.left - 1
            missing == IF skill.lost < PoseLoss THEN skill.lost + 1 ELSE skill.lost
            s == [skill EXCEPT !.left = left, !.lost = missing]
            older == IF chassis.age > StatusAge THEN chassis.age ELSE chassis.age + 1
            c == [chassis EXCEPT !.age = older]
<1>2. skill' = IF skill.on THEN s ELSE skill
  BY DEF Motion!Pass
<1>3. left \in 0 .. SkillTimeout /\ missing \in 0 .. PoseLoss /\ (skill.left > 0 => left = skill.left - 1)
  BY MotionIs
<1>4. s \in Skills /\ s.on = skill.on /\ s.left = left
  <2>. HIDE DEF left, missing
  <2>. QED
    BY <1>3, MotionIs DEF Skills
<1>5. chassis' \in [online : BOOLEAN, age : 0 .. StatusAge + 1]
  <2>1. chassis \in [online : BOOLEAN, age : 0 .. StatusAge + 1]
    BY DEF MotionInv, Motion!TypeOK
  <2>2. older \in 0 .. StatusAge + 1
    BY <2>1, MotionIs
  <2>3. chassis' = c
    BY DEF Motion!Pass
  <2>. HIDE DEF older
  <2>. QED
    BY <2>1, <2>2, <2>3
<1>. HIDE DEF s, left, missing
<1>6. basic' = IF basic > 1 THEN basic - 1 ELSE basic
  BY DEF Motion!Pass
<1>7. /\ driven' \in 0 .. SkillTimeout + Duration + 1 /\ driven' \in Nat
      /\ driven' <= driven + 1 /\ basic' \in 0 .. Duration
  BY <1>6, MotionIs DEF Motion!Pass, Motion!Cap
<1>8. Motion!TypeOK'
  BY <1>1, <1>2, <1>4, <1>5, <1>7, MotionIs DEF MotionInv, Motion!TypeOK, Skills, Motion!Cap
<1>9. skill'.on = skill.on
  BY <1>2, <1>4
<1>10. skill.on => skill'.left = skill.left - 1 /\ skill.left > 0
  BY <1>1, <1>2, <1>3, <1>4, MotionIs DEF MotionInv
<1>11. skill'.on => driven' + skill'.left <= OwnTime
  BY <1>7, <1>9, <1>10, MotionIs DEF MotionInv
<1>12. basic' > 0 => driven' + basic' <= OwnTime \/ (Duration = 1 /\ driven' <= 1)
  <2>1. CASE basic > 1
    <3>1. basic > 0 /\ Duration # 1
      BY <2>1, MotionIs
    <3>2. driven + basic <= OwnTime
      BY <3>1 DEF MotionInv
    <3>. QED
      BY <1>6, <1>7, <2>1, <3>2, MotionIs
  <2>2. CASE basic = 1
    BY <1>1, <1>6, <1>7, <2>2, MotionIs DEF MotionInv
  <2>3. CASE basic = 0
    BY <1>6, <2>3
  <2>. QED
    BY <2>1, <2>2, <2>3, MotionIs
<1>13. velocity' = "basic" => basic' > 0
  BY <1>1, <1>6, MotionIs DEF MotionInv
<1>. QED
  BY <1>1, <1>8, <1>9, <1>11, <1>12, <1>13 DEF MotionInv, OwnTime

LEMMA WorldKeeps ==
  ASSUME MotionAssumptions, MotionInv,
         \/ \E m \in Motion!Modes : Motion!SkillModeChanges(m) \/ Motion!BasicModeChanges(m)
         \/ \E online \in BOOLEAN : Motion!ChassisReports(online)
         \/ Motion!PoseChanges
  PROVE  MotionInv'
<1>1. UNCHANGED <<skill, basic, velocity, motionDue, driven>>
  BY DEF Motion!SkillModeChanges, Motion!BasicModeChanges, Motion!ChassisReports,
     Motion!PoseChanges
<1>2. /\ skillMode' \in Motion!Modes /\ basicMode' \in Motion!Modes /\ pose' \in BOOLEAN
      /\ blocked' \in 0 .. 2
  <2>1. skillMode' \in Motion!Modes /\ basicMode' \in Motion!Modes /\ pose' \in BOOLEAN
    BY DEF Motion!SkillModeChanges, Motion!BasicModeChanges, Motion!ChassisReports,
       Motion!PoseChanges, MotionInv, Motion!TypeOK
  <2>2. blocked' = blocked \/ blocked' = 0
    BY DEF Motion!SkillModeChanges, Motion!BasicModeChanges, Motion!ChassisReports,
       Motion!PoseChanges
  <2>. QED
    BY <2>1, <2>2, MotionIs
<1>3. chassis' \in [online : BOOLEAN, age : 0 .. StatusAge + 1]
  <2>1. 0 \in 0 .. StatusAge + 1
    BY MotionIs
  <2>. QED
    BY <2>1 DEF Motion!SkillModeChanges, Motion!BasicModeChanges, Motion!ChassisReports,
       Motion!PoseChanges, MotionInv, Motion!TypeOK
<1>4. skillMode' = "fault" /\ blocked' > 0 => skillMode = "fault" /\ blocked > 0
  BY MotionIs DEF Motion!SkillModeChanges, Motion!BasicModeChanges, Motion!ChassisReports,
     Motion!PoseChanges
<1>5. Motion!TypeOK'
  BY <1>1, <1>2, <1>3 DEF MotionInv, Motion!TypeOK, Motion!Cap
<1>. QED
  BY <1>1, <1>4, <1>5 DEF MotionInv, OwnTime

LEMMA MotionNextInv == ASSUME MotionAssumptions, MotionInv, [Motion!Next]_Motion!vars PROVE MotionInv'
<1>1. CASE UNCHANGED Motion!vars
  BY <1>1 DEF Motion!vars, MotionInv, Motion!TypeOK, OwnTime, Motion!Cap
<1>. QED
  BY <1>1, SkillKeeps, SkillTickKeeps, BasicKeeps, BasicTickKeeps, PassKeeps,
     WorldKeeps DEF Motion!Next

LEMMA MotionInitInv == ASSUME MotionAssumptions, Motion!Init PROVE MotionInv
<1>1. StatusAge \in Nat /\ SkillTimeout \in Nat /\ Duration \in Nat
  BY DEF MotionAssumptions
<1>2. /\ skill = Motion!Idle /\ basic = 0 /\ skillMode = "ready" /\ basicMode = "ready"
      /\ pose = FALSE
      /\ velocity = "zero" /\ motionDue = {"skill", "basic"} /\ blocked = 0 /\ driven = 0
  BY DEF Motion!Init
<1>3. chassis \in [online : BOOLEAN, age : 0 .. StatusAge + 1]
  BY <1>1 DEF Motion!Init
<1>4. basic \in 0 .. Duration /\ blocked \in 0 .. 2 /\ driven \in 0 .. Motion!Cap
  BY <1>1, <1>2 DEF Motion!Cap
<1>5. Motion!TypeOK
  BY <1>2, <1>3, <1>4, IdleSkill DEF Motion!TypeOK, Skills, Motion!Modes
<1>. QED
  <2>1. skill.on = FALSE /\ velocity = "zero" /\ basic = 0 /\ blocked = 0
    BY <1>2, IdleSkill
  <2>. QED
    BY <1>5, <2>1 DEF MotionInv

\* The topic carries no velocity that nobody is going to end, and no command keeps the
\* base moving for longer than its own time, whatever the skill node and the basic
\* motion node publish over each other, for any durations and time limits.
THEOREM MotionsEnd ==
  ASSUME MotionAssumptions
  PROVE  Motion!Spec => [](Motion!TypeOK /\ Motion!MotionHasAnEnd)
<1>1. ASSUME MotionInv PROVE Motion!TypeOK /\ Motion!MotionHasAnEnd
  <2>1. velocity = "skill" => driven <= OwnTime
    BY <1>1, MotionIs DEF MotionInv
  <2>2. velocity = "basic" => driven <= OwnTime
    BY <1>1, MotionIs DEF MotionInv
  <2>. QED
    BY <1>1, <2>1, <2>2, MotionIs DEF MotionInv, Motion!MotionHasAnEnd, OwnTime
<1>2. MotionInv /\ [Motion!Next]_Motion!vars => MotionInv'
  BY MotionNextInv
<1>. QED
  BY MotionInitInv, <1>1, <1>2, PTL DEF Motion!Spec

-----------------------------------------------------------------------------
(* The swing.  The heading is off by an error for every segment that is over       *)
(* (SwingInv).  Sum is defined by recursion, and that there is such a function, and *)
(* a largest of its values, is proved by looking at the smallest counterexample.   *)

\* The segments are angles, the other constants numbers of ticks or of errors, and
\* the robot has settled before odometry that lags may count.
SwingAssumptions ==
  /\ Segments \in Seq(Int) /\ Tolerance \in Nat /\ Timeout \in Nat /\ Settle \in Nat
  /\ MaxLag \in Nat /\ MaxLag <= Settle

\* f holds the sums of the first n segments.
Adds(f, n) == f[0] = 0 /\ \A k \in 1 .. n : f[k] = f[k - 1] + Segments[k]

LEMMA SmallestOf ==
  ASSUME NEW S \in SUBSET Nat, S # {}
  PROVE  \E n \in S : \A m \in S : n <= m
<1>1. \E n \in S : \A m \in S : ~ (<<m, n>> \in OpToRel(<, Nat))
  BY WFMin, NatLessThanWellFounded
<1>2. PICK n \in S : \A m \in S : ~ (m < n)
  BY <1>1 DEF OpToRel
<1>3. S \subseteq Nat
  OBVIOUS
<1>. QED
  BY <1>2, <1>3

LEMMA SumsExist ==
  ASSUME SwingAssumptions, NEW n \in 0 .. Swing!Count
  PROVE  \E f \in [0 .. n -> Int] : Adds(f, n)
<1>1. /\ Swing!Count \in Nat /\ Segments \in Seq(Int)
      /\ \A k \in 1 .. Swing!Count : Segments[k] \in Int
  BY DEF SwingAssumptions, Swing!Count
<1>. DEFINE bad == {i \in 0 .. Swing!Count : ~ \E f \in [0 .. i -> Int] : Adds(f, i)}
<1>2. CASE bad = {}
  BY <1>2
<1>3. CASE bad # {}
  <2>1. PICK m \in bad : \A k \in bad : m <= k
    <3>1. bad \in SUBSET Nat
      BY <1>1
    <3>. QED
      BY <1>3, <3>1, SmallestOf
  <2>2. m \in 0 .. Swing!Count /\ ~ \E f \in [0 .. m -> Int] : Adds(f, m)
    OBVIOUS
  <2>3. m # 0
    <3>1. [k \in 0 .. 0 |-> 0] \in [0 .. 0 -> Int] /\ Adds([k \in 0 .. 0 |-> 0], 0)
      BY DEF Adds
    <3>. QED
      BY <2>2, <3>1
  <2>4. m - 1 \in 0 .. Swing!Count /\ m - 1 \notin bad
    <3>. HIDE DEF bad
    <3>1. m \in 0 .. Swing!Count /\ Swing!Count \in Nat
      BY <1>1, <2>2
    <3>. QED
      BY <2>1, <2>3, <3>1
  <2>5. PICK f \in [0 .. m - 1 -> Int] : Adds(f, m - 1)
    BY <2>4
  <2>. DEFINE g == [k \in 0 .. m |-> IF k = m THEN f[m - 1] + Segments[m] ELSE f[k]]
  <2>6. g \in [0 .. m -> Int]
    BY <1>1, <2>2, <2>3
  <2>7. Adds(g, m)
    <3>1. m \in Nat /\ m > 0 /\ g[0] = f[0] /\ f[0] = 0
      BY <1>1, <2>2, <2>3, <2>5 DEF Adds
    <3>2. ASSUME NEW k \in 1 .. m PROVE g[k] = g[k - 1] + Segments[k]
      <4>1. CASE k = m
        BY <3>1, <4>1
      <4>2. CASE k # m
        <5>1. k \in 1 .. m - 1 /\ k - 1 \in 0 .. m - 1
          BY <3>1, <4>2
        <5>2. g[k] = f[k] /\ g[k - 1] = f[k - 1]
          BY <3>1, <5>1
        <5>. QED
          BY <2>5, <5>1, <5>2 DEF Adds
      <4>. QED
        BY <4>1, <4>2
    <3>. QED
      BY <3>1, <3>2 DEF Adds
  <2>. QED
    BY <2>2, <2>6, <2>7
<1>. QED
  BY <1>2, <1>3

LEMMA SumIs ==
  ASSUME SwingAssumptions
  PROVE  Swing!Sum \in [0 .. Swing!Count -> Int] /\ Adds(Swing!Sum, Swing!Count)
<1>1. Swing!Count \in Nat
  BY DEF SwingAssumptions, Swing!Count
<1>2. PICK f \in [0 .. Swing!Count -> Int] : Adds(f, Swing!Count)
  BY <1>1, SumsExist
<1>3. f = [n \in 0 .. Swing!Count |-> IF n = 0 THEN 0 ELSE f[n - 1] + Segments[n]]
  BY <1>1, <1>2 DEF Adds
<1>4. Swing!Sum = [n \in 0 .. Swing!Count |-> IF n = 0 THEN 0 ELSE Swing!Sum[n - 1] + Segments[n]]
  BY <1>3, Zenon DEF Swing!Sum
<1>5. Swing!Sum \in [0 .. Swing!Count -> Int]
  <2>. DEFINE bad == {i \in 0 .. Swing!Count : Swing!Sum[i] # f[i]}
  <2>1. CASE bad = {}
    <3>1. \A i \in 0 .. Swing!Count : Swing!Sum[i] = f[i]
      BY <2>1
    <3>2. /\ DOMAIN Swing!Sum = 0 .. Swing!Count
          /\ Swing!Sum = [n \in 0 .. Swing!Count |-> Swing!Sum[n]]
      BY <1>4
    <3>. QED
      BY <1>2, <3>1, <3>2
  <2>2. CASE bad # {}
    <3>1. PICK m \in bad : \A k \in bad : m <= k
      <4>1. bad \in SUBSET Nat
        BY <1>1
      <4>. QED
        BY <2>2, <4>1, SmallestOf
    <3>2. m \in 0 .. Swing!Count /\ Swing!Sum[m] # f[m]
      OBVIOUS
    <3>3. Swing!Sum[m] = (IF m = 0 THEN 0 ELSE Swing!Sum[m - 1] + Segments[m])
      BY <1>4, <3>2, Zenon
    <3>4. m # 0
      BY <1>2, <3>2, <3>3 DEF Adds
    <3>5. m - 1 \in 0 .. Swing!Count /\ m - 1 \notin bad
      <4>. HIDE DEF bad
      <4>. QED
        BY <1>1, <3>1, <3>2, <3>4
    <3>6. Swing!Sum[m - 1] = f[m - 1]
      BY <3>5
    <3>7. f[m] = f[m - 1] + Segments[m]
      BY <1>1, <1>2, <3>2, <3>4 DEF Adds
    <3>. QED
      BY <3>2, <3>3, <3>4, <3>6, <3>7
  <2>. QED
    BY <2>1, <2>2
<1>6. Adds(Swing!Sum, Swing!Count)
  <2>1. Swing!Sum[0] = 0
    BY <1>1, <1>4
  <2>2. ASSUME NEW k \in 1 .. Swing!Count PROVE Swing!Sum[k] = Swing!Sum[k - 1] + Segments[k]
    <3>1. k \in 0 .. Swing!Count /\ k # 0
      BY <1>1
    <3>. QED
      BY <1>4, <3>1, Zenon
  <2>. QED
    BY <2>1, <2>2 DEF Adds
<1>. QED
  BY <1>5, <1>6

\* The places the segments lead to, either way round, and the farthest.
Ends == {Swing!Sum[n] : n \in 0 .. Swing!Count} \cup {-Swing!Sum[n] : n \in 0 .. Swing!Count}
Farthest == CHOOSE n \in Ends : \A m \in Ends : m <= n

LEMMA SumsAreBounded ==
  ASSUME SwingAssumptions, NEW n \in 0 .. Swing!Count
  PROVE  \E b \in Nat : \A k \in 0 .. n : Swing!Sum[k] <= b /\ -Swing!Sum[k] <= b
<1>1. Swing!Count \in Nat /\ Swing!Sum \in [0 .. Swing!Count -> Int] /\ Swing!Sum[0] = 0
  BY SumIs DEF SwingAssumptions, Swing!Count, Adds
<1>. DEFINE bad == {i \in 0 .. Swing!Count : \A b \in Nat : \E k \in 0 .. i : ~ (Swing!Sum[k] <= b /\ -Swing!Sum[k] <= b)}
<1>2. CASE bad = {}
  BY <1>2
<1>3. CASE bad # {}
  <2>1. PICK m \in bad : \A k \in bad : m <= k
    <3>1. bad \in SUBSET Nat
      BY <1>1
    <3>. QED
      BY <1>3, <3>1, SmallestOf
  <2>2. /\ m \in 0 .. Swing!Count
        /\ \A b \in Nat : \E k \in 0 .. m : ~ (Swing!Sum[k] <= b /\ -Swing!Sum[k] <= b)
    OBVIOUS
  <2>3. m # 0
    <3>1. ASSUME m = 0 PROVE FALSE
      <4>1. PICK k \in 0 .. m : ~ (Swing!Sum[k] <= 0 /\ -Swing!Sum[k] <= 0)
        BY <2>2
      <4>. QED
        BY <1>1, <3>1, <4>1
    <3>. QED
      BY <3>1
  <2>4. m - 1 \in 0 .. Swing!Count /\ m - 1 \notin bad
    <3>. HIDE DEF bad
    <3>1. m \in 0 .. Swing!Count /\ Swing!Count \in Nat
      BY <1>1, <2>2
    <3>. QED
      BY <2>1, <2>3, <3>1
  <2>5. PICK b \in Nat : \A k \in 0 .. m - 1 : Swing!Sum[k] <= b /\ -Swing!Sum[k] <= b
    BY <2>4
  <2>. DEFINE c == IF Swing!Sum[m] > b THEN Swing!Sum[m] ELSE IF -Swing!Sum[m] > b THEN -Swing!Sum[m] ELSE b
  <2>6. Swing!Sum[m] \in Int
    BY <1>1, <2>2
  <2>7. c \in Nat /\ b <= c /\ Swing!Sum[m] <= c /\ -Swing!Sum[m] <= c
    BY <2>6
  <2>. HIDE DEF c
  <2>8. PICK k \in 0 .. m : ~ (Swing!Sum[k] <= c /\ -Swing!Sum[k] <= c)
    BY <2>2, <2>7
  <2>9. k \in 0 .. m - 1 /\ Swing!Sum[k] \in Int
    BY <1>1, <2>2, <2>7, <2>8
  <2>10. Swing!Sum[k] <= b /\ -Swing!Sum[k] <= b
    BY <2>5, <2>9
  <2>. QED
    BY <2>7, <2>8, <2>9, <2>10
<1>. QED
  BY <1>2, <1>3

LEMMA ReachIs ==
  ASSUME SwingAssumptions
  PROVE  /\ Farthest \in Nat /\ Swing!Reach = Farthest + Swing!Count * Swing!Error + Timeout + 1
         /\ \A k \in 0 .. Swing!Count : Swing!Sum[k] \in Int /\ Swing!Sum[k] <= Farthest /\ -Farthest <= Swing!Sum[k]
<1>1. Swing!Count \in Nat /\ Swing!Sum \in [0 .. Swing!Count -> Int] /\ Swing!Sum[0] = 0
  BY SumIs DEF SwingAssumptions, Swing!Count, Adds
<1>2. /\ Ends \subseteq Int /\ 0 \in Ends
      /\ \A k \in 0 .. Swing!Count : Swing!Sum[k] \in Ends /\ -Swing!Sum[k] \in Ends
  BY <1>1 DEF Ends
<1>. DEFINE U == {b \in Nat : \A m \in Ends : m <= b}
<1>3. U # {}
  <2>1. Swing!Count \in 0 .. Swing!Count
    BY <1>1
  <2>2. PICK b \in Nat : \A k \in 0 .. Swing!Count : Swing!Sum[k] <= b /\ -Swing!Sum[k] <= b
    BY <2>1, SumsAreBounded
  <2>3. \A m \in Ends : m <= b
    BY <2>2 DEF Ends
  <2>. QED
    BY <2>3
<1>4. PICK b \in U : \A c \in U : b <= c
  <2>1. U \in SUBSET Nat
    OBVIOUS
  <2>. QED
    BY <1>3, <2>1, SmallestOf
<1>5. b \in Nat /\ \A m \in Ends : m <= b
  OBVIOUS
<1>6. b \in Ends
  <2>1. ASSUME b \notin Ends PROVE FALSE
    <3>1. b # 0
      BY <1>2, <2>1
    <3>2. b - 1 \in Nat
      BY <1>5, <3>1
    <3>3. \A m \in Ends : m <= b - 1
      BY <1>2, <1>5, <2>1
    <3>4. b - 1 \in U
      BY <3>2, <3>3
    <3>. HIDE DEF U
    <3>. QED
      BY <1>4, <1>5, <3>4
  <2>. QED
    BY <2>1
<1>7. Farthest \in Ends /\ \A m \in Ends : m <= Farthest
  BY <1>5, <1>6, Zenon DEF Farthest
<1>8. Farthest \in Int /\ 0 <= Farthest
  BY <1>2, <1>7
<1>9. ASSUME NEW k \in 0 .. Swing!Count
      PROVE  Swing!Sum[k] \in Int /\ Swing!Sum[k] <= Farthest /\ -Farthest <= Swing!Sum[k]
  <2>1. Swing!Sum[k] \in Int /\ Swing!Sum[k] <= Farthest /\ -Swing!Sum[k] <= Farthest
    BY <1>1, <1>2, <1>7
  <2>. QED
    BY <1>8, <2>1
<1>10. Swing!Reach = Farthest + Swing!Count * Swing!Error + Timeout + 1
  BY DEF Swing!Reach, Farthest, Ends
<1>. QED
  BY <1>8, <1>9, <1>10

\* a and b are no farther apart than d.
SwingWithin(a, b, d) == a - b <= d /\ b - a <= d
\* How far off i segments may have left the robot.
Off(i) == i * Swing!Error

SwingInv ==
  /\ Swing!TypeOK
  /\ ended # "no" => command = 0
  /\ ended = "complete" => target = Swing!Unknown /\ next > Swing!Count
  /\ target = Swing!Unknown => SwingWithin(heading, Swing!Sum[next - 1], Off(next - 1))
  /\ target # Swing!Unknown => next > 1 /\ SwingWithin(heading, Swing!Sum[next - 2], Off(next - 2) + elapsed)
  /\ yaw = Swing!Unknown => next = 1 /\ target = Swing!Unknown /\ heading = 0 /\ rest = Swing!None
  /\ rest = Swing!None /\ target = Swing!Unknown /\ ended = "no" =>
       next = 1 /\ heading = 0 /\ (yaw = 0 \/ yaw = Swing!Unknown)
  /\ odometry /\ yaw # Swing!Unknown => SwingWithin(yaw, heading, lag)
  /\ yaw # Swing!Unknown /\ (target = Swing!Unknown \/ Swing!Reached) => SwingWithin(yaw, heading, MaxLag)
  /\ rest # Swing!None => target = Swing!Unknown
  /\ rest # Swing!None /\ odometry => yaw = heading \/ lag > Settle - rest
  /\ target # Swing!Unknown /\ odometry => SwingWithin(target, Swing!Sum[next - 1], Off(next - 2))
  /\ target # Swing!Unknown /\ Swing!Reached => SwingWithin(heading, Swing!Sum[next - 1], Off(next - 1))

LEMMA OffIs ==
  ASSUME SwingAssumptions
  PROVE  /\ Swing!Error \in Nat /\ Off(0) = 0
         /\ \A i \in Nat : Off(i) \in Nat /\ Off(i + 1) = Off(i) + Swing!Error
         /\ \A i \in 0 .. Swing!Count : Off(i) <= Off(Swing!Count)
<1>1. Swing!Error \in Nat /\ Swing!Count \in Nat
  BY DEF SwingAssumptions, Swing!Error, Swing!Count
<1>2. ASSUME NEW i \in Nat PROVE Off(i) \in Nat /\ Off(i + 1) = Off(i) + Swing!Error
  BY <1>1 DEF Off
<1>3. ASSUME NEW i \in 0 .. Swing!Count PROVE Off(i) <= Off(Swing!Count)
  <2>1. i \in Nat /\ Swing!Count - i \in Nat
    BY <1>1
  <2>2. (Swing!Count - i) * Swing!Error \in Nat
    BY <1>1, <2>1
  <2>3. Swing!Count * Swing!Error = i * Swing!Error + (Swing!Count - i) * Swing!Error
    BY <1>1, <2>1
  <2>. QED
    BY <1>1, <2>1, <2>2, <2>3 DEF Off
<1>4. Off(0) = 0
  BY <1>1 DEF Off
<1>. QED
  BY <1>1, <1>2, <1>3, <1>4

LEMMA SwingIs ==
  ASSUME SwingAssumptions, SwingInv
  PROVE  /\ Swing!Reach \in Nat /\ Farthest \in Nat /\ Swing!Count \in Nat /\ Tolerance \in Nat
         /\ Timeout \in Nat /\ Settle \in Nat /\ MaxLag \in Nat /\ MaxLag <= Settle
         /\ Off(Swing!Count) \in Nat /\ Swing!Reach = Farthest + Off(Swing!Count) + Timeout + 1
         /\ Swing!Unknown = 3 * Swing!Reach /\ Swing!None = Settle + 1
         /\ Swing!Error = Tolerance + MaxLag
         /\ heading \in Int /\ (yaw \in -Swing!Reach .. Swing!Reach \/ yaw = Swing!Unknown)
         /\ yaw \in Int
         /\ lag \in 0 .. MaxLag /\ next \in 1 .. Swing!Count + 1 /\ target \in Int
         /\ elapsed \in 0 .. Timeout + 1 /\ rest \in 0 .. Swing!None
<1>1. /\ Swing!Count \in Nat /\ Tolerance \in Nat /\ Timeout \in Nat /\ Settle \in Nat
      /\ MaxLag \in Nat /\ MaxLag <= Settle
  BY DEF SwingAssumptions, Swing!Count
<1>2. Off(Swing!Count) \in Nat /\ Swing!Error = Tolerance + MaxLag
  BY <1>1, OffIs DEF Swing!Error
<1>3. Farthest \in Nat /\ Swing!Reach = Farthest + Off(Swing!Count) + Timeout + 1
  BY ReachIs DEF Off
<1>4. Swing!Reach \in Nat /\ Swing!Unknown = 3 * Swing!Reach /\ Swing!None = Settle + 1
  BY <1>1, <1>2, <1>3 DEF Swing!Unknown, Swing!None
<1>5. Swing!TypeOK
  BY DEF SwingInv
<1>6. heading \in Int /\ (yaw \in -Swing!Reach .. Swing!Reach \/ yaw = Swing!Unknown) /\ yaw \in Int
  BY <1>4, <1>5 DEF Swing!TypeOK
<1>7. target \in Int
  BY <1>4, <1>5 DEF Swing!TypeOK
<1>8. /\ lag \in 0 .. MaxLag /\ next \in 1 .. Swing!Count + 1 /\ elapsed \in 0 .. Timeout + 1
      /\ rest \in 0 .. Swing!None
  BY <1>5 DEF Swing!TypeOK
<1>. QED
  BY <1>1, <1>2, <1>3, <1>4, <1>6, <1>7, <1>8

\* The sums and slacks about the segment there is.
LEMMA SumsHere ==
  ASSUME SwingAssumptions, NEW i \in 1 .. Swing!Count + 1
  PROVE  /\ Swing!Sum[i - 1] \in Int /\ Swing!Sum[i - 1] <= Farthest
         /\ -Farthest <= Swing!Sum[i - 1]
         /\ Off(i - 1) \in Nat /\ Off(i - 1) <= Off(Swing!Count)
         /\ Off(i) = Off(i - 1) + Swing!Error
         /\ i <= Swing!Count => /\ Swing!Sum[i] \in Int /\ Swing!Sum[i] <= Farthest /\ -Farthest <= Swing!Sum[i]
                                 /\ Segments[i] \in Int
                                 /\ Swing!Sum[i] = Swing!Sum[i - 1] + Segments[i]
                                 /\ Off(i) \in Nat /\ Off(i) <= Off(Swing!Count)
         /\ i > 1 => /\ Swing!Sum[i - 2] \in Int /\ Swing!Sum[i - 2] <= Farthest /\ -Farthest <= Swing!Sum[i - 2]
                      /\ Off(i - 2) \in Nat /\ Off(i - 1) = Off(i - 2) + Swing!Error
<1>1. /\ Swing!Count \in Nat /\ i \in Nat /\ i - 1 \in 0 .. Swing!Count /\ i - 1 \in Nat
      /\ i = (i - 1) + 1
  BY DEF SwingAssumptions, Swing!Count
<1>2. /\ Swing!Sum[i - 1] \in Int /\ Swing!Sum[i - 1] <= Farthest /\ -Farthest <= Swing!Sum[i - 1]
      /\ Off(i - 1) \in Nat /\ Off(i - 1) <= Off(Swing!Count)
  BY <1>1, ReachIs, OffIs
<1>3. Off(i) = Off(i - 1) + Swing!Error
  <2>1. Off((i - 1) + 1) = Off(i - 1) + Swing!Error
    BY <1>1, OffIs
  <2>. QED
    BY <1>1, <2>1
<1>4. ASSUME i <= Swing!Count
      PROVE  /\ Swing!Sum[i] \in Int /\ Swing!Sum[i] <= Farthest /\ -Farthest <= Swing!Sum[i]
             /\ Segments[i] \in Int /\ Swing!Sum[i] = Swing!Sum[i - 1] + Segments[i]
             /\ Off(i) \in Nat /\ Off(i) <= Off(Swing!Count)
  <2>1. i \in 0 .. Swing!Count /\ i \in 1 .. Swing!Count
    BY <1>1, <1>4
  <2>2. Segments[i] \in Int
    BY <2>1 DEF SwingAssumptions, Swing!Count
  <2>3. Swing!Sum[i] = Swing!Sum[i - 1] + Segments[i]
    BY <2>1, SumIs DEF Adds
  <2>. QED
    BY <1>1, <2>1, <2>2, <2>3, ReachIs, OffIs
<1>5. ASSUME i > 1
      PROVE  /\ Swing!Sum[i - 2] \in Int /\ Swing!Sum[i - 2] <= Farthest
             /\ -Farthest <= Swing!Sum[i - 2]
             /\ Off(i - 2) \in Nat /\ Off(i - 1) = Off(i - 2) + Swing!Error
  <2>1. i - 2 \in 0 .. Swing!Count /\ i - 2 \in Nat /\ (i - 2) + 1 = i - 1
    BY <1>1, <1>5
  <2>2. Off((i - 2) + 1) = Off(i - 2) + Swing!Error
    BY <2>1, OffIs
  <2>. QED
    BY <2>1, <2>2, ReachIs, OffIs
<1>. QED
  BY <1>2, <1>3, <1>4, <1>5

LEMMA SwingBegins == ASSUME SwingAssumptions, Swing!Init PROVE SwingInv
<1>1. /\ Tolerance \in Nat /\ Timeout \in Nat /\ Settle \in Nat /\ MaxLag \in Nat
      /\ Swing!Count \in Nat
  BY DEF SwingAssumptions, Swing!Count
<1>2. Off(Swing!Count) \in Nat /\ Off(0) = 0
  BY <1>1, OffIs
<1>3. Farthest \in Nat /\ Swing!Reach = Farthest + Off(Swing!Count) + Timeout + 1
  BY ReachIs DEF Off
<1>4. /\ Swing!Reach \in Nat /\ Swing!Reach > 0 /\ Swing!Unknown = 3 * Swing!Reach
      /\ Swing!None = Settle + 1
  BY <1>1, <1>2, <1>3 DEF Swing!Unknown, Swing!None
<1>5. Swing!Sum[0] = 0
  BY SumIs DEF Adds
<1>6. /\ heading \in -Swing!Reach .. Swing!Reach /\ lag \in 0 .. MaxLag
      /\ next \in 1 .. Swing!Count + 1
      /\ elapsed \in 0 .. Timeout + 1 /\ rest \in 0 .. Swing!None
  BY <1>1, <1>4 DEF Swing!Init
<1>7. Swing!TypeOK
  BY <1>6 DEF Swing!Init, Swing!TypeOK
<1>8. SwingWithin(heading, Swing!Sum[next - 1], Off(next - 1))
  BY <1>2, <1>5 DEF Swing!Init, SwingWithin
<1>9. /\ ended = "no" /\ target = Swing!Unknown /\ yaw = Swing!Unknown /\ rest = Swing!None
      /\ next = 1 /\ heading = 0
  BY DEF Swing!Init
<1>. QED
  BY <1>7, <1>8, <1>9 DEF SwingInv

LEMMA OnOdomKeeps == ASSUME SwingAssumptions, SwingInv, Swing!OnOdom PROVE SwingInv'
<1>1. /\ odometry /\ yaw' = heading /\ lag' = 0
      /\ UNCHANGED <<heading, odometry, next, target, elapsed, rest, command, ended>>
  BY DEF Swing!OnOdom
<1>2. /\ Swing!TypeOK /\ heading \in -Swing!Reach .. Swing!Reach /\ Swing!Reach \in Nat
      /\ Swing!Reach > 0 /\ heading \in Int
  BY SwingIs DEF SwingInv, Swing!TypeOK
<1>3. yaw' # Swing!Unknown /\ yaw' \in -Swing!Reach .. Swing!Reach
  BY <1>1, <1>2, SwingIs
<1>4. Swing!TypeOK'
  <2>1. lag' \in 0 .. MaxLag
    BY <1>1, SwingIs
  <2>. QED
    BY <1>1, <1>2, <1>3, <2>1 DEF Swing!TypeOK
<1>5. SwingWithin(yaw', heading', lag') /\ SwingWithin(yaw', heading', MaxLag)
  BY <1>1, <1>2, SwingIs DEF SwingWithin
<1>6. ASSUME target' # Swing!Unknown, Swing!Reached' PROVE SwingWithin(heading', Swing!Sum[next' - 1], Off(next' - 1))
  <2>1. /\ target # Swing!Unknown /\ next \in 1 .. Swing!Count + 1 /\ next > 1
        /\ SwingWithin(target, Swing!Sum[next - 1], Off(next - 2))
    BY <1>1, <1>3, <1>6, SwingIs DEF SwingInv
  <2>2. target - heading \in -Tolerance .. Tolerance
    BY <1>1, <1>6 DEF Swing!Reached
  <2>3. /\ Swing!Sum[next - 1] \in Int /\ Off(next - 2) \in Nat
        /\ Off(next - 1) = Off(next - 2) + Swing!Error
    BY <2>1, SumsHere
  <2>. QED
    BY <1>1, <2>1, <2>2, <2>3, SwingIs DEF SwingWithin
<1>. QED
  BY <1>1, <1>3, <1>4, <1>5, <1>6 DEF SwingInv

LEMMA OdometryEndsKeeps == ASSUME SwingAssumptions, SwingInv, Swing!OdometryEnds PROVE SwingInv'
<1>1. /\ odometry' = FALSE /\ lag' = 0
      /\ UNCHANGED <<yaw, heading, next, target, elapsed, rest, command, ended>>
  BY DEF Swing!OdometryEnds
<1>2. lag' \in 0 .. MaxLag
  BY <1>1, SwingIs
<1>3. Swing!TypeOK'
  BY <1>1, <1>2 DEF SwingInv, Swing!TypeOK
<1>4. Swing!Reached' = Swing!Reached
  BY <1>1 DEF Swing!Reached
<1>. QED
  BY <1>1, <1>3, <1>4 DEF SwingInv

LEMMA SwingInterruptKeeps == ASSUME SwingAssumptions, SwingInv, Swing!Interrupt PROVE SwingInv'
<1>1. /\ ended' = "stopped" /\ command' = 0
      /\ UNCHANGED <<yaw, heading, lag, odometry, next, target, elapsed, rest>>
  BY DEF Swing!Interrupt
<1>2. Swing!TypeOK'
  BY <1>1 DEF SwingInv, Swing!TypeOK
<1>3. Swing!Reached' = Swing!Reached
  BY <1>1 DEF Swing!Reached
<1>. QED
  BY <1>1, <1>2, <1>3 DEF SwingInv

\* The lag that a control period leaves.
LEMMA LagGrows ==
  ASSUME SwingAssumptions, SwingInv, Swing!Tick
  PROVE  /\ lag' \in 0 .. MaxLag /\ (odometry => lag' = lag + 1 /\ lag < MaxLag)
         /\ yaw' = yaw /\ odometry' = odometry /\ ended = "no"
         /\ (command' = 0 /\ heading \in Int => heading' = heading)
<1>1. /\ ended = "no" /\ (odometry => lag < MaxLag) /\ heading' \in {heading, heading + command'}
      /\ lag' = (IF odometry THEN lag + 1 ELSE 0) /\ yaw' = yaw /\ odometry' = odometry
  BY DEF Swing!Tick
<1>2. odometry \in BOOLEAN
  BY DEF SwingInv, Swing!TypeOK
<1>. QED
  BY <1>1, <1>2, SwingIs

LEMMA StartKeeps ==
  ASSUME SwingAssumptions, SwingInv, Swing!Tick, Swing!StartNextSegment, yaw # Swing!Unknown, target = Swing!Unknown,
         odometry => yaw = heading, rest' = Swing!None
  PROVE  SwingInv'
<1>1. /\ lag' \in 0 .. MaxLag /\ (odometry => lag' = lag + 1) /\ yaw' = yaw
      /\ odometry' = odometry /\ ended = "no" /\ command' = 0 /\ heading' = heading
  BY LagGrows, SwingIs DEF Swing!StartNextSegment
<1>2. SwingWithin(heading, Swing!Sum[next - 1], Off(next - 1)) /\ SwingWithin(yaw, heading, MaxLag)
  BY DEF SwingInv
<1>3. /\ heading \in -Swing!Reach .. Swing!Reach
      /\ yaw \in -Swing!Reach .. Swing!Reach \cup {Swing!Unknown}
      /\ odometry \in BOOLEAN
  BY DEF SwingInv, Swing!TypeOK
<1>4. rest' \in 0 .. Swing!None
  BY SwingIs
<1>5. odometry' => SwingWithin(yaw', heading', lag')
  BY <1>1, SwingIs DEF SwingWithin
<1>6. CASE next > Swing!Count
  <2>1. ended' = "complete" /\ UNCHANGED <<next, target, elapsed>>
    BY <1>6 DEF Swing!StartNextSegment
  <2>2. Swing!TypeOK'
    BY <1>1, <1>3, <1>4, <2>1 DEF SwingInv, Swing!TypeOK
  <2>3. target' = Swing!Unknown /\ next' > Swing!Count
    BY <1>6, <2>1
  <2>. QED
    BY <1>1, <1>2, <1>5, <2>1, <2>2, <2>3 DEF SwingInv
<1>7. CASE next <= Swing!Count
  <2>1. /\ target' = yaw + Segments[next] /\ next' = next + 1 /\ elapsed' = 0 /\ ended' = ended
        /\ next \in 1 .. Swing!Count + 1
    BY <1>7, SwingIs DEF Swing!StartNextSegment
  <2>2. /\ Swing!Sum[next - 1] \in Int /\ Off(next - 1) \in Nat
        /\ Off(next) = Off(next - 1) + Swing!Error
        /\ Swing!Sum[next] \in Int /\ Swing!Sum[next] <= Farthest /\ -Farthest <= Swing!Sum[next]
        /\ Segments[next] \in Int /\ Swing!Sum[next] = Swing!Sum[next - 1] + Segments[next]
        /\ Off(next) \in Nat /\ Off(next) <= Off(Swing!Count)
    BY <1>7, <2>1, SumsHere
  <2>3. SwingWithin(target', Swing!Sum[next], Off(next)) /\ target' \in Int
    BY <1>2, <2>1, <2>2, SwingIs DEF SwingWithin
  <2>4. -Swing!Reach <= target' /\ target' <= Swing!Reach
    BY <2>2, <2>3, SwingIs DEF SwingWithin
  <2>5. target' # Swing!Unknown /\ target' \in -(2 * Swing!Reach) .. 2 * Swing!Reach
    BY <2>3, <2>4, SwingIs
  <2>6. next' - 1 = next /\ next' - 2 = next - 1 /\ next' > 1 /\ next' \in 1 .. Swing!Count + 1
    BY <1>7, <2>1, SwingIs
  <2>7. Swing!TypeOK'
    <3>1. elapsed' \in 0 .. Timeout + 1
      BY <2>1, SwingIs
    <3>. QED
      BY <1>1, <1>3, <1>4, <2>1, <2>5, <2>6, <3>1 DEF SwingInv, Swing!TypeOK
  <2>8. SwingWithin(heading', Swing!Sum[next' - 2], Off(next' - 2) + elapsed')
    BY <1>1, <1>2, <2>1, <2>2, <2>6
  <2>9. odometry' => SwingWithin(target', Swing!Sum[next' - 1], Off(next' - 2))
    BY <1>1, <1>2, <2>1, <2>2, <2>6, SwingIs DEF SwingWithin
  <2>10. Swing!Reached' => SwingWithin(heading', Swing!Sum[next' - 1], Off(next' - 1))
    <3>1. ASSUME Swing!Reached' PROVE SwingWithin(heading', Swing!Sum[next' - 1], Off(next' - 1))
      <4>1. target' - yaw \in -Tolerance .. Tolerance
        BY <1>1, <3>1 DEF Swing!Reached
      <4>2. Segments[next] \in -Tolerance .. Tolerance
        BY <2>1, <2>2, <4>1, SwingIs
      <4>. QED
        BY <1>1, <1>2, <2>2, <2>6, <4>2, SwingIs DEF SwingWithin
    <3>. QED
      BY <3>1
  <2>. QED
    BY <1>1, <1>2, <1>5, <2>1, <2>5, <2>6, <2>7, <2>8, <2>9, <2>10 DEF SwingInv
<1>. QED
  BY <1>6, <1>7, SwingIs

LEMMA SwingTickKeeps == ASSUME SwingAssumptions, SwingInv, Swing!Tick PROVE SwingInv'
<1>1. /\ lag' \in 0 .. MaxLag /\ (odometry => lag' = lag + 1 /\ lag < MaxLag) /\ yaw' = yaw
      /\ odometry' = odometry /\ ended = "no" /\ (command' = 0 => heading' = heading)
  BY LagGrows, SwingIs
<1>2. /\ odometry \in BOOLEAN /\ heading \in -Swing!Reach .. Swing!Reach
      /\ heading' \in {heading, heading + command'}
  BY DEF SwingInv, Swing!TypeOK, Swing!Tick
<1>3. CASE Swing!Wait
  <2>1. /\ yaw = Swing!Unknown /\ command' = 0
        /\ UNCHANGED <<next, target, elapsed, rest, ended, heading>>
    BY <1>1, <1>3 DEF Swing!Wait
  <2>2. Swing!TypeOK'
    BY <1>1, <1>2, <2>1 DEF SwingInv, Swing!TypeOK
  <2>. QED
    BY <1>1, <2>1, <2>2 DEF SwingInv
<1>4. CASE Swing!Begin
  <2>1. /\ yaw # Swing!Unknown /\ rest = Swing!None /\ target = Swing!Unknown
        /\ Swing!StartNextSegment /\ rest' = Swing!None
    BY <1>4 DEF Swing!Begin
  <2>2. yaw = heading
    BY <1>1, <2>1 DEF SwingInv
  <2>. QED
    BY <2>1, <2>2, StartKeeps
<1>5. CASE Swing!Resting
  <2>1. yaw # Swing!Unknown /\ rest # Swing!None /\ target = Swing!Unknown /\ (odometry => yaw = heading \/ lag > Settle - rest)
    BY <1>5 DEF Swing!Resting, SwingInv
  <2>2. CASE rest = 0
    <3>1. rest' = Swing!None /\ Swing!StartNextSegment
      BY <1>5, <2>2 DEF Swing!Resting
    <3>2. odometry => yaw = heading
      BY <1>1, <2>1, <2>2, SwingIs
    <3>. QED
      BY <2>1, <3>1, <3>2, StartKeeps
  <2>3. CASE rest # 0
    <3>1. rest' = rest - 1 /\ command' = 0 /\ UNCHANGED <<next, target, elapsed, ended, heading>>
      BY <1>1, <1>5, <2>3 DEF Swing!Resting
    <3>2. rest' \in 0 .. Swing!None /\ rest' # Swing!None
      BY <2>1, <2>3, <3>1, SwingIs
    <3>3. Swing!TypeOK'
      BY <1>1, <1>2, <3>1, <3>2 DEF SwingInv, Swing!TypeOK
    <3>4. odometry' => yaw' = heading' \/ lag' > Settle - rest'
      BY <1>1, <2>1, <3>1, SwingIs
    <3>5. odometry' => SwingWithin(yaw', heading', lag')
      <4>1. odometry => SwingWithin(yaw, heading, lag)
        BY <2>1 DEF SwingInv
      <4>. QED
        BY <1>1, <3>1, <4>1, SwingIs DEF SwingWithin
    <3>. QED
      BY <1>1, <2>1, <3>1, <3>2, <3>3, <3>4, <3>5 DEF SwingInv
  <2>. QED
    BY <2>2, <2>3
<1>6. CASE Swing!Arrive
  <2>1. /\ Swing!Turning /\ Swing!Reached /\ command' = 0 /\ target' = Swing!Unknown
        /\ rest' = Settle
        /\ UNCHANGED <<next, elapsed, ended, heading>>
    BY <1>1, <1>6 DEF Swing!Arrive
  <2>2. /\ yaw # Swing!Unknown /\ SwingWithin(yaw, heading, MaxLag)
        /\ (odometry => SwingWithin(yaw, heading, lag))
        /\ SwingWithin(heading, Swing!Sum[next - 1], Off(next - 1))
    BY <2>1 DEF SwingInv, Swing!Turning
  <2>3. rest' \in 0 .. Swing!None /\ rest' # Swing!None
    BY <2>1, SwingIs
  <2>4. Swing!TypeOK'
    BY <1>1, <1>2, <2>1, <2>3 DEF SwingInv, Swing!TypeOK
  <2>5. odometry' => lag' > Settle - rest' /\ SwingWithin(yaw', heading', lag')
    BY <1>1, <2>1, <2>2, SwingIs DEF SwingWithin
  <2>. QED
    BY <1>1, <2>1, <2>2, <2>3, <2>4, <2>5 DEF SwingInv
<1>7. CASE Swing!TimesOut
  <2>1. /\ Swing!Turning /\ ~ Swing!Reached /\ command' = 0 /\ ended' = "failed"
        /\ UNCHANGED <<next, target, elapsed, rest, heading>>
    BY <1>1, <1>7 DEF Swing!TimesOut
  <2>2. Swing!TypeOK'
    BY <1>1, <1>2, <2>1 DEF SwingInv, Swing!TypeOK
  <2>3. Swing!Reached' = Swing!Reached
    BY <1>1, <2>1 DEF Swing!Reached
  <2>4. odometry' => SwingWithin(yaw', heading', lag')
    <3>1. odometry => SwingWithin(yaw, heading, lag)
      BY <2>1 DEF SwingInv, Swing!Turning
    <3>. QED
      BY <1>1, <2>1, <3>1, SwingIs DEF SwingWithin
  <2>. QED
    BY <1>1, <2>1, <2>2, <2>3, <2>4 DEF SwingInv, Swing!Turning
<1>8. CASE Swing!Turn
  <2>1. /\ Swing!Turning
        /\ ~ Swing!Reached /\ elapsed <= Timeout /\ command' = (IF target > yaw THEN 1 ELSE -1)
        /\ elapsed' = elapsed + 1 /\ UNCHANGED <<next, target, rest, ended>>
    BY <1>8 DEF Swing!Turn
  <2>2. command' \in {-1, 0, 1} /\ heading' \in {heading - 1, heading, heading + 1}
    BY <1>2, <2>1, SwingIs
  <2>3. /\ yaw # Swing!Unknown /\ target # Swing!Unknown /\ rest = Swing!None /\ next > 1
        /\ SwingWithin(heading, Swing!Sum[next - 2], Off(next - 2) + elapsed)
        /\ (odometry => SwingWithin(yaw, heading, lag))
    BY <2>1 DEF SwingInv, Swing!Turning
  <2>4. next \in 1 .. Swing!Count + 1
    BY SwingIs
  <2>5. /\ Swing!Sum[next - 2] \in Int /\ Swing!Sum[next - 2] <= Farthest
        /\ -Farthest <= Swing!Sum[next - 2]
        /\ Off(next - 2) \in Nat /\ Off(next - 1) = Off(next - 2) + Swing!Error
        /\ Off(next - 1) <= Off(Swing!Count) /\ Swing!Error \in Nat
    BY <2>3, <2>4, SumsHere, OffIs
  <2>6. SwingWithin(heading', Swing!Sum[next' - 2], Off(next' - 2) + elapsed')
    <3>1. SwingWithin(heading', Swing!Sum[next - 2], Off(next - 2) + elapsed + 1)
      BY <2>2, <2>3, <2>5, SwingIs DEF SwingWithin
    <3>2. Off(next - 2) + elapsed + 1 = Off(next - 2) + (elapsed + 1)
      BY <2>5, SwingIs
    <3>. QED
      BY <2>1, <3>1, <3>2
  <2>7. heading' \in -Swing!Reach .. Swing!Reach
    <3>1. heading' \in Int
      BY <2>2, SwingIs
    <3>2. /\ heading' - Swing!Sum[next - 2] <= Off(next - 2) + (elapsed + 1)
          /\ Swing!Sum[next - 2] - heading' <= Off(next - 2) + (elapsed + 1)
      BY <2>1, <2>6 DEF SwingWithin
    <3>3. Off(next - 2) <= Off(Swing!Count) /\ elapsed + 1 <= Timeout + 1
      BY <2>1, <2>5, SwingIs
    <3>. QED
      BY <2>5, <3>1, <3>2, <3>3, SwingIs
  <2>8. Swing!TypeOK'
    <3>1. elapsed' \in 0 .. Timeout + 1
      BY <2>1, SwingIs
    <3>. QED
      BY <1>1, <1>2, <2>1, <2>2, <2>7, <3>1 DEF SwingInv, Swing!TypeOK
  <2>9. ~ Swing!Reached'
    BY <1>1, <2>1 DEF Swing!Reached
  <2>10. odometry' => SwingWithin(yaw', heading', lag')
    BY <1>1, <2>2, <2>3, SwingIs DEF SwingWithin
  <2>11. odometry' => SwingWithin(target', Swing!Sum[next' - 1], Off(next' - 2))
    BY <1>1, <2>1, <2>3 DEF SwingInv
  <2>. QED
    BY <1>1, <2>1, <2>3, <2>6, <2>8, <2>9, <2>10, <2>11 DEF SwingInv
<1>. QED
  BY <1>3, <1>4, <1>5, <1>6, <1>7, <1>8 DEF Swing!Tick

LEMMA SwingInvImplies == ASSUME SwingAssumptions, SwingInv PROVE Swing!TypeOK /\ Swing!SwingComesBack
<1>1. Swing!TypeOK /\ (ended # "no" => command = 0) /\ heading \in -Swing!Reach .. Swing!Reach
  BY DEF SwingInv, Swing!TypeOK
<1>2. ASSUME ended = "complete"
      PROVE  heading \in Swing!Sum[Swing!Count] - Swing!Count * Swing!Error .. Swing!Sum[Swing!Count] + Swing!Count * Swing!Error
  <2>1. next = Swing!Count + 1 /\ SwingWithin(heading, Swing!Sum[next - 1], Off(next - 1))
    BY <1>2, SwingIs DEF SwingInv
  <2>2. next - 1 = Swing!Count /\ Swing!Sum[Swing!Count] \in Int
    BY <2>1, SumsHere, SwingIs
  <2>. QED
    BY <2>1, <2>2, SwingIs DEF SwingWithin, Off
<1>. QED
  BY <1>1, <1>2 DEF Swing!SwingComesBack

\* A swing that ended commands nothing more, never turns the robot out of its reach,
\* and one that completes leaves it within one error per segment of where its segments
\* lead (AmclSwingRelocalizationNode._tick), for any segments, tolerance and time
\* limit, and odometry that lags no longer than the robot rests.
THEOREM SwingEndsWhereItBegan ==
  ASSUME SwingAssumptions
  PROVE  Swing!Spec => [](Swing!TypeOK /\ Swing!SwingComesBack)
<1>1. Swing!Init => SwingInv
  BY SwingBegins
<1>2. SwingInv /\ [Swing!Next]_Swing!vars => SwingInv'
  <2>1. ASSUME SwingInv, UNCHANGED Swing!vars PROVE SwingInv'
    <3>1. Swing!Reached' = Swing!Reached
      BY <2>1 DEF Swing!Reached, Swing!vars
    <3>. QED
      BY <2>1, <3>1 DEF SwingInv, Swing!TypeOK, Swing!vars
  <2>. QED
    BY <2>1, OnOdomKeeps, OdometryEndsKeeps, SwingTickKeeps,
       SwingInterruptKeeps DEF Swing!Next
<1>3. SwingInv => Swing!TypeOK /\ Swing!SwingComesBack
  BY SwingInvImplies
<1>. QED
  BY <1>1, <1>2, <1>3, PTL DEF Swing!Spec

-----------------------------------------------------------------------------
(* The microphone.  Speech is taken for the answer's only when there is an answer. *)

\* Speech is taken for the answer's only when there is an answer.
MicrophoneInv ==
  /\ Voice!TypeOK /\ Voice!MicrophoneComesBack
  /\ wait.spoken => wait.turn = "answered"

LEMMA WaitIs ==
  ASSUME MicrophoneInv
  PROVE  /\ wait.turn \in {"no", "asked", "interim", "answered"} /\ wait.spoken \in BOOLEAN
         /\ wait.resume \in {"no", "set", "due"} /\ wait.late \in BOOLEAN
         /\ speaking \in BOOLEAN /\ wait \in Voice!Waits
BY DEF MicrophoneInv, Voice!TypeOK, Voice!Waits

LEMMA NoWaitIs == Voice!NoWait \in Voice!Waits /\ Voice!NoWait.turn = "no" /\ Voice!NoWait.spoken = FALSE
BY DEF Voice!NoWait, Voice!Waits

\* A step that changes what the session waits for to nothing, or not at all, and
\* not whether there is speech.
LEMMA NothingMoreToWaitFor ==
  ASSUME MicrophoneInv, wait' = wait \/ wait' = Voice!NoWait, UNCHANGED speaking, Voice!TypeOK'
  PROVE  MicrophoneInv'
<1>1. CASE wait' = wait
  BY <1>1 DEF MicrophoneInv, Voice!MicrophoneComesBack
<1>2. CASE wait' = Voice!NoWait
  BY <1>2, NoWaitIs DEF MicrophoneInv, Voice!MicrophoneComesBack
<1>. QED
  BY <1>1, <1>2

LEMMA WorkerKeeps == ASSUME MicrophoneInv, Voice!Worker PROVE MicrophoneInv'
<1>. USE NoWaitIs DEF MicrophoneInv, Voice!TypeOK
<1>1. CASE Voice!UpdateWaiting
  <2>1. (wait' = Voice!NoWait) /\ UNCHANGED speaking
    BY <1>1 DEF Voice!UpdateWaiting, Voice!ReturnToWaitWake, Voice!EnterFollowup
  <2>4. cued' = 0 \/ cued' = cued
    BY <1>1 DEF Voice!UpdateWaiting, Voice!EnterFollowup
  <2>5. enabled' = enabled /\ awakened' \in BOOLEAN /\ listener' = listener
    BY <1>1 DEF Voice!UpdateWaiting, Voice!ReturnToWaitWake, Voice!EnterFollowup
  <2>6. followup' = followup \/ followup' = "open"
    BY <1>1 DEF Voice!UpdateWaiting, Voice!ReturnToWaitWake, Voice!EnterFollowup
  <2>7. state' = state \/ state' = "WAIT_WAKE" \/ state' = "LISTENING"
    BY <1>1 DEF Voice!UpdateWaiting, Voice!ReturnToWaitWake, Voice!EnterFollowup
  <2>2. /\ enabled' = enabled /\ awakened' \in BOOLEAN /\ followup' \in {"no", "open", "over"}
        /\ cued' \in 0 .. 2 /\ listener' = listener
        /\ state' \in {state, "WAIT_WAKE", "LISTENING"}
    BY <2>4, <2>5, <2>6, <2>7
  <2>3. Voice!TypeOK'
    BY <2>1, <2>2
  <2>. QED
    BY <2>1, <2>3, NothingMoreToWaitFor
<1>2. CASE Voice!FollowupOver
  <2>1. /\ wait' = Voice!NoWait /\ UNCHANGED <<speaking, enabled, followup>> /\ awakened' = FALSE
        /\ cued' \in 0 .. 2 /\ listener' = "wake" /\ state' \in {state, "WAIT_WAKE"}
    BY <1>2 DEF Voice!FollowupOver, Voice!ReturnToWaitWake
  <2>2. Voice!TypeOK'
    BY <2>1
  <2>. QED
    BY <2>1, <2>2, NothingMoreToWaitFor
<1>3. CASE Voice!Standby \/ Voice!Wake \/ Voice!Woken \/ Voice!Pause \/ Voice!Listen \/ Voice!Record
  <2>1. Voice!TypeOK' /\ wait' = wait /\ UNCHANGED speaking
    BY <1>3 DEF Voice!Standby, Voice!Wake, Voice!Woken, Voice!Pause, Voice!Listen,
       Voice!Record
  <2>. QED
    BY <2>1, NothingMoreToWaitFor
<1>4. CASE Voice!Transcribe \/ Voice!Hear
  <2>1. Voice!TypeOK' /\ (wait' = wait \/ wait' = Voice!NoWait) /\ UNCHANGED speaking
    BY <1>4 DEF Voice!Transcribe, Voice!Hear, Voice!ReturnToWaitWake
  <2>. QED
    BY <2>1, NothingMoreToWaitFor
<1>5. CASE Voice!Ask
  <2>. DEFINE unanswered == [Voice!NoWait EXCEPT !.turn = "asked"]
  <2>1. unanswered \in Voice!Waits /\ unanswered.turn = "asked" /\ unanswered.spoken = FALSE
    BY DEF Voice!NoWait, Voice!Waits
  <2>2. wait' = unanswered
    BY <1>5 DEF Voice!Ask
  <2>. HIDE DEF unanswered
  <2>3. Voice!TypeOK'
    BY <1>5, <2>1, <2>2 DEF Voice!Ask
  <2>. QED
    BY <2>1, <2>2, <2>3 DEF Voice!MicrophoneComesBack
<1>. QED
  BY <1>1, <1>2, <1>3, <1>4, <1>5 DEF Voice!Worker

LEMMA SpeechKeeps == ASSUME MicrophoneInv, NEW now \in BOOLEAN, Voice!Speech(now) PROVE MicrophoneInv'
<1>1. /\ now # speaking /\ speaking' = now /\ UNCHANGED <<enabled, awakened, state, listener, cued>>
      /\ followup' \in {"no", "open", "over"}
  BY DEF Voice!Speech, MicrophoneInv, Voice!TypeOK
<1>. DEFINE spoken == wait.spoken \/ wait.turn = "answered"
            begun == [wait EXCEPT !.spoken = spoken]
            over == [wait EXCEPT !.resume = IF wait.spoken THEN "set" ELSE wait.resume]
<1>2. wait' = IF now THEN begun ELSE over
  BY DEF Voice!Speech
<1>3. /\ begun \in Voice!Waits /\ begun.turn = wait.turn /\ begun.spoken = spoken
      /\ begun.resume = wait.resume
  <2>1. spoken \in BOOLEAN
    OBVIOUS
  <2>. HIDE DEF spoken
  <2>. QED
    BY <2>1, WaitIs DEF Voice!Waits
<1>4. /\ over \in Voice!Waits /\ over.turn = wait.turn /\ over.spoken = wait.spoken
      /\ over.resume = IF wait.spoken THEN "set" ELSE wait.resume
  BY WaitIs DEF Voice!Waits
<1>. HIDE DEF begun, over
<1>5. Voice!TypeOK'
  BY <1>1, <1>2, <1>3, <1>4 DEF MicrophoneInv, Voice!TypeOK
<1>6. CASE now
  BY <1>1, <1>2, <1>3, <1>5, <1>6 DEF MicrophoneInv, Voice!MicrophoneComesBack
<1>7. CASE ~now
  <2>1. wait' = over
    BY <1>2, <1>7
  <2>2. Voice!MicrophoneComesBack' /\ (wait'.spoken => wait'.turn = "answered")
    BY <1>4, <2>1 DEF MicrophoneInv, Voice!MicrophoneComesBack
  <2>. QED
    BY <1>5, <2>2 DEF MicrophoneInv
<1>. QED
  BY <1>6, <1>7

LEMMA ChatKeeps == ASSUME MicrophoneInv, NEW final \in BOOLEAN, Voice!Chat(final) PROVE MicrophoneInv'
<1>1. /\ wait.turn # "no" /\ state' = "WAITING_RESPONSE"
      /\ UNCHANGED <<enabled, awakened, followup, speaking, listener, cued>>
  BY DEF Voice!Chat
<1>. DEFINE spoken == wait.spoken \/ speaking
            lateOne == IF wait.turn = "answered" THEN wait.late ELSE FALSE
            answer == [wait EXCEPT !.turn = "answered", !.spoken = spoken, !.late = FALSE]
            interim == [wait EXCEPT !.turn = IF wait.turn = "answered" THEN wait.turn ELSE "interim",
                                    !.late = lateOne]
<1>2. wait' = IF final THEN answer ELSE interim
  BY DEF Voice!Chat
<1>3. spoken \in BOOLEAN /\ lateOne \in BOOLEAN
  BY WaitIs
<1>4. spoken <=> wait.spoken \/ speaking
  OBVIOUS
<1>. HIDE DEF spoken, lateOne
<1>5. /\ answer \in Voice!Waits /\ answer.turn = "answered" /\ answer.spoken = spoken
      /\ answer.resume = wait.resume
  BY <1>3, WaitIs DEF Voice!Waits
<1>6. /\ interim \in Voice!Waits /\ interim.spoken = wait.spoken /\ interim.resume = wait.resume
      /\ interim.turn = IF wait.turn = "answered" THEN wait.turn ELSE "interim"
  BY <1>3, WaitIs DEF Voice!Waits
<1>. HIDE DEF answer, interim
<1>7. Voice!TypeOK'
  BY <1>1, <1>2, <1>5, <1>6 DEF MicrophoneInv, Voice!TypeOK
<1>8. CASE final
  BY <1>1, <1>2, <1>4, <1>5, <1>7, <1>8 DEF MicrophoneInv, Voice!MicrophoneComesBack
<1>9. CASE ~final
  <2>1. wait' = interim
    BY <1>2, <1>9
  <2>2. Voice!MicrophoneComesBack' /\ (wait'.spoken => wait'.turn = "answered")
    BY <1>1, <1>6, <2>1 DEF MicrophoneInv, Voice!MicrophoneComesBack
  <2>. QED
    BY <1>7, <2>2 DEF MicrophoneInv
<1>. QED
  BY <1>8, <1>9

LEMMA TimeKeeps == ASSUME MicrophoneInv, Voice!TimePasses PROVE MicrophoneInv'
<1>1. UNCHANGED <<enabled, awakened, state, speaking, listener, cued>>
  BY DEF Voice!TimePasses
<1>. DEFINE lateOne == [wait EXCEPT !.late = TRUE]
            resumed == [wait EXCEPT !.resume = "due"]
<1>2. \/ (wait' = lateOne \/ wait' = resumed) /\ UNCHANGED followup
      \/ followup' = "over" /\ UNCHANGED wait
  BY DEF Voice!TimePasses
<1>3. /\ lateOne \in Voice!Waits /\ lateOne.turn = wait.turn /\ lateOne.spoken = wait.spoken
      /\ lateOne.resume = wait.resume
  BY WaitIs DEF Voice!Waits
<1>4. /\ resumed \in Voice!Waits /\ resumed.turn = wait.turn /\ resumed.spoken = wait.spoken
      /\ resumed.resume = "due"
  BY WaitIs DEF Voice!Waits
<1>. HIDE DEF lateOne, resumed
<1>5. Voice!TypeOK'
  BY <1>1, <1>2, <1>3, <1>4 DEF MicrophoneInv, Voice!TypeOK
<1>6. Voice!MicrophoneComesBack' /\ (wait'.spoken => wait'.turn = "answered")
  BY <1>1, <1>2, <1>3, <1>4 DEF MicrophoneInv, Voice!MicrophoneComesBack
<1>. QED
  BY <1>5, <1>6 DEF MicrophoneInv

LEMMA MicrophoneNextInv == ASSUME MicrophoneInv, [Voice!Next]_Voice!vars PROVE MicrophoneInv'
<1>1. CASE Voice!Worker
  BY <1>1, WorkerKeeps
<1>2. CASE Voice!Start \/ Voice!Stop \/ Voice!EndConversation
  <2>1. wait' = Voice!NoWait /\ UNCHANGED speaking
    BY <1>2 DEF Voice!Start, Voice!Stop, Voice!EndConversation, Voice!ActivateStandby,
       Voice!StopSession, Voice!ReturnToWaitWake
  <2>2. Voice!TypeOK'
    BY <1>2, NoWaitIs DEF MicrophoneInv, Voice!TypeOK, Voice!Start, Voice!Stop,
       Voice!EndConversation, Voice!ActivateStandby,
      Voice!StopSession, Voice!ReturnToWaitWake
  <2>. QED
    BY <2>1, <2>2, NothingMoreToWaitFor
<1>3. ASSUME NEW b \in BOOLEAN, Voice!Speech(b) \/ Voice!Chat(b) PROVE MicrophoneInv'
  BY <1>3, SpeechKeeps, ChatKeeps
<1>4. CASE Voice!TimePasses
  BY <1>4, TimeKeeps
<1>5. CASE UNCHANGED Voice!vars
  BY <1>5 DEF Voice!vars, MicrophoneInv, Voice!TypeOK, Voice!MicrophoneComesBack
<1>. QED
  BY <1>1, <1>2, <1>3, <1>4, <1>5 DEF Voice!Next

\* The microphone is never closed with nothing left to open it again: a turn that was
\* answered is being spoken, or its end is timed, whichever of the answer and the
\* speech came first (the session has no constants).
THEOREM MicrophoneIsOpenedAgain == Voice!Spec => [](Voice!TypeOK /\ Voice!MicrophoneComesBack)
<1>1. Voice!Init => MicrophoneInv
  <2>1. ASSUME Voice!Init PROVE Voice!TypeOK
    <3>1. /\ enabled = FALSE /\ awakened = FALSE /\ followup = "no" /\ state = "OFF"
          /\ wait \in Voice!Waits /\ speaking = FALSE /\ listener = "loop"
      BY <2>1, NoWaitIs DEF Voice!Init
    <3>2. cued \in 0 .. 2
      BY <2>1 DEF Voice!Init
    <3>. QED
      BY <3>1, <3>2 DEF Voice!TypeOK
  <2>2. ASSUME Voice!Init PROVE Voice!MicrophoneComesBack /\ (wait.spoken => wait.turn = "answered")
    BY <2>2, NoWaitIs DEF Voice!Init, Voice!MicrophoneComesBack
  <2>. QED
    BY <2>1, <2>2 DEF MicrophoneInv
<1>2. MicrophoneInv /\ [Voice!Next]_Voice!vars => MicrophoneInv'
  BY MicrophoneNextInv
<1>3. MicrophoneInv => Voice!TypeOK /\ Voice!MicrophoneComesBack
  BY DEF MicrophoneInv
<1>. QED
  BY <1>1, <1>2, <1>3, PTL DEF Voice!Spec

-----------------------------------------------------------------------------
(* Speech.  A key stands for a request that is queued, or taken and not begun       *)
(* (KeyIsThere).                                                                   *)

\* There is a key, and the bounds are numbers.
OutputAssumptions ==
  /\ Keys # {} /\ MaxSegments \in Nat /\ MaxSpeechRequests \in Nat /\ MaxInterrupts \in Nat

\* The generation is raised only after the queue was cleared; until the bound is
\* reached there is one left to raise it to.
OutputInv ==
  /\ Output!TypeOK /\ Output!InterruptIsClean
  /\ ros.pc = "cleared" => generation <= MaxInterrupts

OutputWorkers == [pc : {"idle", "taken", "begun", "audio", "playing", "played"},
                  req : Output!Requests, gen : 0 .. MaxInterrupts + 1, left : 0 .. MaxSegments]
Interrupts == [pc : {"quiet", "cleared", "raised", "ended"}, req : Output!Requests]

LEMMA OutputTypes ==
  ASSUME OutputAssumptions
  PROVE  /\ MaxSegments \in Nat /\ MaxSpeechRequests \in Nat /\ MaxInterrupts \in Nat
         /\ Output!NoRequest \in Output!Requests /\ Output!Idle \in OutputWorkers
         /\ Output!Idle.pc = "idle"
         /\ Output!Quiet \in Interrupts /\ Output!Quiet.pc = "quiet"
<1>1. MaxSegments \in Nat /\ MaxSpeechRequests \in Nat /\ MaxInterrupts \in Nat
  BY DEF OutputAssumptions
<1>2. Output!NoRequest \in Output!Requests
  BY DEF OutputAssumptions, Output!NoRequest, Output!Requests
<1>3. Output!Idle \in OutputWorkers /\ Output!Idle.pc = "idle"
  BY <1>1, <1>2 DEF Output!Idle, OutputWorkers
<1>4. Output!Quiet \in Interrupts /\ Output!Quiet.pc = "quiet"
  BY <1>2 DEF Output!Quiet, Interrupts
<1>. QED
  BY <1>1, <1>2, <1>3, <1>4

LEMMA OutputIs ==
  ASSUME OutputAssumptions, OutputInv
  PROVE  /\ segments \in Seq(Output!Requests) /\ Len(segments) <= MaxSpeechRequests
         /\ Len(segments) \in Nat
         /\ keys \subseteq Keys /\ ros \in Interrupts
         /\ generation \in 1 .. MaxInterrupts + 1 /\ speaker \in OutputWorkers
         /\ expired \in BOOLEAN
         /\ playing \in 0 .. MaxInterrupts + 1
         /\ \A i \in 1 .. Len(segments) : segments[i] \in Output!Requests
BY DEF OutputInv, Output!TypeOK, OutputWorkers, Interrupts

\* A key stands for a request that is queued, or taken and not begun.
KeyIsThere(k) ==
  \/ \E i \in 1 .. Len(segments) : segments[i].key = k
  \/ speaker.pc = "taken" /\ speaker.req.key = k

LEMMA KeysAreThere == ASSUME OutputInv, NEW k \in keys PROVE KeyIsThere(k)
BY DEF OutputInv, Output!InterruptIsClean, KeyIsThere

LEMMA PutKeeps ==
  ASSUME OutputAssumptions, OutputInv, NEW req \in Output!Requests, Output!Put(req), UNCHANGED speaker
  PROVE  /\ segments' \in Seq(Output!Requests) /\ Len(segments') <= MaxSpeechRequests
         /\ keys' \subseteq Keys
         /\ \A k \in keys' : KeyIsThere(k)'
<1>1. CASE req.key \in keys
  <2>1. UNCHANGED <<segments, keys>>
    BY <1>1 DEF Output!Put
  <2>2. \A k \in keys : KeyIsThere(k)
    BY KeysAreThere
  <2>3. \A k \in keys' : KeyIsThere(k)'
    BY <2>1, <2>2 DEF KeyIsThere
  <2>. QED
    BY <2>1, <2>3, OutputIs
<1>2. CASE req.key \notin keys
  <2>1. /\ Len(segments) < MaxSpeechRequests /\ segments' = Append(segments, req)
        /\ keys' = keys \cup {req.key}
    BY <1>2 DEF Output!Put
  <2>2. req.key \in Keys
    BY DEF Output!Requests
  <2>3. /\ Len(segments') = Len(segments) + 1 /\ segments'[Len(segments) + 1] = req
        /\ \A i \in 1 .. Len(segments) : segments'[i] = segments[i]
        /\ segments' \in Seq(Output!Requests)
    BY <2>1, OutputIs
  <2>4. ASSUME NEW k \in keys' PROVE KeyIsThere(k)'
    <3>1. CASE k = req.key
      <4>1. Len(segments) + 1 \in 1 .. Len(segments')
        BY <2>3, OutputIs
      <4>. QED
        BY <2>3, <3>1, <4>1 DEF KeyIsThere
    <3>2. CASE k \in keys
      <4>1. KeyIsThere(k)
        BY <3>2, KeysAreThere
      <4>2. ASSUME NEW i \in 1 .. Len(segments), segments[i].key = k PROVE KeyIsThere(k)'
        <5>1. i \in 1 .. Len(segments') /\ segments'[i].key = k
          BY <2>3, <4>2, OutputIs
        <5>. QED
          BY <5>1 DEF KeyIsThere
      <4>. QED
        BY <4>1, <4>2 DEF KeyIsThere
    <3>. QED
      BY <2>1, <3>1, <3>2
  <2>5. Len(segments') <= MaxSpeechRequests
    BY <2>1, <2>3, OutputIs, OutputTypes
  <2>6. keys' \subseteq Keys
    BY <2>1, <2>2, OutputIs
  <2>. QED
    BY <2>3, <2>4, <2>5, <2>6
<1>. QED
  BY <1>1, <1>2

\* The other part of InterruptIsClean.
PlaysTheLatest == playing # 0 /\ ros.pc # "raised" => playing = generation

LEMMA OutputParts ==
  OutputInv <=> /\ Output!TypeOK /\ PlaysTheLatest /\ \A k \in keys : KeyIsThere(k)
                /\ ros.pc = "cleared" => generation <= MaxInterrupts
BY DEF OutputInv, Output!InterruptIsClean, PlaysTheLatest, KeyIsThere

\* The steps of the worker after it has begun, which leave queue and keys alone.
LEMMA PlayingKeeps ==
  ASSUME OutputAssumptions, OutputInv, UNCHANGED <<segments, keys, ros, generation>>,
         speaker.pc # "taken", speaker' \in OutputWorkers, expired' \in BOOLEAN,
         playing' \in {0, playing, generation}
  PROVE  OutputInv'
<1>0. playing' \in 0 .. MaxInterrupts + 1
  BY OutputIs, OutputTypes
<1>1. Output!TypeOK'
  BY <1>0, OutputIs DEF Output!TypeOK, OutputWorkers, Interrupts
<1>2. PlaysTheLatest' /\ (ros.pc = "cleared" => generation <= MaxInterrupts)'
  BY OutputParts DEF PlaysTheLatest
<1>3. ASSUME NEW k \in keys' PROVE KeyIsThere(k)'
  <2>1. KeyIsThere(k)
    BY KeysAreThere
  <2>. QED
    BY <2>1 DEF KeyIsThere
<1>4. /\ Output!TypeOK' /\ PlaysTheLatest' /\ (\A k \in keys : KeyIsThere(k))'
      /\ (ros.pc = "cleared" => generation <= MaxInterrupts)'
  BY <1>1, <1>2, <1>3
<1>. QED
  BY <1>4, OutputParts DEF OutputInv, Output!InterruptIsClean, PlaysTheLatest, KeyIsThere

LEMMA TakeKeeps == ASSUME OutputAssumptions, OutputInv, Output!Take PROVE OutputInv'
<1>1. speaker.pc = "idle" /\ UNCHANGED <<keys, ros, generation, expired, playing>>
  BY DEF Output!Take
<1>2. PICK i \in 1 .. Len(segments) :
        /\ speaker' = [Output!Idle EXCEPT !.pc = "taken", !.req = segments[i]]
        /\ segments' = [k \in 1 .. Len(segments) - 1 |-> segments[IF k < i THEN k ELSE k + 1]]
  BY DEF Output!Take
<1>. DEFINE w == [Output!Idle EXCEPT !.pc = "taken", !.req = segments[i]]
            n == Len(segments)
<1>3. n \in Nat /\ n <= MaxSpeechRequests /\ i \in 1 .. n /\ segments[i] \in Output!Requests
  BY OutputIs
<1>4. w \in OutputWorkers /\ w.pc = "taken" /\ w.req = segments[i]
  BY <1>3, OutputTypes DEF OutputWorkers
<1>5. speaker' = w
  BY <1>2
<1>6. \A k \in 1 .. n : segments[k] \in Output!Requests
  BY OutputIs
<1>. HIDE DEF w, n
<1>7. segments' = [k \in 1 .. n - 1 |-> segments[IF k < i THEN k ELSE k + 1]]
  BY <1>2 DEF n
<1>8. \A k \in 1 .. n - 1 : (IF k < i THEN k ELSE k + 1) \in 1 .. n
  BY <1>3
<1>9. segments' \in [1 .. n - 1 -> Output!Requests] /\ n - 1 \in Nat
  BY <1>3, <1>6, <1>7, <1>8
<1>10. segments' \in Seq(Output!Requests) /\ Len(segments') = n - 1
  BY <1>9
<1>11. ASSUME NEW k \in keys' PROVE KeyIsThere(k)'
  <2>1. \E j \in 1 .. n : segments[j].key = k
    BY <1>1, KeysAreThere DEF KeyIsThere, n
  <2>2. PICK j \in 1 .. n : segments[j].key = k
    BY <2>1
  <2>3. CASE j = i
    BY <1>4, <1>5, <2>2, <2>3 DEF KeyIsThere
  <2>4. CASE j < i
    <3>1. j \in 1 .. n - 1 /\ segments'[j] = segments[j]
      BY <1>3, <1>7, <2>4
    <3>. QED
      BY <1>10, <2>2, <3>1 DEF KeyIsThere
  <2>5. CASE j > i
    <3>1. j - 1 \in 1 .. n - 1 /\ ~(j - 1 < i) /\ (j - 1) + 1 = j
      BY <1>3, <2>5
    <3>2. segments'[j - 1] = segments[j]
      BY <1>7, <3>1
    <3>. QED
      BY <1>10, <2>2, <3>1, <3>2 DEF KeyIsThere
  <2>. QED
    BY <1>3, <2>3, <2>4, <2>5
<1>12. Output!TypeOK'
  <2>1. segments' \in Seq(Output!Requests) /\ Len(segments') <= MaxSpeechRequests
    <3>1. MaxSpeechRequests \in Nat
      BY OutputTypes
    <3>. QED
      BY <1>3, <1>10, <3>1
  <2>2. /\ keys' \subseteq Keys /\ ros' \in Interrupts
        /\ generation' \in 1 .. MaxInterrupts + 1
        /\ expired' \in BOOLEAN /\ playing' \in 0 .. MaxInterrupts + 1
    BY <1>1, OutputIs
  <2>3. speaker' \in OutputWorkers
    BY <1>4, <1>5
  <2>. QED
    BY <2>1, <2>2, <2>3 DEF Output!TypeOK, OutputWorkers, Interrupts
<1>13. PlaysTheLatest' /\ (ros.pc = "cleared" => generation <= MaxInterrupts)'
  BY <1>1, OutputParts DEF PlaysTheLatest
<1>. QED
  BY <1>11, <1>12, <1>13 DEF OutputInv, Output!InterruptIsClean, PlaysTheLatest, KeyIsThere

LEMMA BeginKeeps == ASSUME OutputAssumptions, OutputInv, Output!Begin PROVE OutputInv'
<1>1. /\ speaker.pc = "taken" /\ keys' = keys \ {speaker.req.key} /\ expired' \in BOOLEAN
      /\ UNCHANGED <<segments, ros, generation, playing>>
  BY DEF Output!Begin
<1>2. speaker' \in OutputWorkers
  <2>1. ASSUME NEW n \in 1 .. MaxSegments
        PROVE  [speaker EXCEPT !.pc = "begun", !.gen = generation, !.left = n] \in OutputWorkers
    <3>1. n \in 0 .. MaxSegments /\ generation \in 0 .. MaxInterrupts + 1
      BY OutputTypes, OutputIs
    <3>. QED
      BY <3>1, OutputIs DEF OutputWorkers
  <2>. QED
    BY <2>1, OutputTypes DEF Output!Begin
<1>3. ASSUME NEW k \in keys' PROVE KeyIsThere(k)'
  <2>1. k \in keys /\ k # speaker.req.key
    BY <1>1
  <2>2. KeyIsThere(k)
    BY <2>1, KeysAreThere
  <2>. QED
    BY <1>1, <2>1, <2>2 DEF KeyIsThere
<1>4. Output!TypeOK'
  BY <1>1, <1>2, OutputIs DEF Output!TypeOK, OutputWorkers, Interrupts
<1>5. PlaysTheLatest' /\ (ros.pc = "cleared" => generation <= MaxInterrupts)'
  BY <1>1, OutputParts DEF PlaysTheLatest
<1>. QED
  BY <1>3, <1>4, <1>5 DEF OutputInv, Output!InterruptIsClean, PlaysTheLatest, KeyIsThere

LEMMA WorkerSteps ==
  ASSUME OutputAssumptions, OutputInv, Output!Synthesize \/ Output!Start \/ Output!Played \/ Output!NextSegment \/ Output!Expires
  PROVE  OutputInv'
<1>1. UNCHANGED <<segments, keys, ros, generation>> /\ speaker.pc # "taken" /\ expired' \in BOOLEAN
  BY OutputIs DEF Output!Synthesize, Output!Start, Output!Played, Output!NextSegment,
     Output!Expires
<1>2. ASSUME NEW pc \in {"audio", "playing", "played"} PROVE [speaker EXCEPT !.pc = pc] \in OutputWorkers
  BY OutputIs DEF OutputWorkers
<1>3. speaker.left > 1 => [speaker EXCEPT !.pc = "begun", !.left = speaker.left - 1] \in OutputWorkers
  <2>1. speaker.left \in 0 .. MaxSegments /\ MaxSegments \in Nat
    BY OutputIs, OutputTypes DEF OutputWorkers
  <2>2. speaker.left > 1 => speaker.left - 1 \in 0 .. MaxSegments
    BY <2>1
  <2>. QED
    BY <2>2, OutputIs DEF OutputWorkers
<1>4. speaker' \in OutputWorkers
  BY <1>2, <1>3, OutputIs, OutputTypes DEF Output!Synthesize, Output!Start, Output!Played,
     Output!NextSegment, Output!Expires
<1>5. playing' \in {0, playing, generation}
  BY DEF Output!Synthesize, Output!Start, Output!Played, Output!NextSegment,
     Output!Expires, Output!Valid
<1>. QED
  BY <1>1, <1>4, <1>5, PlayingKeeps

LEMMA OutputInterruptKeeps ==
  ASSUME OutputAssumptions, OutputInv,
         (\E req \in Output!Requests : Output!Clear(req)) \/ Output!Raise \/ Output!Terminate
  PROVE  OutputInv'
<1>1. UNCHANGED <<speaker, expired>>
  BY DEF Output!Clear, Output!Raise, Output!Terminate
<1>2. CASE \E req \in Output!Requests : Output!Clear(req)
  <2>1. PICK req \in Output!Requests : Output!Clear(req)
    BY <1>2
  <2>. DEFINE r == [pc |-> "cleared", req |-> req]
  <2>2. /\ ros = Output!Quiet /\ generation <= MaxInterrupts /\ segments' = << >> /\ keys' = {}
        /\ ros' = r
        /\ UNCHANGED <<generation, playing>>
    BY <2>1 DEF Output!Clear
  <2>3. r \in Interrupts /\ r.pc = "cleared"
    BY DEF Interrupts
  <2>. HIDE DEF r
  <2>4. segments' \in Seq(Output!Requests) /\ Len(segments') = 0
    BY <2>2
  <2>5. Output!TypeOK'
    BY <1>1, <2>2, <2>3, <2>4, OutputIs, OutputTypes DEF Output!TypeOK, OutputWorkers,
       Interrupts
  <2>6. PlaysTheLatest'
    BY <2>2, <2>3, OutputTypes, OutputParts DEF PlaysTheLatest
  <2>. QED
    BY <2>2, <2>5, <2>6 DEF OutputInv, Output!InterruptIsClean, PlaysTheLatest
<1>3. CASE Output!Raise \/ Output!Terminate
  <2>. DEFINE r == [ros EXCEPT !.pc = IF Output!Raise THEN "raised" ELSE "ended"]
  <2>1. UNCHANGED <<segments, keys>>
    BY <1>3 DEF Output!Raise, Output!Terminate
  <2>2. ASSUME NEW pc \in {"raised", "ended"}
        PROVE  [ros EXCEPT !.pc = pc] \in Interrupts /\ [ros EXCEPT !.pc = pc].pc = pc
    BY OutputIs DEF Interrupts
  <2>3. ros' \in Interrupts /\ (Output!Raise => ros'.pc = "raised") /\ (Output!Terminate => ros'.pc = "ended")
    BY <1>3, <2>2 DEF Output!Raise, Output!Terminate
  <2>4. Output!Raise => generation' = generation + 1 /\ generation <= MaxInterrupts /\ UNCHANGED playing
    BY OutputParts DEF Output!Raise
  <2>5. Output!Terminate => playing' = 0 /\ UNCHANGED generation
    BY DEF Output!Terminate
  <2>6. Output!TypeOK'
    BY <1>1, <1>3, <2>1, <2>3, <2>4, <2>5, OutputIs, OutputTypes DEF Output!TypeOK,
       OutputWorkers, Interrupts
  <2>7. PlaysTheLatest' /\ ros'.pc # "cleared"
    BY <1>3, <2>3, <2>4, <2>5 DEF PlaysTheLatest
  <2>8. ASSUME NEW k \in keys' PROVE KeyIsThere(k)'
    <3>1. KeyIsThere(k)
      BY <2>1, KeysAreThere
    <3>. QED
      BY <1>1, <2>1, <3>1 DEF KeyIsThere
  <2>. QED
    BY <2>6, <2>7, <2>8 DEF OutputInv, Output!InterruptIsClean, PlaysTheLatest, KeyIsThere
<1>. QED
  BY <1>2, <1>3

LEMMA PutsKeep ==
  ASSUME OutputAssumptions, OutputInv,
         (\E req \in Output!Requests : Output!Enqueue(req)) \/ Output!PutInterrupting
  PROVE  OutputInv'
<1>1. UNCHANGED <<generation, speaker, expired, playing>>
  BY DEF Output!Enqueue, Output!PutInterrupting
<1>2. \E req \in Output!Requests : Output!Put(req)
  BY OutputIs DEF Output!Enqueue, Output!PutInterrupting, Interrupts
<1>3. PICK req \in Output!Requests : Output!Put(req)
  BY <1>2
<1>4. /\ segments' \in Seq(Output!Requests) /\ Len(segments') <= MaxSpeechRequests
      /\ keys' \subseteq Keys
      /\ \A k \in keys' : KeyIsThere(k)'
  BY <1>1, <1>3, PutKeeps
<1>5. ros' \in Interrupts /\ ros'.pc = "quiet" /\ ros.pc # "raised"
  BY OutputTypes, OutputIs DEF Output!Enqueue, Output!PutInterrupting
<1>6. Output!TypeOK'
  BY <1>1, <1>4, <1>5, OutputIs DEF Output!TypeOK, OutputWorkers, Interrupts
<1>7. PlaysTheLatest'
  BY <1>1, <1>5, OutputParts DEF PlaysTheLatest
<1>. QED
  BY <1>4, <1>5, <1>6, <1>7 DEF OutputInv, Output!InterruptIsClean, PlaysTheLatest,
     KeyIsThere

LEMMA OutputNextInv == ASSUME OutputAssumptions, OutputInv, [Output!Next]_Output!vars PROVE OutputInv'
<1>1. ASSUME NEW k \in Keys, NEW p \in Priorities PROVE [key |-> k, prio |-> p] \in Output!Requests
  BY DEF Output!Requests
<1>2. CASE \E k \in Keys, p \in Priorities : Output!Enqueue([key |-> k, prio |-> p])
  BY <1>1, <1>2, PutsKeep
<1>3. CASE \E k \in Keys, p \in Priorities : Output!Clear([key |-> k, prio |-> p])
  BY <1>1, <1>3, OutputInterruptKeeps
<1>4. CASE Output!Raise \/ Output!Terminate
  BY <1>4, OutputInterruptKeeps
<1>5. CASE Output!PutInterrupting
  BY <1>5, PutsKeep
<1>6. CASE Output!Take \/ Output!Begin
  BY <1>6, TakeKeeps, BeginKeeps
<1>7. CASE Output!Synthesize \/ Output!Start \/ Output!Played \/ Output!NextSegment \/ Output!Expires
  BY <1>7, WorkerSteps
<1>8. CASE UNCHANGED Output!vars
  BY <1>8 DEF Output!vars, OutputInv, Output!TypeOK, Output!InterruptIsClean
<1>. QED
  BY <1>2, <1>3, <1>4, <1>5, <1>6, <1>7, <1>8 DEF Output!Next

\* Once an interrupt is through no audio of an older generation runs, and what was
\* thrown away leaves no key behind that would swallow the same words later, for any
\* keys, priorities and bounds (the queue, its worker and the interrupt).
THEOREM InterruptsAreClean ==
  ASSUME OutputAssumptions
  PROVE  Output!Spec => [](Output!TypeOK /\ Output!InterruptIsClean)
<1>1. Output!Init => OutputInv
  <2>1. ASSUME Output!Init PROVE Output!TypeOK
    <3>1. /\ segments = << >> /\ keys = {} /\ ros \in Interrupts /\ generation = 1
          /\ speaker \in OutputWorkers
          /\ expired = FALSE /\ playing = 0
      BY <2>1, OutputTypes DEF Output!Init
    <3>2. segments \in Seq(Output!Requests) /\ Len(segments) = 0
      BY <3>1
    <3>3. Len(segments) <= MaxSpeechRequests /\ generation \in 1 .. MaxInterrupts + 1
          /\ playing \in 0 .. MaxInterrupts + 1
      BY <3>1, <3>2, OutputTypes
    <3>. QED
      BY <3>1, <3>2, <3>3 DEF Output!TypeOK, OutputWorkers, Interrupts
  <2>2. ASSUME Output!Init PROVE playing = 0 /\ keys = {} /\ ros.pc = "quiet"
    BY <2>2, OutputTypes DEF Output!Init
  <2>. QED
    BY <2>1, <2>2 DEF OutputInv, Output!InterruptIsClean
<1>2. OutputInv /\ [Output!Next]_Output!vars => OutputInv'
  BY OutputNextInv
<1>3. OutputInv => Output!TypeOK /\ Output!InterruptIsClean
  BY DEF OutputInv
<1>. QED
  BY <1>1, <1>2, <1>3, PTL DEF Output!Spec
===============================================================================
