------------------------------ MODULE MCParts ------------------------------
(* The parts of the robot's programs that run beside one another, on small       *)
(* instances, in one run of TLC.  They share no state: `under' names the one     *)
(* that a behaviour is about, it is chosen at the start and never changes, and   *)
(* the behaviours are those of each part alone, no more and no fewer.  Because   *)
(* only one part is there at a time they share the variables v1 .. v18, too;      *)
(* those a part has no use for stay 0.  RuntimeGuard, about which theorems are   *)
(* proved, keeps its own names.  What two parts do together is the subject of    *)
(* modules of its own (LocalDrive, VelocityPath, PatrolMission, ...).            *)
EXTENDS RuntimeGuard, Integers

VARIABLES
  under,
  v1, v2, v3, v4, v5, v6, v7, v8, v9, v10, v11, v12, v13, v14, v15, v16, v17, v18

slots == <<v1, v2, v3, v4, v5, v6, v7, v8, v9, v10, v11, v12, v13, v14, v15, v16, v17, v18>>
own == <<mode, up, since, triggered, mending, attempts, cool, lasted>>
all == <<under, slots, own>>

\* What the supervisor tells of: all is well but Nav2, all is down, only the base is up,
\* and a patrol that waits without its perception.
MonitorStatuses ==
  LET well == [up |-> {"bridge", "bringup", "perception", "zed", "patrol"},
               owner |-> "supervisor", patrol |-> "idle", published |-> {"odom"}]
  IN {well, [well EXCEPT !.up = {}], [well EXCEPT !.up = {"bringup"}, !.owner = "systemd"],
      [well EXCEPT !.up = {"bridge", "nav2"}, !.patrol = "waiting"]}

Scenes == INSTANCE SceneUpload WITH
  Sessions <- {"s1", "s2"}, Hashes <- {"h1", "h2"}, KeepSucceeded <- 1, DiskMax <- 2,
  MaxTasks <- 2, rows <- v1, dirs <- v2, temp <- v3, caller <- v4, worker <- v5, config <- v6,
  accepted <- v7

MapTasks == INSTANCE MapUpload WITH
  Contents <- {"c1", "c2"}, KeepSucceeded <- 1, Budgets <- {1, 3}, MaxTasks <- 3, row <- v1,
  dirs <- v2, temps <- v3, drawn <- v4, caller <- v5, worker <- v6, budget <- v7,
  accepted <- v8

Images == INSTANCE InspectionImages WITH
  Visits <- {1, 2}, DiskMax <- 1, MaxSlot <- 1, MaxRows <- 2, status <- v1, arrivals <- v2,
  lastSlot <- v3, slot <- v4, capture <- v5, rows <- v6, files <- v7, leaked <- v8,
  worker <- v9

Deploy == INSTANCE Deployments WITH
  Installers <- {"cloud", "http"}, Ids <- {"d1", "d2"}, Contents <- {"x", "y"},
  MaxRoutes <- 2, row <- v1, directory <- v2, routes <- v3, staged <- v4, job <- v5

Files == INSTANCE MapFiles WITH
  Names <- {"n1", "n2"}, Archives <- {"a1", "a2"}, MaxMaps <- 3, yaml <- v1, pgm <- v2,
  active <- v3, op <- v4, saved <- v5, gone <- v6, broken <- v7

Local == INSTANCE LocalDrive WITH
  Durations <- {1, 2}, Debounce <- 1, CmdTimeout <- 1, ScanTimeout <- 1, FeedbackTimeout <- 1,
  AgeCap <- 4, MaxLost <- 1, drive <- v1, wheels <- v2, age <- v3, stampAge <- v4,
  timedOut <- v5, fault <- v6, lost <- v7, due <- v8, timer <- v9, firing <- v10,
  stopAge <- v11

Path == INSTANCE VelocityPath WITH
  SourceTimeout <- 0, StatusTimeout <- 0, SwitchGuard <- 0, TimerPeriod <- 1, AgeCap <- 2,
  CmdTimeout <- 1, ScanTimeout <- 1, FeedbackTimeout <- 1, command <- v1, age <- v2,
  health <- v3, statusAge <- v4, manual <- v5, source <- v6, guardLeft <- v7, timerAge <- v8,
  out <- v9, rest <- v10, alive <- v11, drive <- v12, wheels <- v13, baseAge <- v14,
  stampAge <- v15, timedOut <- v16, fault <- v17, due <- v18

Start == INSTANCE SupervisorStart WITH
  Threads <- {"t1", "t2"}, NoThread <- "none", ByHand <- {"bringup"},
  MayExit <- {"navigation"}, MaxCommands <- 2, current <- v1, startActive <- v2, kind <- v3,
  preexisting <- v4, owned <- v5, running <- v6, lastAck <- v7, thread <- v8, ros <- v9,
  patrol <- v10, since <- v11, given <- v12

Boot == INSTANCE PatrolStartup WITH
  Requests <- {"r1", "r2", "r3"}, Nobody <- "nobody", Memory <- 2, PoseCount <- 2,
  MaxPatrols <- 4, state <- v1, booting <- v2, autoStart <- v3, remaining <- v4, loaded <- v5,
  seen <- v6, shown <- v7, due <- v8, patrol <- v9, others <- v10

Agent == INSTANCE AgentOperations WITH
  Kinds <- {"motion", "prepare"}, MaxOps <- 2, MaxRequests <- 2, MaxSteps <- 2,
  ops <- v1, late <- v2, robot <- v3, reports <- v4, queue <- v5, pending <- v6,
  context <- v7, worker <- v8, lease <- v9, reaping <- v10, stops <- v11, requests <- v12,
  known <- v13

Motion == INSTANCE MotionSkills WITH
  SkillTimeout <- 3, Duration <- 3, PoseLoss <- 1, StatusAge <- 1, skill <- v1, basic <- v2,
  skillMode <- v3, basicMode <- v4, chassis <- v5, pose <- v6, velocity <- v7, due <- v8,
  blocked <- v9, driven <- v10

Voice == INSTANCE VoiceSession WITH
  enabled <- v1, awakened <- v2, followup <- v3, state <- v4, wait <- v5, speaking <- v6,
  worker <- v7, cued <- v8

Output == INSTANCE VoiceOutput WITH
  Keys <- {"k1", "k2"}, Priorities <- {1, 2}, MaxSegments <- 2, MaxRequests <- 2,
  MaxInterrupts <- 2, queue <- v1, keys <- v2, ros <- v3, generation <- v4, worker <- v5,
  expired <- v6, playing <- v7

Reloc == INSTANCE ActiveRelocalization WITH
  Segments <- <<1, 2>>, MaxTotalRotation <- 3, MaxAttempts <- 2, SuspectSamples <- 2,
  TriggerSamples <- 2, HealthyRecoverySamples <- 2, VerificationSamples <- 2, state <- v1,
  attempt_id <- v2, bad <- v3, trigger <- v4, healthy <- v5, segment <- v6, left <- v7,
  rotated <- v8, settling <- v9, requested <- v10, asked <- v11, candidate <- v12,
  verified <- v13, inbox <- v14, takeover <- v15, turned <- v16, steady <- v17

Capture == INSTANCE Capture3D WITH
  Threads <- {1, 2}, MaxSessions <- 2, ops <- v1, lock <- v2, stopping <- v3, status <- v4,
  capture <- v5, halt <- v6, sessions <- v7, begun <- v8, latest <- v9, build <- v10,
  source <- v11, busy <- v12, answer <- v13

Gnss == INSTANCE GnssGate WITH
  Span <- 3, MaxJump <- 2, MaxSpeed <- 1, StatusTimeout <- 1, RecoveryGoodSamples <- 3,
  state <- v1, recovery_count <- v2, trusted <- v3, gap <- v4, status <- v5, age <- v6,
  passed <- v7, streak <- v8

Health == INSTANCE NavigationHealth WITH
  Quality <- {"gnss"}, Plain <- {"odom"}, Required <- {"gnss"}, Timeout <- 1, quality <- v1,
  amcl <- v2, reloc <- v3, age <- v4, overall <- v5

Fuse == INSTANCE Fusion WITH
  Sources <- {"GNSS", "AMCL"}, Span <- 2, Origin <- 1, Freshness <- 1, Gate <- 2,
  MaxStep <- 1, track <- v1, counted <- v2, odom <- v3, lag <- v4, measured <- v5, new <- v6,
  good <- v7, core <- v8

Walls == INSTANCE KeepoutWalls WITH
  Routes <- {"r0", "r1", "r2"}, Maps <- {"m1", "m2"},
  Fits <- {<<"r0", "m1">>, <<"r1", "m1">>, <<"r2", "m1">>, <<"r2", "m2">>},
  HardCells <- [r0 |-> 0, r1 |-> 1, r2 |-> 1], profile <- v1, route <- v2, map <- v3,
  global <- v4, local <- v5, metadata <- v6, step <- v7, mode <- v8, drawing <- v9,
  answer <- v10, torn <- v11

Monitor == INSTANCE HealthMonitor WITH
  Statuses <- MonitorStatuses, Sources <- {"chassis", "odom"}, Debounce <- 1, Cooldown <- 2,
  system <- v1, executor <- v2, heard <- v3, chassis <- v4, since <- v5, recovered <- v6,
  cool <- v7, asked <- v8, calm <- v9, gap <- v10

Swing == INSTANCE SwingRelocalization WITH
  Segments <- <<2, -4, 2>>, Tolerance <- 1, Timeout <- 6, Settle <- 1, MaxLag <- 1, yaw <- v1,
  heading <- v2, lag <- v3, odometry <- v4, next <- v5, target <- v6, elapsed <- v7,
  rest <- v8, command <- v9, ended <- v10

-----------------------------------------------------------------------------
\* The variables from one on are not used.
Free18 == v18 = 0
Free14 == v14 = 0 /\ v15 = 0 /\ v16 = 0 /\ v17 = 0 /\ Free18
Free13 == v13 = 0 /\ Free14
Free12 == v12 = 0 /\ Free13
Free11 == v11 = 0 /\ Free12
Free10 == v10 = 0 /\ Free11
Free9 == v9 = 0 /\ Free10
Free8 == v8 = 0 /\ Free9
Free6 == v6 = 0 /\ v7 = 0 /\ Free8

Kept18 == UNCHANGED v18
Kept14 == UNCHANGED v14 /\ UNCHANGED v15 /\ UNCHANGED v16 /\ UNCHANGED v17 /\ Kept18
Kept13 == UNCHANGED v13 /\ Kept14
Kept12 == UNCHANGED v12 /\ Kept13
Kept11 == UNCHANGED v11 /\ Kept12
Kept10 == UNCHANGED v10 /\ Kept11
Kept9 == UNCHANGED v9 /\ Kept10
Kept8 == UNCHANGED v8 /\ Kept9
Kept6 == UNCHANGED v6 /\ UNCHANGED v7 /\ Kept8

Free1 == v1 = 0 /\ v2 = 0 /\ v3 = 0 /\ v4 = 0 /\ v5 = 0 /\ Free6
NoGuard == Init

PartsInit ==
  \/ under = "guard" /\ Init /\ Free1
  \/ under = "scenes" /\ Scenes!Init /\ Free8 /\ NoGuard
  \/ under = "maps" /\ MapTasks!Init /\ Free9 /\ NoGuard
  \/ under = "images" /\ Images!Init /\ Free10 /\ NoGuard
  \/ under = "deployments" /\ Deploy!Init /\ Free6 /\ NoGuard
  \/ under = "map files" /\ Files!Init /\ Free8 /\ NoGuard
  \/ under = "local drive" /\ Local!DriveInit /\ Free12 /\ NoGuard
  \/ under = "velocity path" /\ Path!PathInit /\ NoGuard
  \/ under = "supervisor" /\ Start!Init /\ Free13 /\ NoGuard
  \/ under = "startup" /\ Boot!Init /\ Free11 /\ NoGuard
  \/ under = "agent" /\ Agent!Init /\ Free14 /\ NoGuard
  \/ under = "motion" /\ Motion!Init /\ Free11 /\ NoGuard
  \/ under = "voice" /\ Voice!Init /\ Free9 /\ NoGuard
  \/ under = "output" /\ Output!Init /\ Free8 /\ NoGuard
  \/ under = "relocalization" /\ Reloc!Init /\ Free18 /\ NoGuard
  \/ under = "capture" /\ Capture!Init /\ Free14 /\ NoGuard
  \/ under = "gnss" /\ Gnss!Init /\ Free9 /\ NoGuard
  \/ under = "health" /\ Health!Init /\ Free6 /\ NoGuard
  \/ under = "fusion" /\ Fuse!Init /\ Free9 /\ NoGuard
  \/ under = "walls" /\ Walls!Init /\ Free12 /\ NoGuard
  \/ under = "monitor" /\ Monitor!Init /\ Free11 /\ NoGuard
  \/ under = "swing" /\ Swing!Init /\ Free11 /\ NoGuard

PartsNext ==
  /\ UNCHANGED under
  /\ \/ under = "guard" /\ Next /\ UNCHANGED slots
     \/ under = "scenes" /\ Scenes!Next /\ Kept8 /\ UNCHANGED own
     \/ under = "maps" /\ MapTasks!Next /\ Kept9 /\ UNCHANGED own
     \/ under = "images" /\ Images!Next /\ Kept10 /\ UNCHANGED own
     \/ under = "deployments" /\ Deploy!Next /\ Kept6 /\ UNCHANGED own
     \/ under = "map files" /\ Files!Next /\ Kept8 /\ UNCHANGED own
     \/ under = "local drive" /\ Local!DriveNext /\ Kept12 /\ UNCHANGED own
     \/ under = "velocity path" /\ Path!PathNext /\ UNCHANGED own
     \/ under = "supervisor" /\ Start!Next /\ Kept13 /\ UNCHANGED own
     \/ under = "startup" /\ Boot!Next /\ Kept11 /\ UNCHANGED own
     \/ under = "agent" /\ Agent!Next /\ Kept14 /\ UNCHANGED own
     \/ under = "motion" /\ Motion!Next /\ Kept11 /\ UNCHANGED own
     \/ under = "voice" /\ Voice!Next /\ Kept9 /\ UNCHANGED own
     \/ under = "output" /\ Output!Next /\ Kept8 /\ UNCHANGED own
     \/ under = "relocalization" /\ Reloc!Next /\ Kept18 /\ UNCHANGED own
     \/ under = "capture" /\ Capture!Next /\ Kept14 /\ UNCHANGED own
     \/ under = "gnss" /\ Gnss!Next /\ Kept9 /\ UNCHANGED own
     \/ under = "health" /\ Health!Next /\ Kept6 /\ UNCHANGED own
     \/ under = "fusion" /\ Fuse!Next /\ Kept9 /\ UNCHANGED own
     \/ under = "walls" /\ Walls!Next /\ Kept12 /\ UNCHANGED own
     \/ under = "monitor" /\ Monitor!Next /\ Kept11 /\ UNCHANGED own
     \/ under = "swing" /\ Swing!Next /\ Kept11 /\ UNCHANGED own

PartsSpec == PartsInit /\ [][PartsNext]_all
-----------------------------------------------------------------------------
\* Every variable of every part keeps to its values.
PartsTypeOK ==
  /\ TypeOK
  /\ under = "scenes" => Scenes!TypeOK
  /\ under = "maps" => MapTasks!TypeOK
  /\ under = "images" => Images!TypeOK
  /\ under = "deployments" => Deploy!TypeOK
  /\ under = "map files" => Files!TypeOK
  /\ under = "local drive" => Local!DriveTypeOK
  /\ under = "velocity path" => Path!PathTypeOK
  /\ under = "supervisor" => Start!TypeOK
  /\ under = "startup" => Boot!TypeOK
  /\ under = "agent" => Agent!TypeOK
  /\ under = "motion" => Motion!TypeOK
  /\ under = "voice" => Voice!TypeOK
  /\ under = "output" => Output!TypeOK
  /\ under = "relocalization" => Reloc!TypeOK
  /\ under = "capture" => Capture!TypeOK
  /\ under = "gnss" => Gnss!TypeOK
  /\ under = "health" => Health!TypeOK
  /\ under = "fusion" => Fuse!TypeOK
  /\ under = "walls" => Walls!TypeOK
  /\ under = "monitor" => Monitor!TypeOK
  /\ under = "swing" => Swing!TypeOK

\* What is to be uploaded keeps its files: a scene's or a map's snapshot and an
\* image stay until the platform has them or the row gives them up, and a
\* session has one open task.
UploadsKeepTheirFiles ==
  /\ under = "scenes" => Scenes!SceneSnapshotKept /\ Scenes!OneSceneTaskOpen
  /\ under = "maps" => MapTasks!MapSnapshotKept
  /\ under = "images" => Images!ImageKept

\* No image of the way to a target is asked for once the target is reached.
MovingEndsAtArrival == under = "images" => Images!MovingEndsAtArrival

\* Crashes and failures at any step leave the files of every installed
\* deployment, and a map operation that fails those of every map that was neither
\* deleted nor overwritten.
FilesSurvive ==
  /\ under = "deployments" => Deploy!InstalledIsComplete
  /\ under = "map files" => Files!MapsSurvive

\* The wheels stand within bounded time of the last usable command, scan or
\* feedback, and within bounded time of the arbiter's death.
WheelsStop ==
  /\ under = "local drive" => Local!BlindDriveBounded
  /\ under = "velocity path" => Path!WheelsOutliveNobody

\* A cancelled patrol start is not published, and the end of a patrol takes down
\* nothing that ran before it.
PatrolStartSafe ==
  [][under = "supervisor" =>
       /\ Start!CanceledStartIsDroppedStep
       /\ Start!KeepsWhatWasThereStep]_slots

\* A start command delivered again starts no second patrol while it is
\* remembered.
RequestStartsOnce == [][under = "startup" => Boot!RequestStartsOnceStep]_slots

\* What the node was asked to look after for a suspended turn is not forgotten,
\* the agent moves the robot by one operation at a time, and it has a component
\* restarted once for every fault.
AgentSafe ==
  /\ under = "agent" => Agent!WaitIsNeverForgotten /\ Agent!OneActionAtATime
  /\ under = "monitor" => Monitor!OneRepairPerFault

\* A motion commanded by voice or by the agent comes to its end, and the swing for
\* the localization to where it began.
MotionHasAnEnd ==
  /\ under = "motion" => Motion!MotionHasAnEnd
  /\ under = "swing" => Swing!SwingComesBack

\* The microphone is opened again after every turn, and an interrupt leaves no
\* speech of before it to be played.
VoiceSafe ==
  /\ under = "voice" => Voice!MicrophoneComesBack
  /\ under = "output" => Output!InterruptIsClean

\* The search for the position turns the robot a bounded number of times, and
\* calls it recovered only after fresh good samples in a row.
SearchIsBounded ==
  [][under = "relocalization" =>
       /\ Reloc!TurningIsBoundedStep
       /\ Reloc!RecoveredIsVerified']_slots

\* A rejected receiver wins its trust back by good fixes in a row, and a silent
\* sensor does not stay nominal.
SensorsTrusted ==
  [][/\ under = "gnss" => Gnss!TrustIsWonBackStep
     /\ under = "health" => Health!SilenceIsNoticed']_slots

\* The fused position stays near the robot.
ErrorStaysSmall == under = "fusion" => Fuse!ErrorStaysSmall

\* A stop of the 3D recording that reports a saved recording speaks of the one
\* it stopped, and recording and building never share the camera.
StopSpeaksOfItsCapture ==
  [][under = "capture" => Capture!StopSpeaksOfItsCaptureStep]_slots

\* Navigation with virtual walls has masks that are alike, as large as the map and
\* of as many cells as the route's walls cover, and they are the route's own unless
\* the last drawing was torn (prepare_patrol_navigation_assets).
WallsAreTheRoutes == [][under = "walls" => Walls!WallsAreTheRoutesStep]_slots
=============================================================================
