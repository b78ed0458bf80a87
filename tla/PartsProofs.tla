-------------------------- MODULE PartsProofs ---------------------------------
(***************************************************************************)
(* What is proved of the parts MCParts puts in one run.  First comes       *)
(* RuntimeGuard, for any processes, sensors, incidents and times: the ages *)
(* the guard keeps agree with how long each fault really lasted as long as *)
(* nothing is reported (AgesInv).  Then what StorageProofs, ControlProofs, *)
(* SupervisionProofs and VelocityPathProofs prove for any values of the    *)
(* constants is taken over to the instances of MCParts.  Each lemma has    *)
(* the same steps: a behaviour that is about the part starts as the part   *)
(* does (1), it stays about the part and takes its steps (2), the part's   *)
(* constants are what the general theorem takes them to be (3), the part's *)
(* invariant means the same in both modules (4), and so does what is said  *)
(* of its steps (6).  The definitions have to be expanded in (1), (2), (4) *)
(* and (6) because an instance within an instance is another name to the   *)
(* provers.                                                                *)
(***************************************************************************)
EXTENDS MCParts, TLAPS

-----------------------------------------------------------------------------
(* Typing *)

\* What a recovery under way looks like.
Mendings == {{}} \cup {{[process |-> p, next |-> s]} : p \in Recoverable, s \in {"stop",
"start"}}

LEMMA InitTyped == Init => TypeOK
BY GuardAssumption DEF Init, TypeOK, Unseen

LEMMA NotedTyped ==
    ASSUME TypeOK PROVE Noted \in [Keys -> 0 .. Unseen]
BY GuardAssumption DEF TypeOK, Noted, Unseen

LEMMA GuardTyped ==
    ASSUME TypeOK, Guard PROVE TypeOK'
<1> USE GuardAssumption
<1>1. since' \in [Keys -> 0 .. Unseen]
    <2>1. [k \in Keys |-> Unseen] \in [Keys -> 0 .. Unseen]
        BY DEF Unseen
    <2> QED
        BY <2>1, NotedTyped DEF TypeOK, Guard
<1>2. triggered' \subseteq Keys
    BY DEF TypeOK, Guard, Faults
<1>3. lasted' \in [Keys -> 0 .. Debounce + 1]
    BY DEF TypeOK, Guard
<1>4. cool' \in [Recoverable -> 0 .. Cooldown]
    BY DEF TypeOK, Guard
<1> QED
    BY <1>1, <1>2, <1>3, <1>4 DEF TypeOK, Guard, Unseen

LEMMA RecoverTyped ==
    ASSUME TypeOK, NEW p \in Recoverable, NEW i \in Incidents, RecoverComponent(p, i)
    PROVE  TypeOK'
<1>1. mending' \in Mendings
    BY DEF RecoverComponent, Mendings
<1>2. cool' \in [Recoverable -> 0 .. Cooldown]
    BY GuardAssumption DEF TypeOK, RecoverComponent
<1>3. attempts' \subseteq Recoverable \X Incidents
    BY DEF TypeOK, RecoverComponent
<1> QED
    BY <1>1, <1>2, <1>3 DEF TypeOK, RecoverComponent, Mendings, Unseen

LEMMA StopTyped ==
    ASSUME TypeOK, StopProcess PROVE TypeOK'
<1>1. PICK m \in mending : /\ mending' = {[m EXCEPT !.next = "start"]}
                           /\ up' = up \ {m.process}
    BY DEF StopProcess
<1>2. PICK p \in Recoverable, s \in {"stop", "start"} : m = [process |-> p, next |-> s]
    BY DEF TypeOK
<1>3. [m EXCEPT !.next = "start"] = [process |-> p, next |-> "start"]
    BY <1>2
<1>4. mending' \in Mendings
    BY <1>1, <1>3 DEF Mendings
<1> QED
    BY <1>1, <1>4 DEF TypeOK, StopProcess, Mendings, Unseen

LEMMA StartTyped ==
    ASSUME TypeOK, StartProcess PROVE TypeOK'
<1>1. PICK m \in mending : up' \in {up, up \cup {m.process}}
    BY DEF StartProcess
<1>2. m.process \in Keys
    <2>1. PICK p \in Recoverable, s \in {"stop", "start"} : m = [process |-> p, next |-> s]
        BY DEF TypeOK
    <2> QED
        BY <2>1, GuardAssumption
<1> QED
    BY <1>1, <1>2 DEF TypeOK, StartProcess, Unseen

-----------------------------------------------------------------------------
(* The ages *)

\* While nothing is reported, the age of a fault is the number of ticks that
\* found it, and none has lasted.
AgesInv ==
  /\ TypeOK
  /\ triggered = {} =>
       \A k \in Keys : IF since[k] = Unseen THEN lasted[k] = 0
                       ELSE since[k] < Debounce /\ lasted[k] = since[k] + 1

LEMMA InitAges == Init => AgesInv
BY InitTyped DEF Init, AgesInv

LEMMA OtherStepsTyped ==
    ASSUME TypeOK, \/ PatrolStatus \/ StopProcess \/ StartProcess
                   \/ \E k \in Keys : Changes(k)
                   \/ \E p \in Recoverable, i \in Incidents : RecoverComponent(p, i)
                   \/ UNCHANGED vars
    PROVE  TypeOK' /\ UNCHANGED <<since, triggered, lasted>>
<1>1. CASE PatrolStatus
    BY <1>1 DEF TypeOK, PatrolStatus, Unseen
<1>2. CASE \E k \in Keys : Changes(k)
    BY <1>2 DEF TypeOK, Changes, Unseen
<1>3. CASE UNCHANGED vars
    BY <1>3 DEF TypeOK, vars, Unseen
<1> QED
    BY <1>1, <1>2, <1>3, RecoverTyped, StopTyped, StartTyped
       DEF RecoverComponent, StopProcess, StartProcess

\* What a tick of the guard does to the age of a fault that was not reported.
LEMMA GuardCounts ==
    ASSUME AgesInv, Guard, mode \in Guarded, triggered = {}, NEW k \in Keys
    PROVE  /\ k \in up => since'[k] = Unseen /\ lasted'[k] = 0
           /\ k \notin up => /\ lasted'[k] = since'[k] + 1
                             /\ since'[k] \in 0 .. Debounce
<1>1. since' = Noted
    BY DEF Guard
<1>2. since'[k] = IF k \in up THEN Unseen
                  ELSE IF since[k] = Unseen THEN 0
                  ELSE IF since[k] < Debounce THEN since[k] + 1 ELSE since[k]
    BY <1>1 DEF Noted
<1>3. lasted'[k] = IF k \in up THEN 0
                   ELSE IF lasted[k] <= Debounce THEN lasted[k] + 1 ELSE lasted[k]
    BY DEF Guard
<1>4. since[k] \in Nat /\ lasted[k] \in Nat
    BY GuardAssumption DEF AgesInv, TypeOK, Unseen
<1> QED
    BY <1>2, <1>3, <1>4, GuardAssumption DEF AgesInv

LEMMA GuardKeeps ==
    ASSUME AgesInv, Guard PROVE AgesInv' /\ GuardReportsWhatLastsStep
<1>1. TypeOK'
    BY GuardTyped DEF AgesInv
<1>2. CASE mode \notin Guarded
    <2>1. triggered' = {} /\ \A k \in Keys : since'[k] = Unseen /\ lasted'[k] = 0
        BY <1>2 DEF Guard
    <2> QED
        BY <1>1, <2>1, GuardAssumption DEF AgesInv, GuardReportsWhatLastsStep
<1>3. CASE mode \in Guarded /\ triggered # {}
    <2>1. triggered' = triggered
        BY <1>3 DEF Guard
    <2> QED
        BY <1>1, <1>3, <2>1 DEF AgesInv, GuardReportsWhatLastsStep
<1>4. CASE mode \in Guarded /\ triggered = {}
    <2> DEFINE late == {k \in Faults : Noted[k] = Debounce}
    <2>1. since' = Noted /\ (late = {} => triggered' = {})
          /\ (late # {} => \E k \in late : triggered' = {k})
        BY <1>4 DEF Guard
    <2>2. \A k \in Keys : lasted'[k] > Debounce => k \in late
        <3> TAKE k \in Keys
        <3> QED
            BY <1>4, <2>1, GuardCounts, GuardAssumption DEF Faults
    <2>3. \A k \in late : lasted'[k] > Debounce
        <3> TAKE k \in late
        <3>1. k \in Keys /\ k \notin up /\ since'[k] = Debounce
            BY <2>1 DEF Faults
        <3> QED
            BY <1>4, <3>1, GuardCounts, GuardAssumption
    <2>4. GuardReportsWhatLastsStep
        BY <2>1, <2>2, <2>3 DEF GuardReportsWhatLastsStep
    <2>5. ASSUME triggered' = {}, NEW k \in Keys
          PROVE  IF since'[k] = Unseen THEN lasted'[k] = 0
                 ELSE since'[k] < Debounce /\ lasted'[k] = since'[k] + 1
        <3>1. k \notin late
            BY <2>1, <2>5
        <3>2. CASE k \in up
            BY <1>4, <3>2, GuardCounts
        <3>3. CASE k \notin up
            <4>1. since'[k] # Debounce
                BY <2>1, <3>1, <3>3 DEF Faults
            <4> QED
                BY <1>4, <3>3, <4>1, GuardCounts, GuardAssumption DEF Unseen
        <3> QED
            BY <3>2, <3>3
    <2> QED
        BY <1>1, <2>4, <2>5 DEF AgesInv
<1> QED
    BY <1>2, <1>3, <1>4

LEMMA OthersKeep ==
    ASSUME AgesInv, TypeOK', UNCHANGED <<since, triggered, lasted>>
    PROVE  AgesInv' /\ GuardReportsWhatLastsStep
<1>1. AgesInv'
    BY DEF AgesInv, Unseen
<1>2. ASSUME NEW k \in Keys, lasted'[k] > Debounce PROVE triggered' # {}
    BY <1>2, GuardAssumption DEF AgesInv, TypeOK, Unseen
<1> QED
    BY <1>1, <1>2 DEF GuardReportsWhatLastsStep

LEMMA StepKeeps ==
    ASSUME AgesInv, [Next]_vars PROVE AgesInv' /\ GuardReportsWhatLastsStep
<1>1. CASE Guard
    BY <1>1, GuardKeeps
<1>2. CASE ~ Guard
    <2>1. TypeOK' /\ UNCHANGED <<since, triggered, lasted>>
        BY <1>2, OtherStepsTyped DEF AgesInv, Next
    <2> QED
        BY <2>1, OthersKeep
<1> QED
    BY <1>1, <1>2

\* The guard's variables keep to their values, for any processes, incidents and
\* times (check_patrol_runtime_guard, recover_component).
THEOREM GuardTypedAlways == Spec => []TypeOK
<1>1. AgesInv => TypeOK
    BY DEF AgesInv
<1> QED
    BY <1>1, InitAges, StepKeeps, PTL DEF Spec

\* A patrol is failed for a fault that was found on every tick of the debounce,
\* and for nothing else, and no fault is found for longer without a report.
THEOREM GuardReports == Spec => GuardReportsWhatLasts
<1>1. AgesInv /\ [Next]_vars => [GuardReportsWhatLastsStep]_vars
    BY StepKeeps
<1> QED
    BY <1>1, InitAges, StepKeeps, PTL DEF Spec, GuardReportsWhatLasts

-----------------------------------------------------------------------------
(* The parts that keep data *)

Storage == INSTANCE StorageProofs WITH
  Installers <- {"cloud", "http"}, Ids <- {"d1", "d2"}, Contents <- {"x", "y"},
  MaxRoutes <- 2, row <- v1, directory <- v2, routes <- v3, staged <- v4, job <- v5,
  Names <- {"n1", "n2"}, Archives <- {"a1", "a2"}, MaxMaps <- 3, yaml <- v1, pgm <- v2,
  active <- v3, op <- v4, saved <- v5, gone <- v6, broken <- v7,
  Sessions <- {"s1", "s2"}, Hashes <- {"h1", "h2"}, KeepScenes <- 1, SceneDisk <- 2,
  MaxSceneTasks <- 2, sceneRows <- v1, sceneDirs <- v2, temp <- v3, sceneCaller <- v4,
  sceneWorker <- v5, config <- v6, sceneAccepted <- v7, MapContents <- {"c1", "c2"},
  KeepMaps <- 1, Budgets <- {1, 3}, MaxMapTasks <- 3, mapRow <- v1, mapDirs <- v2,
  temps <- v3, drawn <- v4, mapCaller <- v5, mapWorker <- v6, budget <- v7,
  mapAccepted <- v8, Visits <- {1, 2}, ImageDisk <- 1, MaxSlot <- 1, MaxRows <- 2,
  status <- v1, arrivals <- v2, lastSlot <- v3, slot <- v4, capture <- v5,
  imageRows <- v6, files <- v7, leaked <- v8, imageWorker <- v9

\* The deployments of a behaviour that is about them.
LEMMA DeployHolds ==
  PartsSpec =>
    [](under = "deployments" =>
         Deploy!TypeOK /\ Deploy!InstalledIsComplete)
<1>1. PartsInit /\ under = "deployments" => Storage!Deploy!Init
  <2>1. PartsInit /\ under = "deployments" => Deploy!Init
    BY DEF PartsInit
  <2>2. Deploy!Init => Storage!Deploy!Init
    BY DEF Deploy!None, Deploy!Idle, Deploy!Numbers, Deploy!Init, Storage!Deploy!None,
       Storage!Deploy!Idle, Storage!Deploy!Numbers, Storage!Deploy!Init
  <2>. QED
    BY <2>1, <2>2
<1>2. under = "deployments" /\ [PartsNext]_all =>
        (under = "deployments")' /\ [Storage!Deploy!Next]_Storage!Deploy!vars
  <2>1. ASSUME under = "deployments", PartsNext PROVE Deploy!Next /\ under' = under
    BY <2>1 DEF PartsNext
  <2>2. UNCHANGED all => UNCHANGED Storage!Deploy!vars /\ under' = under
    BY DEF all, slots, Storage!Deploy!vars
  <2>3. Deploy!Next => Storage!Deploy!Next
    BY DEF Deploy!None, Deploy!Idle, Deploy!Numbers, Deploy!NextNumber, Deploy!Stage,
       Deploy!Moves, Deploy!Move, Deploy!Publish, Deploy!Insert, Deploy!Fail, Deploy!Undo,
       Deploy!Restart, Deploy!Next, Storage!Deploy!None, Storage!Deploy!Idle,
       Storage!Deploy!Numbers, Storage!Deploy!NextNumber, Storage!Deploy!Stage,
       Storage!Deploy!Moves, Storage!Deploy!Move, Storage!Deploy!Publish,
       Storage!Deploy!Insert, Storage!Deploy!Fail, Storage!Deploy!Undo,
       Storage!Deploy!Restart, Storage!Deploy!Next
  <2>. QED
    BY <2>1, <2>2, <2>3
<1>3. Storage!Deploy!Spec =>
        [](Storage!Deploy!TypeOK /\ Storage!Deploy!InstalledIsComplete)
  <2>1. Storage!StoreAssumptions
    BY DEF Storage!StoreAssumptions, Storage!Deploy!None
  <2>. QED
    BY <2>1, Storage!StoreIsSound
<1>4. Storage!Deploy!TypeOK /\ Storage!Deploy!InstalledIsComplete =>
        Deploy!TypeOK /\ Deploy!InstalledIsComplete
  BY DEF Deploy!None, Deploy!Numbers, Deploy!TypeOK, Deploy!InstalledIsComplete,
     Storage!Deploy!None, Storage!Deploy!Numbers, Storage!Deploy!TypeOK,
     Storage!Deploy!InstalledIsComplete
<1>5. ~(under = "deployments") /\ [PartsNext]_all => ~(under = "deployments")'
  BY DEF PartsNext, all
<1>. QED
  BY <1>1, <1>2, <1>3, <1>4, <1>5, PTL DEF PartsSpec, Storage!Deploy!Spec

\* The files of the maps.
LEMMA FilesHolds ==
  PartsSpec =>
    [](under = "map files" =>
         Files!TypeOK /\ Files!MapsSurvive)
<1>1. PartsInit /\ under = "map files" => Storage!Files!Init
  <2>1. PartsInit /\ under = "map files" => Files!Init
    BY DEF PartsInit
  <2>2. Files!Init => Storage!Files!Init
    BY DEF Files!All, Files!NoYaml, Files!NoOp, Files!Init, Storage!Files!All,
       Storage!Files!NoYaml, Storage!Files!NoOp, Storage!Files!Init
  <2>. QED
    BY <2>1, <2>2
<1>2. under = "map files" /\ [PartsNext]_all =>
        (under = "map files")' /\ [Storage!Files!Next]_Storage!Files!vars
  <2>1. ASSUME under = "map files", PartsNext PROVE Files!Next /\ under' = under
    BY <2>1 DEF PartsNext
  <2>2. UNCHANGED all => UNCHANGED Storage!Files!vars /\ under' = under
    BY DEF all, slots, Storage!Files!vars
  <2>3. Files!Next => Storage!Files!Next
    BY DEF Files!All, Files!NoYaml, Files!NoOp, Files!Present, Files!Valid, Files!Rename,
       Files!Confirm, Files!StepsOf, Files!Moved, Files!Begin, Files!BeginRename,
       Files!BeginConfirm, Files!Step, Files!End, Files!Done, Files!MovedBack,
       Files!Restored, Files!Fail, Files!Delete, Files!DeleteImage, Files!SaveMap,
       Files!SaveRoute, Files!Restart, Files!Next, Storage!Files!All,
       Storage!Files!NoYaml, Storage!Files!NoOp, Storage!Files!Present,
       Storage!Files!Valid, Storage!Files!Rename, Storage!Files!Confirm,
       Storage!Files!StepsOf, Storage!Files!Moved, Storage!Files!Begin,
       Storage!Files!BeginRename, Storage!Files!BeginConfirm, Storage!Files!Step,
       Storage!Files!End, Storage!Files!Done, Storage!Files!MovedBack,
       Storage!Files!Restored, Storage!Files!Fail, Storage!Files!Delete,
       Storage!Files!DeleteImage, Storage!Files!SaveMap, Storage!Files!SaveRoute,
       Storage!Files!Restart, Storage!Files!Next
  <2>. QED
    BY <2>1, <2>2, <2>3
<1>3. Storage!Files!Spec =>
        [](Storage!Files!TypeOK /\ Storage!Files!MapsSurvive)
  <2>1. Storage!NamesAssumptions
    BY DEF Storage!NamesAssumptions
  <2>. QED
    BY <2>1, Storage!MapsAreKept
<1>4. Storage!Files!TypeOK /\ Storage!Files!MapsSurvive =>
        Files!TypeOK /\ Files!MapsSurvive
  BY DEF Files!All, Files!Maps, Files!NoOp, Files!TypeOK, Files!Valid, Files!Whole,
     Files!MapsSurvive, Storage!Files!All, Storage!Files!Maps, Storage!Files!NoOp,
     Storage!Files!TypeOK, Storage!Files!Valid, Storage!Files!Whole,
     Storage!Files!MapsSurvive
<1>5. ~(under = "map files") /\ [PartsNext]_all => ~(under = "map files")'
  BY DEF PartsNext, all
<1>. QED
  BY <1>1, <1>2, <1>3, <1>4, <1>5, PTL DEF PartsSpec, Storage!Files!Spec

\* The uploads of scenes.
LEMMA ScenesHolds ==
  PartsSpec =>
    [](under = "scenes" =>
         Scenes!TypeOK /\ Scenes!SceneSnapshotKept /\ Scenes!OneSceneTaskOpen)
<1>1. PartsInit /\ under = "scenes" => Storage!Scenes!Init
  <2>1. PartsInit /\ under = "scenes" => Scenes!Init
    BY DEF PartsInit
  <2>2. Scenes!Init => Storage!Scenes!Init
    BY DEF Scenes!NoJob, Scenes!NoTask, Scenes!Init, Storage!Scenes!NoJob,
       Storage!Scenes!NoTask, Storage!Scenes!Init
  <2>. QED
    BY <2>1, <2>2
<1>2. under = "scenes" /\ [PartsNext]_all =>
        (under = "scenes")' /\ [Storage!Scenes!Next]_Storage!Scenes!vars
  <2>1. ASSUME under = "scenes", PartsNext PROVE Scenes!Next /\ under' = under
    BY <2>1 DEF PartsNext
  <2>2. UNCHANGED all => UNCHANGED Storage!Scenes!vars /\ under' = under
    BY DEF all, slots, Storage!Scenes!vars
  <2>3. Scenes!Next => Storage!Scenes!Next
    BY DEF Scenes!Statuses, Scenes!Configurations, Scenes!NoJob, Scenes!NoTask,
       Scenes!OfSession, Scenes!Latest, Scenes!Finished, Scenes!Cleanable, Scenes!Surplus,
       Scenes!Used, Scenes!Cleaned, Scenes!Unheld, Scenes!Cleanup, Scenes!Copy,
       Scenes!Enqueue, Scenes!Repeated, Scenes!Drop, Scenes!Move, Scenes!Insert,
       Scenes!InsertFails, Scenes!Conclude, Scenes!Retry, Scenes!Requeue, Scenes!Take,
       Scenes!Block, Scenes!Upload, Scenes!Finish, Scenes!Clean, Scenes!Restart,
       Scenes!Next, Scenes!Cardinality, Storage!Scenes!Statuses,
       Storage!Scenes!Configurations, Storage!Scenes!NoJob, Storage!Scenes!NoTask,
       Storage!Scenes!OfSession, Storage!Scenes!Latest, Storage!Scenes!Finished,
       Storage!Scenes!Cleanable, Storage!Scenes!Surplus, Storage!Scenes!Used,
       Storage!Scenes!Cleaned, Storage!Scenes!Unheld, Storage!Scenes!Cleanup,
       Storage!Scenes!Copy, Storage!Scenes!Enqueue, Storage!Scenes!Repeated,
       Storage!Scenes!Drop, Storage!Scenes!Move, Storage!Scenes!Insert,
       Storage!Scenes!InsertFails, Storage!Scenes!Conclude, Storage!Scenes!Retry,
       Storage!Scenes!Requeue, Storage!Scenes!Take, Storage!Scenes!Block,
       Storage!Scenes!Upload, Storage!Scenes!Finish, Storage!Scenes!Clean,
       Storage!Scenes!Restart, Storage!Scenes!Next, Storage!Scenes!Cardinality
  <2>. QED
    BY <2>1, <2>2, <2>3
<1>3. Storage!Scenes!Spec =>
        [](Storage!Scenes!TypeOK /\ Storage!Scenes!SceneSnapshotKept
          /\ Storage!Scenes!OneSceneTaskOpen)
  <2>1. Storage!SceneAssumptions
    BY DEF Storage!SceneAssumptions
  <2>. QED
    BY <2>1, Storage!ScenesAreKept
<1>4. Storage!Scenes!TypeOK /\ Storage!Scenes!SceneSnapshotKept
        /\ Storage!Scenes!OneSceneTaskOpen =>
        Scenes!TypeOK /\ Scenes!SceneSnapshotKept /\ Scenes!OneSceneTaskOpen
  BY DEF Scenes!Tasks, Scenes!Statuses, Scenes!Configurations, Scenes!TypeOK,
     Scenes!SceneSnapshotKept, Scenes!OneSceneTaskOpen, Storage!Scenes!Tasks,
     Storage!Scenes!Statuses, Storage!Scenes!Configurations, Storage!Scenes!TypeOK,
     Storage!Scenes!SceneSnapshotKept, Storage!Scenes!OneSceneTaskOpen
<1>5. ~(under = "scenes") /\ [PartsNext]_all => ~(under = "scenes")'
  BY DEF PartsNext, all
<1>. QED
  BY <1>1, <1>2, <1>3, <1>4, <1>5, PTL DEF PartsSpec, Storage!Scenes!Spec

\* The uploads of maps.
LEMMA MapTasksHolds ==
  PartsSpec =>
    [](under = "maps" =>
         MapTasks!TypeOK /\ MapTasks!MapSnapshotKept)
<1>1. PartsInit /\ under = "maps" => Storage!MapTasks!Init
  <2>1. PartsInit /\ under = "maps" => MapTasks!Init
    BY DEF PartsInit
  <2>2. MapTasks!Init => Storage!MapTasks!Init
    BY DEF MapTasks!Absent, MapTasks!NoCall, MapTasks!NoTask, MapTasks!Init,
       Storage!MapTasks!Absent, Storage!MapTasks!NoCall, Storage!MapTasks!NoTask,
       Storage!MapTasks!Init
  <2>. QED
    BY <2>1, <2>2
<1>2. under = "maps" /\ [PartsNext]_all =>
        (under = "maps")' /\ [Storage!MapTasks!Next]_Storage!MapTasks!vars
  <2>1. ASSUME under = "maps", PartsNext PROVE MapTasks!Next /\ under' = under
    BY <2>1 DEF PartsNext
  <2>2. UNCHANGED all => UNCHANGED Storage!MapTasks!vars /\ under' = under
    BY DEF all, slots, Storage!MapTasks!vars
  <2>3. MapTasks!Next => Storage!MapTasks!Next
    BY DEF MapTasks!Statuses, MapTasks!NoCall, MapTasks!NoTask, MapTasks!Used,
       MapTasks!Ended, MapTasks!Reclaimable, MapTasks!GoesBefore, MapTasks!Surplus,
       MapTasks!DirsOf, MapTasks!Cleaned, MapTasks!Cleanup, MapTasks!Enqueue,
       MapTasks!Lookup, MapTasks!Abandon, MapTasks!NewRow, MapTasks!Write,
       MapTasks!WriteFails, MapTasks!Requeue, MapTasks!Return, MapTasks!Take,
       MapTasks!Upload, MapTasks!Finish, MapTasks!Clean, MapTasks!Restart, MapTasks!Next,
       MapTasks!Cardinality, Storage!MapTasks!Statuses, Storage!MapTasks!NoCall,
       Storage!MapTasks!NoTask, Storage!MapTasks!Used, Storage!MapTasks!Ended,
       Storage!MapTasks!Reclaimable, Storage!MapTasks!GoesBefore,
       Storage!MapTasks!Surplus, Storage!MapTasks!DirsOf, Storage!MapTasks!Cleaned,
       Storage!MapTasks!Cleanup, Storage!MapTasks!Enqueue, Storage!MapTasks!Lookup,
       Storage!MapTasks!Abandon, Storage!MapTasks!NewRow, Storage!MapTasks!Write,
       Storage!MapTasks!WriteFails, Storage!MapTasks!Requeue, Storage!MapTasks!Return,
       Storage!MapTasks!Take, Storage!MapTasks!Upload, Storage!MapTasks!Finish,
       Storage!MapTasks!Clean, Storage!MapTasks!Restart, Storage!MapTasks!Next,
       Storage!MapTasks!Cardinality
  <2>. QED
    BY <2>1, <2>2, <2>3
<1>3. Storage!MapTasks!Spec =>
        [](Storage!MapTasks!TypeOK /\ Storage!MapTasks!MapSnapshotKept)
  <2>1. Storage!UploadAssumptions
    BY DEF Storage!UploadAssumptions
  <2>. QED
    BY <2>1, Storage!MapSnapshotsAreKept
<1>4. Storage!MapTasks!TypeOK /\ Storage!MapTasks!MapSnapshotKept =>
        MapTasks!TypeOK /\ MapTasks!MapSnapshotKept
  BY DEF MapTasks!Tasks, MapTasks!Statuses, MapTasks!TypeOK, MapTasks!MapSnapshotKept,
     Storage!MapTasks!Tasks, Storage!MapTasks!Statuses, Storage!MapTasks!TypeOK,
     Storage!MapTasks!MapSnapshotKept
<1>5. ~(under = "maps") /\ [PartsNext]_all => ~(under = "maps")'
  BY DEF PartsNext, all
<1>. QED
  BY <1>1, <1>2, <1>3, <1>4, <1>5, PTL DEF PartsSpec, Storage!MapTasks!Spec

\* The inspection images.
LEMMA ImagesHolds ==
  PartsSpec =>
    [](under = "images" =>
         Images!TypeOK /\ Images!ImageKept /\ Images!MovingEndsAtArrival)
<1>1. PartsInit /\ under = "images" => Storage!Images!Init
  <2>1. PartsInit /\ under = "images" => Images!Init
    BY DEF PartsInit
  <2>2. Images!Init => Storage!Images!Init
    BY DEF Images!NoCapture, Images!NoTask, Images!Init, Storage!Images!NoCapture,
       Storage!Images!NoTask, Storage!Images!Init
  <2>. QED
    BY <2>1, <2>2
<1>2. under = "images" /\ [PartsNext]_all =>
        (under = "images")' /\ [Storage!Images!Next]_Storage!Images!vars
  <2>1. ASSUME under = "images", PartsNext PROVE Images!Next /\ under' = under
    BY <2>1 DEF PartsNext
  <2>2. UNCHANGED all => UNCHANGED Storage!Images!vars /\ under' = under
    BY DEF all, slots, Storage!Images!vars
  <2>3. Images!Next => Storage!Images!Next
    BY DEF Images!Statuses, Images!NoCapture, Images!NoTask, Images!uploads,
       Images!patrol, Images!Allowed, Images!Request, Images!WithoutMoving,
       Images!OnStatus, Images!OnTargetReached, Images!OnDelay, Images!OnTimeout,
       Images!Interval, Images!Recorded, Images!Reclaimable, Images!Cleaned,
       Images!OnImage, Images!Insert, Images!InsertFails, Images!Take, Images!Upload,
       Images!Finish, Images!Unlink, Images!Clear, Images!Fails, Images!Restart,
       Images!Next, Images!Cardinality, Storage!Images!Statuses, Storage!Images!NoCapture,
       Storage!Images!NoTask, Storage!Images!uploads, Storage!Images!patrol,
       Storage!Images!Allowed, Storage!Images!Request, Storage!Images!WithoutMoving,
       Storage!Images!OnStatus, Storage!Images!OnTargetReached, Storage!Images!OnDelay,
       Storage!Images!OnTimeout, Storage!Images!Interval, Storage!Images!Recorded,
       Storage!Images!Reclaimable, Storage!Images!Cleaned, Storage!Images!OnImage,
       Storage!Images!Insert, Storage!Images!InsertFails, Storage!Images!Take,
       Storage!Images!Upload, Storage!Images!Finish, Storage!Images!Unlink,
       Storage!Images!Clear, Storage!Images!Fails, Storage!Images!Restart,
       Storage!Images!Next, Storage!Images!Cardinality
  <2>. QED
    BY <2>1, <2>2, <2>3
<1>3. Storage!Images!Spec =>
        [](Storage!Images!TypeOK /\ Storage!Images!ImageKept
          /\ Storage!Images!MovingEndsAtArrival)
  <2>1. Storage!ImagesAssumptions
    BY DEF Storage!ImagesAssumptions
  <2>. QED
    BY <2>1, Storage!ImagesAreKept
<1>4. Storage!Images!TypeOK /\ Storage!Images!ImageKept /\ Storage!Images!MovingEndsAtArrival =>
        Images!TypeOK /\ Images!ImageKept /\ Images!MovingEndsAtArrival
  BY DEF Images!Kinds, Images!Statuses, Images!TypeOK, Images!ImageKept,
     Images!MovingEndsAtArrival, Storage!Images!Kinds, Storage!Images!Statuses,
     Storage!Images!TypeOK, Storage!Images!ImageKept, Storage!Images!MovingEndsAtArrival
<1>5. ~(under = "images") /\ [PartsNext]_all => ~(under = "images")'
  BY DEF PartsNext, all
<1>. QED
  BY <1>1, <1>2, <1>3, <1>4, <1>5, PTL DEF PartsSpec, Storage!Images!Spec

-----------------------------------------------------------------------------
(* The parts that move and speak *)

Control == INSTANCE ControlProofs WITH
  CmdTimeout <- 1, ScanTimeout <- 1, FeedbackTimeout <- 1, AgeCap <- 4, MaxLost <- 1,
  Durations <- {1, 2}, Debounce <- 1, drive <- v1, wheels <- v2, age <- v3,
  stampAge <- v4, timedOut <- v5, fault <- v6, lost <- v7, due <- v8, timer <- v9,
  firing <- v10, stopAge <- v11, Statuses <- MonitorStatuses,
  MonitorSources <- {"chassis", "odom"}, MonitorDebounce <- 1, Cooldown <- 2,
  system <- v1, executor <- v2, heard <- v3, chassisHeard <- v4, since <- v5,
  recovered <- v6, cool <- v7, asked <- v8, calm <- v9, gap <- v10,
  Sources <- {"GNSS", "AMCL"}, Span <- 2, Origin <- 1, Freshness <- 1, Gate <- 2,
  MaxStep <- 1, track <- v1, counted <- v2, odom <- v3, odomLag <- v4, measured <- v5,
  new <- v6, good <- v7, core <- v8, Kinds <- {"motion", "prepare"}, MaxOps <- 2,
  MaxRequests <- 2, MaxSteps <- 2, ops <- v1, late <- v2, robot <- v3, reports <- v4,
  queue <- v5, pending <- v6, context <- v7, worker <- v8, lease <- v9, reaping <- v10,
  stops <- v11, requests <- v12, known <- v13, SkillTimeout <- 3, Duration <- 3,
  PoseLoss <- 1,
  StatusAge <- 1, skill <- v1, basic <- v2, skillMode <- v3, basicMode <- v4,
  chassis <- v5, pose <- v6, velocity <- v7, motionDue <- v8, blocked <- v9,
  driven <- v10, Segments <- <<2, -4, 2>>, Tolerance <- 1, Timeout <- 6, Settle <- 1,
  MaxLag <- 1, yaw <- v1, heading <- v2, lag <- v3, odometry <- v4, next <- v5,
  target <- v6, elapsed <- v7, rest <- v8, command <- v9, ended <- v10, enabled <- v1,
  awakened <- v2, followup <- v3, state <- v4, wait <- v5, speaking <- v6,
  listener <- v7, cued <- v8, Keys <- {"k1", "k2"}, Priorities <- {1, 2},
  MaxSegments <- 2, MaxSpeechRequests <- 2, MaxInterrupts <- 2, segments <- v1,
  keys <- v2, ros <- v3, generation <- v4, speaker <- v5, expired <- v6, playing <- v7

\* Driving by hand.
LEMMA LocalHolds ==
  PartsSpec =>
    [](under = "local drive" =>
         Local!DriveTypeOK /\ Local!BlindDriveBounded)
<1>1. PartsInit /\ under = "local drive" => Control!Local!DriveInit
  <2>1. PartsInit /\ under = "local drive" => Local!DriveInit
    BY DEF PartsInit
  <2>2. Local!DriveInit => Control!Local!DriveInit
    BY DEF Local!Init, Local!DriveInit, Control!Local!Init, Control!Local!DriveInit
  <2>. QED
    BY <2>1, <2>2
<1>2. under = "local drive" /\ [PartsNext]_all =>
        (under = "local drive")' /\ [Control!Local!DriveNext]_Control!Local!driveVars
  <2>1. ASSUME under = "local drive", PartsNext PROVE Local!DriveNext /\ under' = under
    BY <2>1 DEF PartsNext
  <2>2. UNCHANGED all => UNCHANGED Control!Local!driveVars /\ under' = under
    BY DEF all, slots, Control!Local!vars, Control!Local!app, Control!Local!driveVars
  <2>3. Local!DriveNext => Control!Local!DriveNext
    BY DEF Local!vars, Local!Older, Local!Write, Local!ScanIsFresh, Local!FeedbackIsFresh,
       Local!MayDrive, Local!OnCommand, Local!OnScan, Local!OnFeedback, Local!HandleFault,
       Local!Watchdog, Local!Elapse, Local!Inputs, Local!app, Local!OtherCommand,
       Local!Drive, Local!PublishZero, Local!Stop, Local!StopRequest, Local!TimerRuns,
       Local!TimePasses, Local!DriveNext, Control!Local!vars, Control!Local!Older,
       Control!Local!Write, Control!Local!ScanIsFresh, Control!Local!FeedbackIsFresh,
       Control!Local!MayDrive, Control!Local!OnCommand, Control!Local!OnScan,
       Control!Local!OnFeedback, Control!Local!HandleFault, Control!Local!Watchdog,
       Control!Local!Elapse, Control!Local!Inputs, Control!Local!app,
       Control!Local!OtherCommand, Control!Local!Drive, Control!Local!PublishZero,
       Control!Local!Stop, Control!Local!StopRequest, Control!Local!TimerRuns,
       Control!Local!TimePasses, Control!Local!DriveNext
  <2>. QED
    BY <2>1, <2>2, <2>3
<1>3. Control!Local!DriveSpec =>
        [](Control!Local!DriveTypeOK /\ Control!Local!BlindDriveBounded)
  <2>1. Control!DriveAssumptions
    BY DEF Control!DriveAssumptions, Control!Local!Longest
  <2>. QED
    BY <2>1, Control!BlindDriveIsBounded
<1>4. Control!Local!DriveTypeOK /\ Control!Local!BlindDriveBounded =>
        Local!DriveTypeOK /\ Local!BlindDriveBounded
  BY DEF Local!Ages, Local!TypeOK, Local!BlindDriveBounded, Local!Longest,
     Local!DriveTypeOK, Control!Local!Ages, Control!Local!TypeOK,
     Control!Local!BlindDriveBounded, Control!Local!Longest, Control!Local!DriveTypeOK
<1>5. ~(under = "local drive") /\ [PartsNext]_all => ~(under = "local drive")'
  BY DEF PartsNext, all
<1>. QED
  BY <1>1, <1>2, <1>3, <1>4, <1>5, PTL DEF PartsSpec, Control!Local!DriveSpec

\* The operations of the agent.
LEMMA AgentHolds ==
  PartsSpec =>
    [](under = "agent" =>
         Agent!TypeOK /\ Agent!WaitIsNeverForgotten /\ Agent!OneActionAtATime)
<1>1. PartsInit /\ under = "agent" => Control!Agent!Init
  <2>1. PartsInit /\ under = "agent" => Agent!Init
    BY DEF PartsInit
  <2>2. Agent!Init => Control!Agent!Init
    BY DEF Agent!Ids, Agent!Idle, Agent!Init, Control!Agent!Ids, Control!Agent!Idle,
       Control!Agent!Init
  <2>. QED
    BY <2>1, <2>2
<1>2. under = "agent" /\ [PartsNext]_all =>
        (under = "agent")' /\ [Control!Agent!Next]_Control!Agent!vars
  <2>1. ASSUME under = "agent", PartsNext PROVE Agent!Next /\ under' = under
    BY <2>1 DEF PartsNext
  <2>2. UNCHANGED all => UNCHANGED Control!Agent!vars /\ under' = under
    BY DEF all, slots, Control!Agent!vars
  <2>3. Agent!Next => Control!Agent!Next
    BY DEF Agent!ledger, Agent!outside, Agent!Ids, Agent!Terminal, Agent!After,
       Agent!Group, Agent!Idle, Agent!Expired, Agent!Updated, Agent!AllExpired,
       Agent!Active, Agent!Free, Agent!NextId, Agent!Recorded, Agent!Authorized,
       Agent!Publish, Agent!TakeRequest, Agent!TakeFeedback, Agent!Observe, Agent!Act,
       Agent!Suspend, Agent!SuspendBroken, Agent!waited, Agent!Wait, Agent!Finish, Agent!Interrupt, Agent!Interrupted,
       Agent!NotInterrupted, Agent!Worker, Agent!Request, Agent!Handed, Agent!Feedback,
       Agent!Poll, Agent!Reap, Agent!Release, Agent!Begin, Agent!End, Agent!Deadline,
       Agent!Next, Control!Agent!ledger, Control!Agent!outside, Control!Agent!Ids,
       Control!Agent!Terminal, Control!Agent!After, Control!Agent!Group,
       Control!Agent!Idle, Control!Agent!Expired, Control!Agent!Updated,
       Control!Agent!AllExpired, Control!Agent!Active, Control!Agent!Free,
       Control!Agent!NextId, Control!Agent!Recorded, Control!Agent!Authorized,
       Control!Agent!Publish, Control!Agent!TakeRequest, Control!Agent!TakeFeedback,
       Control!Agent!Observe, Control!Agent!Act, Control!Agent!Suspend,
       Control!Agent!SuspendBroken, Control!Agent!waited, Control!Agent!Wait, Control!Agent!Finish, Control!Agent!Interrupt,
       Control!Agent!Interrupted, Control!Agent!NotInterrupted, Control!Agent!Worker,
       Control!Agent!Request, Control!Agent!Handed, Control!Agent!Feedback,
       Control!Agent!Poll, Control!Agent!Reap, Control!Agent!Release, Control!Agent!Begin,
       Control!Agent!End, Control!Agent!Deadline, Control!Agent!Next
  <2>. QED
    BY <2>1, <2>2, <2>3
<1>3. Control!Agent!Spec =>
        [](Control!Agent!TypeOK /\ Control!Agent!WaitIsNeverForgotten
          /\ Control!Agent!OneActionAtATime)
  <2>1. Control!AgentAssumptions
    BY DEF Control!AgentAssumptions, Control!Agent!Actions
  <2>. QED
    BY <2>1, Control!AgentWaitsAndActsAlone
<1>4. Control!Agent!TypeOK /\ Control!Agent!WaitIsNeverForgotten
        /\ Control!Agent!OneActionAtATime =>
        Agent!TypeOK /\ Agent!WaitIsNeverForgotten /\ Agent!OneActionAtATime
  BY DEF Agent!Actions, Agent!Ids, Agent!Terminal, Agent!TypeOK, Agent!Active,
     Agent!LookedAfter, Agent!WaitIsNeverForgotten, Agent!OneActionAtATime,
     Control!Agent!Actions,
     Control!Agent!Ids, Control!Agent!Terminal, Control!Agent!TypeOK,
     Control!Agent!Active, Control!Agent!LookedAfter,
     Control!Agent!WaitIsNeverForgotten, Control!Agent!OneActionAtATime
<1>5. ~(under = "agent") /\ [PartsNext]_all => ~(under = "agent")'
  BY DEF PartsNext, all
<1>. QED
  BY <1>1, <1>2, <1>3, <1>4, <1>5, PTL DEF PartsSpec, Control!Agent!Spec

\* Automatic recovery.
LEMMA MonitorHolds ==
  PartsSpec =>
    [](under = "monitor" =>
         Monitor!TypeOK /\ Monitor!OneRepairPerFault)
<1>1. PartsInit /\ under = "monitor" => Control!Monitor!Init
  <2>1. PartsInit /\ under = "monitor" => Monitor!Init
    BY DEF PartsInit
  <2>2. Monitor!Init => Control!Monitor!Init
    BY DEF Monitor!Sensors, Monitor!Unheard, Monitor!Cause, Monitor!Components,
       Monitor!Issues, Monitor!Unseen, Monitor!Init, Control!Monitor!Sensors,
       Control!Monitor!Unheard, Control!Monitor!Cause, Control!Monitor!Components,
       Control!Monitor!Issues, Control!Monitor!Unseen, Control!Monitor!Init
  <2>. QED
    BY <2>1, <2>2
<1>2. under = "monitor" /\ [PartsNext]_all =>
        (under = "monitor")' /\ [Control!Monitor!Next]_Control!Monitor!vars
  <2>1. ASSUME under = "monitor", PartsNext PROVE Monitor!Next /\ under' = under
    BY <2>1 DEF PartsNext
  <2>2. UNCHANGED all => UNCHANGED Control!Monitor!vars /\ under' = under
    BY DEF all, slots, Control!Monitor!vars
  <2>3. Monitor!Next => Control!Monitor!Next
    BY DEF Monitor!Patrols, Monitor!Sensors, Monitor!Cause, Monitor!Components,
       Monitor!Issues, Monitor!Unseen, Monitor!OnSystemStatus, Monitor!OnPatrolStatus,
       Monitor!Heard, Monitor!FallsSilent, Monitor!Up, Monitor!Fresh, Monitor!Mode,
       Monitor!Base, Monitor!Silent, Monitor!Navigation, Monitor!Perception,
       Monitor!Found, Monitor!Aged, Monitor!Lasting, Monitor!Later, Monitor!PatrolState,
       Monitor!Allowed, Monitor!Requests, Monitor!HealthMonitorTick, Monitor!Next,
       Control!Monitor!Patrols, Control!Monitor!Sensors, Control!Monitor!Cause,
       Control!Monitor!Components, Control!Monitor!Issues, Control!Monitor!Unseen,
       Control!Monitor!OnSystemStatus, Control!Monitor!OnPatrolStatus,
       Control!Monitor!Heard, Control!Monitor!FallsSilent, Control!Monitor!Up,
       Control!Monitor!Fresh, Control!Monitor!Mode, Control!Monitor!Base,
       Control!Monitor!Silent, Control!Monitor!Navigation, Control!Monitor!Perception,
       Control!Monitor!Found, Control!Monitor!Aged, Control!Monitor!Lasting,
       Control!Monitor!Later, Control!Monitor!PatrolState, Control!Monitor!Allowed,
       Control!Monitor!Requests, Control!Monitor!HealthMonitorTick, Control!Monitor!Next
  <2>. QED
    BY <2>1, <2>2, <2>3
<1>3. Control!Monitor!Spec =>
        [](Control!Monitor!TypeOK /\ Control!Monitor!OneRepairPerFault)
  <2>1. Control!MonitorAssumptions
    BY DEF Control!MonitorAssumptions, MonitorStatuses, Control!Monitor!StatusOK,
       Control!Monitor!Patrols, Control!Monitor!Sensors
  <2>. QED
    BY <2>1, Control!RepairsAreNotRepeated
<1>4. Control!Monitor!TypeOK /\ Control!Monitor!OneRepairPerFault =>
        Monitor!TypeOK /\ Monitor!OneRepairPerFault
  BY DEF Monitor!Patrols, Monitor!Sensors, Monitor!StatusOK, Monitor!Unheard,
     Monitor!Cause, Monitor!Components, Monitor!Issues, Monitor!Unseen, Monitor!TypeOK,
     Monitor!OneRepairPerFault, Control!Monitor!Patrols, Control!Monitor!Sensors,
     Control!Monitor!StatusOK, Control!Monitor!Unheard, Control!Monitor!Cause,
     Control!Monitor!Components, Control!Monitor!Issues, Control!Monitor!Unseen,
     Control!Monitor!TypeOK, Control!Monitor!OneRepairPerFault
<1>5. ~(under = "monitor") /\ [PartsNext]_all => ~(under = "monitor")'
  BY DEF PartsNext, all
<1>. QED
  BY <1>1, <1>2, <1>3, <1>4, <1>5, PTL DEF PartsSpec, Control!Monitor!Spec

\* Motions commanded by voice or by the agent.
LEMMA MotionHolds ==
  PartsSpec =>
    [](under = "motion" =>
         Motion!TypeOK /\ Motion!MotionHasAnEnd)
<1>1. PartsInit /\ under = "motion" => Control!Motion!Init
  <2>1. PartsInit /\ under = "motion" => Motion!Init
    BY DEF PartsInit
  <2>2. Motion!Init => Control!Motion!Init
    BY DEF Motion!Idle, Motion!Init, Control!Motion!Idle, Control!Motion!Init
  <2>. QED
    BY <2>1, <2>2
<1>2. under = "motion" /\ [PartsNext]_all =>
        (under = "motion")' /\ [Control!Motion!Next]_Control!Motion!vars
  <2>1. ASSUME under = "motion", PartsNext PROVE Motion!Next /\ under' = under
    BY <2>1 DEF PartsNext
  <2>2. UNCHANGED all => UNCHANGED Control!Motion!vars /\ under' = under
    BY DEF all, slots, Control!Motion!vars
  <2>3. Motion!Next => Control!Motion!Next
    BY DEF Motion!Modes, Motion!Idle, Motion!world, Motion!Cap, Motion!ChassisOnline,
       Motion!Blocked, Motion!StopSkill, Motion!SkillCommand, Motion!SkillStop,
       Motion!SkillTick, Motion!BasicCommand, Motion!BasicStop, Motion!BasicTick,
       Motion!SkillModeChanges, Motion!BasicModeChanges, Motion!ChassisReports,
       Motion!PoseChanges, Motion!Pass, Motion!Next, Control!Motion!Modes,
       Control!Motion!Idle, Control!Motion!world, Control!Motion!Cap,
       Control!Motion!ChassisOnline, Control!Motion!Blocked, Control!Motion!StopSkill,
       Control!Motion!SkillCommand, Control!Motion!SkillStop, Control!Motion!SkillTick,
       Control!Motion!BasicCommand, Control!Motion!BasicStop, Control!Motion!BasicTick,
       Control!Motion!SkillModeChanges, Control!Motion!BasicModeChanges,
       Control!Motion!ChassisReports, Control!Motion!PoseChanges, Control!Motion!Pass,
       Control!Motion!Next
  <2>. QED
    BY <2>1, <2>2, <2>3
<1>3. Control!Motion!Spec =>
        [](Control!Motion!TypeOK /\ Control!Motion!MotionHasAnEnd)
  <2>1. Control!MotionAssumptions
    BY DEF Control!MotionAssumptions
  <2>. QED
    BY <2>1, Control!MotionsEnd
<1>4. Control!Motion!TypeOK /\ Control!Motion!MotionHasAnEnd =>
        Motion!TypeOK /\ Motion!MotionHasAnEnd
  BY DEF Motion!Modes, Motion!Cap, Motion!TypeOK, Motion!MotionHasAnEnd,
     Control!Motion!Modes, Control!Motion!Cap, Control!Motion!TypeOK,
     Control!Motion!MotionHasAnEnd
<1>5. ~(under = "motion") /\ [PartsNext]_all => ~(under = "motion")'
  BY DEF PartsNext, all
<1>. QED
  BY <1>1, <1>2, <1>3, <1>4, <1>5, PTL DEF PartsSpec, Control!Motion!Spec

\* The swing of the localization.
LEMMA SwingHolds ==
  PartsSpec =>
    [](under = "swing" =>
         Swing!TypeOK /\ Swing!SwingComesBack)
<1>1. PartsInit /\ under = "swing" => Control!Swing!Init
  <2>1. PartsInit /\ under = "swing" => Swing!Init
    BY DEF PartsInit
  <2>2. Swing!Init => Control!Swing!Init
    BY DEF Swing!Count, Swing!Sum, Swing!Error, Swing!Reach, Swing!Unknown, Swing!None,
       Swing!Init, Control!Swing!Count, Control!Swing!Sum, Control!Swing!Error,
       Control!Swing!Reach, Control!Swing!Unknown, Control!Swing!None, Control!Swing!Init
  <2>. QED
    BY <2>1, <2>2
<1>2. under = "swing" /\ [PartsNext]_all =>
        (under = "swing")' /\ [Control!Swing!Next]_Control!Swing!vars
  <2>1. ASSUME under = "swing", PartsNext PROVE Swing!Next /\ under' = under
    BY <2>1 DEF PartsNext
  <2>2. UNCHANGED all => UNCHANGED Control!Swing!vars /\ under' = under
    BY DEF all, slots, Control!Swing!vars
  <2>3. Swing!Next => Control!Swing!Next
    BY DEF Swing!Count, Swing!Sum, Swing!Error, Swing!Reach, Swing!Unknown, Swing!None,
       Swing!OnOdom, Swing!OdometryEnds, Swing!Wait, Swing!StartNextSegment, Swing!Begin,
       Swing!Resting, Swing!Turning, Swing!Reached, Swing!Arrive, Swing!TimesOut,
       Swing!Turn, Swing!Tick, Swing!Interrupt, Swing!Next, Control!Swing!Count,
       Control!Swing!Sum, Control!Swing!Error, Control!Swing!Reach, Control!Swing!Unknown,
       Control!Swing!None, Control!Swing!OnOdom, Control!Swing!OdometryEnds,
       Control!Swing!Wait, Control!Swing!StartNextSegment, Control!Swing!Begin,
       Control!Swing!Resting, Control!Swing!Turning, Control!Swing!Reached,
       Control!Swing!Arrive, Control!Swing!TimesOut, Control!Swing!Turn,
       Control!Swing!Tick, Control!Swing!Interrupt, Control!Swing!Next
  <2>. QED
    BY <2>1, <2>2, <2>3
<1>3. Control!Swing!Spec =>
        [](Control!Swing!TypeOK /\ Control!Swing!SwingComesBack)
  <2>1. Control!SwingAssumptions
    BY DEF Control!SwingAssumptions
  <2>. QED
    BY <2>1, Control!SwingEndsWhereItBegan
<1>4. Control!Swing!TypeOK /\ Control!Swing!SwingComesBack =>
        Swing!TypeOK /\ Swing!SwingComesBack
  BY DEF Swing!Count, Swing!Sum, Swing!Error, Swing!Reach, Swing!Unknown, Swing!None,
     Swing!TypeOK, Swing!SwingComesBack, Control!Swing!Count, Control!Swing!Sum,
     Control!Swing!Error, Control!Swing!Reach, Control!Swing!Unknown, Control!Swing!None,
     Control!Swing!TypeOK, Control!Swing!SwingComesBack
<1>5. ~(under = "swing") /\ [PartsNext]_all => ~(under = "swing")'
  BY DEF PartsNext, all
<1>. QED
  BY <1>1, <1>2, <1>3, <1>4, <1>5, PTL DEF PartsSpec, Control!Swing!Spec

\* The microphone.
LEMMA VoiceHolds ==
  PartsSpec =>
    [](under = "voice" =>
         Voice!TypeOK /\ Voice!MicrophoneComesBack)
<1>1. PartsInit /\ under = "voice" => Control!Voice!Init
  <2>1. PartsInit /\ under = "voice" => Voice!Init
    BY DEF PartsInit
  <2>2. Voice!Init => Control!Voice!Init
    BY DEF Voice!NoWait, Voice!Init, Control!Voice!NoWait, Control!Voice!Init
  <2>. QED
    BY <2>1, <2>2
<1>2. under = "voice" /\ [PartsNext]_all =>
        (under = "voice")' /\ [Control!Voice!Next]_Control!Voice!vars
  <2>1. ASSUME under = "voice", PartsNext PROVE Voice!Next /\ under' = under
    BY <2>1 DEF PartsNext
  <2>2. UNCHANGED all => UNCHANGED Control!Voice!vars /\ under' = under
    BY DEF all, slots, Control!Voice!vars
  <2>3. Voice!Next => Control!Voice!Next
    BY DEF Voice!NoWait, Voice!ActivateStandby, Voice!ReturnToWaitWake,
       Voice!EnterFollowup, Voice!StopSession, Voice!UpdateWaiting, Voice!FollowupOver,
       Voice!LoopOpen, Voice!Standby, Voice!Wake, Voice!Woken, Voice!Pause, Voice!Listen,
       Voice!Record, Voice!Transcribe, Voice!Hear, Voice!Ask, Voice!Worker, Voice!Start,
       Voice!Stop, Voice!EndConversation, Voice!Speech, Voice!Chat, Voice!TimePasses,
       Voice!Next, Control!Voice!NoWait, Control!Voice!ActivateStandby,
       Control!Voice!ReturnToWaitWake, Control!Voice!EnterFollowup,
       Control!Voice!StopSession, Control!Voice!UpdateWaiting, Control!Voice!FollowupOver,
       Control!Voice!LoopOpen, Control!Voice!Standby, Control!Voice!Wake,
       Control!Voice!Woken, Control!Voice!Pause, Control!Voice!Listen,
       Control!Voice!Record, Control!Voice!Transcribe, Control!Voice!Hear,
       Control!Voice!Ask, Control!Voice!Worker, Control!Voice!Start, Control!Voice!Stop,
       Control!Voice!EndConversation, Control!Voice!Speech, Control!Voice!Chat,
       Control!Voice!TimePasses, Control!Voice!Next
  <2>. QED
    BY <2>1, <2>2, <2>3
<1>3. Control!Voice!Spec =>
        [](Control!Voice!TypeOK /\ Control!Voice!MicrophoneComesBack)
  BY Control!MicrophoneIsOpenedAgain
<1>4. Control!Voice!TypeOK /\ Control!Voice!MicrophoneComesBack =>
        Voice!TypeOK /\ Voice!MicrophoneComesBack
  BY DEF Voice!Waits, Voice!TypeOK, Voice!MicrophoneComesBack, Control!Voice!Waits,
     Control!Voice!TypeOK, Control!Voice!MicrophoneComesBack
<1>5. ~(under = "voice") /\ [PartsNext]_all => ~(under = "voice")'
  BY DEF PartsNext, all
<1>. QED
  BY <1>1, <1>2, <1>3, <1>4, <1>5, PTL DEF PartsSpec, Control!Voice!Spec

\* Speech.
LEMMA OutputHolds ==
  PartsSpec =>
    [](under = "output" =>
         Output!TypeOK /\ Output!InterruptIsClean)
<1>1. PartsInit /\ under = "output" => Control!Output!Init
  <2>1. PartsInit /\ under = "output" => Output!Init
    BY DEF PartsInit
  <2>2. Output!Init => Control!Output!Init
    BY DEF Output!NoRequest, Output!Idle, Output!Quiet, Output!Init,
       Control!Output!NoRequest, Control!Output!Idle, Control!Output!Quiet,
       Control!Output!Init
  <2>. QED
    BY <2>1, <2>2
<1>2. under = "output" /\ [PartsNext]_all =>
        (under = "output")' /\ [Control!Output!Next]_Control!Output!vars
  <2>1. ASSUME under = "output", PartsNext PROVE Output!Next /\ under' = under
    BY <2>1 DEF PartsNext
  <2>2. UNCHANGED all => UNCHANGED Control!Output!vars /\ under' = under
    BY DEF all, slots, Control!Output!vars
  <2>3. Output!Next => Control!Output!Next
    BY DEF Output!NoRequest, Output!Idle, Output!Quiet, Output!Valid, Output!Put,
       Output!Enqueue, Output!Clear, Output!Raise, Output!Terminate,
       Output!PutInterrupting, Output!First, Output!Take, Output!Begin, Output!Synthesize,
       Output!Start, Output!Played, Output!NextSegment, Output!Expires, Output!Next,
       Control!Output!NoRequest, Control!Output!Idle, Control!Output!Quiet,
       Control!Output!Valid, Control!Output!Put, Control!Output!Enqueue,
       Control!Output!Clear, Control!Output!Raise, Control!Output!Terminate,
       Control!Output!PutInterrupting, Control!Output!First, Control!Output!Take,
       Control!Output!Begin, Control!Output!Synthesize, Control!Output!Start,
       Control!Output!Played, Control!Output!NextSegment, Control!Output!Expires,
       Control!Output!Next
  <2>. QED
    BY <2>1, <2>2, <2>3
<1>3. Control!Output!Spec =>
        [](Control!Output!TypeOK /\ Control!Output!InterruptIsClean)
  <2>1. Control!OutputAssumptions
    BY DEF Control!OutputAssumptions
  <2>. QED
    BY <2>1, Control!InterruptsAreClean
<1>4. Control!Output!TypeOK /\ Control!Output!InterruptIsClean =>
        Output!TypeOK /\ Output!InterruptIsClean
  BY DEF Output!Requests, Output!TypeOK, Output!InterruptIsClean, Control!Output!Requests,
     Control!Output!TypeOK, Control!Output!InterruptIsClean
<1>5. ~(under = "output") /\ [PartsNext]_all => ~(under = "output")'
  BY DEF PartsNext, all
<1>. QED
  BY <1>1, <1>2, <1>3, <1>4, <1>5, PTL DEF PartsSpec, Control!Output!Spec

\* The fusion.
LEMMA FuseHolds ==
  PartsSpec =>
    [](under = "fusion" =>
         Fuse!TypeOK /\ Fuse!ErrorStaysSmall)
<1>1. PartsInit /\ under = "fusion" => Control!Fuse!Init
  <2>1. PartsInit /\ under = "fusion" => Fuse!Init
    BY DEF PartsInit
  <2>2. Fuse!Init => Control!Fuse!Init
    BY DEF Fuse!Ages, Fuse!Never, Fuse!Init, Control!Fuse!Ages, Control!Fuse!Never,
       Control!Fuse!Init
  <2>. QED
    BY <2>1, <2>2
<1>2. under = "fusion" /\ [PartsNext]_all =>
        (under = "fusion")' /\ [Control!Fuse!Next]_Control!Fuse!vars
  <2>1. ASSUME under = "fusion", PartsNext PROVE Fuse!Next /\ under' = under
    BY <2>1 DEF PartsNext
  <2>2. UNCHANGED all => UNCHANGED Control!Fuse!vars /\ under' = under
    BY DEF all, slots, Control!Fuse!vars
  <2>3. Fuse!Next => Control!Fuse!Next
    <3>1. ASSUME NEW p, NEW q PROVE Control!Fuse!Distance(p, q) = Fuse!Distance(p, q)
      BY DEF Fuse!Distance, Control!Fuse!Distance
    <3>2. ASSUME NEW s PROVE Control!Fuse!Usable(s) = Fuse!Usable(s)
      BY DEF Fuse!Usable, Control!Fuse!Usable
    <3>3. Control!Fuse!Lidar = Fuse!Lidar /\ Control!Fuse!Gnss = Fuse!Gnss
      BY <3>2 DEF Fuse!Lidar, Control!Fuse!Lidar, Fuse!Gnss, Control!Fuse!Gnss
    <3>4. ASSUME NEW c, NEW s PROVE Control!Fuse!Applied(c, s) = Fuse!Applied(c, s)
      BY DEF Fuse!Applied, Control!Fuse!Applied, Fuse!Drawn, Control!Fuse!Drawn,
             Fuse!Distance, Control!Fuse!Distance
    <3>5. ASSUME NEW cs, NEW s PROVE Control!Fuse!ApplyAny(cs, s) = Fuse!ApplyAny(cs, s)
      BY <3>4 DEF Fuse!ApplyAny, Control!Fuse!ApplyAny
    <3>6. Control!Fuse!Propagated = Fuse!Propagated
      BY DEF Fuse!Propagated, Control!Fuse!Propagated
    <3>7. Control!Fuse!Processed = Fuse!Processed
      BY <3>3, <3>5, <3>6 DEF Fuse!Processed, Control!Fuse!Processed
    <3>8. Fuse!Tick => Control!Fuse!Tick
      BY <3>7 DEF Fuse!Tick, Control!Fuse!Tick
    <3>9. Fuse!Move => Control!Fuse!Move
      BY DEF Fuse!Move, Control!Fuse!Move, Fuse!Ages, Control!Fuse!Ages, Fuse!Never,
             Control!Fuse!Never, Fuse!Distance, Control!Fuse!Distance, Fuse!Older,
             Control!Fuse!Older
    <3>. QED
      BY <3>8, <3>9 DEF Fuse!Next, Control!Fuse!Next, Fuse!OnOdom, Control!Fuse!OnOdom,
         Fuse!OnMeasurement, Control!Fuse!OnMeasurement, Fuse!OnQuality,
         Control!Fuse!OnQuality
  <2>. QED
    BY <2>1, <2>2, <2>3
<1>3. Control!Fuse!Spec =>
        [](Control!Fuse!TypeOK /\ Control!Fuse!ErrorStaysSmall)
  <2>1. Control!FusionAssumptions
    BY DEF Control!FusionAssumptions
  <2>. QED
    BY <2>1, Control!FusionErrorIsBounded
<1>4. Control!Fuse!TypeOK /\ Control!Fuse!ErrorStaysSmall =>
        Fuse!TypeOK /\ Fuse!ErrorStaysSmall
  BY DEF Fuse!Ages, Fuse!Never, Fuse!Distance, Fuse!TypeOK, Fuse!ErrorStaysSmall,
     Control!Fuse!Ages, Control!Fuse!Never, Control!Fuse!Distance, Control!Fuse!TypeOK,
     Control!Fuse!ErrorStaysSmall
<1>5. ~(under = "fusion") /\ [PartsNext]_all => ~(under = "fusion")'
  BY DEF PartsNext, all
<1>. QED
  BY <1>1, <1>2, <1>3, <1>4, <1>5, PTL DEF PartsSpec, Control!Fuse!Spec

-----------------------------------------------------------------------------
(* The parts that start, watch and prepare *)

Supervision == INSTANCE SupervisionProofs WITH
  Threads <- {"t1", "t2"}, NoThread <- "none", ByHand <- {"bringup"},
  MayExit <- {"navigation"}, MaxCommands <- 2, current <- v1, startActive <- v2,
  kind <- v3, preexisting <- v4, owned <- v5, running <- v6, lastAck <- v7,
  thread <- v8, ros <- v9, drive <- v10, since <- v11, given <- v12,
  Requests <- {"r1", "r2", "r3"}, Nobody <- "nobody", Memory <- 2, PoseCount <- 2,
  MaxPatrols <- 4, nodeState <- v1, booting <- v2, autoStart <- v3, remaining <- v4,
  loaded <- v5, seen <- v6, shown <- v7, due <- v8, patrol <- v9, others <- v10,
  Segments <- <<1, 2>>, MaxTotalRotation <- 3, MaxAttempts <- 2, SuspectSamples <- 2,
  TriggerSamples <- 2, HealthyRecoverySamples <- 2, VerificationSamples <- 2,
  searchState <- v1, attempt_id <- v2, bad <- v3, trigger <- v4, healthy <- v5,
  segment <- v6, unitsLeft <- v7, rotated <- v8, settling <- v9, requested <- v10,
  asked <- v11, candidate <- v12, verified <- v13, inbox <- v14, takeover <- v15,
  turned <- v16, steady <- v17, Span <- 3, MaxJump <- 2, MaxSpeed <- 1,
  StatusTimeout <- 1, RecoveryGoodSamples <- 3, gateState <- v1, recovery_count <- v2,
  trusted <- v3, gap <- v4, fixStatus <- v5, statusAge <- v6, passed <- v7,
  streak <- v8, Quality <- {"gnss"}, Plain <- {"odom"}, Required <- {"gnss"},
  Timeout <- 1, quality <- v1, amcl <- v2, reloc <- v3, sampleAge <- v4, overall <- v5,
  Routes <- {"r0", "r1", "r2"}, Maps <- {"m1", "m2"},
  Fits <- {<<"r0", "m1">>, <<"r1", "m1">>, <<"r2", "m1">>, <<"r2", "m2">>},
  HardCells <- [r0 |-> 0, r1 |-> 1, r2 |-> 1], profile <- v1, route <- v2, map <- v3,
  global <- v4, local <- v5, metadata <- v6, step <- v7, mode <- v8, drawing <- v9,
  reply <- v10, torn <- v11, CaptureThreads <- {1, 2}, MaxSessions <- 2, ops <- v1, lock <- v2,
  stopping <- v3, recordingStatus <- v4, capture <- v5, halt <- v6, sessions <- v7,
  begun <- v8, latest <- v9, build <- v10, source <- v11, busy <- v12, answer <- v13

\* The supervisor's starts.
LEMMA StartHolds ==
  PartsSpec =>
    /\ [](under = "supervisor" => Start!TypeOK)
    /\ [][under = "supervisor" =>
            /\ Start!CanceledStartIsDroppedStep
            /\ Start!KeepsWhatWasThereStep]_slots
<1>1. PartsInit /\ under = "supervisor" => Supervision!Start!Init
  <2>1. PartsInit /\ under = "supervisor" => Start!Init
    BY DEF PartsInit
  <2>2. Start!Init => Supervision!Start!Init
    BY DEF Start!Idle, Start!Init, Supervision!Start!Idle, Supervision!Start!Init
  <2>. QED
    BY <2>1, <2>2
<1>2. under = "supervisor" /\ [PartsNext]_all =>
        (under = "supervisor")' /\ [Supervision!Start!Next]_Supervision!Start!vars
  <2>1. ASSUME under = "supervisor", PartsNext PROVE Start!Next /\ under' = under
    BY <2>1 DEF PartsNext
  <2>2. UNCHANGED all => UNCHANGED Supervision!Start!vars /\ under' = under
    BY DEF all, slots, Supervision!Start!vars
  <2>3. Start!Next => Supervision!Start!Next
    BY DEF Start!Processes, Start!ShutdownOrder, Start!Starts, Start!LongRunning,
       Start!Idle, Start!Gates, Start!GateProcess, Start!AfterGate, Start!BeforeExecutor,
       Start!Overtaken, Start!CancelStart, Start!Stop, Start!Start, Start!Only,
       Start!InOrder, Start!Components, Start!Ends, Start!Fail, Start!Goes, Start!Publish,
       Start!Given, Start!Executing, Start!Begins, Start!StartPatrol,
       Start!commandUnchanged, Start!transactionUnchanged, Start!StartComponent,
       Start!Gate, Start!StartExecutor, Start!ExecutorReady, Start!PublishStart,
       Start!WaitForAck, Start!PublishAgain, Start!Own, Start!StopNext, Start!Sweep,
       Start!Swept, Start!CancelPatrol, Start!EmergencyStop, Start!StopPatrolMode,
       Start!StartByHand, Start!StopByHand, Start!PatrolStatus, Start!StatusSweep,
       Start!StatusSwept, Start!PatrolEnds, Start!Exits, Start!Transaction, Start!Next,
       Supervision!Start!Processes, Supervision!Start!ShutdownOrder,
       Supervision!Start!Starts, Supervision!Start!LongRunning, Supervision!Start!Idle,
       Supervision!Start!Gates, Supervision!Start!GateProcess,
       Supervision!Start!AfterGate, Supervision!Start!BeforeExecutor,
       Supervision!Start!Overtaken, Supervision!Start!CancelStart, Supervision!Start!Stop,
       Supervision!Start!Start, Supervision!Start!Only, Supervision!Start!InOrder,
       Supervision!Start!Components, Supervision!Start!Ends, Supervision!Start!Fail,
       Supervision!Start!Goes, Supervision!Start!Publish, Supervision!Start!Given,
       Supervision!Start!Executing, Supervision!Start!Begins,
       Supervision!Start!StartPatrol, Supervision!Start!commandUnchanged,
       Supervision!Start!transactionUnchanged, Supervision!Start!StartComponent,
       Supervision!Start!Gate, Supervision!Start!StartExecutor,
       Supervision!Start!ExecutorReady, Supervision!Start!PublishStart,
       Supervision!Start!WaitForAck, Supervision!Start!PublishAgain,
       Supervision!Start!Own, Supervision!Start!StopNext, Supervision!Start!Sweep,
       Supervision!Start!Swept, Supervision!Start!CancelPatrol,
       Supervision!Start!EmergencyStop, Supervision!Start!StopPatrolMode,
       Supervision!Start!StartByHand, Supervision!Start!StopByHand,
       Supervision!Start!PatrolStatus, Supervision!Start!StatusSweep,
       Supervision!Start!StatusSwept, Supervision!Start!PatrolEnds,
       Supervision!Start!Exits, Supervision!Start!Transaction, Supervision!Start!Next
  <2>. QED
    BY <2>1, <2>2, <2>3
<1>3. Supervision!Start!Spec =>
        /\ [](Supervision!Start!TypeOK)
        /\ [][Supervision!Start!CanceledStartIsDroppedStep]_Supervision!Start!vars
        /\ [][Supervision!Start!KeepsWhatWasThereStep]_Supervision!Start!vars
  <2>1. Supervision!NobodyIsNoThread
    BY DEF Supervision!NobodyIsNoThread
  <2>2. Supervision!HandsOnProcesses
    BY DEF Supervision!HandsOnProcesses, Supervision!Start!Processes
  <2>. QED
    BY <2>1, <2>2, Supervision!OvertakenStartsAreDropped, Supervision!StartsKeepWhatWasThere
       DEF Supervision!Start!CanceledStartIsDropped, Supervision!Start!KeepsWhatWasThere
<1>4. Supervision!Start!TypeOK =>
        Start!TypeOK
  BY DEF Start!Processes, Start!TypeOK, Supervision!Start!Processes,
     Supervision!Start!TypeOK
<1>5. ~(under = "supervisor") /\ [PartsNext]_all => ~(under = "supervisor")'
  BY DEF PartsNext, all
<1>6. under = "supervisor" /\ [PartsNext]_all
    /\ [Supervision!Start!CanceledStartIsDroppedStep]_Supervision!Start!vars
    /\ [Supervision!Start!KeepsWhatWasThereStep]_Supervision!Start!vars =>
        [under = "supervisor" =>
           /\ Start!CanceledStartIsDroppedStep
           /\ Start!KeepsWhatWasThereStep]_slots
  <2>1. PartsNext /\ under = "supervisor" /\ UNCHANGED Supervision!Start!vars => UNCHANGED slots
    BY DEF PartsNext, slots, Kept18, Kept14, Kept13, Supervision!Start!vars
  <2>2. UNCHANGED all => UNCHANGED slots
    BY DEF all
  <2>3. Supervision!Start!CanceledStartIsDroppedStep => Start!CanceledStartIsDroppedStep
    BY DEF Start!CanceledStartIsDroppedStep, Supervision!Start!CanceledStartIsDroppedStep
  <2>4. Supervision!Start!KeepsWhatWasThereStep => Start!KeepsWhatWasThereStep
    BY DEF Start!KeepsWhatWasThereStep, Supervision!Start!KeepsWhatWasThereStep,
       Start!Contains, Supervision!Start!Contains
  <2>. QED
    BY <2>1, <2>2, <2>3, <2>4
<1>7. ~(under = "supervisor") =>
        [under = "supervisor" =>
           /\ Start!CanceledStartIsDroppedStep
           /\ Start!KeepsWhatWasThereStep]_slots
  OBVIOUS
<1>. QED
  BY <1>1, <1>2, <1>3, <1>4, <1>5, <1>6, <1>7, PTL DEF PartsSpec, Supervision!Start!Spec

\* The requests for patrols.
LEMMA BootHolds ==
  PartsSpec =>
    /\ [](under = "startup" => Boot!TypeOK)
    /\ [][under = "startup" =>
            /\ Boot!RequestStartsOnceStep]_slots
<1>1. PartsInit /\ under = "startup" => Supervision!Boot!Init
  <2>1. PartsInit /\ under = "startup" => Boot!Init
    BY DEF PartsInit
  <2>2. Boot!Init => Supervision!Boot!Init
    BY DEF Boot!Init, Supervision!Boot!Init
  <2>. QED
    BY <2>1, <2>2
<1>2. under = "startup" /\ [PartsNext]_all =>
        (under = "startup")' /\ [Supervision!Boot!Next]_Supervision!Boot!vars
  <2>1. ASSUME under = "startup", PartsNext PROVE Boot!Next /\ under' = under
    BY <2>1 DEF PartsNext
  <2>2. UNCHANGED all => UNCHANGED Supervision!Boot!vars /\ under' = under
    BY DEF all, slots, Supervision!Boot!vars
  <2>3. Boot!Next => Supervision!Boot!Next
    BY DEF Boot!Begun, Boot!FailedToStart, Boot!StartRouteFromFile, Boot!Known,
       Boot!Remember, Boot!Count, Boot!Start, Boot!PlainStart, Boot!PatrolEnds,
       Boot!ResetTerminalState, Boot!PoseSent, Boot!OnStartupTimer,
       Boot!PublishOneInitialPose, Boot!Relocalize, Boot!CheckSchedules,
       Boot!PeriodPasses, Boot!Next, Supervision!Boot!Begun,
       Supervision!Boot!FailedToStart, Supervision!Boot!StartRouteFromFile,
       Supervision!Boot!Known, Supervision!Boot!Remember, Supervision!Boot!Count,
       Supervision!Boot!Start, Supervision!Boot!PlainStart, Supervision!Boot!PatrolEnds,
       Supervision!Boot!ResetTerminalState, Supervision!Boot!PoseSent,
       Supervision!Boot!OnStartupTimer, Supervision!Boot!PublishOneInitialPose,
       Supervision!Boot!Relocalize, Supervision!Boot!CheckSchedules,
       Supervision!Boot!PeriodPasses, Supervision!Boot!Next
  <2>. QED
    BY <2>1, <2>2, <2>3
<1>3. Supervision!Boot!Spec =>
        /\ [](Supervision!Boot!TypeOK)
        /\ [][Supervision!Boot!RequestStartsOnceStep]_Supervision!Boot!vars
  <2>1. Supervision!BootAssumptions
    BY DEF Supervision!BootAssumptions
  <2>. QED
    BY <2>1, Supervision!StartsAreNotRepeated
       DEF Supervision!Boot!RequestStartsOnce
<1>4. Supervision!Boot!TypeOK =>
        Boot!TypeOK
  BY DEF Boot!TypeOK, Supervision!Boot!TypeOK
<1>5. ~(under = "startup") /\ [PartsNext]_all => ~(under = "startup")'
  BY DEF PartsNext, all
<1>6. under = "startup" /\ [PartsNext]_all
    /\ [Supervision!Boot!RequestStartsOnceStep]_Supervision!Boot!vars =>
        [under = "startup" =>
           /\ Boot!RequestStartsOnceStep]_slots
  <2>1. PartsNext /\ under = "startup" /\ UNCHANGED Supervision!Boot!vars => UNCHANGED slots
    BY DEF PartsNext, slots, Kept18, Kept14, Kept13, Kept12, Kept11, Supervision!Boot!vars
  <2>2. UNCHANGED all => UNCHANGED slots
    BY DEF all
  <2>3. Supervision!Boot!RequestStartsOnceStep => Boot!RequestStartsOnceStep
    BY DEF Boot!RequestStartsOnceStep, Supervision!Boot!RequestStartsOnceStep
  <2>. QED
    BY <2>1, <2>2, <2>3
<1>7. ~(under = "startup") =>
        [under = "startup" =>
           /\ Boot!RequestStartsOnceStep]_slots
  OBVIOUS
<1>. QED
  BY <1>1, <1>2, <1>3, <1>4, <1>5, <1>6, <1>7, PTL DEF PartsSpec, Supervision!Boot!Spec

\* The search for the position.
LEMMA RelocHolds ==
  PartsSpec =>
    /\ [](under = "relocalization" => Reloc!TypeOK /\ Reloc!RecoveredIsVerified)
    /\ [][under = "relocalization" =>
            /\ Reloc!TurningIsBoundedStep
            /\ Reloc!RecoveredIsVerified']_slots
<1>1. PartsInit /\ under = "relocalization" => Supervision!Reloc!Init
  <2>1. PartsInit /\ under = "relocalization" => Reloc!Init
    BY DEF PartsInit
  <2>2. Reloc!Init => Supervision!Reloc!Init
    BY DEF Reloc!Init, Supervision!Reloc!Init
  <2>. QED
    BY <2>1, <2>2
<1>2. under = "relocalization" /\ [PartsNext]_all =>
        (under = "relocalization")' /\ [Supervision!Reloc!Next]_Supervision!Reloc!vars
  <2>1. ASSUME under = "relocalization", PartsNext PROVE Reloc!Next /\ under' = under
    BY <2>1 DEF PartsNext
  <2>2. UNCHANGED all => UNCHANGED Supervision!Reloc!vars /\ under' = under
    BY DEF all, slots, Supervision!Reloc!streaks, Supervision!Reloc!motion,
       Supervision!Reloc!answers, Supervision!Reloc!vars
  <2>3. Reloc!Next => Supervision!Reloc!Next
    BY DEF Reloc!streaks, Reloc!motion, Reloc!answers, Reloc!Assessments, Reloc!CapTo,
       Reloc!Event, Reloc!Taken, Reloc!Fail, Reloc!UpdateTriggerState, Reloc!Triggered,
       Reloc!BeginAttempt, Reloc!Stopping, Reloc!Advance, Reloc!CandidateFailed,
       Reloc!VerificationFailed, Reloc!JudgeCandidate, Reloc!Request, Reloc!Rotate,
       Reloc!ActiveScan, Reloc!WaitingCandidate, Reloc!Verifying, Reloc!Failed,
       Reloc!Stay, Reloc!Tick, Reloc!OnMatchQuality, Reloc!OnManualTakeover, Reloc!Next,
       Supervision!Reloc!streaks, Supervision!Reloc!motion, Supervision!Reloc!answers,
       Supervision!Reloc!Assessments, Supervision!Reloc!CapTo, Supervision!Reloc!Event,
       Supervision!Reloc!Taken, Supervision!Reloc!Fail,
       Supervision!Reloc!UpdateTriggerState, Supervision!Reloc!Triggered,
       Supervision!Reloc!BeginAttempt, Supervision!Reloc!Stopping,
       Supervision!Reloc!Advance, Supervision!Reloc!CandidateFailed,
       Supervision!Reloc!VerificationFailed, Supervision!Reloc!JudgeCandidate,
       Supervision!Reloc!Request, Supervision!Reloc!Rotate, Supervision!Reloc!ActiveScan,
       Supervision!Reloc!WaitingCandidate, Supervision!Reloc!Verifying,
       Supervision!Reloc!Failed, Supervision!Reloc!Stay, Supervision!Reloc!Tick,
       Supervision!Reloc!OnMatchQuality, Supervision!Reloc!OnManualTakeover,
       Supervision!Reloc!Next
  <2>. QED
    BY <2>1, <2>2, <2>3
<1>3. Supervision!Reloc!Spec =>
        /\ [](Supervision!Reloc!TypeOK /\ Supervision!Reloc!RecoveredIsVerified)
        /\ [][Supervision!Reloc!TurningIsBoundedStep]_Supervision!Reloc!vars
  <2>1. Supervision!RelocAssumptions
    BY DEF Supervision!RelocAssumptions
  <2>. QED
    BY <2>1, Supervision!SearchesAreBounded
       DEF Supervision!Reloc!TurningIsBounded
<1>4. Supervision!Reloc!TypeOK /\ Supervision!Reloc!RecoveredIsVerified =>
        Reloc!TypeOK /\ Reloc!RecoveredIsVerified
  BY DEF Reloc!Total, Reloc!SumOfSegments, Reloc!States, Reloc!TypeOK,
     Reloc!RecoveredIsVerified, Supervision!Reloc!Total, Supervision!Reloc!SumOfSegments,
     Supervision!Reloc!States, Supervision!Reloc!TypeOK,
     Supervision!Reloc!RecoveredIsVerified
<1>5. ~(under = "relocalization") /\ [PartsNext]_all => ~(under = "relocalization")'
  BY DEF PartsNext, all
<1>6. under = "relocalization" /\ [PartsNext]_all
    /\ [Supervision!Reloc!TurningIsBoundedStep]_Supervision!Reloc!vars
    /\ (Supervision!Reloc!RecoveredIsVerified)' =>
        [under = "relocalization" =>
           /\ Reloc!TurningIsBoundedStep
           /\ Reloc!RecoveredIsVerified']_slots
  <2>1. PartsNext /\ under = "relocalization" /\ UNCHANGED Supervision!Reloc!vars
          => UNCHANGED slots
    BY DEF PartsNext, slots, Kept18, Supervision!Reloc!streaks, Supervision!Reloc!motion,
       Supervision!Reloc!answers, Supervision!Reloc!vars
  <2>2. UNCHANGED all => UNCHANGED slots
    BY DEF all
  <2>3. Supervision!Reloc!TurningIsBoundedStep => Reloc!TurningIsBoundedStep
    BY DEF Reloc!Total, Reloc!SumOfSegments, Reloc!TurningIsBoundedStep,
       Supervision!Reloc!Total, Supervision!Reloc!SumOfSegments,
       Supervision!Reloc!TurningIsBoundedStep
  <2>4. (Supervision!Reloc!RecoveredIsVerified)' => (Reloc!RecoveredIsVerified)'
    BY DEF Reloc!RecoveredIsVerified, Supervision!Reloc!RecoveredIsVerified
  <2>. QED
    BY <2>1, <2>2, <2>3, <2>4
<1>7. ~(under = "relocalization") =>
        [under = "relocalization" =>
           /\ Reloc!TurningIsBoundedStep
           /\ Reloc!RecoveredIsVerified']_slots
  OBVIOUS
<1>. QED
  BY <1>1, <1>2, <1>3, <1>4, <1>5, <1>6, <1>7, PTL DEF PartsSpec, Supervision!Reloc!Spec

\* The receiver.
LEMMA GnssHolds ==
  PartsSpec =>
    /\ [](under = "gnss" => Gnss!TypeOK)
    /\ [][under = "gnss" =>
            /\ Gnss!TrustIsWonBackStep]_slots
<1>1. PartsInit /\ under = "gnss" => Supervision!Gnss!Init
  <2>1. PartsInit /\ under = "gnss" => Gnss!Init
    BY DEF PartsInit
  <2>2. Gnss!Init => Supervision!Gnss!Init
    BY DEF Gnss!Init, Supervision!Gnss!Init
  <2>. QED
    BY <2>1, <2>2
<1>2. under = "gnss" /\ [PartsNext]_all =>
        (under = "gnss")' /\ [Supervision!Gnss!Next]_Supervision!Gnss!vars
  <2>1. ASSUME under = "gnss", PartsNext PROVE Gnss!Next /\ under' = under
    BY <2>1 DEF PartsNext
  <2>2. UNCHANGED all => UNCHANGED Supervision!Gnss!vars /\ under' = under
    BY DEF all, slots, Supervision!Gnss!vars
  <2>3. Gnss!Next => Supervision!Gnss!Next
    BY DEF Gnss!MaxGap, Gnss!OnStatus, Gnss!Distance, Gnss!MovedTooFar, Gnss!Hard,
       Gnss!Grade, Gnss!CountUp, Gnss!Recover, Gnss!Judge, Gnss!OnFix, Gnss!Time,
       Gnss!Next, Supervision!Gnss!MaxGap, Supervision!Gnss!OnStatus,
       Supervision!Gnss!Distance, Supervision!Gnss!MovedTooFar, Supervision!Gnss!Hard,
       Supervision!Gnss!Grade, Supervision!Gnss!CountUp, Supervision!Gnss!Recover,
       Supervision!Gnss!Judge, Supervision!Gnss!OnFix, Supervision!Gnss!Time,
       Supervision!Gnss!Next
  <2>. QED
    BY <2>1, <2>2, <2>3
<1>3. Supervision!Gnss!Spec =>
        /\ [](Supervision!Gnss!TypeOK)
        /\ [][Supervision!Gnss!TrustIsWonBackStep]_Supervision!Gnss!vars
  <2>1. Supervision!GnssAssumptions
    BY DEF Supervision!GnssAssumptions
  <2>. QED
    BY <2>1, Supervision!TrustIsAlwaysWonBack
       DEF Supervision!Gnss!TrustIsWonBack
<1>4. Supervision!Gnss!TypeOK =>
        Gnss!TypeOK
  BY DEF Gnss!MaxGap, Gnss!TypeOK, Supervision!Gnss!MaxGap, Supervision!Gnss!TypeOK
<1>5. ~(under = "gnss") /\ [PartsNext]_all => ~(under = "gnss")'
  BY DEF PartsNext, all
<1>6. under = "gnss" /\ [PartsNext]_all
    /\ [Supervision!Gnss!TrustIsWonBackStep]_Supervision!Gnss!vars =>
        [under = "gnss" =>
           /\ Gnss!TrustIsWonBackStep]_slots
  <2>1. PartsNext /\ under = "gnss" /\ UNCHANGED Supervision!Gnss!vars => UNCHANGED slots
    BY DEF PartsNext, slots, Kept18, Kept14, Kept13, Kept12, Kept11, Kept10, Kept9,
       Supervision!Gnss!vars
  <2>2. UNCHANGED all => UNCHANGED slots
    BY DEF all
  <2>3. Supervision!Gnss!TrustIsWonBackStep => Gnss!TrustIsWonBackStep
    BY DEF Gnss!TrustIsWonBackStep, Supervision!Gnss!TrustIsWonBackStep
  <2>. QED
    BY <2>1, <2>2, <2>3
<1>7. ~(under = "gnss") =>
        [under = "gnss" =>
           /\ Gnss!TrustIsWonBackStep]_slots
  OBVIOUS
<1>. QED
  BY <1>1, <1>2, <1>3, <1>4, <1>5, <1>6, <1>7, PTL DEF PartsSpec, Supervision!Gnss!Spec

\* The health.
LEMMA HealthHolds ==
  PartsSpec =>
    /\ [](under = "health" => Health!TypeOK /\ Health!SilenceIsNoticed)
    /\ [][under = "health" =>
            /\ Health!SilenceIsNoticed']_slots
<1>1. PartsInit /\ under = "health" => Supervision!Health!Init
  <2>1. PartsInit /\ under = "health" => Health!Init
    BY DEF PartsInit
  <2>2. Health!Init => Supervision!Health!Init
    BY DEF Health!Sources, Health!Never, Health!Init, Supervision!Health!Sources,
       Supervision!Health!Never, Supervision!Health!Init
  <2>. QED
    BY <2>1, <2>2
<1>2. under = "health" /\ [PartsNext]_all =>
        (under = "health")' /\ [Supervision!Health!Next]_Supervision!Health!vars
  <2>1. ASSUME under = "health", PartsNext PROVE Health!Next /\ under' = under
    BY <2>1 DEF PartsNext
  <2>2. UNCHANGED all => UNCHANGED Supervision!Health!vars /\ under' = under
    BY DEF all, slots, Supervision!Health!vars
  <2>3. Health!Next => Supervision!Health!Next
    BY DEF Health!Sources, Health!Silent, Health!Never, Health!Relocalizations,
       Health!Heard, Health!OnQuality, Health!OnRelocalization, Health!OnAmcl,
       Health!OnPlain, Health!Stale, Health!Shown, Health!Reasons, Health!Overall,
       Health!Tick, Health!Next, Supervision!Health!Sources, Supervision!Health!Silent,
       Supervision!Health!Never, Supervision!Health!Relocalizations,
       Supervision!Health!Heard, Supervision!Health!OnQuality,
       Supervision!Health!OnRelocalization, Supervision!Health!OnAmcl,
       Supervision!Health!OnPlain, Supervision!Health!Stale, Supervision!Health!Shown,
       Supervision!Health!Reasons, Supervision!Health!Overall, Supervision!Health!Tick,
       Supervision!Health!Next
  <2>. QED
    BY <2>1, <2>2, <2>3
<1>3. Supervision!Health!Spec =>
        [](Supervision!Health!TypeOK /\ Supervision!Health!SilenceIsNoticed)
  <2>1. Supervision!HealthAssumptions
    BY DEF Supervision!HealthAssumptions, Supervision!Health!Sources
  <2>. QED
    BY <2>1, Supervision!SilenceIsAlwaysNoticed
<1>4. Supervision!Health!TypeOK /\ Supervision!Health!SilenceIsNoticed =>
        Health!TypeOK /\ Health!SilenceIsNoticed
  BY DEF Health!Sources, Health!Silent, Health!Never, Health!Overalls,
     Health!Relocalizations, Health!TypeOK, Health!SilenceIsNoticed,
     Supervision!Health!Sources, Supervision!Health!Silent, Supervision!Health!Never,
     Supervision!Health!Overalls, Supervision!Health!Relocalizations,
     Supervision!Health!TypeOK, Supervision!Health!SilenceIsNoticed
<1>5. ~(under = "health") /\ [PartsNext]_all => ~(under = "health")'
  BY DEF PartsNext, all
<1>6. under = "health" /\ [PartsNext]_all
    /\ (Supervision!Health!SilenceIsNoticed)' =>
        [under = "health" =>
           /\ Health!SilenceIsNoticed']_slots
  <2>1. PartsNext /\ under = "health" /\ UNCHANGED Supervision!Health!vars => UNCHANGED slots
    BY DEF PartsNext, slots, Kept18, Kept14, Kept13, Kept12, Kept11, Kept10, Kept9, Kept8,
       Kept6, Supervision!Health!vars
  <2>2. UNCHANGED all => UNCHANGED slots
    BY DEF all
  <2>3. (Supervision!Health!SilenceIsNoticed)' => (Health!SilenceIsNoticed)'
    BY DEF Health!Sources, Health!Silent, Health!SilenceIsNoticed,
       Supervision!Health!Sources, Supervision!Health!Silent,
       Supervision!Health!SilenceIsNoticed
  <2>. QED
    BY <2>1, <2>2, <2>3
<1>7. ~(under = "health") =>
        [under = "health" =>
           /\ Health!SilenceIsNoticed']_slots
  OBVIOUS
<1>. QED
  BY <1>1, <1>2, <1>3, <1>4, <1>5, <1>6, <1>7, PTL DEF PartsSpec, Supervision!Health!Spec

\* The virtual walls.
LEMMA WallsHolds ==
  PartsSpec =>
    /\ [](under = "walls" => Walls!TypeOK)
    /\ [][under = "walls" =>
            /\ Walls!WallsAreTheRoutesStep]_slots
<1>1. PartsInit /\ under = "walls" => Supervision!Walls!Init
  <2>1. PartsInit /\ under = "walls" => Walls!Init
    BY DEF PartsInit
  <2>2. Walls!Init => Supervision!Walls!Init
    BY DEF Walls!Nothing, Walls!Init, Supervision!Walls!Nothing, Supervision!Walls!Init
  <2>. QED
    BY <2>1, <2>2
<1>2. under = "walls" /\ [PartsNext]_all =>
        (under = "walls")' /\ [Supervision!Walls!Next]_Supervision!Walls!vars
  <2>1. ASSUME under = "walls", PartsNext PROVE Walls!Next /\ under' = under
    BY <2>1 DEF PartsNext
  <2>2. UNCHANGED all => UNCHANGED Supervision!Walls!vars /\ under' = under
    BY DEF all, slots, Supervision!Walls!files, Supervision!Walls!vars
  <2>3. Walls!Next => Supervision!Walls!Next
    BY DEF Walls!files, Walls!Nothing, Walls!Here, Walls!Cells, Walls!Bound, Walls!Order,
       Walls!Replaced, Walls!Answers, Walls!ModeFor, Walls!Prepare, Walls!RouteSafety,
       Walls!SetupOK, Walls!CheckSetup, Walls!Draw, Walls!Replace, Walls!Drawn,
       Walls!CheckAgain, Walls!Next, Supervision!Walls!files, Supervision!Walls!Nothing,
       Supervision!Walls!Here, Supervision!Walls!Cells, Supervision!Walls!Bound,
       Supervision!Walls!Order, Supervision!Walls!Replaced, Supervision!Walls!Answers,
       Supervision!Walls!ModeFor, Supervision!Walls!Prepare,
       Supervision!Walls!RouteSafety, Supervision!Walls!SetupOK,
       Supervision!Walls!CheckSetup, Supervision!Walls!Draw, Supervision!Walls!Replace,
       Supervision!Walls!Drawn, Supervision!Walls!CheckAgain, Supervision!Walls!Next
  <2>. QED
    BY <2>1, <2>2, <2>3
<1>3. Supervision!Walls!Spec =>
        /\ [](Supervision!Walls!TypeOK)
        /\ [][Supervision!Walls!WallsAreTheRoutesStep]_Supervision!Walls!vars
  <2>1. Supervision!WallsAssumptions
    BY DEF Supervision!WallsAssumptions
  <2>. QED
    BY <2>1, Supervision!WallsAreAlwaysTheRoutes
       DEF Supervision!Walls!WallsAreTheRoutes
<1>4. Supervision!Walls!TypeOK =>
        Walls!TypeOK
  BY DEF Walls!Nothing, Walls!Sources, Walls!Here, Walls!TypeOK,
     Supervision!Walls!Nothing, Supervision!Walls!Sources, Supervision!Walls!Here,
     Supervision!Walls!TypeOK
<1>5. ~(under = "walls") /\ [PartsNext]_all => ~(under = "walls")'
  BY DEF PartsNext, all
<1>6. under = "walls" /\ [PartsNext]_all
    /\ [Supervision!Walls!WallsAreTheRoutesStep]_Supervision!Walls!vars =>
        [under = "walls" =>
           /\ Walls!WallsAreTheRoutesStep]_slots
  <2>1. PartsNext /\ under = "walls" /\ UNCHANGED Supervision!Walls!vars => UNCHANGED slots
    BY DEF PartsNext, slots, Kept18, Kept14, Kept13, Kept12, Kept11,
       Supervision!Walls!files, Supervision!Walls!vars
  <2>2. UNCHANGED all => UNCHANGED slots
    BY DEF all
  <2>3. Supervision!Walls!WallsAreTheRoutesStep => Walls!WallsAreTheRoutesStep
    BY DEF Walls!Here, Walls!Nothing, Walls!Cells, Walls!WallsAreTheRoutesStep,
       Supervision!Walls!Here, Supervision!Walls!Nothing, Supervision!Walls!Cells,
       Supervision!Walls!WallsAreTheRoutesStep
  <2>. QED
    BY <2>1, <2>2, <2>3
<1>7. ~(under = "walls") =>
        [under = "walls" =>
           /\ Walls!WallsAreTheRoutesStep]_slots
  OBVIOUS
<1>. QED
  BY <1>1, <1>2, <1>3, <1>4, <1>5, <1>6, <1>7, PTL DEF PartsSpec, Supervision!Walls!Spec

\* The 3D recording.
LEMMA CaptureHolds ==
  PartsSpec =>
    /\ [](under = "capture" => Capture!TypeOK)
    /\ [][under = "capture" =>
            /\ Capture!StopSpeaksOfItsCaptureStep]_slots
<1>1. PartsInit /\ under = "capture" => Supervision!Capture!Init
  <2>1. PartsInit /\ under = "capture" => Capture!Init
    BY DEF PartsInit
  <2>2. Capture!Init => Supervision!Capture!Init
    BY DEF Capture!Ids, Capture!Idle, Capture!Init, Supervision!Capture!Ids,
       Supervision!Capture!Idle, Supervision!Capture!Init
  <2>. QED
    BY <2>1, <2>2
<1>2. under = "capture" /\ [PartsNext]_all =>
        (under = "capture")' /\ [Supervision!Capture!Next]_Supervision!Capture!vars
  <2>1. ASSUME under = "capture", PartsNext PROVE Capture!Next /\ under' = under
    BY <2>1 DEF PartsNext
  <2>2. UNCHANGED all => UNCHANGED Supervision!Capture!vars /\ under' = under
    BY DEF all, slots, Supervision!Capture!vars
  <2>3. Capture!Next => Supervision!Capture!Next
    BY DEF Capture!recorder, Capture!builder, Capture!Ids, Capture!Idle, Capture!HasLock,
       Capture!Waits, Capture!Done, Capture!Command, Capture!Start3dMapping,
       Capture!StopAsks, Capture!StopFindsNothing, Capture!StopAnswered,
       Capture!Build3dMap, Capture!CameraOpens, Capture!Reports, Capture!Breaks,
       Capture!LeavesLoop, Capture!Saves, Capture!Exits, Capture!Resolve,
       Capture!BuildEnds, Capture!HasFile, Capture!Newest, Capture!DeleteAsset,
       Capture!SetLatest, Capture!Others, Capture!Next, Supervision!Capture!recorder,
       Supervision!Capture!builder, Supervision!Capture!Ids, Supervision!Capture!Idle,
       Supervision!Capture!HasLock, Supervision!Capture!Waits, Supervision!Capture!Done,
       Supervision!Capture!Command, Supervision!Capture!Start3dMapping,
       Supervision!Capture!StopAsks, Supervision!Capture!StopFindsNothing,
       Supervision!Capture!StopAnswered, Supervision!Capture!Build3dMap,
       Supervision!Capture!CameraOpens, Supervision!Capture!Reports,
       Supervision!Capture!Breaks, Supervision!Capture!LeavesLoop,
       Supervision!Capture!Saves, Supervision!Capture!Exits, Supervision!Capture!Resolve,
       Supervision!Capture!BuildEnds, Supervision!Capture!HasFile,
       Supervision!Capture!Newest, Supervision!Capture!DeleteAsset,
       Supervision!Capture!SetLatest, Supervision!Capture!Others, Supervision!Capture!Next
  <2>. QED
    BY <2>1, <2>2, <2>3
<1>3. Supervision!Capture!Spec =>
        /\ [](Supervision!Capture!TypeOK)
        /\ [][Supervision!Capture!StopSpeaksOfItsCaptureStep]_Supervision!Capture!vars
  <2>1. Supervision!CaptureAssumptions
    BY DEF Supervision!CaptureAssumptions
  <2>. QED
    BY <2>1, Supervision!StopsSpeakOfTheirCapture
       DEF Supervision!Capture!StopSpeaksOfItsCapture
<1>4. Supervision!Capture!TypeOK =>
        Capture!TypeOK
  BY DEF Capture!Ids, Capture!TypeOK, Supervision!Capture!Ids, Supervision!Capture!TypeOK
<1>5. ~(under = "capture") /\ [PartsNext]_all => ~(under = "capture")'
  BY DEF PartsNext, all
<1>6. under = "capture" /\ [PartsNext]_all
    /\ [Supervision!Capture!StopSpeaksOfItsCaptureStep]_Supervision!Capture!vars =>
        [under = "capture" =>
           /\ Capture!StopSpeaksOfItsCaptureStep]_slots
  <2>1. PartsNext /\ under = "capture" /\ UNCHANGED Supervision!Capture!vars => UNCHANGED slots
    BY DEF PartsNext, slots, Kept18, Kept14, Supervision!Capture!vars
  <2>2. UNCHANGED all => UNCHANGED slots
    BY DEF all
  <2>3. Supervision!Capture!StopSpeaksOfItsCaptureStep => Capture!StopSpeaksOfItsCaptureStep
    BY DEF Capture!Idle, Capture!StopSpeaksOfItsCaptureStep, Supervision!Capture!Idle,
       Supervision!Capture!StopSpeaksOfItsCaptureStep
  <2>. QED
    BY <2>1, <2>2, <2>3
<1>7. ~(under = "capture") =>
        [under = "capture" =>
           /\ Capture!StopSpeaksOfItsCaptureStep]_slots
  OBVIOUS
<1>. QED
  BY <1>1, <1>2, <1>3, <1>4, <1>5, <1>6, <1>7, PTL DEF PartsSpec, Supervision!Capture!Spec

-----------------------------------------------------------------------------
(* The arbiter and the base *)

Wheels == INSTANCE VelocityPathProofs WITH
  SourceTimeout <- 0, StatusTimeout <- 0, SwitchGuard <- 0, TimerPeriod <- 1,
  AgeCap <- 2, CmdTimeout <- 1, ScanTimeout <- 1, FeedbackTimeout <- 1, command <- v1,
  age <- v2, health <- v3, statusAge <- v4, manual <- v5, source <- v6, guardLeft <- v7,
  timerAge <- v8, out <- v9, rest <- v10, alive <- v11, drive <- v12, wheels <- v13,
  baseAge <- v14, stampAge <- v15, timedOut <- v16, fault <- v17, due <- v18

\* From the arbiter to the wheels.
LEMMA PathHolds ==
  PartsSpec =>
    [](under = "velocity path" =>
         Path!PathTypeOK /\ Path!WheelsOutliveNobody)
<1>1. PartsInit /\ under = "velocity path" => Wheels!PathInit
  <2>1. PartsInit /\ under = "velocity path" => Path!PathInit
    BY DEF PartsInit
  <2>2. Path!PathInit => Wheels!PathInit
    BY DEF Path!Sources, Path!Zero, Path!Init, Path!PathInit, Wheels!Sources, Wheels!Zero,
       Wheels!Init, Wheels!PathInit
  <2>. QED
    BY <2>1, <2>2
<1>2. under = "velocity path" /\ [PartsNext]_all =>
        (under = "velocity path")' /\ [Wheels!PathNext]_Wheels!pathVars
  <2>1. ASSUME under = "velocity path", PartsNext PROVE Path!PathNext /\ under' = under
    BY <2>1 DEF PartsNext
  <2>2. UNCHANGED all => UNCHANGED Wheels!pathVars /\ under' = under
    BY DEF all, slots, Wheels!inputs, Wheels!vars, Wheels!baseVars, Wheels!pathVars
  <2>3. Path!PathNext => Wheels!PathNext
    BY DEF Path!Sources, Path!Commands, Path!NavigationStates, Path!HealthStates,
       Path!inputs, Path!vars, Path!Zero, Path!Forwarded, Path!Older, Path!Usable,
       Path!Owner, Path!Selected, Path!Publish, Path!Process, Path!OnCommand,
       Path!OnNavigationStatus, Path!OnManual, Path!Tick, Path!Elapse, Path!baseVars,
       Path!Told, Path!Publishes, Path!BaseElapse, Path!OverTime, Path!Receives,
       Path!Dies, Path!PathNext, Wheels!Sources, Wheels!Commands, Wheels!NavigationStates,
       Wheels!HealthStates, Wheels!inputs, Wheels!vars, Wheels!Zero, Wheels!Forwarded,
       Wheels!Older, Wheels!Usable, Wheels!Owner, Wheels!Selected, Wheels!Publish,
       Wheels!Process, Wheels!OnCommand, Wheels!OnNavigationStatus, Wheels!OnManual,
       Wheels!Tick, Wheels!Elapse, Wheels!baseVars, Wheels!Told, Wheels!Publishes,
       Wheels!BaseElapse, Wheels!OverTime, Wheels!Receives, Wheels!Dies, Wheels!PathNext,
       Path!Base!Older, Path!Base!Write, Path!Base!ScanIsFresh, Path!Base!FeedbackIsFresh,
       Path!Base!MayDrive, Path!Base!OnCommand, Path!Base!Watchdog, Wheels!Base!Older,
       Wheels!Base!Write, Wheels!Base!ScanIsFresh, Wheels!Base!FeedbackIsFresh,
       Wheels!Base!MayDrive, Wheels!Base!OnCommand, Wheels!Base!Watchdog
  <2>. QED
    BY <2>1, <2>2, <2>3
<1>3. Wheels!PathSpec =>
        [](Wheels!PathTypeOK /\ Wheels!WheelsOutliveNobody)
  <2>1. Wheels!BaseTimes /\ Wheels!TimesAssumption
    BY DEF Wheels!BaseTimes, Wheels!TimesAssumption
  <2>. QED
    BY <2>1, Wheels!NobodyIsOutlived
<1>4. Wheels!PathTypeOK /\ Wheels!WheelsOutliveNobody =>
        Path!PathTypeOK /\ Path!WheelsOutliveNobody
  BY DEF Path!Sources, Path!Commands, Path!Ages, Path!NavigationStates, Path!HealthStates,
     Path!TypeOK, Path!Owned, Path!PathTypeOK, Path!WheelsOutliveNobody, Wheels!Sources,
     Wheels!Commands, Wheels!Ages, Wheels!NavigationStates, Wheels!HealthStates,
     Wheels!TypeOK, Wheels!Owned, Wheels!PathTypeOK, Wheels!WheelsOutliveNobody,
     Path!Base!Ages, Path!Base!TypeOK, Wheels!Base!Ages, Wheels!Base!TypeOK
<1>5. ~(under = "velocity path") /\ [PartsNext]_all => ~(under = "velocity path")'
  BY DEF PartsNext, all
<1>. QED
  BY <1>1, <1>2, <1>3, <1>4, <1>5, PTL DEF PartsSpec, Wheels!PathSpec

-----------------------------------------------------------------------------
(* The properties of MCParts *)

\* The guard stands as at the start while a behaviour is about another part.
LEMMA GuardHolds == PartsSpec => []TypeOK
<1>1. PartsInit => AgesInv
  BY InitAges DEF PartsInit, NoGuard
<1>2. AgesInv /\ [PartsNext]_all => AgesInv'
  <2>1. PartsNext => Next \/ UNCHANGED own
    BY DEF PartsNext
  <2>2. UNCHANGED all => UNCHANGED own
    BY DEF all
  <2>3. UNCHANGED own => UNCHANGED vars
    BY DEF own, vars
  <2>. QED
    BY <2>1, <2>2, <2>3, StepKeeps
<1>3. AgesInv => TypeOK
  BY DEF AgesInv
<1>. QED
  BY <1>1, <1>2, <1>3, PTL DEF PartsSpec

\* What is to be uploaded keeps its files: a scene's or a map's snapshot and an
\* image stay until the platform has them or the row gives them up, and a session
\* has one open task (the upload stores of the platform client).
THEOREM UploadsAreSafe == PartsSpec => []UploadsKeepTheirFiles
BY ScenesHolds, MapTasksHolds, ImagesHolds, PTL
   DEF UploadsKeepTheirFiles

\* No image of the way to a target is taken for one once the target is reached
\* (the capture of inspection images).
THEOREM MovingAlwaysEndsAtArrival == PartsSpec => []MovingEndsAtArrival
BY ImagesHolds, PTL
   DEF MovingEndsAtArrival

\* Crashes and failures at any step of an installation leave the files of every
\* deployment the store knows, and a map operation that fails at any step those of
\* every map that was neither deleted nor overwritten (install, rename_map,
\* confirm_default).
THEOREM FilesAlwaysSurvive == PartsSpec => []FilesSurvive
BY DeployHolds, FilesHolds, PTL
   DEF FilesSurvive

\* The wheels stand within bounded time of the last usable command, scan or
\* feedback, and of the arbiter's death (the controllers' watchdogs).
THEOREM WheelsAlwaysStop == PartsSpec => []WheelsStop
BY LocalHolds, PathHolds, PTL
   DEF WheelsStop

\* What the node was asked to look after for a suspended turn is not forgotten, the
\* agent moves the robot by one operation at a time, and it has a component restarted
\* once for every fault.
THEOREM AgentIsSafe == PartsSpec => []AgentSafe
BY AgentHolds, MonitorHolds, PTL
   DEF AgentSafe

\* A motion commanded by voice or by the agent comes to its end, and the swing for
\* the localization to where it began.
THEOREM MotionsHaveAnEnd == PartsSpec => []MotionHasAnEnd
BY MotionHolds, SwingHolds, PTL
   DEF MotionHasAnEnd

\* The microphone is opened again after every turn, and an interrupt leaves no
\* speech of before it to be played.
THEOREM VoiceIsSafe == PartsSpec => []VoiceSafe
BY VoiceHolds, OutputHolds, PTL
   DEF VoiceSafe

\* The fused position stays near where the odometry left the robot
\* (MultisourceFusionCore.process).
THEOREM ErrorIsSmall == PartsSpec => []ErrorStaysSmall
BY FuseHolds, PTL
   DEF ErrorStaysSmall

\* A cancelled patrol start is not published, and the end of a patrol takes down
\* nothing that ran before it (the supervisor).
THEOREM PatrolStartsAreSafe == PartsSpec => PatrolStartSafe
BY StartHolds, PTL
   DEF PatrolStartSafe

\* A start command delivered again starts no second patrol while it is remembered
\* (the patrol executor).
THEOREM RequestsStartOnce == PartsSpec => RequestStartsOnce
BY BootHolds, PTL
   DEF RequestStartsOnce

\* The search for the position turns the robot a bounded number of times, and calls
\* it recovered only after good samples in a row (active relocalization).
THEOREM SearchesHaveABound == PartsSpec => SearchIsBounded
BY RelocHolds, PTL
   DEF SearchIsBounded

\* A rejected receiver wins its trust back by good fixes in a row, and a silent
\* sensor does not stay nominal (navigation health).
THEOREM SensorsAreTrusted == PartsSpec => SensorsTrusted
BY GnssHolds, HealthHolds, PTL
   DEF SensorsTrusted

\* A stop of the 3D recording that reports a saved recording speaks of the one it
\* stopped, and recording and building never share the camera.
THEOREM StopsSpeakOfTheCapture == PartsSpec => StopSpeaksOfItsCapture
BY CaptureHolds, PTL
   DEF StopSpeaksOfItsCapture

\* Navigation with virtual walls has masks that are alike, with the map's size and as
\* many cells as the route's walls cover, and they are the route's own unless the
\* last drawing was torn; two of the routes have equally many cells
\* (check_keepout_setup.py).
THEOREM WallsAreRouteWalls == PartsSpec => WallsAreTheRoutes
BY WallsHolds, PTL
   DEF WallsAreTheRoutes

\* Every variable of every part keeps to its values.
THEOREM TypesAreKept == PartsSpec => []PartsTypeOK
<1> DEFINE KeepersTyped == /\ under = "deployments" => Deploy!TypeOK
                           /\ under = "map files" => Files!TypeOK
                           /\ under = "scenes" => Scenes!TypeOK
                           /\ under = "maps" => MapTasks!TypeOK
                           /\ under = "images" => Images!TypeOK
           DriversTyped == /\ under = "local drive" => Local!DriveTypeOK
                           /\ under = "agent" => Agent!TypeOK
                           /\ under = "monitor" => Monitor!TypeOK
                           /\ under = "motion" => Motion!TypeOK
                           /\ under = "swing" => Swing!TypeOK
           SpeakersTyped == /\ under = "voice" => Voice!TypeOK
                            /\ under = "output" => Output!TypeOK
                            /\ under = "fusion" => Fuse!TypeOK
           StartersTyped == /\ under = "supervisor" => Start!TypeOK
                            /\ under = "startup" => Boot!TypeOK
                            /\ under = "relocalization" => Reloc!TypeOK
           WatchersTyped == /\ under = "gnss" => Gnss!TypeOK
                            /\ under = "health" => Health!TypeOK
                            /\ under = "walls" => Walls!TypeOK
                            /\ under = "capture" => Capture!TypeOK
           PathTyped == under = "velocity path" => Path!PathTypeOK
<1>1. PartsSpec => []KeepersTyped
  BY DeployHolds, FilesHolds, ScenesHolds, MapTasksHolds, ImagesHolds, PTL
<1>2. PartsSpec => []DriversTyped
  BY LocalHolds, AgentHolds, MonitorHolds, MotionHolds, SwingHolds, PTL
<1>3. PartsSpec => []SpeakersTyped
  BY VoiceHolds, OutputHolds, FuseHolds, PTL
<1>4. PartsSpec => []StartersTyped
  BY StartHolds, BootHolds, RelocHolds, PTL
<1>5. PartsSpec => []WatchersTyped
  BY GnssHolds, HealthHolds, WallsHolds, CaptureHolds, PTL
<1>6. PartsSpec => []PathTyped
  BY PathHolds, PTL
<1>7. TypeOK /\ KeepersTyped /\ DriversTyped /\ SpeakersTyped
         /\ StartersTyped /\ WatchersTyped /\ PathTyped => PartsTypeOK
  BY DEF PartsTypeOK
<1> HIDE DEF KeepersTyped, DriversTyped, SpeakersTyped, StartersTyped, WatchersTyped, PathTyped
<1>. QED
  BY <1>1, <1>2, <1>3, <1>4, <1>5, <1>6, <1>7, GuardHolds, PTL
=============================================================================
