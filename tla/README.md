# Verification of the inspection robot's control software

TLA+ models of the robot's own packages, checked with TLC on small instances and, where it
pays, proved with TLAPS for every value of the constants. `PROJECT.json` lists the components,
the runs, the hazards, the theorems, and for every definition the source lines it stands for.
Paths below are relative to the repository's `src/`.

## The system

A differential-drive robot patrols a power site. Own code (ROS 2, Python and C++):

| Component | State it keeps | Operations | Talks to |
| --- | --- | --- | --- |
| Patrol executor (`ylhb_mobile_bridge/.../patrol_executor_node.py`) | state of the patrol, target and lap indices, retries, tokens; navigation contexts, goal handle, one-shot timers | commands on `/patrol/command`, Nav2 action callbacks, timers, perception samples, initial pose, schedules | Nav2, supervisor, bridge, perception |
| Route store (`patrol_route_store.py`) | none | validate and expand route files | executor, supervisor, platform store |
| Platform store (`platform_store.py`) | SQLite: deployments, executions, commands, events, upload tasks; files of deployments | install, receive, transition, arm, confirm, expire, requeue | cloud client, bridge, uploads |
| Cloud client (`platform_cloud_client.py`) | connection state, cursor of uploaded events | poll, handle, recover, upload events, confirm locally | platform (HTTP), store, bridge queue |
| ROS bridge (`ros_bridge.py`) | caches of topics, platform context, cloud command queue, inspection capture, velocity timers | drain queue, forward commands and events, capture images, drive for a short time | everything on the robot's topics |
| Uploads (`scene_upload.py`, `map_upload.py`, `inspection_image_upload.py`) | tasks in the store, snapshots on disk, a worker thread | enqueue, process, retry, clean up | platform, store |
| Mobile bridge server, map, process and network managers | child processes, files | HTTP handlers, start, stop, probe | bridge, store |
| Velocity arbiter (`ylhb_base/scripts/cmd_vel_arbiter_*.py`) | last commands with their times, owner, guard | forward, switch, stop | Nav2, recovery, health, base |
| Navigation health, GNSS gate, fusion, lidar features | last signals, hysteresis counters | aggregate, classify | arbiter, relocalization |
| Active relocalization (`active_relocalization_*.py`) | recovery state machine, candidate, attempts | trigger, scan, verify, give up | health, arbiter, AMCL |
| Base controllers (`base_controller.cpp`, `zlac8015d_canopen_controller.cpp`) | last command and scan times, drive state | velocity in, watchdog, odometry out | arbiter, hardware |
| System supervisor (`ylhb_llm/.../system_supervisor_node.py`) | child processes, patrol start generation, mapping session | start and stop modes, patrol start transaction, runtime guard, emergency stop | executor, bridge, UI, processes |
| Inspection agent, voice session, motion skills, UI | operations waiting for confirmation, dialogue state, running motion | plan, confirm, speak, move | supervisor, executor |
| 3D mapping (`ylhb_3d_mapping`) | capture session, camera, assets | start, stop, save, reconstruct | supervisor, uploads |
| Perception (`yolo_detector_node.cpp`) | detector | image to detections | executor |

Vendored drivers (`rplidar_ros-ros2`, `zed-ros2-wrapper`, `hipnuc_imu`), maps, models and CAD are
not part of the inventory of logic.

### What is hard here

* **Late callbacks.** Every node is callbacks on one thread plus answers of action servers,
  services, HTTP and child processes that arrive when they like: after a cancel, a timeout, a
  restart, or for an attempt that was given up. The executor tells them apart with tokens and
  states; one of its timers has neither (see Findings).
* **Timeouts and retries.** Server waits, goal timeouts, refused goals and target failures are
  retried and bounded; each must end in exactly one callback.
* **Time.** Freshness of commands, health, scans and fixes, guards between owners of the wheels,
  debounced stops.
* **Crashes.** Commands, events and uploads are persisted in SQLite while files are moved and
  messages published outside the transaction.
* **Threads.** Cloud client, upload workers, HTTP server and the start transaction run beside
  the ROS thread and share the store, queues and flags.

### What correct means, per component

* Executor: no goal outlives its patrol; a moving patrol always has something to wait for; a hold
  is left only by a command; arrivals are Nav2's word; the order of targets; every leg ends.
* Store, cloud client, bridge queue: a command is dispatched at most once or knowingly again after
  a crash; an expired or cancelled start never runs; results and events are reported in order and
  not lost.
* Uploads: a task is done or retried or reported failed, never silently dropped; a snapshot
  outlives its task's need for it and not more.
* Arbiter and base: bounded age of what drives the wheels, guarded change of owner, no starvation.
* Relocalization: recovery owns the wheels only while it runs, gives up in bounded attempts.
* Supervisor: a start that was cancelled or superseded publishes nothing; processes are not
  started twice.
* Agent, voice, skills: an operation runs only after its confirmation and before its expiry;
  motions are bounded and stop.

## Modules

| Module | What it models |
| --- | --- |
| `PatrolExecutor` | `PatrolExecutorLogic` and the navigation part of `PatrolExecutorNode` |
| `PatrolMission` | what an executor promises: targets in order, dwell after arrival, holds that keep the place, honest success; `PatrolExecutor` implements it |
| `PatrolStartup` | what sets the executor off: start-up timer, series of initial poses, commands and their redelivery, schedules, reload of the route |
| `PlatformCommands` | platform commands through the store, the cloud thread and the ROS thread of the bridge, with crash and restart |
| `PlatformConnection` | the loop of the cloud thread, the switch an operator turns, the backoff, and the upload of events with its cursor |
| `Deployments` | `DeploymentStore.install` by two installers, with a crash between any two steps |
| `SceneUpload`, `MapUpload`, `InspectionImages` | the three uploads: tables, snapshots on disk, callers and worker threads, crashes; the third with the capture that takes the images |
| `MapFiles` | every operation of `map_manager.py` and the saving of a map, as file operations that may fail or be cut short |
| `LocalApp` | the switch of the local app and the sockets it closes |
| `WheelBase` | the node that drives the wheels, `base_controller.cpp` or `zlac8015d_canopen_controller.cpp`: command, scan and feedback watchdogs |
| `LocalDrive` | driving from the local app with its stop timer and debounced stop, on top of `WheelBase` |
| `CmdVelArbiter` | `CmdVelArbiter.process` and the arbiter's node |
| `VelocityPath` | the arbiter composed with the base behind it, and the arbiter's death |
| `NavigationHealth`, `GnssGate`, `Fusion` | the health monitor, the receiver's quality gate and the multi-source fusion |
| `ActiveRelocalization`, `ScanMatch`, `SwingRelocalization` | the search for a lost position, the node that corrects a pose by the scan, and the swing that helps AMCL |
| `SupervisorStart` | the supervisor's patrol start transaction and what overtakes it: cancel, stop, emergency stop, the status sweep |
| `RuntimeGuard` | the supervisor's guard over a running patrol and the recovery of a component |
| `KeepoutWalls` | preparation of navigation: the route against the map, the virtual walls and the program that draws them |
| `Capture3D`, `SpatialMapping` | recording and reconstruction with sessions and `latest.json`; the worker that maps while driving |
| `AgentOperations`, `HealthMonitor` | the agent's operations and the turns that wait for them; its watch over the robot and the automatic recovery |
| `MotionSkills` | the two nodes that move the base for the agent and for voice commands |
| `VoiceSession`, `VoiceOutput` | wake word, listening, answer and follow-up window; queue, generations and interrupts of speech |
| `OperatorPanel` | the panel's lock, nudges and requests, and the preview thread |
| `MCPatrolExecutor`, `MCPlatformCommands` | instances of the two core modules for TLC |
| `MCParts`, `MCProgress` | instances of all other modules for TLC, one part at a time |
| `PatrolExecutorProofs`, `PlatformCommandsProofs`, `VelocityPathProofs` | theorems about one module, or about the arbiter and what it is composed with; see Proofs |
| `StorageProofs` | theorems about `Deployments`, `MapFiles`, `SceneUpload`, `MapUpload` and `InspectionImages` |
| `ControlProofs` | theorems about `LocalDrive`, `HealthMonitor`, `Fusion`, `AgentOperations`, `MotionSkills`, `SwingRelocalization`, `VoiceSession` and `VoiceOutput` |
| `SupervisionProofs` | theorems about `SupervisorStart`, `PatrolStartup`, `ActiveRelocalization`, `GnssGate`, `NavigationHealth`, `KeepoutWalls` and `Capture3D` |
| `PartsProofs` | theorems about `RuntimeGuard`, and the properties of `MCParts` from the modules above |
| `ProgressProofs` | theorems about `PlatformConnection`, `LocalApp`, `ScanMatch`, `SpatialMapping` and `OperatorPanel` |

### PatrolExecutor

*State.* The logic's attributes are variables of the same meaning (`state`, `route`, `index` for
`current_target_index`, `cycle`, `retry`, `pausedFrom`, `homeReason`, `purpose`, the three tokens).
The node's are `nav`, one record per navigation context dictionary, `active` and `handle`
(`_active_navigation`, `_active_goal_handle`), `timers` (what each pending `_schedule_once` will
call) and `resetTimer`. The field `goal` of a context is the fate of the goal it sent: it belongs to
Nav2 and to the messages between the two.

*Steps.* One callback of the node, with everything it calls, is one action: `rclpy.spin` runs
them on one thread. `Command` is `_on_command` (start, go-to-target, pause, takeover, cancel, fail,
resume); `TimerFires` the one-shot timers; `ResetTerminalState` the terminal timer;
`NavigationStep` the callbacks of a context, and `Nav2Answers` and `Nav2Ends`, which are Nav2
itself. A callback starts from the bookkeeping as a record (`Now`), each helper says what the rest
of the code makes of it, and `Adopt` assigns the result: this follows the call order of the code,
for instance `_cancel_navigation`, which completes a context before the state changes.

*Abstractions.* Poses, names, messages and messages' wording are left out. An id of `NavIds` stands
for a request, its token and its goal, an id of `TimerIds` for a timer and the token it carries:
the code numbers them upwards and compares for equality only, so an id is free again when nothing
refers to it. A completed context forgets a result that can no longer be heard. The acceptance of a
goal and its result may be delivered in any later step, so an early end of a goal is Nav2's `goal`
field being ended before `NavigationResult`. Commands that the state refuses and repeated start
requests are stutters, because nothing modelled changes. `fail_to_start` keeps a stub route that
has an id and no targets; the model has `None` for it. Perception is one bit, `sampled`: whether the open
window has any sample. A command of any kind may arrive in any state. Start is enabled with every
route of `Routes`, which is also what an auto start and a due schedule do.

*Properties.*
`NeverStranded` (state), `NoGhostGoal` (state), `HeldUntilReleased` and `ArrivalIsNav2Success`
(steps), `ImplementsMission` (refinement), `MovingEnds` (liveness) are described at their
definitions.

*Refinement.* `PatrolMission` knows a plan, the target to visit, the lap, a mode and whether the
patrol is held. `ModeOf` maps the executor's state to the mode: running is *driving* while a
navigation is active and *visiting* (dwell) otherwise; a held patrol has the mode it will go on
with. Contexts, timers, tokens and retries disappear.

*Fairness* (`FairSpec`). Weak fairness of each timer and of the delivery of late responses is what
rclpy gives: a created timer fires, a completed future is delivered. Nav2 answers each request, and
ends a goal it was asked to stop; how long a goal executes is not assumed, since the goal timeout
covers it. Nothing is assumed of commands or perception: an inspection window without samples
abandons its target.

### CmdVelArbiter

Time stamps are kept as ages in ticks that stop growing at `AgeCap`, where everything is stale;
`guardLeft` is what is left of `_guard_until`. `Elapse` lets a tick pass, but not beyond a due
timer (`timerAge < TimerPeriod`): this is the assumption that the executor of the node is not
overloaded, and the bound `StopBound` proves contains that period. Commands arrive at any time with
any value, NaN and infinity included (`nonfinite`); FAILED, MANUAL_REQUIRED, LOCALIZATION_SUSPECT
and unknown words are one health state, since the code treats them alike. `rest` is a history
variable (time since a command was last forwarded) and no action reads it. The fairness of
`FairSpec` is that the node's timer runs and time passes.

### PlatformCommands

*Parts.* Two threads share the table `processed_commands`: the cloud client's (`cloud`) and the one
that spins the ROS node (`ros`). The records say where each thread is (`at`), with which command,
which state it is about to store, and what it read before. Every transaction of `DeploymentStore` is one
step, and so is every point where the other thread could get in between: `set_command_state` reads
the state in one step (`settle`) and writes it in the next (`write`), because its SELECT runs before
a transaction is open. `_drain_cloud_commands` looks a START up in one step (`TakeCommand`) and
publishes it in the next (`PublishCommand`); `_recover_pending` takes the snapshot and the rows
once (`RecoverPending`) and works through them later.

*Environment.* The platform delivers a command while its lease allows it (`lease`), and requests,
acknowledgements and replies may be lost. The patrol is what the bridge sees of supervisor and executor: published
commands are taken up in any order, since the supervisor runs each in a thread of its own; a START
runs, fails, or is refused by the supervisor's verdict, which its status repeats; events and the
1 Hz status come back. `Restart` ends the bridge's process at any point; the database, the patrol and
the published commands outlive it.

*Abstractions.* `log` keeps the events that concern the state of a command; contents, sequence
numbers and upload are left to `PlatformConnection`. `arm_start` and its event are one transaction in the code and one step
here; the check of a busy robot before it reads the snapshot in the same step. Recovery handles
the rows in any order; the drain takes one command at a time. A supervisor's start transaction is
one step, its failure is told of the START it belongs to, and an executor whose patrol is over may
be stopped. Succeeded and failed patrols are both `over`. The refusal of an incomplete supervisor context, database
errors and the switch of the cloud connection are left out. The answer to a confirmation whose enqueueing
fails is left out too: the deployment of an armed START is on disk.

*Properties.* `OnlyConfirmedStartsRun`, `ConfirmedStartRunsOnce` (steps), `OneStartWaits`,
`OnlyAckedCommandsRun`, `EndedIsTold` (states); `EndedNeverRuns` and `RecoveryFollowsThePatrol`
are the ones the code does not keep, see Findings. `sent` is a history variable.

### The other modules

Each models one program or one pair of programs that share state; what the variables stand for is
said at their declarations, and `map` in `PROJECT.json` gives the lines of every definition. The same
conventions hold everywhere. A callback is one action. A thread is a record that says where it is,
and every point where another thread or a crash could get in between is a step boundary: between two
statements of SQL, two file operations, a check and its use. Time is counted in ticks of the shortest
period that matters, an age stops growing where everything is stale, and what only may have elapsed is a
choice. Contents (a scene's model, a map's image, a speech segment) are identities, answers of the
platform, of Nav2, of a model or of a recogniser are choices.

* **`PlatformConnection`.** `_run` is taken apart at every wait, so that the switch, which a call from HTTP stores,
  applies and announces in three steps (`StoreOverride`, `SetDesired`, `Wake`), meets the thread
  anywhere. An upload posts the event after the cursor; the request or its reply may be lost, or the
  platform may refuse the event for good, and then nothing beyond it is posted until the platform is past it.
* **`SceneUpload`, `MapUpload`, `InspectionImages`.** Rows and directories are separate: a
  crash leaves one without the other, start-up requeues and cleans. Callers hold the lock of
  the code, workers do not. The capture of images keeps what the bridge keeps of a visit (its targets
  and slots), the executor is the sequence of status messages.
* **`Deployments`, `MapFiles`.** One step per file operation or transaction; a crash may follow any. The second
  also has the failures the code rolls back, and what of a rollback may fail.
* **`WheelBase`, `LocalDrive`, `VelocityPath`.** The wheels keep the velocity last written. A write may be
  lost (`lost`), the stamp of a scan may lie in the past or the future, a CAN drive reports speed and faults, the watchdog runs each period. `LocalDrive`
  adds the HTTP handler and the one-shot timer, which run beside each other without a lock;
  `VelocityPath` has every Twist of `CmdVelArbiter` be a command to the base.
* **`SupervisorStart`.** Commands run in threads. A start is a transaction of waits, each of which ends
  by success, by its time or because the start was overtaken; `current` is the thread whose
  generation counts. Processes are on or off and some may exit. The ROS thread sweeps an ended
  transaction, too. `since` and `given` are history variables.
* **`RuntimeGuard`.** One action per tick of the guard, per step of a recovery and per change of a process or
  sensor; `lasted` is a history variable, how long each fault really lasted.
* **`HealthMonitor`.** The other end of a recovery: statuses come and go, the tick debounces faults, and
  asks for the restart of what may be restarted. `asked`, `calm` and `gap` are history variables.
* **`AgentOperations`.** Worker and ROS thread share the ledger, the pending operation and the lease. Reports
  of the robot come in any order and late. Each planner call is a step in which the other thread runs. A turn is
  pending before the node is told; `SuspendBroken` is the reply whose later calls cannot be parsed in between, after
  which it is told nothing. `known` is a history variable: what the turn waits for is what the node was told.
* **`ActiveRelocalization`, `SwingRelocalization`.** Angles are counted in units; `turned`, `steady` and
  `heading` are history. The units of `turned` are those the odometry shows: its last yaw may be `signal_timeout` old, and what the
  robot turns between two messages is left out of the bound. `SwingRelocalization` has the lag of the odometry in it.
* **`MotionSkills`.** A timer's period is the unit. A basic motion is given as the periods it may touch, the one it begins in and the one it
  ends in included, and its node may stop it at any of the last two, as the clock falls.
* **`ScanMatch`.** What matches best near a pose is any of a set of poses (`Refined`), or nothing. Time passes while corrections wait: the
  search for one pose may outlast the second in which another is known again.
* **`KeepoutWalls`.** A mask is known by the route and the map it was drawn from; the check sees only its number of cells. `torn` is a
  history variable: the generator that changed a file last was killed before it replaced the metadata.
* **`OperatorPanel`.** A drawing succeeds, draws the default route after a `TypeError`, says that it failed, or dies of its
  tasks without a word. `spoilt` is a history variable: the drawing begun last ended in one of the latter ways. The route is noted
  all the same (`ui_backend.py:1460`) and drawn again only when the operator asks for it.
* **`GnssGate`, `Fusion`.** Places on a line; `streak` and the true track are known to the model only.
* **`PatrolStartup`.** A patrol is one state here, its course is `PatrolExecutor`.

## Runs

| Run | Instance | Shows |
| --- | --- | --- |
| `inspection` | 2 contexts, 2 timers, inspection on, 2 routes, 1 refusal retry, 3 laps | all safety properties and the refinement |
| `nav_only` | the same, inspection off, 2 laps | `NeverStranded`, `HeldUntilReleased` also with tokenless delays |
| `progress` | one target, way home, 2 laps, no symmetry | `MovingEnds` |
| `stale_task` | inspection off | violation, see Findings |
| `arbiter` | timeouts 1 and 2, guard 3, period 2, with fairness | `StopBound`, `GuardedHandover`, `SelectedIsForwarded` |
| `platform_commands` | a START with local confirmation and its CANCEL, one restart | acknowledged, confirmed, once, told |
| `two_starts` | two STARTs with local confirmation, no restart | `OneStartWaits` |
| `recovery_evidence` | one START, one restart | violation, see Findings |
| `canceled_start` | a START and its CANCEL, no restart | violation, see Findings |
| `torn_walls` | two routes whose walls cover equally many cells, one map | violation, see Findings |
| `parts` | 22 modules, each alone (nearly 1.4 million states in all) | what each of them must never do, see below |
| `progress_of_parts` | 5 modules, each alone, with fairness | what they report is so, what they have decided stands, and what must happen in the end |

*Two runs for many modules.* In `MCParts` and `MCProgress` a variable `under` says which part a behaviour is about. It
is chosen in the initial state and no step changes it; the parts share no state, so the behaviours
are those of each part alone, no more and no fewer. In `MCParts` the parts even take turns in using the
variables `v1` to `v18`, because only one is there at a time, and those it does not use stay 0. A
property there is a conjunction of `under = part => property of the part`; each conjunct is stated and
explained in the part's module. In `MCProgress` the fairness of a part is asked of the behaviours about
it. `CHECK_DEADLOCK` is off in both: the bounded environments (tasks, requests, restarts) run out, and
the programs then wait for what does not come.

*What `parts` checks*

| Property | Parts | In words |
| --- | --- | --- |
| `UploadsKeepTheirFiles` | `SceneUpload`, `MapUpload`, `InspectionImages` | no row waits for a file that is gone; one open task per session |
| `MovingEndsAtArrival` | `InspectionImages` | no image of the way is asked for after the arrival |
| `FilesSurvive` | `Deployments`, `MapFiles` | an installed deployment is complete, a map nobody deleted is there, through crashes and failed rollbacks |
| `WheelsStop` | `LocalDrive`, `VelocityPath` | wheels stand within a bounded time of the last command, scan and feedback, and of the arbiter's death |
| `PatrolStartSafe` | `SupervisorStart` | an overtaken start publishes nothing, and an end of a patrol takes down only what it started |
| `RequestStartsOnce` | `PatrolStartup` | a redelivered start command starts no second patrol while it is remembered |
| `AgentSafe` | `AgentOperations`, `HealthMonitor` | what the node was asked to look after for a suspended turn is not forgotten, one action at a time, one repair per fault |
| `MotionHasAnEnd` | `MotionSkills`, `SwingRelocalization` | a velocity on the topic has a node behind it that will end it, in its time and whatever the other node publishes; the swing ends near where it began |
| `VoiceSafe` | `VoiceSession`, `VoiceOutput` | the microphone opens again after every turn, an interrupt leaves nothing of before it |
| `SearchIsBounded` | `ActiveRelocalization` | rotation and attempts are bounded, recovered means verified in a row |
| `SensorsTrusted` | `GnssGate`, `NavigationHealth` | trust is won back by good fixes in a row, a silent sensor is noticed |
| `ErrorStaysSmall` | `Fusion` | corrections by late or repeated measurements never carry the position away |
| `StopSpeaksOfItsCapture` | `Capture3D` | a stop reports the recording it stopped; recording and building do not share the camera |
| `GuardReportsWhatLasts` | `RuntimeGuard` | a patrol is failed for faults that last the debounce and for no other |
| `WallsAreTheRoutes` | `KeepoutWalls` | the masks navigation starts with are alike, as large as the map and of as many cells as the route's walls, with metadata of this route and map; they are the route's own unless the last drawing was torn |

*What `progress_of_parts` checks*

| Property | Parts | In words |
| --- | --- | --- |
| `ReportsAreTrue` | `PlatformConnection`, `LocalApp`, `OperatorPanel` | the cursor never passes an event the platform has not answered for; the clients reported are the sockets served; the route the panel has noted is drawn, being drawn or about to be taken, unless its drawing failed |
| `DecisionsStand` | `ScanMatch`, `SpatialMapping` | on an ambiguous map, too, the matcher leaves its latest correction alone while it is fresh, and its corrections never become more than the poses given; a worker told to stop is not told otherwise and goes only forward |
| `SwitchesAreObeyed` | `PlatformConnection`, `LocalApp` | the last word of the switch prevails in the end; sockets of a switched-off app are closed |
| `ThreadsSettle` | `SpatialMapping`, `OperatorPanel` | the camera is given back; no request of the panel stays pending, and the route's preview is shown in the end unless its drawing failed |

*Bounds of the core.* `NavIds` with two ids gives a live navigation beside one whose answer is still to come;
a third pending answer meets the same guards, as the code compares tokens only with the current
one. Two timers are one current and one stale delay. The routes differ in everything the executor
branches on: no target and two targets, finite and endless loops, a retry and none, both failure
policies, with and without the way home (go-to-target has none). `CycleBound` bounds only the laps
of endless loops, by the guard of `LoopWaitFinished`; deadlock is still checked, because commands
and the reset timer remain enabled. When the pool of ids is used up an action that needs one waits: the code would not, which
only removes behaviours with more than two outstanding answers. In `arbiter` the bounds keep the order of the deployed values
(0.5 s, 1.0 s, 0.2 s, 0.05 s in multiples of the period's ticks); the proofs cover all values.
`platform_commands` has one command of each role that meets the other (a START that waits, its CANCEL), a restart
for the recovery, and one command on the wire, which already lets a CANCEL overtake the answers
of its START; the wire's bound (`MaxWire`) also bounds the unread events. The platform's commands run out,
so these runs stop without deadlock being an error. PAUSE, RESUME and TAKEOVER, and STARTs that need no
confirmation, are in the model but in no instance: they take the branches of a CANCEL of a running
patrol and of a START after its confirmation; the theorems cover them. Symmetry permutes contexts and timers, of which no property names one, and is not used for liveness.

*Bounds of the parts* are the constants in the INSTANCE statements of `MCParts` and in `MCProgress.cfg`. They
follow three rules. Whatever the code compares comes in two: two sessions and two hashes of scenes, two map
contents, two visits, two installers of two deployments with two contents, two routes and maps that both
fit and one that does not, three routes of which one has no walls and two have equally many cells of them, two poses that match and one
between them, two supervisor threads, two speech keys and priorities. Queues and disks are
small enough to be full (`DiskMax`, `MaxRows`, `KeepSucceeded`, `Memory` of `PatrolStartup`, which is 64
in the code and 2 here, beside three requests). Timeouts keep their order and are long enough for one tick before, at
and after each of them. `SceneUpload` and `MapUpload` number two and three tasks, which lets a task be retried while
an older one is cleaned up; `AgentOperations` has two operations and two requests, so that
a late report meets the operation after its own. Three poses are given to the scan matcher (`MaxOutside`), which lets two
corrections be on their way at once while a third pose is searched; the panel's lock lasts one
second (`LockTimeout`), less than a request, whose clock it shares nothing with. `Path` has timeouts of one tick only, since its theorem
covers the others. What the guard of a part in `RuntimeGuard` needs is two processes, of which one may be
recovered, and two incidents.

*Fairness of the parts.* The cloud thread's loop has no step that waits without a limit, and a call of
`set_enabled` that has stored the switch goes on to apply it; the event loop serves each socket;
the camera's worker is a running thread; the panel's timers
tick, its service calls end, and the executor publishes its status at 1 Hz. Nothing is assumed of
operators, of the platform, of scans, or of the camera, which may fail. The scan matcher is asked for no progress, since its
corrections may go on for ever (see Findings).

## Proofs

*Executor.* `TypeCorrect` holds of every instance. `NoGoalOutlivesItsPatrol` and
`PatrolIsNeverStranded` assume `InspectionEnabled`, because without it the first is false (a stale
delay may complete a route while its goal executes) and the second needs another argument. The
inductive invariant is `Safe` (with `TypeOK`): a context that is not completed is the active one, the one
the logic listens to, and the patrol moves (`ContextInv`); the handle is the active goal's
(`ActiveInv`); an open window excludes a navigation (`WindowInv`); and each state has what it waits
for (`StateInv`). The proof follows the code's own shape. Every callback first makes the
bookkeeping *quiet* (nothing active, every context completed, no window) by finishing or cancelling,
lemmas `FinishQuiet`, `CancelQuiet`, `QuietNow`, `FiredQuiet`; and whatever it does next with a quiet
bookkeeping establishes the invariant, lemmas `StopSafe` to `NavigationFinishedSafe`.
TLC checked the invariant before it was proved.

*Arbiter* (`VelocityPathProofs`). The invariant says that what was forwarded was fresh at the last tick, so its age exceeds the
timeout by at most the timer's age (`FreshInv`), and that rest and remaining guard together cover the
guard of a source that is selected but not forwarded (`GuardInv`).

*Platform commands.* `PlatformInv` is inductive: `DeliveredInv` (whatever is in a queue, in
hand, on the wire or in an answer was received and acknowledged), `ConfirmationInv` (a confirmation is for good, and
only a confirmed START is in hand), `SentInv` (a published START is not CONFIRMED any more once the
ROS thread is done with it), `TellingInv` (a thread about to store an end has told it) and
`WaitingInv`. TLC checked these on the instance of `platform_commands` before they were proved. The proof first
establishes what any step can do to the store, the log, the two threads and the history (`Effects`), one step per
action, and then what it makes of one command (`CommandMoves`); of the parts of the invariant only
`DeliveredInv` has to look at the actions again. It needs `CommandsAssumption` and
`NoneAssumption` and holds for any set of commands, any number of restarts and any wire.

*Step properties and refinement* (`PatrolExecutorProofs`). From the executor's invariant: each callback is
classified by what it makes of state, place in the route and navigation (it departs, refuses, holds, stops,
releases, finishes a task, begins a lap, ...). Each class is then shown to keep `HeldUntilReleased` and
`ArrivalIsNav2Success` and to be one step of `PatrolMission` or a stutter. This gives
`ExecutorKeepsItsPromise`, the refinement for all routes, contexts and timers, under
`InspectionEnabled`: without inspection a stale delay may finish a target that was not reached.

*Connection* (`ProgressProofs`). `OutboxInv`: a thread that is about to post has an event after the
cursor, and the refused event is one that exists, so whatever the platform stores or resolves exists and the cursor follows it.

*Local app, scan matcher, camera and panel* (`ProgressProofs`). `MCProgress` has the constants of its parts as its own, so
that its theorems hold for all their values that meet `PartsAssumption`: finitely many sockets, bounds that are numbers, and near
each pose any set of poses that may match best. `ReportsStayTrue` needs with `AppInv` that the sockets served are finitely many and that a socket that closes is
one of them, which also shows that the clamp of the counter at zero never acts; and with `PanelInv` that a preview which is taken late is
older than any that is still on its way. `DecisionsAreNotUndone` needs `MatchInv`: of the node's own corrections that are on their way the
last is the one it remembers, and what waits to be handled is no more than was given; and `CameraInv`: a worker exports only when it
was told to stop and asked to export. Nothing is assumed of how many poses match, nor of how soon a callback is handled.

*Runtime guard* (`PartsProofs`). `AgesInv`: as long as nothing is reported the guard's own ages agree
with how long each fault lasted, all are younger than the debounce, and what has no age has not lasted.

*Velocity path* (`VelocityPathProofs`). `PathInv` is the arbiter's inductive invariant as long as its process is alive,
with `DrivenInv` (wheels that turn do so on the command published last, whose source is no older than its timeout and the time
since the base received it) and `WatchdogInv` (after a watchdog's period no wheel turns on an old command). The theorem bounds the
age of what drives the wheels by the sum of the timeouts on the way, for all their values; it assumes
`BaseTimes`, that the base counts beyond its own timeout.

*Data on the disk* (`StorageProofs`). What makes these inductive is, in each, what an actor that is
between two of its steps still knows.

| Theorem | Inductive invariant | Why the property alone is not inductive |
| --- | --- | --- |
| `StoreIsSound` | an installer between moving its directory into place and entering its row is the only one of that deployment, its directory has its content and there is no row yet (`Owns`) | the undo of a failed installer takes a directory away: it must not be one a row tells of |
| `MapsAreKept` | an operation under way can be read back to the sound directory `y`, `p` it began with, step by step (`Renaming`, `Confirming`) | `MapsSurvive` speaks of the directory between operations, and the rollback starts from the middle of one |
| `ScenesAreKept` | the failed task a retry supersedes is still failed, the newest of its session and of its model; the task the worker has taken is still to be tried (`SceneCallerKnows`, `SceneWorkerKnows`) | caller and worker read a row in one transaction and write it in another |
| `MapSnapshotsAreKept` | the task the handler drew is nobody else's, and no lack of space takes what it is about to requeue; what the table says is true (`MapCallerKnows`, `TableIsSound`) | the same, and cleanup deletes snapshots of rows that ended |
| `ImagesAreKept` | the image the worker unlinks is stored, and its row says so (`ImageWorkerKnows`) | the row is written, the file unlinked and the row cleared in three steps |

*Motion, position, agent and voice* (`ControlProofs`).

| Theorem | Inductive invariant |
| --- | --- |
| `BlindDriveIsBounded` | wheels that turn were told so by the last command that was not lost, which saw a fresh scan, fresh feedback and no fault, and the watchdog of every period stops them once that command is too old (`BlindInv`) |
| `RepairsAreNotRepeated` | a request leaves its issue among the recovered ones for as long as it lasts, and the code's clock runs no further than the time since the last request (`RepairInv`) |
| `FusionErrorIsBounded` | odometry and every measurement that is still fresh tell where the robot was at their age, and it moves one place a tick at most; a core that was never anchored counts from the origin, and one that was is near the place of its odometry (`TrackInv`, `OdomInv`, `MeasuredInv`, `Ok`) |
| `AgentWaitsAndActsAlone` | of the operations that move the robot only the current one is open (`Serial`), what is queued for a turn has ended (`Ended`), and the worker's place fits the operation it waits for (`WorkerOK`), also when a reply broke and the node was not told (`Waited`); whatever reads or expires the ledger only takes records further (`Later`) |
| `MotionsEnd` | what is left of a command and what the base has been driven make no more than the command's own time, and a timer that fired has ended what had no time left (`MotionInv`) |
| `SwingEndsWhereItBegan` | in front of segment `i` the heading is within `i - 1` errors of where the segments so far lead, and while it turns within the ticks elapsed besides (`SwingInv`) |
| `MicrophoneIsOpenedAgain` | speech is taken for the answer's only when there is an answer (`MicrophoneInv`) |
| `InterruptsAreClean` | a key stands for a request that is queued, or taken and not begun (`OutputInv`) |

`SwingEndsWhereItBegan` needs to know that the sums of the segments, a recursive function, exist, and that
there is a farthest of them. Both are inductions; they are proved without an induction rule by looking at
the smallest number at which they fail (`WFMin` of `WellFoundedInduction`).

*Start-up, sensors, walls and recording* (`SupervisionProofs`).

| Theorem | Inductive invariant |
| --- | --- |
| `OvertakenStartsAreDropped` | an overtaken start is not the current one and has not published, and one that has not come to publishing has published nothing (`ThreadInv`); every action lets each thread go on, be overtaken or stay |
| `StartsKeepWhatWasThere` | `StartInv` with `RestOK`: a component that has been running since before the transaction is known to it (`preexisting`), and not among those it owns |
| `StartsAreNotRepeated` | a request that is not remembered has not been for `Memory` others, and one that is stands as far from the end of the memory as requests came after it (`SeenInv`) |
| `SearchesAreBounded` | what the robot was turned and the rest of the segment are within the sum of the segments so far and of `MaxAttempts` whole searches (`RelocInv`), and the good samples counted are those since the request that was answered (`AnswerInv`) |
| `TrustIsAlwaysWonBack` | only what is held is passed on, and the good fixes counted came in a row (`GnssInv`) |
| `SilenceIsAlwaysNoticed` | the property is inductive with the types (`HealthInv`) |
| `WallsAreAlwaysTheRoutes` | the metadata count the cells of what they were drawn from (`WallsInv`); what a generator has replaced is of its drawing, and masks that none is replacing are of the metadata's drawing unless the last was torn (`DrawnTogether`) |
| `StopsSpeakOfTheirCapture` | a result stands for the recording last begun, which has left its loop with its files written, and the camera has one user (`RecordingInv`) |

The hypotheses are `NobodyIsNoThread`, `HandsOnProcesses` (only processes are started by hand) and the
`...Assumptions` of each section. `WallsAssumptions` is only that a map has a name of its own. Of routes with equally many cells the
theorem says what the check does ensure; that masks which pass are always the route's own is false (`torn_walls`).

*From the parts to the runs* (`PartsProofs`). The theorems above hold for all constants that meet the
`...Assumptions` operator of their section, which are no more than that bounds are numbers, that there is something
to act on, and, where the code justifies it, an order: `SwingAssumptions` has the odometry lag no longer than the robot
rests (the node waits a settling time between segments), `DriveAssumptions` a longest duration (`publish_velocity` caps it).
A lemma per part (`DeployHolds` to `PathHolds`) shows that a behaviour of `PartsSpec` that is about the part is a behaviour of
the part, and that the assumptions hold of its constants. With them the theorems at the end of `PartsProofs` (`UploadsAreSafe` to
`TypesAreKept`) and `GuardReports` state of `MCParts` exactly what `parts` checks: all its invariants and all its action properties.

*Assumptions.* `ConstantsAssumption`, `TimesAssumption`, `CommandsAssumption`, `NoneAssumption`,
`GuardAssumption`, `PartsAssumption` and `BoundsAssumption` stand in the modules that declare the constants, and TLC evaluates them
in every run of a module that extends these. `NobodyIsNoThread`, `HandsOnProcesses`, `BaseTimes` and the `...Assumptions` of
`StorageProofs`, `ControlProofs` and `SupervisionProofs` are hypotheses of the theorems that need them, since TLC uses those modules by
INSTANCE; `PartsProofs` proves the latter of the instances of `MCParts`.

*Model-checked only.* Everything about liveness and fairness, and ENABLED, which the prover does not reach. The
executor's properties without inspection. Every other invariant and action property of the passing runs is stated by a theorem.

## Findings

* **Task delay without token** (`stale_task`). Without inspection, which is the default, the delay
  at a target (`patrol_executor_node.py:469`) is not invalidated by pause, takeover, cancel or a
  new start, and `_target_task_finished` (474) asks only whether a target is being patrolled. Pause and
  resume during the dwell: the robot sets out for the same target again, the old delay fires
  on the way, and the target counts as done; for the last target the patrol even succeeds while
  its goal executes. The manual's steps 7 to 9 describe arrival before completion.
* **A cancelled START is published** (`canceled_start`). `_drain_cloud_commands` sees a START
  CONFIRMED (`ros_bridge.py:1446`); before it is published (1453), `cancel_armed_start` in the cloud thread stores
  it REJECTED and its CANCEL APPLIED and reports the route cancelled. The START goes out all the
  same and no CANCEL follows it. The test of cancel and timeout is called *clear armed start without
  dispatch*; it runs in one thread. The window is short: between a read and a publish.
* **Recovery before the patrol was heard** (`recovery_evidence`). After a restart the first
  snapshot, which starts the recovery, may be taken before any patrol status arrived, and says
  `idle` then (`ros_bridge.py:1515`). A dispatched START whose route runs is declared failed for want
  of evidence (`platform_cloud_client.py:463`). The protocol says that recovery follows the real state of the patrol.
* **Walls of another route** (`torn_walls`). `check_keepout_setup.py` compares the masks with the metadata by how many cells are hard
  (182-185), and the metadata with the route by hash. A generator killed between the masks and the metadata
  (`generate_keepout_mask.py:206`) leaves the walls of a new route beside the metadata of the old one. If the old route
  comes back and both have equally many hard cells, which they have when a zone was moved by whole cells, the
  check passes and navigation starts with the wrong walls. The manual says that the checker fails on masks that do not agree
  with the route.

The following have no run of their own. The models have the behaviour; six of them are
stated in their modules as what the text promises (`EndlessLoopsGoOn`, `EveryWaitIsLookedAfter`, `CorrectionsSettle`, `CanBeSentAgain`,
`StandbyOnce`, `ExportHasItsFrames`), which TLC refutes, and one as what the code does instead (`PerceptionIsLeftDown`).

* **Loops need the way home** (`patrol_executor_node.py:586`). `_complete_targets` reaches the loop decision
  only after the way home, so `loop.enabled` has no effect on a route with
  `return_to_start: false`. The manual calls it the master switch of looping.
* **A broken reply leaves a turn behind** (`inspection_agent_runtime.py:433`). The turn is pending before the calls that follow in the
  same reply are parsed. One that cannot be parsed ends the request with a failure, the node registers no pending context
  (`inspection_agent_node.py:321`), and the turn goes on waiting: neither the end of the operation nor its
  timeout is handed to it, only a further request meets it. The architecture's text promises an end of its own for success, failure,
  cancellation and timeout (`docs/architecture/README.md:57`). `AgentSafe` speaks of what the node was told.
* **Corrections call one another forth** (`scan_map_relocalization_node.py:337`). The node knows only its latest correction again, and
  that for a second. Two on their way of places that both match, or one that waits behind a long search, are corrected again,
  without end. The node says of its own corrections that it ignores them (359).
* **A short drive is not ended by its timer** (`ros_bridge.py:1369`). A stop within 0.15 s of the last one
  publishes nothing, the stop of the drive's own timer included; the base's watchdog ends the drive.
* **A deployment cut short can never be sent again** (`platform_store.py:313`). A crash after the directory is in place and
  before its row leaves a directory that makes every later install of the same content fail.
* **A rejected receiver stays rejected** (`gnss_quality_gate.py:406`). If the robot moved beyond the
  jump distance while the receiver was silent, every later fix is a jump against the same old fix.
* **A component is restarted under a waiting patrol** (`system_supervisor_node.py:611`). The list of active
  states of `recover_component` lacks `waiting_loop` and `manual_takeover`.
* **Two standby cues** (`voice_session_node.py:791`). The end of the follow-up window leaves its flag set, and the
  next wake word falls back to standby at once.
* **A second mapping exports on the frames of the first** (`zed_spatial_mapping_node.py:435`). The counter
  is reset by a reset and not by a start.
* **Scene assets are never announced** (`system_supervisor_node.py:858`). No publisher of a result fills
  both fields the announcement asks for.
* **The perception is never recovered automatically** (`robot_diagnostics.py:76`). Its fault is only looked
  for in a mode that is reported only while it runs.

## Plan

Done: the executor with its mission and both proofs; the arbiter alone and with the base; commands and
connection of the platform; uploads, deployments and map files; start-up and patrol start; guard and recovery; relocalization, health, gate and fusion; keepout walls;
agent, voice, motion, panel and 3D mapping.

Left, in this order:

1. An abstract `CommandLedger` (what a command's states tell the platform) and the refinement by
   `PlatformCommands`. It cannot say that a command ends once: a state read by one thread may be
   overwritten by the other (`platform_store.py:414`).
2. The lifecycle calls of Nav2 during a patrol start, which `SupervisorStart` has as the outcomes of one gate.

## Not modelled, and why

* *Network status* and *sensor drivers*: read-only probes of the operating system and parsing of
  device streams; they keep no state that another step depends on.
* *Perception*: one image in, detections out. Its consequences are the choice `sampled` of the executor.
* *Vendored drivers and assets*: not this project's code.
* *Numerical estimators* (scan matching, lidar features, uncertainty of the fusion), device encodings
  (CAN, serial, NMEA), ramps and odometry, geometry of routes and zones: functions of data, where a
  state machine says nothing. The models take their outcomes as choices, or places on a line.
* *HTTP bodies, prompts, memory of the agent, wording, history files, display caches, meshes*: data that no property
  tells apart.
* *`partly` in `PROJECT.json`* names, per component, what of it is left out.
