--------------------------- MODULE PlatformCommands ---------------------------
(***************************************************************************)
(* The way of a platform command through the robot: DeploymentStore (table *)
(* processed_commands, every transaction of it one step), the thread of    *)
(* PlatformCloudClient, and the ROS thread of MobileRosBridge (queue of    *)
(* cloud commands, confirmation, expiry, patrol events, status snapshot).  *)
(* The platform (leases) and the patrol (supervisor and executor seen from *)
(* the bridge's topics) are the environment.                               *)
(*                                                                         *)
(* stored     processed_commands.state; "absent": no row                   *)
(* log        <<event, command>> pairs in the table events, those that     *)
(*            concern the state of a command                               *)
(* lease      what the platform knows of a command                         *)
(* queue      _cloud_command_queue                                         *)
(* context    active_execution_id of _platform_context                     *)
(* seen       _patrol_status, None until the first message                 *)
(* snapshot   _cloud_snapshot, None until the first refresh                *)
(* recovered  the local variable of _run                                   *)
(* cloud, ros where each thread is: at, its command, the state it is about *)
(*            to store, and what it read before                            *)
(* wire       published system commands; answers: events of the executor   *)
(* patrol     the executor's state and START; "off": no executor runs       *)
(* verdict    command_result of the supervisor's status, a START it failed *)
(* heard      _last_command_result_key, the verdict last looked at         *)
(* boots      starts of the bridge's process                               *)
(* sent       history: confirmed STARTs published since the last start     *)
(***************************************************************************)
EXTENDS Naturals, FiniteSets, SequencesExt

CONSTANTS
    Commands,    \* commandIds
    Type,        \* command |-> its type
    Confirmed,   \* STARTs whose startMode is LOCAL_CONFIRM
    Execution,   \* command |-> its executionId
    None,
    MaxBoots,    \* bound on the starts of the bridge
    MaxWire      \* bound on published commands that are not answered yet

Types == {"START", "PAUSE", "RESUME", "TAKEOVER", "CANCEL"}

ASSUME CommandsAssumption ==
    /\ Type \in [Commands -> Types]
    /\ Confirmed \subseteq {c \in Commands : Type[c] = "START"}
    /\ None \notin Commands
    /\ None \notin {Execution[c] : c \in Commands}
    /\ MaxBoots \in Nat \ {0} /\ MaxWire \in Nat \ {0}

VARIABLES stored, log, lease, queue, context, seen, snapshot, recovered,
          cloud, ros, wire, answers, patrol, verdict, heard, boots, sent

store == <<stored, log>>
bridge == <<queue, context, seen, snapshot, heard>>
world == <<wire, answers, patrol, verdict>>
vars == <<store, lease, bridge, recovered, cloud, ros, world, boots, sent>>

-----------------------------------------------------------------------------
(* The store *)

Ended == {"APPLIED", "REJECTED", "FAILED"}

Transitions ==
    [absent |-> {"RECEIVED"},
     RECEIVED |-> {"ACKED"},
     ACKED |-> {"ARMED", "DISPATCHED", "REJECTED", "FAILED"},
     ARMED |-> {"CONFIRMED", "REJECTED", "FAILED"},
     CONFIRMED |-> {"DISPATCHED", "REJECTED", "FAILED"},
     DISPATCHED |-> Ended,
     APPLIED |-> {}, REJECTED |-> {}, FAILED |-> {}]

CommandStates == DOMAIN Transitions

ASSUME NoneAssumption == None \notin CommandStates

\* The check of set_command_state, made before its UPDATE and outside its transaction.
MaySet(c, s) == s = stored[c] \/ s \in Transitions[stored[c]]

Store(c, s) == stored' = [stored EXCEPT ![c] = s]
Record(event, c) == log' = log \cup {<<event, c>>}

IsStart(c) == Type[c] = "START"
NeedsConfirmation(c) == c \in Confirmed
Armed == {c \in Commands : IsStart(c) /\ stored[c] = "ARMED"}
\* Mutant of MayArm: another START that waits is not looked for.
MayArmBesideOthers(c) == stored[c] = "ACKED"

MayArm(c) == stored[c] = "ACKED" /\ Armed \subseteq {c}

\* The STARTs a CANCEL finds that were not published yet.
Waiting(c) == {s \in Commands : /\ IsStart(s) /\ stored[s] \in {"ARMED", "CONFIRMED"}
                                /\ Execution[s] = Execution[c]}

-----------------------------------------------------------------------------
(* The threads *)

PatrolActive == {"running", "paused", "manual_takeover"}
PatrolTerminal == {"over", "canceled"}
PatrolStates == PatrolActive \cup PatrolTerminal \cup {"off", "idle"}

PatrolOff == [state |-> "off", start |-> None]

CloudIdle == [at |-> "loop", cmd |-> None, to |-> None, todo |-> {}, view |-> None]
RosIdle == [at |-> "idle", cmd |-> None, to |-> None]

\* The cloud thread goes on with command c; at "settle" and "write" it will store state s.
CloudGoes(place, c, s) == cloud' = [cloud EXCEPT !.at = place, !.cmd = c, !.to = s]

\* Command c is dealt with: the next pending one while recovering, otherwise the next round.
CloudDone(c) ==
    cloud' = [cloud EXCEPT !.at = IF cloud.view = None THEN "loop" ELSE "recover",
                           !.cmd = None, !.to = None, !.todo = {p \in @ : p[1] # c}]

RosGoes(place, c, s) == ros' = [at |-> place, cmd |-> c, to |-> s]

RosDone == ros' = RosIdle

Init ==
    /\ stored = [c \in Commands |-> "absent"]
    /\ log = {}
    /\ lease = [c \in Commands |-> "queued"]
    /\ queue = <<>>
    /\ context = None /\ seen = None /\ snapshot = None
    /\ recovered = FALSE
    /\ cloud = CloudIdle
    /\ ros = RosIdle
    /\ wire = <<>> /\ answers = <<>>
    /\ patrol = PatrolOff
    /\ verdict = None /\ heard = None
    /\ boots = 1
    /\ sent = {}

-----------------------------------------------------------------------------
(* The cloud thread: run_once and _handle_command *)

\* A heartbeat whose reply carries a command, and receive_cloud_command; or the reply is
\* lost. The loop asks for commands also while the first recovery waits for a snapshot.
Heartbeat(c) ==
    /\ cloud.at = "loop"
    /\ recovered \/ snapshot = None
    /\ lease[c] = "queued"
    /\ lease' = [lease EXCEPT ![c] = "leased"]
    /\ \/ /\ stored' = [stored EXCEPT ![c] = IF @ = "absent" THEN "RECEIVED" ELSE @]
          /\ CASE stored[c] \in {"absent", "RECEIVED"} -> CloudGoes("ack", c, None)
               [] stored[c] = "ACKED" -> CloudGoes("handle", c, None)
               [] OTHER -> UNCHANGED cloud
       \/ UNCHANGED <<stored, cloud>>
    /\ UNCHANGED <<log, bridge, recovered, ros, world, boots, sent>>

\* Mutant of PostAck: an acknowledgement that failed is taken for one.
PostAckIgnored ==
    /\ cloud.at = "ack"
    /\ \/ /\ lease[cloud.cmd] = "leased"
          /\ lease' = [lease EXCEPT ![cloud.cmd] = "acked"]
          /\ \/ Store(cloud.cmd, "ACKED") /\ CloudGoes("handle", cloud.cmd, None)
             \/ CloudDone(cloud.cmd) /\ UNCHANGED stored
       \/ Store(cloud.cmd, "ACKED") /\ CloudGoes("handle", cloud.cmd, None) /\ UNCHANGED lease
    /\ UNCHANGED <<log, bridge, recovered, ros, world, boots, sent>>

\* POST .../ack. The platform takes it if the lease is still this one, the reply may be lost.
\* What was acknowledged is stored as ACKED.
PostAck ==
    /\ cloud.at = "ack"
    /\ \/ /\ lease[cloud.cmd] = "leased"
          /\ lease' = [lease EXCEPT ![cloud.cmd] = "acked"]
          /\ \/ Store(cloud.cmd, "ACKED") /\ CloudGoes("handle", cloud.cmd, None)
             \/ CloudDone(cloud.cmd) /\ UNCHANGED stored
       \/ CloudDone(cloud.cmd) /\ UNCHANGED <<stored, lease>>
    /\ UNCHANGED <<log, bridge, recovered, ros, world, boots, sent>>

Enqueues(c) ==
    /\ queue' = Append(queue, c)
    /\ CloudDone(c)
    /\ UNCHANGED store

ResultEvent(s) == CASE s = "REJECTED" -> "command_rejected"
                    [] s = "FAILED" -> "command_failed"
                    [] s = "APPLIED" -> "recovered"

\* Mutant of Concludes: the event and the state are swapped.
ConcludesSwapped(c, s) ==
    /\ Record(s, c)
    /\ CloudGoes("settle", c, ResultEvent(s))
    /\ UNCHANGED <<stored, queue>>

\* Mutant of Concludes: the state is set, the event is left for later.
ConcludesUntold(c, s) ==
    /\ CloudGoes("settle", c, s)
    /\ UNCHANGED <<store, queue>>

\* _record_failure and _record_recovered_result: the event is stored first, in its own
\* transaction; set_command_state follows.
Concludes(c, s) ==
    /\ Record(ResultEvent(s), c)
    /\ CloudGoes("settle", c, s)
    /\ UNCHANGED <<stored, queue>>

\* arm_start. A refusal is REJECTED, in a recovery FAILED.
Arms(c) ==
    IF MayArm(c)
    THEN /\ Store(c, "ARMED")
         /\ Record("start_waiting_local_confirmation", c)
         /\ CloudDone(c)
         /\ UNCHANGED queue
    ELSE Concludes(c, IF cloud.view = None THEN "REJECTED" ELSE "FAILED")

Busy == snapshot # None /\ snapshot.state \in PatrolActive

\* A START is refused when the robot is busy; its deployment may be missing and not come
\* down, the robot may not be ready to confirm it.
HandleStart ==
    /\ cloud.at = "handle" /\ IsStart(cloud.cmd)
    /\ \/ ~Busy /\ NeedsConfirmation(cloud.cmd) /\ Arms(cloud.cmd)
       \/ ~Busy /\ ~NeedsConfirmation(cloud.cmd) /\ Enqueues(cloud.cmd)
       \/ \E s \in {"REJECTED", "FAILED"} : Concludes(cloud.cmd, s)
    /\ UNCHANGED <<lease, context, seen, snapshot, heard, recovered, ros, world, boots, sent>>

HandleControl ==
    /\ cloud.at = "handle" /\ ~IsStart(cloud.cmd)
    /\ Type[cloud.cmd] = "CANCEL" => Waiting(cloud.cmd) = {}
    /\ Enqueues(cloud.cmd)
    /\ UNCHANGED <<lease, context, seen, snapshot, heard, recovered, ros, world, boots, sent>>

\* cancel_armed_start: the START was not published, so no ROS event will answer the CANCEL.
CancelArmedStart ==
    /\ cloud.at = "handle" /\ Type[cloud.cmd] = "CANCEL"
    /\ \E s \in Waiting(cloud.cmd) :
          stored' = [stored EXCEPT ![s] = "REJECTED", ![cloud.cmd] = "APPLIED"]
    /\ Record("route_canceled", cloud.cmd)
    /\ CloudDone(cloud.cmd)
    /\ UNCHANGED <<lease, bridge, recovered, ros, world, boots, sent>>

\* set_command_state reads the state and then writes it. An illegal transition raises: a
\* round of the loop ends, but nothing catches it during recovery.
CloudChecksState ==
    /\ cloud.at = "settle"
    /\ CASE MaySet(cloud.cmd, cloud.to) -> CloudGoes("write", cloud.cmd, cloud.to)
         [] ~MaySet(cloud.cmd, cloud.to) /\ cloud.view = None -> CloudDone(cloud.cmd)
         [] OTHER -> cloud' = [CloudIdle EXCEPT !.at = "dead"]
    /\ UNCHANGED <<store, lease, bridge, recovered, ros, world, boots, sent>>

CloudWritesState ==
    /\ cloud.at = "write"
    /\ Store(cloud.cmd, cloud.to)
    /\ CloudDone(cloud.cmd)
    /\ UNCHANGED <<log, lease, bridge, recovered, ros, world, boots, sent>>

-----------------------------------------------------------------------------
(* The cloud thread: _recover_pending, once after a start *)

Pending == {"RECEIVED", "ACKED", "CONFIRMED", "DISPATCHED"}

\* The snapshot and the rows are read once; a RECEIVED command is left to the platform.
RecoverPending ==
    /\ cloud.at = "loop"
    /\ ~recovered /\ snapshot # None
    /\ cloud' = [CloudIdle EXCEPT
                    !.at = "recover", !.view = snapshot,
                    !.todo = {<<c, stored[c]>> : c \in {d \in Commands :
                                                   stored[d] \in Pending \ {"RECEIVED"}}}]
    /\ UNCHANGED <<store, lease, bridge, recovered, ros, world, boots, sent>>

RecoveryDone ==
    /\ cloud.at = "recover" /\ cloud.todo = {}
    /\ recovered' = TRUE
    /\ cloud' = CloudIdle
    /\ UNCHANGED <<store, lease, bridge, ros, world, boots, sent>>

\* The command is recovered from the state the rows had, whatever has become of it.
Recovers(c, s) ==
    /\ cloud.at = "recover" /\ <<c, s>> \in cloud.todo
    /\ UNCHANGED <<lease, context, seen, snapshot, heard, recovered, ros, world, boots, sent>>

RecoverAcked(c) ==
    /\ Recovers(c, "ACKED")
    /\ \/ NeedsConfirmation(c) /\ (Arms(c) \/ Concludes(c, "REJECTED"))
       \/ ~NeedsConfirmation(c) /\ Enqueues(c)
       \/ IsStart(c) /\ Concludes(c, "FAILED")

RecoverConfirmed(c) ==
    /\ Recovers(c, "CONFIRMED")
    /\ Enqueues(c) \/ Concludes(c, "FAILED")

RunsHere(c) == cloud.view.execution = Execution[c]

RecoverDispatchedStart(c) ==
    /\ IsStart(c)
    /\ Recovers(c, "DISPATCHED")
    /\ \/ RunsHere(c) /\ cloud.view.state # "idle" /\ Concludes(c, "APPLIED")
       \/ cloud.view.state = "idle" /\ Concludes(c, "FAILED")
       \/ ~RunsHere(c) /\ cloud.view.state # "idle" /\ CloudDone(c) /\ UNCHANGED <<store, queue>>

Target == [PAUSE |-> {"paused"}, RESUME |-> {"running"},
           TAKEOVER |-> {"manual_takeover"}, CANCEL |-> {"canceled"}]
Compatible == [PAUSE |-> {"running"}, RESUME |-> {"paused", "manual_takeover"},
               TAKEOVER |-> {"running", "paused"}, CANCEL |-> PatrolActive]

RecoverDispatchedControl(c) ==
    /\ ~IsStart(c)
    /\ Recovers(c, "DISPATCHED")
    /\ LET reached == RunsHere(c) /\ cloud.view.state \in Target[Type[c]]
           possible == RunsHere(c) /\ cloud.view.state \in Compatible[Type[c]]
       IN \/ reached /\ Concludes(c, "APPLIED")
          \/ possible /\ Enqueues(c)
          \/ ~reached /\ ~possible /\ Concludes(c, "REJECTED")

-----------------------------------------------------------------------------
(* The ROS thread: confirmation, expiry, status *)

ConfirmArmedStart ==
    /\ ros.at = "idle"
    /\ Cardinality(Armed) = 1
    /\ \E c \in Armed :
          /\ Store(c, "CONFIRMED")
          /\ Record("local_start_confirmed", c)
          /\ queue' = Append(queue, c)
    /\ UNCHANGED <<lease, context, seen, snapshot, heard, recovered, cloud, ros, world, boots, sent>>

\* Mutant of ExpireArmedStarts: the START goes on waiting.
ExpireArmedStartsReportOnly ==
    /\ ros.at = "idle"
    /\ \E c \in Armed : Record("expired", c)
    /\ UNCHANGED <<stored, lease, bridge, recovered, cloud, ros, world, boots, sent>>

ExpireArmedStarts ==
    /\ ros.at = "idle"
    /\ \E c \in Armed :
          /\ Store(c, "FAILED")
          /\ Record("expired", c)
    /\ UNCHANGED <<lease, bridge, recovered, cloud, ros, world, boots, sent>>

ExecutionOf(p) == IF p.start = None THEN None ELSE Execution[p.start]

\* _on_patrol_status with _recover_platform_task_context.
OnPatrolStatus ==
    /\ ros.at = "idle" /\ patrol.state # "off"
    /\ seen' = patrol
    /\ context' = IF patrol.start # None /\ stored[patrol.start] # "absent"
                  THEN ExecutionOf(patrol) ELSE context
    /\ UNCHANGED <<store, lease, queue, snapshot, heard, recovered, cloud, ros, world, boots, sent>>

\* A patrol that was not heard of yet counts as idle.
RefreshCloudSnapshot ==
    /\ ros.at = "idle"
    /\ snapshot' = [state |-> IF seen = None THEN "idle" ELSE seen.state,
                    execution |-> IF context = None /\ seen # None /\ seen.state \in PatrolActive
                                  THEN ExecutionOf(seen) ELSE context]
    /\ UNCHANGED <<store, lease, queue, context, seen, heard, recovered, cloud, ros, world, boots, sent>>

-----------------------------------------------------------------------------
(* The ROS thread: _drain_cloud_commands, a command at a time. Other callbacks may come *)
(* between two commands, as they do when the second is queued a moment later.           *)

\* Mutant of MayPublish: the START is not looked up again.
MayPublishUnchecked(c) == c \in Commands

\* A START that needs confirmation is looked up again before it goes out.
MayPublish(c) == NeedsConfirmation(c) => stored[c] = "CONFIRMED"

TakeCommand ==
    /\ ros.at = "idle" /\ queue # <<>>
    /\ queue' = Tail(queue)
    /\ IF MayPublish(Head(queue)) THEN RosGoes("publish", Head(queue), None)
       ELSE UNCHANGED ros
    /\ UNCHANGED <<store, lease, context, seen, snapshot, heard, recovered, cloud, world, boots, sent>>

\* The command goes out, then set_command_state stores it as DISPATCHED; an illegal
\* transition is only logged.
PublishCommand ==
    /\ ros.at = "publish"
    /\ Len(wire) < MaxWire
    /\ context' = Execution[ros.cmd]
    /\ wire' = Append(wire, ros.cmd)
    /\ sent' = sent \cup ({ros.cmd} \cap Confirmed)
    /\ IF MaySet(ros.cmd, "DISPATCHED") THEN RosGoes("write", ros.cmd, "DISPATCHED") ELSE RosDone
    /\ UNCHANGED <<store, lease, queue, seen, snapshot, heard, recovered, cloud, answers, patrol,
                   verdict, boots>>

PublishFails ==
    /\ ros.at = "publish"
    /\ Record("command_failed", ros.cmd)
    /\ context' = None
    /\ RosGoes("settle", ros.cmd, "FAILED")
    /\ UNCHANGED <<stored, lease, queue, seen, snapshot, heard, recovered, cloud, world, boots, sent>>

\* set_command_state in a callback: an illegal transition raises through rclpy.spin, which
\* ends the ROS thread.
RosChecksState ==
    /\ ros.at = "settle"
    /\ IF MaySet(ros.cmd, ros.to) THEN RosGoes("write", ros.cmd, ros.to)
       ELSE ros' = [RosIdle EXCEPT !.at = "dead"]
    /\ UNCHANGED <<store, lease, bridge, recovered, cloud, world, boots, sent>>

RosWritesState ==
    /\ ros.at = "write"
    /\ Store(ros.cmd, ros.to)
    /\ RosDone
    /\ UNCHANGED <<log, lease, bridge, recovered, cloud, world, boots, sent>>

-----------------------------------------------------------------------------
(* The ROS thread: answers of the patrol *)

Results == [route_started |-> "APPLIED", route_paused |-> "APPLIED",
            route_resumed |-> "APPLIED", manual_takeover |-> "APPLIED",
            route_canceled |-> "APPLIED", command_rejected |-> "REJECTED",
            command_failed |-> "FAILED"]

TerminalEvents == {"route_finished", "route_failed", "route_canceled",
                   "command_rejected", "command_failed"}

ClearedBy(event, execution) ==
    IF event \in TerminalEvents /\ execution = context THEN None ELSE context

\* _on_patrol_event: the event is stored whatever the state of its command.
OnPatrolEvent ==
    /\ ros.at = "idle" /\ answers # <<>>
    /\ answers' = Tail(answers)
    /\ LET a == Head(answers) IN
       /\ context' = ClearedBy(a.event, a.execution)
       /\ \/ /\ a.event \in DOMAIN Results
             /\ Record(a.event, a.cmd)
             /\ RosGoes("settle", a.cmd, Results[a.event])
          \/ /\ a.event = "route_failed" /\ stored[a.cmd] \in {"ACKED", "DISPATCHED"}
             /\ Record("command_failed", a.cmd)
             /\ RosGoes("settle", a.cmd, "FAILED")
          \/ /\ a.event \notin DOMAIN Results
             /\ a.event = "route_failed" => stored[a.cmd] \notin {"ACKED", "DISPATCHED"}
             /\ UNCHANGED <<log, ros>>
    /\ UNCHANGED <<stored, lease, queue, seen, snapshot, heard, recovered, cloud, wire, patrol,
                   verdict, boots, sent>>

\* _on_system_status: the status repeats the supervisor's last verdict for ever, a new one
\* is looked at once, and dropped if its command has ended.
OnSystemStatus ==
    /\ ros.at = "idle" /\ verdict # heard
    /\ heard' = verdict
    /\ \/ /\ stored[verdict] \in Ended
          /\ UNCHANGED <<log, context, ros>>
       \/ /\ stored[verdict] \notin Ended
          /\ context' = ClearedBy("command_failed", Execution[verdict])
          /\ Record("command_failed", verdict)
          /\ RosGoes("settle", verdict, "FAILED")
    /\ UNCHANGED <<stored, lease, queue, seen, snapshot, recovered, cloud, world, boots, sent>>

-----------------------------------------------------------------------------
(* The environment: the platform, the patrol, and the end of the process *)

\* 15 seconds after a delivery the platform may deliver a command again.
LeaseExpires(c) ==
    /\ lease[c] = "leased"
    /\ lease' = [lease EXCEPT ![c] = "queued"]
    /\ UNCHANGED <<store, bridge, recovered, cloud, ros, world, boots, sent>>

Says(event, c) ==
    /\ Len(answers) < MaxWire
    /\ answers' = Append(answers, [event |-> event, cmd |-> c,
                                   execution |-> IF IsStart(c) THEN Execution[c]
                                                 ELSE ExecutionOf(patrol)])

\* Every command has a thread of its own in the supervisor: any of them may be the next.
TakesUp(c) ==
    /\ \E i \in 1 .. Len(wire) : c = wire[i] /\ wire' = RemoveAt(wire, i)
    /\ UNCHANGED <<store, lease, bridge, recovered, cloud, ros, boots, sent>>

\* The supervisor's start transaction, as a whole. It launches an executor, whose route
\* starts or cannot be started; or it fails, also because an executor still runs, and takes
\* down what runs; or a cancel ended it without a word.
PatrolStarts(c) ==
    /\ IsStart(c)
    /\ TakesUp(c)
    /\ \/ /\ patrol.state = "off"
          /\ \/ patrol' = [state |-> "running", start |-> c] /\ Says("route_started", c)
             \/ patrol' = [state |-> "over", start |-> c] /\ Says("route_failed", c)
          /\ UNCHANGED verdict
       \/ /\ verdict' = c
          /\ patrol' = PatrolOff
          /\ UNCHANGED answers
       \/ UNCHANGED <<patrol, answers, verdict>>

ControlEvent == [PAUSE |-> "route_paused", RESUME |-> "route_resumed",
                 TAKEOVER |-> "manual_takeover", CANCEL |-> "route_canceled"]
StateAfter == [PAUSE |-> "paused", RESUME |-> "running",
               TAKEOVER |-> "manual_takeover", CANCEL |-> "canceled"]
StatesBefore == [PAUSE |-> {"running"}, RESUME |-> {"paused", "manual_takeover"},
                 TAKEOVER |-> {"running", "paused"}, CANCEL |-> PatrolActive]

\* A control is applied or refused by the executor, and lost when no executor runs.
PatrolControl(c) ==
    /\ ~IsStart(c)
    /\ TakesUp(c)
    /\ \/ /\ patrol.state \in StatesBefore[Type[c]]
          /\ patrol' = [patrol EXCEPT !.state = StateAfter[Type[c]]]
          /\ Says(ControlEvent[Type[c]], c)
       \/ /\ patrol.state \notin StatesBefore[Type[c]] \cup {"off"}
          /\ Says("command_rejected", c)
          /\ UNCHANGED patrol
       \/ /\ patrol.state = "off"
          /\ UNCHANGED <<patrol, answers>>
    /\ UNCHANGED verdict

PatrolEnds ==
    /\ patrol.state \in PatrolActive
    /\ patrol' = [patrol EXCEPT !.state = "over"]
    /\ \E event \in {"route_finished", "route_failed"} : Says(event, patrol.start)
    /\ UNCHANGED <<store, lease, bridge, recovered, cloud, ros, wire, verdict, boots, sent>>

\* The executor of a patrol that is over goes back to idle, and is stopped by the supervisor.
PatrolResets ==
    /\ \/ patrol.state \in PatrolTerminal /\ patrol' = [patrol EXCEPT !.state = "idle"]
       \/ patrol.state \in PatrolTerminal \cup {"idle"} /\ patrol' = PatrolOff
    /\ UNCHANGED <<store, lease, bridge, recovered, cloud, ros, wire, answers, verdict, boots, sent>>

\* The bridge's process ends at any point, and systemd starts it again. The database and
\* the patrol go on; what was on its way to the bridge is lost.
Restart ==
    /\ boots < MaxBoots
    /\ boots' = boots + 1
    /\ queue' = <<>> /\ answers' = <<>>
    /\ context' = None /\ seen' = None /\ snapshot' = None /\ heard' = None
    /\ recovered' = FALSE
    /\ cloud' = CloudIdle /\ ros' = RosIdle
    /\ sent' = {}
    /\ UNCHANGED <<store, lease, wire, patrol, verdict>>

-----------------------------------------------------------------------------

CloudThread ==
    \/ \E c \in Commands : Heartbeat(c)
    \/ PostAck \/ HandleStart \/ HandleControl \/ CancelArmedStart
    \/ CloudChecksState \/ CloudWritesState
    \/ RecoverPending \/ RecoveryDone
    \/ \E c \in Commands : \/ RecoverAcked(c) \/ RecoverConfirmed(c)
                           \/ RecoverDispatchedStart(c) \/ RecoverDispatchedControl(c)

RosThread ==
    \/ ConfirmArmedStart \/ ExpireArmedStarts
    \/ OnPatrolStatus \/ RefreshCloudSnapshot
    \/ TakeCommand \/ PublishCommand \/ PublishFails \/ RosChecksState \/ RosWritesState
    \/ OnPatrolEvent \/ OnSystemStatus

Environment ==
    \/ \E c \in Commands : LeaseExpires(c)
    \/ \E c \in Commands : PatrolStarts(c) \/ PatrolControl(c)
    \/ PatrolEnds \/ PatrolResets
    \/ Restart

Next == CloudThread \/ RosThread \/ Environment

Spec == Init /\ [][Next]_vars

-----------------------------------------------------------------------------
(* Properties *)

Places == {"loop", "ack", "handle", "settle", "write", "recover", "dead"}
Executions == {Execution[c] : c \in Commands} \cup {None}
\* The types of the patrol's state and of what the bridge keeps of it.
Patrols == {PatrolOff} \cup [state : PatrolStates \ {"off"}, start : Commands]
Snapshots == [state : PatrolStates, execution : Executions]
Events == DOMAIN Results \cup {"route_finished", "route_failed"}

StoreOK ==
    /\ stored \in [Commands -> CommandStates]
    /\ lease \in [Commands -> {"queued", "leased", "acked"}]
    /\ sent \subseteq Confirmed

BridgeOK ==
    /\ queue \in Seq(Commands)
    /\ context \in Executions
    /\ seen \in Patrols \cup {None} /\ snapshot \in Snapshots \cup {None}
    /\ heard \in Commands \cup {None}

WorldOK ==
    /\ wire \in Seq(Commands)
    /\ answers \in Seq([event : Events, cmd : Commands, execution : Executions])
    /\ patrol \in Patrols
    /\ verdict \in Commands \cup {None}
    /\ verdict = None => heard = None

CloudOK ==
    /\ cloud \in [at : Places, cmd : Commands \cup {None}, to : Ended \cup {None},
                  todo : SUBSET (Commands \X Pending), view : Snapshots \cup {None}]
    /\ cloud.at \in {"ack", "handle", "settle", "write"} => cloud.cmd # None
    /\ cloud.at \in {"settle", "write"} => cloud.to # None
    /\ cloud.at = "recover" => cloud.view # None

RosOK ==
    /\ ros \in [at : {"idle", "publish", "settle", "write", "dead"},
                cmd : Commands \cup {None}, to : Ended \cup {"DISPATCHED", None}]
    /\ ros.at \in {"publish", "settle", "write"} => ros.cmd # None
    /\ ros.at \in {"settle", "write"} => ros.to # None

TypeOK == StoreOK /\ BridgeOK /\ WorldOK /\ CloudOK /\ RosOK

Publishes(c) == ros.at = "publish" /\ ros.cmd = c /\ Len(wire') > Len(wire)

\* A START with local confirmation reaches the robot only after somebody on the spot has
\* confirmed it, and never once its confirmation has timed out.
OnlyConfirmedStartsRun ==
    [][\A c \in Confirmed : Publishes(c) => /\ <<"local_start_confirmed", c>> \in log
                                            /\ <<"expired", c>> \notin log]_vars

\* Between two starts of the bridge a confirmed START is published once, however often
\* it was put into the queue by the confirmation and the recovery.
ConfirmedStartRunsOnce ==
    [][\A c \in Confirmed : Publishes(c) => c \notin sent]_vars

\* At most one START waits for local confirmation (LOCAL_CONFIRM_ALREADY_ARMED).
OneStartWaits == Cardinality(Armed) <= 1

\* What the robot does the platform knows to be delivered: a command it may still
\* deliver again was neither queued nor published.
OnlyAckedCommandsRun ==
    /\ ros.cmd # None => lease[ros.cmd] = "acked"
    /\ \A i \in 1 .. Len(queue) : lease[queue[i]] = "acked"

\* What the store says a command came to is among the events the platform will read; a
\* START that was cancelled while it waited is reported by the event of its CANCEL. The
\* event and the state are stored in two transactions.
Told(c, s) ==
    \/ \E e \in DOMAIN Results : Results[e] = s /\ <<e, c>> \in log
    \/ s = "APPLIED" /\ <<"recovered", c>> \in log
    \/ s = "FAILED" /\ <<"expired", c>> \in log
    \/ s = "REJECTED" /\ \E x \in Commands : /\ Type[x] = "CANCEL" /\ Execution[x] = Execution[c]
                                             /\ <<"route_canceled", x>> \in log
EndedIsTold == \A c \in Commands : stored[c] \in Ended => Told(c, stored[c])

\* A command that the store says has ended is not published (the test of cancel and
\* timeout: cleared without dispatch).
EndedNeverRuns == [][\A c \in Commands : Publishes(c) => stored[c] \notin Ended]_vars

\* When a START was published before the bridge was started again, and the recovery declares
\* it failed for want of evidence that it runs, its route does not run (recovery follows the
\* real state of the patrol).
RecoveryFollowsThePatrol ==
    [][\A c \in Confirmed \ sent :
         /\ cloud.at = "recover" /\ <<c, "DISPATCHED">> \in cloud.todo
         /\ cloud'.cmd = c /\ cloud'.to = "FAILED"
         => ~(patrol.start = c /\ patrol.state \in PatrolActive)]_vars

=============================================================================
