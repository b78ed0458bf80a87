------------------------ MODULE PlatformCommandsProofs ------------------------
(***************************************************************************)
(* What is proved of PlatformCommands, for any commands and bounds: its    *)
(* types and every safety property its passing runs check. The inductive   *)
(* invariant is PlatformInv. First comes what any step can do (Effects),   *)
(* so that most parts of the invariant need not look at the actions.       *)
(***************************************************************************)
EXTENDS PlatformCommands, FiniteSetTheorems, TLAPS

-----------------------------------------------------------------------------
(* Typing *)

LEMMA Constants ==
    /\ None \notin Commands /\ None \notin Ended /\ None \notin CommandStates
    /\ Ended \subseteq CommandStates /\ Pending \subseteq CommandStates
    /\ {"absent", "RECEIVED", "ACKED", "ARMED", "CONFIRMED", "DISPATCHED"} \subseteq CommandStates
    /\ \A e \in DOMAIN Results : Results[e] \in Ended
    /\ DOMAIN Results \subseteq Events
BY CommandsAssumption, NoneAssumption DEF Ended, Pending, CommandStates, Transitions, Results, Events

LEMMA CloudGoesTyped ==
    ASSUME CloudOK, NEW place \in Places \ {"recover"}, NEW c \in Commands,
           NEW s \in Ended \cup {None}, place \in {"settle", "write"} => s # None,
           CloudGoes(place, c, s)
    PROVE  CloudOK'
BY Constants DEF CloudOK, CloudGoes

LEMMA CloudDoneTyped ==
    ASSUME CloudOK, NEW c \in Commands, CloudDone(c)
    PROVE  CloudOK'
<1>1. cloud'.todo \in SUBSET (Commands \X Pending)
    BY DEF CloudOK, CloudDone
<1> QED
    BY <1>1 DEF CloudOK, CloudDone, Places

LEMMA CloudIdleTyped ==
    ASSUME cloud' = CloudIdle PROVE CloudOK'
BY DEF CloudOK, CloudIdle, Places

LEMMA StoreTyped ==
    ASSUME StoreOK, NEW c \in Commands, NEW s \in CommandStates, Store(c, s),
           UNCHANGED <<lease, sent>>
    PROVE  StoreOK'
BY DEF StoreOK, Store

LEMMA RosGoesTyped ==
    ASSUME NEW place \in {"publish", "settle", "write"}, NEW c \in Commands,
           NEW s \in Ended \cup {"DISPATCHED", None}, place \in {"settle", "write"} => s # None,
           RosGoes(place, c, s)
    PROVE  RosOK'
BY Constants DEF RosOK, RosGoes

LEMMA RosDoneTyped ==
    ASSUME RosDone PROVE RosOK'
BY DEF RosOK, RosDone, RosIdle

\* What a command may come to in the cloud thread keeps the types.
LEMMA EnqueuesTyped ==
    ASSUME TypeOK, NEW c \in Commands, Enqueues(c)
    PROVE  CloudOK' /\ queue' \in Seq(Commands) /\ stored' = stored
BY CloudDoneTyped DEF TypeOK, BridgeOK, Enqueues, store

LEMMA ConcludesTyped ==
    ASSUME TypeOK, NEW c \in Commands, NEW s \in Ended, Concludes(c, s)
    PROVE  CloudOK' /\ queue' \in Seq(Commands) /\ stored' = stored
<1>1. s # None
    BY Constants
<1> QED
    BY <1>1, CloudGoesTyped DEF TypeOK, BridgeOK, Concludes, Places

LEMMA ArmsTyped ==
    ASSUME TypeOK, NEW c \in Commands, Arms(c)
    PROVE  /\ CloudOK' /\ queue' \in Seq(Commands)
           /\ stored' = stored \/ stored' = [stored EXCEPT ![c] = "ARMED"]
<1>1. CASE MayArm(c)
    BY <1>1, CloudDoneTyped DEF TypeOK, BridgeOK, Arms, Store
<1>2. CASE ~MayArm(c)
    <2>1. PICK s \in Ended : Concludes(c, s)
        BY <1>2 DEF Arms, Ended
    <2> QED
        BY <2>1, ConcludesTyped
<1> QED
    BY <1>1, <1>2

LEMMA TypeInit == Init => TypeOK
<1> SUFFICES ASSUME Init PROVE TypeOK
    OBVIOUS
<1>1. StoreOK
    BY Constants DEF Init, StoreOK
<1>2. BridgeOK /\ WorldOK
    BY DEF Init, BridgeOK, WorldOK, Patrols, Executions
<1>3. CloudOK /\ RosOK
    BY DEF Init, CloudOK, RosOK, CloudIdle, RosIdle, Places
<1> QED
    BY <1>1, <1>2, <1>3 DEF TypeOK

LEMMA TypeCloudThread == TypeOK /\ CloudThread => TypeOK'
<1> SUFFICES ASSUME TypeOK, CloudThread PROVE TypeOK'
    OBVIOUS
<1> USE Constants
<1>1. ASSUME NEW c \in Commands, Heartbeat(c) PROVE TypeOK'
    <2>1. CloudOK'
        <3>1. "ack" \in Places /\ "handle" \in Places
            BY DEF Places
        <3>2. \/ CloudGoes("ack", c, None) \/ CloudGoes("handle", c, None) \/ UNCHANGED cloud
            BY <1>1 DEF Heartbeat
        <3> QED
            BY <3>1, <3>2, CloudGoesTyped DEF TypeOK, CloudOK
    <2>2. StoreOK'
        BY <1>1 DEF TypeOK, StoreOK, Heartbeat
    <2> QED
        BY <1>1, <2>1, <2>2 DEF TypeOK, Heartbeat, bridge, world, BridgeOK, WorldOK, RosOK
<1>2. CASE PostAck
    <2>1. cloud.cmd \in Commands
        BY <1>2 DEF TypeOK, CloudOK, PostAck
    <2>2. CloudOK'
        BY <1>2, <2>1, CloudGoesTyped, CloudDoneTyped DEF TypeOK, PostAck, Places
    <2>3. StoreOK'
        BY <1>2, <2>1 DEF TypeOK, StoreOK, PostAck, Store
    <2> QED
        BY <1>2, <2>2, <2>3 DEF TypeOK, PostAck, bridge, world, BridgeOK, WorldOK, RosOK
<1>3. CASE HandleStart
    <2>1. cloud.cmd \in Commands
        BY <1>3 DEF TypeOK, CloudOK, HandleStart
    <2>2. /\ CloudOK' /\ queue' \in Seq(Commands)
          /\ stored' = stored \/ stored' = [stored EXCEPT ![cloud.cmd] = "ARMED"]
        BY <1>3, <2>1, ArmsTyped, EnqueuesTyped, ConcludesTyped DEF HandleStart, Ended
    <2> QED
        BY <1>3, <2>1, <2>2 DEF TypeOK, StoreOK, HandleStart, world, BridgeOK, WorldOK, RosOK
<1>4. CASE HandleControl
    <2>1. cloud.cmd \in Commands
        BY <1>4 DEF TypeOK, CloudOK, HandleControl
    <2>2. CloudOK' /\ queue' \in Seq(Commands) /\ stored' = stored
        BY <1>4, <2>1, EnqueuesTyped DEF HandleControl
    <2> QED
        BY <1>4, <2>2 DEF TypeOK, StoreOK, HandleControl, world, BridgeOK, WorldOK, RosOK
<1>5. CASE CancelArmedStart
    <2>1. cloud.cmd \in Commands
        BY <1>5 DEF TypeOK, CloudOK, CancelArmedStart
    <2>2. StoreOK'
        BY <1>5, <2>1 DEF TypeOK, StoreOK, CancelArmedStart, Waiting, Ended
    <2>3. CloudOK'
        BY <1>5, <2>1, CloudDoneTyped DEF TypeOK, CancelArmedStart
    <2> QED
        BY <1>5, <2>2, <2>3 DEF TypeOK, CancelArmedStart, bridge, world, BridgeOK, WorldOK, RosOK
<1>6. CASE CloudChecksState
    <2>1. cloud.cmd \in Commands /\ cloud.to \in Ended
        BY <1>6 DEF TypeOK, CloudOK, CloudChecksState
    <2>2. CloudOK'
        <3>1. \/ CloudGoes("write", cloud.cmd, cloud.to) \/ CloudDone(cloud.cmd)
              \/ cloud' = [CloudIdle EXCEPT !.at = "dead"]
            BY <1>6 DEF CloudChecksState
        <3>2. CASE cloud' = [CloudIdle EXCEPT !.at = "dead"]
            BY <3>2 DEF CloudOK, CloudIdle, Places
        <3> QED
            BY <2>1, <3>1, <3>2, CloudGoesTyped, CloudDoneTyped DEF TypeOK, Places
    <2> QED
        BY <1>6, <2>2 DEF TypeOK, StoreOK, CloudChecksState, store, bridge, world, BridgeOK, WorldOK, RosOK
<1>7. CASE CloudWritesState
    <2>1. cloud.cmd \in Commands /\ cloud.to \in CommandStates
        BY <1>7 DEF TypeOK, CloudOK, CloudWritesState
    <2>2. StoreOK' /\ CloudOK'
        BY <1>7, <2>1, StoreTyped, CloudDoneTyped DEF TypeOK, CloudWritesState
    <2> QED
        BY <1>7, <2>2 DEF TypeOK, CloudWritesState, bridge, world, BridgeOK, WorldOK, RosOK
<1>8. CASE RecoverPending
    <2>1. CloudOK'
        <3> DEFINE rows == {<<c, stored[c]>> : c \in {d \in Commands : stored[d] \in Pending \ {"RECEIVED"}}}
        <3>1. rows \in SUBSET (Commands \X Pending)
            OBVIOUS
        <3>2. snapshot \in Snapshots /\ snapshot # None
            BY <1>8 DEF TypeOK, BridgeOK, RecoverPending
        <3>3. cloud' = [at |-> "recover", cmd |-> None, to |-> None, todo |-> rows, view |-> snapshot]
            BY <1>8 DEF RecoverPending, CloudIdle
        <3> HIDE DEF rows
        <3> QED
            BY <3>1, <3>2, <3>3 DEF CloudOK, Places
    <2> QED
        BY <1>8, <2>1 DEF TypeOK, StoreOK, RecoverPending, store, bridge, world, BridgeOK, WorldOK, RosOK
<1>9. CASE RecoveryDone
    BY <1>9, CloudIdleTyped DEF TypeOK, StoreOK, RecoveryDone, store, bridge, world, BridgeOK, WorldOK, RosOK
<1>10. ASSUME NEW c \in Commands, NEW s, Recovers(c, s),
              Arms(c) \/ Enqueues(c) \/ (\E r \in Ended : Concludes(c, r))
                      \/ (CloudDone(c) /\ UNCHANGED <<store, queue>>)
       PROVE  TypeOK'
    <2>1. /\ CloudOK' /\ queue' \in Seq(Commands)
          /\ stored' = stored \/ stored' = [stored EXCEPT ![c] = "ARMED"]
        BY <1>10, ArmsTyped, EnqueuesTyped, ConcludesTyped, CloudDoneTyped DEF TypeOK, BridgeOK, store
    <2>2. UNCHANGED <<context, seen, snapshot, heard, lease, boots, sent, ros, wire, answers, patrol, verdict>>
        BY <1>10 DEF Recovers, world
    <2>3. StoreOK'
        BY <2>1, <2>2 DEF TypeOK, StoreOK
    <2>4. BridgeOK'
        BY <2>1, <2>2 DEF TypeOK, BridgeOK
    <2> QED
        BY <2>1, <2>2, <2>3, <2>4 DEF TypeOK, WorldOK, RosOK
<1>11. ASSUME NEW c \in Commands, RecoverAcked(c) \/ RecoverConfirmed(c) PROVE TypeOK'
    BY <1>10, <1>11 DEF RecoverAcked, RecoverConfirmed, Ended
<1>12. ASSUME NEW c \in Commands, RecoverDispatchedStart(c) \/ RecoverDispatchedControl(c) PROVE TypeOK'
    BY <1>10, <1>12 DEF RecoverDispatchedStart, RecoverDispatchedControl, Ended
<1> QED
    BY <1>1, <1>2, <1>3, <1>4, <1>5, <1>6, <1>7, <1>8, <1>9, <1>11, <1>12 DEF CloudThread

LEMMA TypeRosThread == TypeOK /\ RosThread => TypeOK'
<1> SUFFICES ASSUME TypeOK, RosThread PROVE TypeOK'
    OBVIOUS
<1> USE Constants
<1>1. CASE ConfirmArmedStart
    <2>1. PICK c \in Armed : Store(c, "CONFIRMED") /\ queue' = Append(queue, c)
        BY <1>1 DEF ConfirmArmedStart
    <2>2. c \in Commands
        BY DEF Armed
    <2>3. StoreOK'
        BY <1>1, <2>1, <2>2, StoreTyped DEF TypeOK, ConfirmArmedStart
    <2> QED
        BY <1>1, <2>1, <2>2, <2>3 DEF TypeOK, BridgeOK, ConfirmArmedStart, world, WorldOK, CloudOK, RosOK
<1>2. CASE ExpireArmedStarts
    <2>1. PICK c \in Armed : Store(c, "FAILED")
        BY <1>2 DEF ExpireArmedStarts
    <2>2. StoreOK'
        BY <1>2, <2>1, StoreTyped DEF TypeOK, ExpireArmedStarts, Armed, Ended
    <2> QED
        BY <1>2, <2>2 DEF TypeOK, BridgeOK, ExpireArmedStarts, bridge, world, WorldOK, CloudOK, RosOK
<1>3. CASE OnPatrolStatus
    <2>1. context' \in Executions
        BY <1>3 DEF TypeOK, BridgeOK, WorldOK, OnPatrolStatus, ExecutionOf, Executions, Patrols, PatrolOff
    <2> QED
        BY <1>3, <2>1 DEF TypeOK, BridgeOK, StoreOK, OnPatrolStatus, store, world, WorldOK, CloudOK, RosOK
<1>4. CASE RefreshCloudSnapshot
    <2>1. snapshot' \in Snapshots
        <3>1. (IF seen = None THEN "idle" ELSE seen.state) \in PatrolStates
            BY DEF TypeOK, BridgeOK, Patrols, PatrolOff, PatrolStates
        <3>2. (IF context = None /\ seen # None /\ seen.state \in PatrolActive
               THEN ExecutionOf(seen) ELSE context) \in Executions
            BY DEF TypeOK, BridgeOK, Patrols, PatrolOff, ExecutionOf, Executions
        <3> QED
            BY <1>4, <3>1, <3>2 DEF RefreshCloudSnapshot, Snapshots
    <2> QED
        BY <1>4, <2>1 DEF TypeOK, BridgeOK, StoreOK, RefreshCloudSnapshot, store, world, WorldOK, CloudOK, RosOK
<1>5. CASE TakeCommand
    <2>1. Head(queue) \in Commands /\ Tail(queue) \in Seq(Commands)
        BY <1>5 DEF TypeOK, BridgeOK, TakeCommand
    <2>2. RosOK'
        BY <1>5, <2>1, RosGoesTyped DEF TypeOK, RosOK, TakeCommand
    <2> QED
        BY <1>5, <2>1, <2>2 DEF TypeOK, BridgeOK, StoreOK, TakeCommand, store, world, WorldOK, CloudOK
<1>6. CASE PublishCommand
    <2>1. ros.cmd \in Commands
        BY <1>6 DEF TypeOK, RosOK, PublishCommand
    <2>2. RosOK'
        BY <1>6, <2>1, RosGoesTyped, RosDoneTyped DEF PublishCommand
    <2>3. context' \in Executions /\ wire' \in Seq(Commands) /\ sent' \subseteq Confirmed
        BY <1>6, <2>1 DEF TypeOK, WorldOK, StoreOK, PublishCommand, Executions
    <2> QED
        BY <1>6, <2>2, <2>3 DEF TypeOK, BridgeOK, StoreOK, PublishCommand, store, WorldOK, CloudOK
<1>7. CASE PublishFails
    <2>0. ros.cmd \in Commands /\ "FAILED" \in Ended
        BY <1>7 DEF TypeOK, RosOK, PublishFails, Ended
    <2>1. RosOK'
        BY <1>7, <2>0, RosGoesTyped DEF PublishFails
    <2> QED
        BY <1>7, <2>1 DEF TypeOK, BridgeOK, StoreOK, PublishFails, world, WorldOK, CloudOK, Executions
<1>8. CASE RosChecksState
    <2>1. ros.cmd \in Commands /\ ros.to \in Ended \cup {"DISPATCHED"}
        BY <1>8 DEF TypeOK, RosOK, RosChecksState
    <2>2. RosOK'
        <3>1. CASE ros' = [RosIdle EXCEPT !.at = "dead"]
            BY <3>1 DEF RosOK, RosIdle
        <3> QED
            BY <1>8, <2>1, <3>1, RosGoesTyped DEF RosChecksState
    <2> QED
        BY <1>8, <2>2 DEF TypeOK, BridgeOK, StoreOK, RosChecksState, store, bridge, world, WorldOK, CloudOK
<1>9. CASE RosWritesState
    <2>1. ros.cmd \in Commands /\ ros.to \in CommandStates
        BY <1>9 DEF TypeOK, RosOK, RosWritesState
    <2>2. StoreOK' /\ RosOK'
        BY <1>9, <2>1, StoreTyped, RosDoneTyped DEF TypeOK, RosWritesState
    <2> QED
        BY <1>9, <2>2 DEF TypeOK, BridgeOK, RosWritesState, bridge, world, WorldOK, CloudOK
<1>10. CASE OnPatrolEvent
    <2>1. /\ answers' \in Seq([event : Events, cmd : Commands, execution : Executions])
          /\ Head(answers) \in [event : Events, cmd : Commands, execution : Executions]
        <3> DEFINE R == [event : Events, cmd : Commands, execution : Executions]
        <3>1. answers \in Seq(R) /\ answers # <<>> /\ answers' = Tail(answers)
            BY <1>10 DEF TypeOK, WorldOK, OnPatrolEvent
        <3> HIDE DEF R
        <3>2. Tail(answers) \in Seq(R) /\ Head(answers) \in R
            BY <3>1
        <3> QED
            BY <3>1, <3>2 DEF R
    <2>2. context' \in Executions
        BY <1>10 DEF TypeOK, BridgeOK, OnPatrolEvent, ClearedBy, Executions
    <2>3. RosOK'
        <3>1. \/ UNCHANGED ros
              \/ \E s \in Ended : RosGoes("settle", Head(answers).cmd, s)
            BY <1>10 DEF OnPatrolEvent, Ended
        <3> QED
            BY <2>1, <3>1, RosGoesTyped DEF TypeOK, RosOK
    <2> QED
        BY <1>10, <2>1, <2>2, <2>3 DEF TypeOK, BridgeOK, StoreOK, OnPatrolEvent, WorldOK, CloudOK
<1>11. CASE OnSystemStatus
    <2>1. verdict \in Commands
        BY <1>11 DEF TypeOK, WorldOK, OnSystemStatus
    <2>2. RosOK'
        BY <1>11, <2>1, RosGoesTyped DEF TypeOK, RosOK, OnSystemStatus, Ended
    <2>3. context' \in Executions
        BY <1>11 DEF TypeOK, BridgeOK, OnSystemStatus, ClearedBy, Executions
    <2> QED
        BY <1>11, <2>1, <2>2, <2>3 DEF TypeOK, BridgeOK, StoreOK, OnSystemStatus, world, WorldOK, CloudOK
<1> QED
    BY <1>1, <1>2, <1>3, <1>4, <1>5, <1>6, <1>7, <1>8, <1>9, <1>10, <1>11 DEF RosThread

LEMMA SaysTyped ==
    ASSUME WorldOK, NEW e \in Events, NEW c \in Commands, Says(e, c)
    PROVE  answers' \in Seq([event : Events, cmd : Commands, execution : Executions])
<1> DEFINE R == [event : Events, cmd : Commands, execution : Executions]
           a == [event |-> e, cmd |-> c,
                 execution |-> IF IsStart(c) THEN Execution[c] ELSE ExecutionOf(patrol)]
<1>1. a \in R
    BY DEF WorldOK, Executions, ExecutionOf, Patrols, PatrolOff
<1>2. answers \in Seq(R) /\ answers' = Append(answers, a)
    BY DEF WorldOK, Says
<1> HIDE DEF R, a
<1>3. answers' \in Seq(R)
    BY <1>1, <1>2
<1> QED
    BY <1>3 DEF R

LEMMA TakesUpTyped ==
    ASSUME WorldOK, NEW c, TakesUp(c)
    PROVE  wire' \in Seq(Commands) /\ c \in Commands
<1>1. PICK i \in 1 .. Len(wire) : c = wire[i] /\ wire' = RemoveAt(wire, i)
    BY DEF TakesUp
<1>2. wire \in Seq(Commands)
    BY DEF WorldOK
<1>3. SubSeq(wire, 1, i - 1) \in Seq(Commands) /\ SubSeq(wire, i + 1, Len(wire)) \in Seq(Commands)
    BY <1>1, <1>2
<1> QED
    BY <1>1, <1>2, <1>3 DEF RemoveAt

LEMMA TypeEnvironment == TypeOK /\ Environment => TypeOK'
<1> SUFFICES ASSUME TypeOK, Environment PROVE TypeOK'
    OBVIOUS
<1> USE Constants
<1> DEFINE Answers == Seq([event : Events, cmd : Commands, execution : Executions])
<1>0. \A s \in PatrolStates \ {"off"}, c \in Commands : [state |-> s, start |-> c] \in Patrols
    BY DEF Patrols
<1>1. ASSUME NEW c \in Commands, LeaseExpires(c) PROVE TypeOK'
    BY <1>1 DEF TypeOK, StoreOK, LeaseExpires, store, bridge, world, BridgeOK, WorldOK, CloudOK, RosOK
<1>2. ASSUME NEW c \in Commands, PatrolStarts(c) PROVE TypeOK'
    <2>1. wire' \in Seq(Commands)
        BY <1>2, TakesUpTyped DEF TypeOK, PatrolStarts
    <2>2. answers' \in Answers
        BY <1>2, SaysTyped DEF TypeOK, WorldOK, PatrolStarts, Events, Results
    <2>3. patrol' \in Patrols /\ verdict' \in Commands \cup {None} /\ (verdict' = None => verdict = None)
        <3>1. PatrolOff \in Patrols /\ patrol \in Patrols /\ verdict \in Commands \cup {None}
            BY DEF TypeOK, WorldOK, Patrols
        <3>2. [state |-> "running", start |-> c] \in Patrols /\ [state |-> "over", start |-> c] \in Patrols
            BY <1>0 DEF PatrolStates, PatrolActive, PatrolTerminal
        <3> QED
            BY <1>2, <3>1, <3>2 DEF PatrolStarts
    <2> HIDE DEF Answers
    <2>4. UNCHANGED <<store, lease, bridge, cloud, ros, sent>>
        BY <1>2 DEF PatrolStarts, TakesUp
    <2>5. WorldOK'
        BY <2>1, <2>2, <2>3, <2>4 DEF WorldOK, Answers, TypeOK, bridge
    <2> QED
        BY <2>4, <2>5 DEF TypeOK, StoreOK, store, bridge, BridgeOK, CloudOK, RosOK
<1>3. ASSUME NEW c \in Commands, PatrolControl(c) PROVE TypeOK'
    <2>1. wire' \in Seq(Commands)
        BY <1>3, TakesUpTyped DEF TypeOK, PatrolControl
    <2>2. /\ Type[c] \in {"PAUSE", "RESUME", "TAKEOVER", "CANCEL"}
        BY <1>3, CommandsAssumption DEF PatrolControl, IsStart, Types
    <2>3. ControlEvent[Type[c]] \in Events /\ "command_rejected" \in Events
        BY <2>2 DEF ControlEvent, Events, Results
    <2>4. answers' \in Answers
        BY <1>3, <2>3, SaysTyped DEF TypeOK, WorldOK, PatrolControl
    <2>5. patrol' \in Patrols
        <3>1. CASE /\ patrol.state \in StatesBefore[Type[c]]
                   /\ patrol' = [patrol EXCEPT !.state = StateAfter[Type[c]]]
            <4>1. patrol.state # "off"
                BY <2>2, <3>1 DEF StatesBefore, PatrolActive
            <4>2. StateAfter[Type[c]] \in PatrolStates \ {"off"}
                BY <2>2 DEF StateAfter, PatrolStates, PatrolActive, PatrolTerminal
            <4> QED
                BY <3>1, <4>1, <4>2 DEF TypeOK, WorldOK, Patrols, PatrolOff
        <3>2. CASE UNCHANGED patrol
            BY <3>2 DEF TypeOK, WorldOK
        <3> QED
            BY <1>3, <3>1, <3>2 DEF PatrolControl
    <2> HIDE DEF Answers
    <2>6. UNCHANGED <<store, lease, bridge, cloud, ros, sent, verdict>>
        BY <1>3 DEF PatrolControl, TakesUp
    <2>7. WorldOK'
        BY <2>1, <2>4, <2>5, <2>6 DEF WorldOK, Answers, TypeOK, bridge
    <2> QED
        BY <2>6, <2>7 DEF TypeOK, StoreOK, store, bridge, BridgeOK, CloudOK, RosOK
<1>4. CASE PatrolEnds
    <2>1. patrol.start \in Commands /\ patrol' = [patrol EXCEPT !.state = "over"]
          /\ "over" \in PatrolStates \ {"off"} /\ patrol.state # "off"
        BY <1>4 DEF TypeOK, WorldOK, PatrolEnds, Patrols, PatrolOff, PatrolActive, PatrolStates, PatrolTerminal
    <2>2. patrol' \in Patrols
        BY <2>1 DEF TypeOK, WorldOK, Patrols, PatrolOff
    <2>3. answers' \in Answers
        BY <1>4, <2>1, SaysTyped DEF TypeOK, PatrolEnds, Events
    <2> HIDE DEF Answers
    <2>4. WorldOK'
        BY <1>4, <2>2, <2>3 DEF TypeOK, WorldOK, Answers, PatrolEnds, bridge
    <2> QED
        BY <1>4, <2>4 DEF TypeOK, StoreOK, PatrolEnds, store, bridge, BridgeOK, CloudOK, RosOK
<1>5. CASE PatrolResets
    <2>1. patrol' \in Patrols
        BY <1>5 DEF TypeOK, WorldOK, PatrolResets, Patrols, PatrolOff, PatrolStates, PatrolTerminal
    <2> QED
        BY <1>5, <2>1 DEF TypeOK, StoreOK, WorldOK, PatrolResets, store, bridge, BridgeOK, CloudOK, RosOK
<1>6. CASE Restart
    <2>1. RosOK' /\ CloudOK'
        BY <1>6, CloudIdleTyped DEF Restart, RosOK, RosIdle
    <2>2. BridgeOK' /\ WorldOK'
        BY <1>6 DEF TypeOK, Restart, BridgeOK, WorldOK, Executions
    <2> QED
        BY <1>6, <2>1, <2>2 DEF TypeOK, StoreOK, Restart, store
<1> QED
    BY <1>1, <1>2, <1>3, <1>4, <1>5, <1>6 DEF Environment

LEMMA TypeStutters == TypeOK /\ UNCHANGED vars => TypeOK'
BY DEF TypeOK, StoreOK, BridgeOK, WorldOK, CloudOK, RosOK, vars, store, bridge, world

\* The variables of the bridge keep their types, for all commands.
THEOREM PlatformTyped == Spec => []TypeOK
<1>1. TypeOK /\ [Next]_vars => TypeOK'
    BY TypeCloudThread, TypeRosThread, TypeEnvironment, TypeStutters DEF Next
<1> QED
    BY <1>1, TypeInit, PTL DEF Spec

-----------------------------------------------------------------------------
(* What a step can do to the store, the log, the threads and the history *)

StoreMoves ==
    \/ stored' = stored
    \/ CancelArmedStart
    \/ \E c \in Commands :
          \/ Store(c, "RECEIVED") /\ stored[c] = "absent"
          \/ Store(c, "ACKED") /\ cloud.at = "ack" /\ cloud.cmd = c /\ lease'[c] = "acked"
          \/ Store(c, "ARMED") /\ MayArm(c)
          \/ Store(c, "CONFIRMED") /\ c \in Armed /\ Record("local_start_confirmed", c)
          \/ Store(c, "FAILED") /\ c \in Armed /\ Record("expired", c)
          \/ Store(c, cloud.to) /\ cloud.at = "write" /\ cloud.cmd = c
          \/ Store(c, ros.to) /\ ros.at = "write" /\ ros.cmd = c

Reports == DOMAIN Results \cup {"recovered", "start_waiting_local_confirmation"}

LogMoves ==
    \/ log' = log
    \/ \E c \in Commands :
          \/ \E e \in Reports : Record(e, c)
          \/ Record("local_start_confirmed", c) /\ Store(c, "CONFIRMED") /\ c \in Armed
          \/ Record("expired", c) /\ Store(c, "FAILED") /\ c \in Armed

CloudMoves ==
    \/ cloud' = cloud
    \/ cloud'.at \notin {"settle", "write"}
    \/ cloud'.to \in Ended /\ Record(ResultEvent(cloud'.to), cloud'.cmd)
    \/ cloud.at = "settle" /\ cloud'.cmd = cloud.cmd /\ cloud'.to = cloud.to

RosMoves ==
    \/ ros' = ros
    \/ /\ ros'.at \in {"idle", "dead"} /\ ros'.cmd = None
       /\ ros.at = "write" => Store(ros.cmd, ros.to) \/ sent' = {}
    \/ \E c \in Commands : ros.at = "idle" /\ MayPublish(c) /\ RosGoes("publish", c, None)
                           /\ UNCHANGED <<store, sent>>
    \/ PublishCommand
    \/ /\ ros.at # "write"
       /\ \E c \in Commands, e \in DOMAIN Results : Record(e, c) /\ RosGoes("settle", c, Results[e])
    \/ ros.at = "settle" /\ RosGoes("write", ros.cmd, ros.to)

SentMoves == sent' = sent \/ sent' = {} \/ PublishCommand

Effects == StoreMoves /\ LogMoves /\ CloudMoves /\ RosMoves /\ SentMoves

LEMMA ResultEvents ==
    \A s \in Ended : /\ ResultEvent(s) \in Reports
                     /\ ResultEvent(s) = "recovered" => s = "APPLIED"
                     /\ ResultEvent(s) # "recovered" => /\ ResultEvent(s) \in DOMAIN Results
                                                        /\ Results[ResultEvent(s)] = s
BY DEF Ended, ResultEvent, Reports, Results

LEMMA OutcomeEffects ==
    ASSUME TypeOK, NEW c \in Commands, UNCHANGED <<ros, sent>>,
           \/ Arms(c) \/ Enqueues(c) \/ (\E s \in Ended : Concludes(c, s))
           \/ CloudDone(c) /\ UNCHANGED <<store, queue>>
    PROVE  Effects
<1>1. ASSUME CloudDone(c) PROVE CloudMoves
    BY <1>1 DEF CloudDone, CloudMoves, TypeOK, CloudOK
<1>2. ASSUME NEW s \in Ended, Concludes(c, s) PROVE Effects
    <2>1. cloud'.to = s /\ cloud'.cmd = c
        BY <1>2 DEF Concludes, CloudGoes, TypeOK, CloudOK
    <2> QED
        BY <1>2, <2>1, ResultEvents DEF Concludes, Effects, StoreMoves, LogMoves, CloudMoves, RosMoves, SentMoves
<1>3. CASE MayArm(c) /\ Arms(c)
    <2>1. "start_waiting_local_confirmation" \in Reports
        BY DEF Reports
    <2> QED
        BY <1>1, <1>3, <2>1 DEF Arms, Effects, StoreMoves, LogMoves, RosMoves, SentMoves
<1>4. CASE ~MayArm(c) /\ Arms(c)
    BY <1>2, <1>4 DEF Arms, Ended
<1> QED
    BY <1>1, <1>2, <1>3, <1>4 DEF Enqueues, store, Effects, StoreMoves, LogMoves, RosMoves, SentMoves

LEMMA CloudThreadEffects == TypeOK /\ CloudThread => Effects
<1> SUFFICES ASSUME TypeOK, CloudThread PROVE Effects
    OBVIOUS
<1> USE DEF Effects, StoreMoves, LogMoves, RosMoves, SentMoves, store
<1>1. ASSUME NEW c \in Commands, Heartbeat(c) PROVE Effects
    <2>1. CloudMoves
        BY <1>1 DEF Heartbeat, CloudGoes, CloudMoves, TypeOK, CloudOK
    <2>2. stored' = stored \/ (Store(c, "RECEIVED") /\ stored[c] = "absent")
        BY <1>1 DEF Heartbeat, Store, TypeOK, StoreOK
    <2> QED
        BY <1>1, <2>1, <2>2 DEF Heartbeat
<1>2. CASE PostAck
    <2>1. cloud.cmd \in Commands
        BY <1>2 DEF TypeOK, CloudOK, PostAck
    <2>2. CloudMoves
        BY <1>2 DEF PostAck, CloudGoes, CloudDone, CloudMoves, TypeOK, CloudOK
    <2>3. \/ stored' = stored
          \/ Store(cloud.cmd, "ACKED") /\ lease'[cloud.cmd] = "acked"
        BY <1>2, <2>1 DEF PostAck, TypeOK, StoreOK
    <2> QED
        BY <1>2, <2>1, <2>2, <2>3 DEF PostAck
<1>3. CASE HandleStart \/ HandleControl
    <2>1. cloud.cmd \in Commands /\ UNCHANGED <<ros, sent>>
        BY <1>3 DEF TypeOK, CloudOK, HandleStart, HandleControl
    <2>2. \/ Arms(cloud.cmd) \/ Enqueues(cloud.cmd)
          \/ \E s \in Ended : Concludes(cloud.cmd, s)
        BY <1>3 DEF HandleStart, HandleControl, Ended
    <2> HIDE DEF Effects, StoreMoves, LogMoves, RosMoves, SentMoves, store
    <2> QED
        BY <2>1, <2>2, OutcomeEffects
<1>4. CASE CancelArmedStart
    <2>1. cloud.cmd \in Commands /\ "route_canceled" \in Reports
        BY <1>4 DEF TypeOK, CloudOK, CancelArmedStart, Reports, Results
    <2>2. CloudMoves
        BY <1>4 DEF CancelArmedStart, CloudDone, CloudMoves, TypeOK, CloudOK
    <2> QED
        BY <1>4, <2>1, <2>2 DEF CancelArmedStart
<1>5. CASE CloudChecksState
    <2>1. CloudMoves
        BY <1>5 DEF CloudChecksState, CloudGoes, CloudDone, CloudIdle, CloudMoves, TypeOK, CloudOK
    <2> QED
        BY <1>5, <2>1 DEF CloudChecksState
<1>6. CASE CloudWritesState
    <2>1. CloudMoves
        BY <1>6 DEF CloudWritesState, CloudDone, CloudMoves, TypeOK, CloudOK
    <2>2. cloud.cmd \in Commands
        BY <1>6 DEF TypeOK, CloudOK, CloudWritesState
    <2> QED
        BY <1>6, <2>1, <2>2 DEF CloudWritesState
<1>7. CASE RecoverPending \/ RecoveryDone
    <2> DEFINE rows == {<<c, stored[c]>> : c \in {d \in Commands : stored[d] \in Pending \ {"RECEIVED"}}}
    <2>1. \/ cloud' = [at |-> "recover", cmd |-> None, to |-> None, todo |-> rows, view |-> snapshot]
          \/ cloud' = CloudIdle
        BY <1>7 DEF RecoverPending, RecoveryDone, CloudIdle
    <2> HIDE DEF rows
    <2>2. CloudMoves
        BY <2>1 DEF CloudIdle, CloudMoves
    <2> QED
        BY <1>7, <2>2 DEF RecoverPending, RecoveryDone
<1>8. ASSUME NEW c \in Commands, \/ RecoverAcked(c) \/ RecoverConfirmed(c)
                                 \/ RecoverDispatchedStart(c) \/ RecoverDispatchedControl(c)
      PROVE  Effects
    <2>1. /\ UNCHANGED <<ros, sent>>
          /\ \/ Arms(c) \/ Enqueues(c) \/ (\E s \in Ended : Concludes(c, s))
             \/ CloudDone(c) /\ UNCHANGED <<store, queue>>
        BY <1>8 DEF RecoverAcked, RecoverConfirmed, RecoverDispatchedStart,
                    RecoverDispatchedControl, Recovers, Ended
    <2> HIDE DEF Effects, StoreMoves, LogMoves, RosMoves, SentMoves, store
    <2> QED
        BY <2>1, OutcomeEffects
<1> QED
    BY <1>1, <1>2, <1>3, <1>4, <1>5, <1>6, <1>7, <1>8 DEF CloudThread

LEMMA RosThreadEffects == TypeOK /\ RosThread => Effects
<1> SUFFICES ASSUME TypeOK, RosThread PROVE Effects
    OBVIOUS
<1> USE DEF Effects, StoreMoves, LogMoves, CloudMoves, RosMoves, SentMoves, store
<1>0. Armed \subseteq Commands
    BY DEF Armed
<1>1. CASE ConfirmArmedStart \/ ExpireArmedStarts
    BY <1>0, <1>1 DEF ConfirmArmedStart, ExpireArmedStarts
<1>2. CASE OnPatrolStatus \/ RefreshCloudSnapshot
    BY <1>2 DEF OnPatrolStatus, RefreshCloudSnapshot
<1>3. CASE TakeCommand
    <2>1. Head(queue) \in Commands
        BY <1>3 DEF TakeCommand, TypeOK, BridgeOK
    <2> QED
        BY <1>3, <2>1 DEF TakeCommand
<1>4. CASE PublishCommand
    BY <1>4 DEF PublishCommand
<1>5. CASE PublishFails
    <2>1. ros.cmd \in Commands /\ "command_failed" \in DOMAIN Results /\ Results["command_failed"] = "FAILED"
          /\ "command_failed" \in Reports
        BY <1>5 DEF PublishFails, TypeOK, RosOK, Results, Reports
    <2> QED
        BY <1>5, <2>1 DEF PublishFails
<1>6. CASE RosChecksState
    <2>1. RosMoves
        BY <1>6 DEF RosChecksState, RosIdle
    <2> QED
        BY <1>6, <2>1 DEF RosChecksState
<1>7. CASE RosWritesState
    <2>1. ros.cmd \in Commands
        BY <1>7 DEF RosWritesState, TypeOK, RosOK
    <2>2. RosMoves
        BY <1>7 DEF RosWritesState, RosDone, RosIdle
    <2> QED
        BY <1>7, <2>1, <2>2 DEF RosWritesState
<1>8. CASE OnPatrolEvent
    <2>0. "command_failed" \in DOMAIN Results /\ Results["command_failed"] = "FAILED"
        BY DEF Results
    <2>1. Head(answers).cmd \in Commands
        <3> DEFINE R == [event : Events, cmd : Commands, execution : Executions]
        <3>1. answers \in Seq(R) /\ answers # <<>>
            BY <1>8 DEF TypeOK, WorldOK, OnPatrolEvent
        <3> HIDE DEF R
        <3>2. Head(answers) \in R
            BY <3>1
        <3> QED
            BY <3>2 DEF R
    <2>2. \/ log' = log /\ ros' = ros
          \/ \E c \in Commands, e \in DOMAIN Results : Record(e, c) /\ RosGoes("settle", c, Results[e])
        BY <1>8, <2>0, <2>1 DEF OnPatrolEvent
    <2>3. DOMAIN Results \subseteq Reports
        BY DEF Reports
    <2>4. ros.at = "idle" /\ UNCHANGED <<stored, cloud, sent>>
        BY <1>8 DEF OnPatrolEvent
    <2> QED
        BY <2>2, <2>3, <2>4
<1>9. CASE OnSystemStatus
    <2>0. "command_failed" \in DOMAIN Results /\ Results["command_failed"] = "FAILED" /\ "command_failed" \in Reports
        BY DEF Results, Reports
    <2>1. verdict \in Commands
        BY <1>9 DEF TypeOK, WorldOK, OnSystemStatus
    <2> QED
        BY <1>9, <2>0, <2>1 DEF OnSystemStatus
<1> QED
    BY <1>1, <1>2, <1>3, <1>4, <1>5, <1>6, <1>7, <1>8, <1>9 DEF RosThread

LEMMA EnvironmentEffects == Environment \/ UNCHANGED vars => Effects
<1> SUFFICES ASSUME Environment \/ UNCHANGED vars PROVE Effects
    OBVIOUS
<1> USE DEF Effects, StoreMoves, LogMoves, CloudMoves, RosMoves, SentMoves, store
<1>1. CASE Restart
    BY <1>1 DEF Restart, CloudIdle, RosIdle
<1>2. CASE PatrolEnds \/ PatrolResets \/ UNCHANGED vars
    BY <1>2 DEF PatrolEnds, PatrolResets, vars
<1>3. CASE \E c \in Commands : LeaseExpires(c) \/ PatrolStarts(c) \/ PatrolControl(c)
    BY <1>3 DEF LeaseExpires, PatrolStarts, PatrolControl, TakesUp
<1> QED
    BY <1>1, <1>2, <1>3 DEF Environment

LEMMA StepEffects == TypeOK /\ [Next]_vars => Effects
BY CloudThreadEffects, RosThreadEffects, EnvironmentEffects DEF Next

-----------------------------------------------------------------------------
(* The inductive invariants *)

\* Commands that were received and acknowledged.
Has(c) == stored[c] \notin {"absent", "RECEIVED"}
Received == {c \in Commands : Has(c)}

CloudDelivered ==
    /\ cloud.at = "ack" => stored[cloud.cmd] = "RECEIVED"
    /\ cloud.at \in {"handle", "settle", "write"} => cloud.cmd \in Received
    /\ \A p \in cloud.todo : p[1] \in Received

RobotDelivered ==
    /\ ros.cmd \in Received \cup {None}
    /\ queue \in Seq(Received)
    /\ wire \in Seq(Received)
    /\ answers \in Seq([event : Events, cmd : Received, execution : Executions])
    /\ verdict \in Received \cup {None}
    /\ patrol.start \in Received \cup {None}

\* A command is anywhere in the robot only once it was acknowledged.
DeliveredInv ==
    /\ \A c \in Received : lease[c] = "acked"
    /\ CloudDelivered
    /\ RobotDelivered

IsConfirmed(c) == <<"local_start_confirmed", c>> \in log
IsExpired(c) == <<"expired", c>> \in log

\* The ROS thread has START c in hand, to publish it or to store it as DISPATCHED.
Publishing(c) == ros.cmd = c /\ ros.at = "publish"
Dispatching(c) == ros.cmd = c /\ ros.at = "write" /\ ros.to = "DISPATCHED"

\* A confirmation is for good: a confirmed START waits no more and does not expire, and only
\* a confirmed one is in hand.
ConfirmationInv ==
    /\ ros.at = "settle" => ros.to # "DISPATCHED"
    /\ \A c \in Confirmed :
          /\ IsConfirmed(c) => stored[c] \in {"CONFIRMED", "DISPATCHED"} \cup Ended
          /\ IsExpired(c) => stored[c] \in Ended /\ ~IsConfirmed(c)
          /\ stored[c] = "CONFIRMED" => IsConfirmed(c)
          /\ Publishing(c) \/ Dispatching(c) => IsConfirmed(c)

\* What was published is not CONFIRMED any more, once the ROS thread is done with it.
SentInv ==
    \A c \in sent :
        /\ IsConfirmed(c)
        /\ stored[c] \in {"DISPATCHED"} \cup Ended \/ Dispatching(c)
        /\ ~Publishing(c)

\* A thread that is about to store an end has told it.
TellingInv ==
    /\ cloud.at \in {"settle", "write"} => Told(cloud.cmd, cloud.to)
    /\ ros.at \in {"settle", "write"} /\ ros.to \in Ended => Told(ros.cmd, ros.to)
    /\ EndedIsTold

WaitingInv == \A a, b \in Armed : a = b

PlatformInv == TypeOK /\ DeliveredInv /\ ConfirmationInv /\ SentInv /\ TellingInv /\ WaitingInv

LEMMA InitInv == Init => PlatformInv
<1> SUFFICES ASSUME Init PROVE PlatformInv
    OBVIOUS
<1>1. \A c \in Commands : ~Has(c) /\ stored[c] \notin Ended /\ stored[c] = "absent"
    BY DEF Init, Has, Ended
<1>2. DeliveredInv
    BY <1>1 DEF Init, DeliveredInv, CloudDelivered, RobotDelivered, Received, CloudIdle, RosIdle, PatrolOff
<1>3. ConfirmationInv /\ SentInv
    BY <1>1, CommandsAssumption DEF Init, ConfirmationInv, SentInv, IsConfirmed, IsExpired,
                                    Publishing, Dispatching, RosIdle
<1>4. TellingInv /\ WaitingInv
    BY <1>1 DEF Init, TellingInv, WaitingInv, EndedIsTold, Armed, CloudIdle, RosIdle
<1> QED
    BY <1>2, <1>3, <1>4, TypeInit DEF PlatformInv

-----------------------------------------------------------------------------
(* What a step makes of one command *)

CommandMoves(c) ==
    \/ stored'[c] = stored[c]
    \/ stored[c] = "absent" /\ stored'[c] = "RECEIVED"
    \/ /\ stored[c] = "RECEIVED" /\ stored'[c] = "ACKED"
       /\ lease'[c] = "acked" /\ cloud.at = "ack" /\ cloud.cmd = c
    \/ stored[c] = "ACKED" /\ stored'[c] = "ARMED"
    \/ stored[c] = "ARMED" /\ stored'[c] = "CONFIRMED" /\ IsConfirmed(c)'
    \/ Has(c) /\ stored'[c] \in Ended
    \/ stored'[c] = "DISPATCHED" /\ Dispatching(c) /\ Has(c)

LEMMA StepOfCommand ==
    ASSUME TypeOK, DeliveredInv, Effects, NEW c \in Commands
    PROVE  CommandMoves(c)
<1> USE DEF CommandMoves, Store, Has, Ended
<1>0. stored \in [Commands -> CommandStates]
    BY DEF TypeOK, StoreOK
<1>1. CASE CancelArmedStart
    <2>1. cloud.cmd \in Commands /\ Has(cloud.cmd)
        BY <1>1 DEF CancelArmedStart, DeliveredInv, CloudDelivered, Received
    <2>2. PICK s \in Waiting(cloud.cmd) :
              stored' = [stored EXCEPT ![s] = "REJECTED", ![cloud.cmd] = "APPLIED"]
        BY <1>1 DEF CancelArmedStart
    <2>3. s \in Commands /\ Has(s)
        BY <2>2 DEF Waiting
    <2> QED
        BY <1>0, <2>1, <2>2, <2>3
<1>2. ASSUME NEW d \in Commands, Store(d, "ACKED"), cloud.at = "ack", cloud.cmd = d, lease'[d] = "acked"
      PROVE  CommandMoves(c)
    BY <1>0, <1>2 DEF DeliveredInv, CloudDelivered
<1>3. ASSUME NEW d \in Commands, Store(d, "CONFIRMED"), d \in Armed, Record("local_start_confirmed", d)
      PROVE  CommandMoves(c)
    BY <1>0, <1>3 DEF Armed, IsConfirmed, Record
<1>4. ASSUME NEW d \in Commands, Store(d, cloud.to), cloud.at = "write", cloud.cmd = d
      PROVE  CommandMoves(c)
    <2>1. Has(d) /\ cloud.to \in Ended
        BY <1>4 DEF DeliveredInv, CloudDelivered, Received, TypeOK, CloudOK
    <2> QED
        BY <1>0, <1>4, <2>1
<1>5. ASSUME NEW d \in Commands, Store(d, ros.to), ros.at = "write", ros.cmd = d
      PROVE  CommandMoves(c)
    <2>1. Has(d) /\ ros.to \in Ended \cup {"DISPATCHED"}
        BY <1>5, Constants DEF DeliveredInv, RobotDelivered, Received, TypeOK, RosOK
    <2> QED
        BY <1>0, <1>5, <2>1 DEF Dispatching
<1>6. ASSUME NEW d \in Commands, Store(d, "RECEIVED") /\ stored[d] = "absent"
      PROVE  CommandMoves(c)
    BY <1>0, <1>6
<1>7. ASSUME NEW d \in Commands, \/ Store(d, "ARMED") /\ MayArm(d)
                                 \/ Store(d, "FAILED") /\ d \in Armed
      PROVE  CommandMoves(c)
    BY <1>0, <1>7 DEF MayArm, Armed
<1> QED
    BY <1>1, <1>2, <1>3, <1>4, <1>5, <1>6, <1>7 DEF Effects, StoreMoves

LEMMA LogOfCommand ==
    ASSUME TypeOK, Effects, NEW c \in Commands
    PROVE  /\ log \subseteq log'
           /\ IsConfirmed(c)' => IsConfirmed(c) \/ (stored[c] = "ARMED" /\ stored'[c] = "CONFIRMED")
           /\ IsExpired(c)' => IsExpired(c) \/ (stored[c] = "ARMED" /\ stored'[c] \in Ended)
<1>1. "local_start_confirmed" \notin Reports /\ "expired" \notin Reports
    BY DEF Reports, Results
<1> QED
    BY <1>1 DEF Effects, LogMoves, Record, Store, IsConfirmed, IsExpired, Armed, Ended, TypeOK, StoreOK

LEMMA ReceivedGrows ==
    ASSUME \A c \in Commands : CommandMoves(c)
    PROVE  Received \subseteq Received'
BY DEF CommandMoves, Received, Has, Ended

-----------------------------------------------------------------------------
(* Confirmation *)

LEMMA ConfirmationStep ==
    ASSUME PlatformInv, Effects, \A c \in Commands : CommandMoves(c)
    PROVE  ConfirmationInv'
<1>1. (ros.at = "settle" => ros.to # "DISPATCHED")'
    <2>1. \A e \in DOMAIN Results : Results[e] # "DISPATCHED"
        BY DEF Results
    <2> QED
        BY <2>1 DEF Effects, RosMoves, RosGoes, PublishCommand, RosDone, RosIdle,
                    PlatformInv, ConfirmationInv
<1>2. ASSUME NEW c \in Confirmed
      PROVE  /\ IsConfirmed(c)' => stored'[c] \in {"CONFIRMED", "DISPATCHED"} \cup Ended
             /\ IsExpired(c)' => stored'[c] \in Ended /\ ~IsConfirmed(c)'
             /\ stored'[c] = "CONFIRMED" => IsConfirmed(c)'
    <2>1. c \in Commands
        BY CommandsAssumption
    <2>2. /\ log \subseteq log'
          /\ IsConfirmed(c)' => IsConfirmed(c) \/ (stored[c] = "ARMED" /\ stored'[c] = "CONFIRMED")
          /\ IsExpired(c)' => IsExpired(c) \/ (stored[c] = "ARMED" /\ stored'[c] \in Ended)
          /\ IsConfirmed(c) => IsConfirmed(c)'
        BY <2>1, LogOfCommand DEF PlatformInv, IsConfirmed
    <2>3. CommandMoves(c)
        BY <2>1
    <2>4. /\ IsConfirmed(c) => stored[c] \in {"CONFIRMED", "DISPATCHED"} \cup Ended
          /\ IsExpired(c) => stored[c] \in Ended /\ ~IsConfirmed(c)
          /\ stored[c] = "CONFIRMED" => IsConfirmed(c)
          /\ Dispatching(c) => IsConfirmed(c)
        BY DEF PlatformInv, ConfirmationInv
    <2> QED
        BY <2>2, <2>3, <2>4 DEF CommandMoves, Ended, Has
<1>3. ASSUME NEW c \in Confirmed, (Publishing(c) \/ Dispatching(c))'
      PROVE  IsConfirmed(c)'
    <2>1. c \in Commands /\ c # None
        BY CommandsAssumption
    <2>2. IsConfirmed(c) => IsConfirmed(c)'
        BY <2>1, LogOfCommand DEF PlatformInv, IsConfirmed
    <2>3. \/ Publishing(c) \/ Dispatching(c)
          \/ MayPublish(c)
          \/ ros.at = "settle" /\ ros.to = "DISPATCHED"
        <3>1. \A e \in DOMAIN Results : Results[e] # "DISPATCHED"
            BY DEF Results
        <3> QED
            BY <1>3, <2>1, <3>1 DEF Effects, RosMoves, RosGoes, PublishCommand, RosDone, RosIdle,
                                    Publishing, Dispatching
    <2> QED
        BY <2>2, <2>3 DEF PlatformInv, ConfirmationInv, MayPublish, NeedsConfirmation
<1> QED
    BY <1>1, <1>2, <1>3 DEF ConfirmationInv

LEMMA SentStep ==
    ASSUME PlatformInv, Effects, \A c \in Commands : CommandMoves(c), ConfirmationInv'
    PROVE  SentInv'
<1>0. \A c \in Commands : IsConfirmed(c) => IsConfirmed(c)'
    BY LogOfCommand DEF PlatformInv, IsConfirmed
<1>1. sent \subseteq Confirmed /\ Confirmed \subseteq Commands
    BY CommandsAssumption DEF PlatformInv, TypeOK, StoreOK
<1>2. CASE PublishCommand
    <2>1. /\ stored' = stored /\ sent' = sent \cup ({ros.cmd} \cap Confirmed) /\ ros.at = "publish"
          /\ IF MaySet(ros.cmd, "DISPATCHED") THEN RosGoes("write", ros.cmd, "DISPATCHED") ELSE RosDone
        BY <1>2 DEF PublishCommand, store
    <2>2. ASSUME NEW c \in sent, c # ros.cmd
          PROVE  /\ IsConfirmed(c)'
                 /\ stored'[c] \in {"DISPATCHED"} \cup Ended
                 /\ ~Publishing(c)'
        BY <1>0, <1>1, <2>1, <2>2 DEF PlatformInv, SentInv, Dispatching, Publishing, RosGoes, RosDone, RosIdle
    <2>3. ASSUME NEW c \in Confirmed, c = ros.cmd
          PROVE  /\ IsConfirmed(c)'
                 /\ stored'[c] \in {"DISPATCHED"} \cup Ended \/ Dispatching(c)'
                 /\ ~Publishing(c)'
        <3>1. IsConfirmed(c) /\ stored[c] \in {"CONFIRMED", "DISPATCHED"} \cup Ended
            BY <2>1, <2>3 DEF PlatformInv, ConfirmationInv, Publishing
        <3>2. stored[c] \in {"CONFIRMED", "DISPATCHED"} => MaySet(c, "DISPATCHED")
            BY DEF MaySet, Transitions
        <3> QED
            BY <1>0, <1>1, <2>1, <2>3, <3>1, <3>2 DEF Dispatching, Publishing, RosGoes, RosDone, RosIdle
    <2> QED
        BY <1>1, <2>1, <2>2, <2>3 DEF SentInv
<1>3. CASE sent' = sent /\ ~PublishCommand
    <2> SUFFICES ASSUME NEW c \in sent
                 PROVE  /\ IsConfirmed(c)'
                        /\ stored'[c] \in {"DISPATCHED"} \cup Ended \/ Dispatching(c)'
                        /\ ~Publishing(c)'
        BY <1>3 DEF SentInv
    <2>1. /\ c \in Commands /\ c \in Confirmed /\ c # None /\ CommandMoves(c)
          /\ IsConfirmed(c) /\ ~Publishing(c)
          /\ stored[c] \in {"DISPATCHED"} \cup Ended \/ Dispatching(c)
        BY <1>1, CommandsAssumption DEF PlatformInv, SentInv
    <2>2. stored[c] \in {"CONFIRMED", "DISPATCHED"} \cup Ended
        BY <2>1 DEF PlatformInv, ConfirmationInv
    <2>3. ~Publishing(c)'
        BY <1>3, <2>1 DEF Effects, RosMoves, RosGoes, Publishing, Dispatching, MayPublish,
                          NeedsConfirmation, Ended
    <2>4. CASE Dispatching(c)
        <3>1. Dispatching(c)' \/ (ros.at = "write" /\ Store(ros.cmd, ros.to)) \/ sent' = {}
            BY <1>3, <2>4 DEF Effects, RosMoves, RosGoes, Dispatching
        <3>2. CASE ros.at = "write" /\ Store(ros.cmd, ros.to)
            BY <1>0, <2>1, <2>3, <2>4, <3>2 DEF Dispatching, Store, PlatformInv, TypeOK, StoreOK
        <3> QED
            BY <1>0, <1>3, <2>1, <2>3, <3>1, <3>2
    <2>5. CASE stored[c] \in {"DISPATCHED"} \cup Ended
        BY <1>0, <2>1, <2>3, <2>5 DEF CommandMoves, Ended
    <2> QED
        BY <2>1, <2>4, <2>5
<1>4. CASE sent' = {}
    BY <1>4 DEF SentInv
<1> QED
    BY <1>2, <1>3, <1>4 DEF Effects, SentMoves

-----------------------------------------------------------------------------
(* Telling, and waiting *)

LEMMA TellingStep ==
    ASSUME PlatformInv, Effects
    PROVE  TellingInv'
<1>0. log \subseteq log'
    BY DEF Effects, LogMoves, Record
<1>1. ASSUME NEW c, NEW s, Told(c, s) PROVE Told(c, s)'
    BY <1>0, <1>1 DEF Told
<1>2. (cloud.at \in {"settle", "write"} => Told(cloud.cmd, cloud.to))'
    <2>1. ASSUME cloud'.to \in Ended, Record(ResultEvent(cloud'.to), cloud'.cmd)
          PROVE  Told(cloud.cmd, cloud.to)'
        <3>1. <<ResultEvent(cloud'.to), cloud'.cmd>> \in log'
            BY <2>1 DEF Record
        <3> QED
            BY <2>1, <3>1, ResultEvents DEF Told
    <2> QED
        BY <1>1, <2>1 DEF Effects, CloudMoves, PlatformInv, TellingInv
<1>3. (ros.at \in {"settle", "write"} /\ ros.to \in Ended => Told(ros.cmd, ros.to))'
    <2> SUFFICES ASSUME ros'.at \in {"settle", "write"}, ros'.to \in Ended
                 PROVE  Told(ros.cmd, ros.to)'
        OBVIOUS
    <2>1. ASSUME NEW c \in Commands, NEW e \in DOMAIN Results, Record(e, c), RosGoes("settle", c, Results[e])
          PROVE  Told(ros.cmd, ros.to)'
        <3>1. ros'.cmd = c /\ ros'.to = Results[e] /\ <<e, c>> \in log'
            BY <2>1 DEF RosGoes, Record
        <3> QED
            BY <3>1 DEF Told
    <2>2. CASE ros' = ros \/ (ros.at = "settle" /\ RosGoes("write", ros.cmd, ros.to))
        BY <1>1, <2>2 DEF RosGoes, PlatformInv, TellingInv
    <2>3. CASE PublishCommand
        BY <2>3 DEF PublishCommand, RosGoes, RosDone, RosIdle, Ended
    <2>4. CASE \/ ros'.at \in {"idle", "dead"}
               \/ \E c \in Commands : RosGoes("publish", c, None)
        BY <2>4 DEF RosGoes
    <2> QED
        BY <2>1, <2>2, <2>3, <2>4 DEF Effects, RosMoves
<1>4. EndedIsTold'
    <2>0. stored \in [Commands -> CommandStates] /\ EndedIsTold
        BY DEF PlatformInv, TypeOK, StoreOK, TellingInv
    <2> SUFFICES ASSUME NEW c \in Commands, stored'[c] \in Ended
                 PROVE  Told(c, stored[c])'
        BY DEF EndedIsTold
    <2>1. CASE stored'[c] = stored[c]
        BY <1>1, <2>0, <2>1 DEF EndedIsTold
    <2>2. CASE CancelArmedStart
        <3>1. PICK s \in Waiting(cloud.cmd) :
                  stored' = [stored EXCEPT ![s] = "REJECTED", ![cloud.cmd] = "APPLIED"]
            BY <2>2 DEF CancelArmedStart
        <3>2. /\ <<"route_canceled", cloud.cmd>> \in log' /\ Type[cloud.cmd] = "CANCEL"
              /\ cloud.cmd \in Commands
            BY <2>2 DEF CancelArmedStart, Record, PlatformInv, DeliveredInv, CloudDelivered, Received
        <3>3. Told(s, "REJECTED")'
            BY <3>2 DEF Told, Waiting
        <3>4. ASSUME NEW x, x = cloud.cmd PROVE Told(x, "APPLIED")'
            BY <3>2, <3>4 DEF Told, Results
        <3> QED
            BY <2>0, <2>1, <3>1, <3>3, <3>4
    <2>3. ASSUME NEW d \in Commands, Store(d, "FAILED"), Record("expired", d)
          PROVE  Told(c, stored[c])'
        <3>1. Told(d, "FAILED")'
            BY <2>3 DEF Record, Told
        <3> QED
            BY <2>0, <2>1, <2>3, <3>1 DEF Store
    <2>4. ASSUME NEW d \in Commands, \/ Store(d, cloud.to) /\ cloud.at = "write" /\ cloud.cmd = d
                                     \/ Store(d, ros.to) /\ ros.at = "write" /\ ros.cmd = d
          PROVE  Told(c, stored[c])'
        BY <1>1, <2>0, <2>1, <2>4 DEF Store, PlatformInv, TellingInv
    <2>5. ASSUME NEW d \in Commands, NEW s \in {"RECEIVED", "ACKED", "ARMED", "CONFIRMED"}, Store(d, s)
          PROVE  Told(c, stored[c])'
        BY <2>0, <2>1, <2>5 DEF Store, Ended
    <2> QED
        BY <2>1, <2>2, <2>3, <2>4, <2>5 DEF Effects, StoreMoves
<1> QED
    BY <1>2, <1>3, <1>4 DEF TellingInv

LEMMA WaitingStep ==
    ASSUME PlatformInv, Effects
    PROVE  WaitingInv'
<1>0. stored \in [Commands -> CommandStates] /\ WaitingInv
    BY DEF PlatformInv, TypeOK, StoreOK
<1>1. CASE CancelArmedStart
    <2>1. Armed' \subseteq Armed
        BY <1>0, <1>1 DEF CancelArmedStart, Armed, IsStart
    <2> QED
        BY <1>0, <2>1 DEF WaitingInv
<1>2. ASSUME NEW c \in Commands, Store(c, "ARMED"), MayArm(c) PROVE WaitingInv'
    <2>1. Armed' \subseteq {c}
        BY <1>0, <1>2 DEF Store, MayArm, Armed, IsStart
    <2> QED
        BY <2>1 DEF WaitingInv
<1>3. ASSUME NEW c \in Commands, NEW s, s # "ARMED", Store(c, s) PROVE WaitingInv'
    <2>1. Armed' \subseteq Armed
        BY <1>0, <1>3 DEF Store, Armed, IsStart
    <2> QED
        BY <1>0, <2>1 DEF WaitingInv
<1>4. CASE stored' = stored
    BY <1>0, <1>4 DEF WaitingInv, Armed, IsStart
<1>5. /\ cloud.at = "write" => cloud.to # "ARMED"
      /\ ros.at = "write" => ros.to # "ARMED"
    BY Constants DEF PlatformInv, TypeOK, CloudOK, RosOK, Ended
<1> QED
    BY <1>1, <1>2, <1>3, <1>4, <1>5 DEF Effects, StoreMoves

-----------------------------------------------------------------------------
(* Delivery *)

LEMMA SeqGrows ==
    ASSUME NEW S, NEW T, S \subseteq T, NEW q \in Seq(S)
    PROVE  q \in Seq(T)
OBVIOUS

LEMMA LeaseStays ==
    ASSUME TypeOK, [Next]_vars, NEW c \in Commands, lease[c] = "acked"
    PROVE  lease'[c] = "acked"
<1> USE DEF TypeOK, StoreOK
<1>1. CASE CloudThread
    <2>1. ASSUME NEW d \in Commands, Heartbeat(d) PROVE lease'[c] = "acked"
        BY <2>1 DEF Heartbeat
    <2>2. CASE PostAck
        BY <2>2 DEF PostAck
    <2>3. CASE HandleStart \/ HandleControl \/ CancelArmedStart
        BY <2>3 DEF HandleStart, HandleControl, CancelArmedStart
    <2>4. CASE CloudChecksState \/ CloudWritesState \/ RecoverPending \/ RecoveryDone
        BY <2>4 DEF CloudChecksState, CloudWritesState, RecoverPending, RecoveryDone
    <2>5. CASE \E d \in Commands : \/ RecoverAcked(d) \/ RecoverConfirmed(d)
                                   \/ RecoverDispatchedStart(d) \/ RecoverDispatchedControl(d)
        BY <2>5 DEF RecoverAcked, RecoverConfirmed, RecoverDispatchedStart,
                    RecoverDispatchedControl, Recovers
    <2> QED
        BY <1>1, <2>1, <2>2, <2>3, <2>4, <2>5 DEF CloudThread
<1>2. CASE RosThread
    BY <1>2 DEF RosThread, ConfirmArmedStart, ExpireArmedStarts, OnPatrolStatus, RefreshCloudSnapshot,
                TakeCommand, PublishCommand, PublishFails, RosChecksState, RosWritesState,
                OnPatrolEvent, OnSystemStatus
<1>3. CASE Environment \/ UNCHANGED vars
    <2>1. ASSUME NEW d \in Commands, LeaseExpires(d) PROVE lease'[c] = "acked"
        BY <2>1 DEF LeaseExpires
    <2>2. CASE \E d \in Commands : PatrolStarts(d) \/ PatrolControl(d)
        BY <2>2 DEF PatrolStarts, PatrolControl, TakesUp
    <2>3. CASE PatrolEnds \/ PatrolResets \/ Restart \/ UNCHANGED vars
        BY <2>3 DEF PatrolEnds, PatrolResets, Restart, vars
    <2> QED
        BY <1>3, <2>1, <2>2, <2>3 DEF Environment
<1> QED
    BY <1>1, <1>2, <1>3 DEF Next

\* What the cloud thread goes on with was received.
LEMMA CloudDoneDelivered ==
    ASSUME TypeOK, CloudDelivered, Received \subseteq Received', NEW c \in Commands, CloudDone(c)
    PROVE  CloudDelivered'
BY DEF CloudDone, CloudDelivered, TypeOK, CloudOK

LEMMA CloudGoesDelivered ==
    ASSUME TypeOK, CloudDelivered, Received \subseteq Received', NEW c \in Received',
           NEW place \in {"handle", "settle", "write"}, NEW s, CloudGoes(place, c, s)
    PROVE  CloudDelivered'
BY DEF CloudGoes, CloudDelivered, TypeOK, CloudOK

LEMMA OutcomeDelivered ==
    ASSUME TypeOK, CloudDelivered, RobotDelivered, Received \subseteq Received', NEW c \in Received,
           \/ Arms(c) \/ Enqueues(c) \/ (\E s \in Ended : Concludes(c, s))
           \/ CloudDone(c) /\ UNCHANGED <<store, queue>>
    PROVE  CloudDelivered' /\ queue' \in Seq(Received')
<1>0. c \in Commands /\ c \in Received' /\ queue \in Seq(Received')
    BY SeqGrows DEF Received, RobotDelivered
<1>1. ASSUME CloudDone(c) PROVE CloudDelivered'
    BY <1>0, <1>1, CloudDoneDelivered
<1>2. ASSUME NEW s \in Ended, Concludes(c, s) PROVE CloudDelivered' /\ queue' \in Seq(Received')
    BY <1>0, <1>2, CloudGoesDelivered DEF Concludes
<1>3. ASSUME Enqueues(c) PROVE queue' \in Seq(Received')
    BY <1>0, <1>3 DEF Enqueues
<1>4. CASE MayArm(c) /\ Arms(c)
    BY <1>0, <1>1, <1>4 DEF Arms
<1>5. CASE ~MayArm(c) /\ Arms(c)
    BY <1>2, <1>5 DEF Arms, Ended
<1> QED
    BY <1>0, <1>1, <1>2, <1>3, <1>4, <1>5 DEF Enqueues

LEMMA CloudThreadDelivers ==
    ASSUME TypeOK, DeliveredInv, \A c \in Commands : CommandMoves(c), CloudThread
    PROVE  CloudDelivered' /\ queue' \in Seq(Received')
<1>0. /\ Received \subseteq Received' /\ CloudDelivered /\ RobotDelivered
      /\ Received \subseteq Commands /\ Received' \subseteq Commands
      /\ queue \in Seq(Received')
    BY ReceivedGrows, SeqGrows DEF DeliveredInv, RobotDelivered, Received
<1>1. ASSUME NEW c \in Commands, Heartbeat(c) PROVE CloudDelivered' /\ queue' \in Seq(Received')
    <2>0. queue' \in Seq(Received')
        BY <1>0, <1>1 DEF Heartbeat, bridge
    <2>1. CASE CloudGoes("ack", c, None) /\ stored'[c] = "RECEIVED"
        BY <1>0, <2>0, <2>1 DEF CloudGoes, CloudDelivered, TypeOK, CloudOK
    <2>2. CASE CloudGoes("handle", c, None) /\ stored[c] = "ACKED"
        <3>1. c \in Received
            BY <2>2 DEF Received, Has
        <3> QED
            BY <1>0, <2>0, <2>2, <3>1, CloudGoesDelivered
    <2>3. CASE UNCHANGED cloud
        BY <1>0, <1>1, <2>0, <2>3 DEF Heartbeat, CloudDelivered
    <2>4. \/ CloudGoes("ack", c, None) /\ stored'[c] = "RECEIVED"
          \/ CloudGoes("handle", c, None) /\ stored[c] = "ACKED"
          \/ UNCHANGED cloud
        BY <1>1 DEF Heartbeat, TypeOK, StoreOK
    <2> QED
        BY <2>1, <2>2, <2>3, <2>4
<1>2. CASE PostAck
    <2>1. cloud.cmd \in Commands
        BY <1>2 DEF PostAck, TypeOK, CloudOK
    <2>2. ASSUME Store(cloud.cmd, "ACKED"), CloudGoes("handle", cloud.cmd, None) PROVE CloudDelivered'
        <3>1. cloud.cmd \in Received'
            <4>1. stored'[cloud.cmd] = "ACKED"
                BY <2>1, <2>2 DEF Store, TypeOK, StoreOK
            <4> DEFINE x == cloud.cmd
            <4> HIDE DEF x
            <4>2. x \in Commands /\ stored'[x] = "ACKED"
                BY <2>1, <4>1 DEF x
            <4>3. x \in Received'
                BY <4>2 DEF Received, Has
            <4> QED
                BY <4>3 DEF x
        <3> QED
            BY <1>0, <2>2, <3>1, CloudGoesDelivered
    <2> QED
        BY <1>0, <1>2, <2>1, <2>2, CloudDoneDelivered DEF PostAck, bridge
<1>3. CASE HandleStart \/ HandleControl
    <2>1. cloud.cmd \in Received
        BY <1>0, <1>3 DEF HandleStart, HandleControl, CloudDelivered
    <2>2. \/ Arms(cloud.cmd) \/ Enqueues(cloud.cmd)
          \/ \E s \in Ended : Concludes(cloud.cmd, s)
        BY <1>3 DEF HandleStart, HandleControl, Ended
    <2> QED
        BY <1>0, <2>1, <2>2, OutcomeDelivered
<1>4. CASE CancelArmedStart \/ CloudWritesState
    BY <1>0, <1>4, CloudDoneDelivered DEF CancelArmedStart, CloudWritesState, CloudDelivered, bridge
<1>5. CASE CloudChecksState
    <2>1. cloud.cmd \in Received
        BY <1>0, <1>5 DEF CloudChecksState, CloudDelivered
    <2>2. ASSUME cloud' = [CloudIdle EXCEPT !.at = "dead"] PROVE CloudDelivered'
        BY <2>2 DEF CloudIdle, CloudDelivered
    <2> QED
        BY <1>0, <1>5, <2>1, <2>2, CloudGoesDelivered, CloudDoneDelivered DEF CloudChecksState, bridge
<1>6. CASE RecoverPending \/ RecoveryDone
    <2> DEFINE rows == {<<c, stored[c]>> : c \in {d \in Commands : stored[d] \in Pending \ {"RECEIVED"}}}
    <2>1. \/ cloud' = [at |-> "recover", cmd |-> None, to |-> None, todo |-> rows, view |-> snapshot]
          \/ cloud' = CloudIdle
        BY <1>6 DEF RecoverPending, RecoveryDone, CloudIdle
    <2>2. \A p \in rows : p[1] \in Received
        BY DEF Received, Has, Pending
    <2> HIDE DEF rows
    <2>3. CloudDelivered'
        BY <1>0, <2>1, <2>2 DEF CloudIdle, CloudDelivered
    <2> QED
        BY <1>0, <1>6, <2>3 DEF RecoverPending, RecoveryDone, bridge
<1>7. ASSUME NEW c \in Commands, \/ RecoverAcked(c) \/ RecoverConfirmed(c)
                                 \/ RecoverDispatchedStart(c) \/ RecoverDispatchedControl(c)
      PROVE  CloudDelivered' /\ queue' \in Seq(Received')
    <2>1. /\ \E s : <<c, s>> \in cloud.todo
          /\ \/ Arms(c) \/ Enqueues(c) \/ (\E s \in Ended : Concludes(c, s))
             \/ CloudDone(c) /\ UNCHANGED <<store, queue>>
        BY <1>7 DEF RecoverAcked, RecoverConfirmed, RecoverDispatchedStart,
                    RecoverDispatchedControl, Recovers, Ended
    <2>2. c \in Received
        BY <1>0, <2>1 DEF CloudDelivered
    <2> QED
        BY <1>0, <2>1, <2>2, OutcomeDelivered
<1> QED
    BY <1>0, <1>1, <1>2, <1>3, <1>4, <1>5, <1>6, <1>7 DEF CloudThread

\* What stays where it was is still received.
LEMMA RobotKeeps ==
    ASSUME RobotDelivered, Received \subseteq Received'
    PROVE  /\ ros.cmd \in Received' \cup {None}
           /\ queue \in Seq(Received') /\ wire \in Seq(Received')
           /\ answers \in Seq([event : Events, cmd : Received', execution : Executions])
           /\ verdict \in Received' \cup {None} /\ patrol.start \in Received' \cup {None}
<1>1. [event : Events, cmd : Received, execution : Executions]
      \subseteq [event : Events, cmd : Received', execution : Executions]
    OBVIOUS
<1> QED
    BY <1>1, SeqGrows DEF RobotDelivered

LEMMA RosThreadDelivers ==
    ASSUME TypeOK, DeliveredInv, \A c \in Commands : CommandMoves(c), RosThread
    PROVE  CloudDelivered' /\ RobotDelivered'
<1> DEFINE Answers == [event : Events, cmd : Received', execution : Executions]
<1>0. /\ Received \subseteq Received' /\ CloudDelivered /\ RobotDelivered /\ Received \subseteq Commands
      /\ ros.cmd \in Received' \cup {None} /\ ros.cmd \in Received \cup {None}
      /\ queue \in Seq(Received') /\ wire \in Seq(Received') /\ answers \in Seq(Answers)
      /\ verdict \in Received' \cup {None} /\ patrol.start \in Received' \cup {None}
    BY ReceivedGrows, RobotKeeps DEF DeliveredInv, RobotDelivered, Received
<1>1. CloudDelivered'
    <2>1. cloud' = cloud
        BY DEF RosThread, ConfirmArmedStart, ExpireArmedStarts, OnPatrolStatus, RefreshCloudSnapshot,
               TakeCommand, PublishCommand, PublishFails, RosChecksState, RosWritesState,
               OnPatrolEvent, OnSystemStatus
    <2>2. stored' = stored \/ \E d \in Received : \E s : Store(d, s)
        <3>1. CASE ConfirmArmedStart \/ ExpireArmedStarts
            <4>1. Armed \subseteq Received
                BY DEF Armed, Received, Has
            <4> QED
                BY <3>1, <4>1 DEF ConfirmArmedStart, ExpireArmedStarts
        <3>2. CASE RosWritesState
            <4>1. ros.cmd \in Received
                BY <1>0, <3>2 DEF RosWritesState, TypeOK, RosOK
            <4> QED
                BY <3>2, <4>1 DEF RosWritesState
        <3>3. CASE ~(ConfirmArmedStart \/ ExpireArmedStarts \/ RosWritesState)
            BY <3>3 DEF RosThread, OnPatrolStatus, RefreshCloudSnapshot, TakeCommand, PublishCommand,
                        PublishFails, RosChecksState, OnPatrolEvent, OnSystemStatus, store
        <3> QED
            BY <3>1, <3>2, <3>3
    <2>3. cloud.at = "ack" => stored'[cloud.cmd] = "RECEIVED"
        <3>1. cloud.at = "ack" => cloud.cmd \in Commands \ Received /\ stored[cloud.cmd] = "RECEIVED"
            BY <1>0, Constants DEF CloudDelivered, TypeOK, CloudOK, Received, Has
        <3> QED
            BY <1>0, <2>2, <3>1 DEF Store, TypeOK, StoreOK
    <2> QED
        BY <1>0, <2>1, <2>3 DEF CloudDelivered
<1>2. queue' \in Seq(Received')
    <2>1. CASE ConfirmArmedStart
        <3>1. PICK c \in Armed : queue' = Append(queue, c)
            BY <2>1 DEF ConfirmArmedStart
        <3>2. c \in Received'
            BY <1>0 DEF Armed, Received, Has
        <3> QED
            BY <1>0, <3>1, <3>2
    <2>2. CASE TakeCommand
        <3>1. queue' = Tail(queue) /\ queue # <<>>
            BY <2>2 DEF TakeCommand
        <3> QED
            BY <1>0, <3>1
    <2>3. CASE queue' = queue
        BY <1>0, <2>3
    <2> QED
        BY <2>1, <2>2, <2>3 DEF RosThread, ExpireArmedStarts, OnPatrolStatus, RefreshCloudSnapshot,
               PublishCommand, PublishFails, RosChecksState, RosWritesState, OnPatrolEvent,
               OnSystemStatus, bridge
<1> HIDE DEF Answers
<1>3. wire' \in Seq(Received')
    <2>1. CASE PublishCommand
        <3>1. ros.cmd \in Received' /\ wire' = Append(wire, ros.cmd)
            BY <1>0, <2>1 DEF PublishCommand, TypeOK, RosOK
        <3> QED
            BY <1>0, <3>1
    <2>2. CASE wire' = wire
        BY <1>0, <2>2
    <2> QED
        BY <2>1, <2>2 DEF RosThread, ConfirmArmedStart, ExpireArmedStarts, OnPatrolStatus,
               RefreshCloudSnapshot, TakeCommand, PublishFails, RosChecksState, RosWritesState,
               OnPatrolEvent, OnSystemStatus, world
<1>4. answers' \in Seq(Answers) /\ (answers # <<>> => Head(answers).cmd \in Received')
    <2>1. answers # <<>> => Tail(answers) \in Seq(Answers) /\ Head(answers) \in Answers
        BY <1>0
    <2>2. answers' = answers \/ (answers # <<>> /\ answers' = Tail(answers))
        BY DEF RosThread, ConfirmArmedStart, ExpireArmedStarts, OnPatrolStatus,
               RefreshCloudSnapshot, TakeCommand, PublishCommand, PublishFails, RosChecksState,
               RosWritesState, OnPatrolEvent, OnSystemStatus, world
    <2>3. answers' \in Seq(Answers)
        BY <1>0, <2>1, <2>2
    <2> QED
        BY <2>1, <2>3 DEF Answers
<1>5. ros'.cmd \in Received' \cup {None}
    <2>1. CASE TakeCommand
        <3>1. queue # <<>> => Head(queue) \in Received'
            BY <1>0
        <3> QED
            BY <1>0, <2>1, <3>1 DEF TakeCommand, RosGoes
    <2>2. CASE OnPatrolEvent
        BY <1>0, <1>4, <2>2 DEF OnPatrolEvent, RosGoes
    <2>3. CASE OnSystemStatus
        BY <1>0, <2>3 DEF OnSystemStatus, RosGoes
    <2>4. CASE PublishCommand \/ PublishFails \/ RosChecksState \/ RosWritesState
        BY <1>0, <2>4 DEF PublishCommand, PublishFails, RosChecksState, RosWritesState,
                          RosGoes, RosDone, RosIdle
    <2>5. CASE ros' = ros
        BY <1>0, <2>5
    <2> QED
        BY <2>1, <2>2, <2>3, <2>4, <2>5 DEF RosThread, ConfirmArmedStart, ExpireArmedStarts,
               OnPatrolStatus, RefreshCloudSnapshot
<1>6. verdict' = verdict /\ patrol' = patrol
    BY DEF RosThread, ConfirmArmedStart, ExpireArmedStarts, OnPatrolStatus,
           RefreshCloudSnapshot, TakeCommand, PublishCommand, PublishFails, RosChecksState,
           RosWritesState, OnPatrolEvent, OnSystemStatus, world
<1> QED
    BY <1>0, <1>1, <1>2, <1>3, <1>4, <1>5, <1>6 DEF RobotDelivered, Answers

LEMMA TakesUpReceived ==
    ASSUME NEW S, wire \in Seq(S), NEW c, TakesUp(c)
    PROVE  wire' \in Seq(S) /\ c \in S
<1>1. PICK i \in 1 .. Len(wire) : c = wire[i] /\ wire' = RemoveAt(wire, i)
    BY DEF TakesUp
<1>2. SubSeq(wire, 1, i - 1) \in Seq(S) /\ SubSeq(wire, i + 1, Len(wire)) \in Seq(S)
    BY <1>1
<1> QED
    BY <1>1, <1>2 DEF RemoveAt

LEMMA EnvironmentDelivers ==
    ASSUME TypeOK, DeliveredInv, Environment
    PROVE  CloudDelivered' /\ RobotDelivered'
<1> DEFINE Answers == [event : Events, cmd : Received, execution : Executions]
           A(e, c) == [event |-> e, cmd |-> c,
                       execution |-> IF IsStart(c) THEN Execution[c] ELSE ExecutionOf(patrol)]
<1>0. /\ CloudDelivered /\ stored' = stored /\ Received' = Received /\ Received \subseteq Commands
      /\ wire \in Seq(Received) /\ answers \in Seq(Answers)
      /\ verdict \in Received \cup {None} /\ patrol.start \in Received \cup {None}
    BY DEF DeliveredInv, RobotDelivered, Received, Has, Environment, LeaseExpires, PatrolStarts,
           PatrolControl, TakesUp, PatrolEnds, PatrolResets, Restart, store
<1>1. CloudDelivered'
    <2>1. cloud' = cloud \/ cloud' = CloudIdle
        BY DEF Environment, LeaseExpires, PatrolStarts, PatrolControl, TakesUp, PatrolEnds,
               PatrolResets, Restart
    <2> QED
        BY <1>0, <2>1 DEF CloudDelivered, CloudIdle
<1>2. ros'.cmd \in Received \cup {None} /\ queue' \in Seq(Received)
    <2>1. (ros' = ros /\ queue' = queue) \/ (ros' = RosIdle /\ queue' = <<>>)
        BY DEF Environment, LeaseExpires, PatrolStarts, PatrolControl, TakesUp, PatrolEnds,
               PatrolResets, Restart, bridge
    <2>2. <<>> \in Seq(Received) /\ RosIdle.cmd = None
        BY DEF RosIdle
    <2>3. queue \in Seq(Received) /\ ros.cmd \in Received \cup {None}
        BY DEF DeliveredInv, RobotDelivered
    <2> QED
        BY <2>1, <2>2, <2>3
<1>3. ASSUME NEW e \in Events, NEW c \in Received, Says(e, c) PROVE answers' \in Seq(Answers)
    <2>1. A(e, c) \in Answers
        BY <1>0 DEF Executions, ExecutionOf, TypeOK, WorldOK, Patrols, PatrolOff
    <2>2. answers' = Append(answers, A(e, c))
        BY <1>3 DEF Says
    <2> HIDE DEF Answers, A
    <2> QED
        BY <1>0, <2>1, <2>2
<1> HIDE DEF Answers
<1>4. ASSUME NEW c \in Commands, PatrolStarts(c)
      PROVE  /\ wire' \in Seq(Received) /\ answers' \in Seq(Answers)
             /\ verdict' \in Received \cup {None} /\ patrol'.start \in Received \cup {None}
    <2>1. wire' \in Seq(Received) /\ c \in Received
        BY <1>0, <1>4, TakesUpReceived DEF PatrolStarts
    <2>2. "route_started" \in Events /\ "route_failed" \in Events
        BY DEF Events, Results
    <2> QED
        BY <1>0, <1>3, <1>4, <2>1, <2>2 DEF PatrolStarts, PatrolOff
<1>5. ASSUME NEW c \in Commands, PatrolControl(c)
      PROVE  /\ wire' \in Seq(Received) /\ answers' \in Seq(Answers)
             /\ verdict' = verdict /\ patrol'.start = patrol.start
    <2>1. wire' \in Seq(Received) /\ c \in Received
        BY <1>0, <1>5, TakesUpReceived DEF PatrolControl
    <2>2. ControlEvent[Type[c]] \in Events /\ "command_rejected" \in Events
        <3>1. Type[c] \in {"PAUSE", "RESUME", "TAKEOVER", "CANCEL"}
            BY <1>5, CommandsAssumption DEF PatrolControl, IsStart, Types
        <3> QED
            BY <3>1 DEF ControlEvent, Events, Results
    <2>3. answers' \in Seq(Answers)
        BY <1>0, <1>3, <1>5, <2>1, <2>2 DEF PatrolControl
    <2>4. patrol'.start = patrol.start
        BY <1>5 DEF PatrolControl, TypeOK, WorldOK, Patrols, PatrolOff
    <2> QED
        BY <1>5, <2>1, <2>3, <2>4 DEF PatrolControl
<1>6. CASE PatrolEnds
    <2>1. patrol.start \in Received /\ patrol'.start = patrol.start
        BY <1>0, <1>6, Constants DEF PatrolEnds, TypeOK, WorldOK, Patrols, PatrolOff, PatrolActive
    <2>2. answers' \in Seq(Answers)
        BY <1>3, <1>6, <2>1 DEF PatrolEnds, Events
    <2> QED
        BY <1>0, <1>1, <1>2, <1>6, <2>1, <2>2 DEF PatrolEnds, RobotDelivered, Answers
<1>7. CASE PatrolResets
    <2>1. patrol'.start \in Received \cup {None}
        BY <1>0, <1>7 DEF PatrolResets, TypeOK, WorldOK, Patrols, PatrolOff
    <2> QED
        BY <1>0, <1>1, <1>2, <1>7, <2>1 DEF PatrolResets, RobotDelivered, Answers
<1>8. CASE Restart \/ \E c \in Commands : LeaseExpires(c)
    <2>0. <<>> \in Seq(Answers)
        OBVIOUS
    <2>1. /\ wire' = wire /\ verdict' = verdict /\ patrol' = patrol
          /\ answers' \in Seq(Answers)
        BY <1>0, <1>8, <2>0 DEF Restart, LeaseExpires, world
    <2> QED
        BY <1>0, <1>1, <1>2, <2>1 DEF RobotDelivered, Answers
<1>9. CASE \E c \in Commands : PatrolStarts(c) \/ PatrolControl(c)
    BY <1>0, <1>1, <1>2, <1>4, <1>5, <1>9 DEF RobotDelivered, Answers
<1> QED
    BY <1>6, <1>7, <1>8, <1>9 DEF Environment

LEMMA DeliveredStep ==
    ASSUME TypeOK, DeliveredInv, [Next]_vars, \A c \in Commands : CommandMoves(c)
    PROVE  DeliveredInv'
<1>0. Received \subseteq Received' /\ CloudDelivered /\ RobotDelivered
    BY ReceivedGrows DEF DeliveredInv
<1>1. (\A c \in Received : lease[c] = "acked")'
    <2> SUFFICES ASSUME NEW c \in Received' PROVE lease'[c] = "acked"
        OBVIOUS
    <2>1. c \in Commands
        BY DEF Received
    <2>2. CASE c \in Received
        BY <2>1, <2>2, LeaseStays DEF DeliveredInv
    <2>3. CASE c \notin Received
        <3>1. ~Has(c) /\ stored'[c] \notin {"absent", "RECEIVED"}
            BY <2>1, <2>3 DEF Received, Has
        <3> QED
            BY <2>1, <3>1 DEF CommandMoves, Has
    <2> QED
        BY <2>2, <2>3
<1>2. CASE CloudThread
    <2>1. CloudDelivered' /\ queue' \in Seq(Received')
        BY <1>2, CloudThreadDelivers
    <2>2. UNCHANGED <<ros, world>>
        BY <1>2 DEF CloudThread, Heartbeat, PostAck, HandleStart, HandleControl, CancelArmedStart,
               CloudChecksState, CloudWritesState, RecoverPending, RecoveryDone, RecoverAcked,
               RecoverConfirmed, RecoverDispatchedStart, RecoverDispatchedControl, Recovers
    <2> QED
        BY <1>0, <1>1, <2>1, <2>2, RobotKeeps DEF DeliveredInv, RobotDelivered, world
<1>3. CASE RosThread
    BY <1>1, <1>3, RosThreadDelivers DEF DeliveredInv
<1>4. CASE Environment
    BY <1>1, <1>4, EnvironmentDelivers DEF DeliveredInv
<1>5. CASE UNCHANGED vars
    BY <1>0, <1>1, <1>5, RobotKeeps DEF DeliveredInv, CloudDelivered, RobotDelivered, vars, bridge, world, store
<1> QED
    BY <1>2, <1>3, <1>4, <1>5 DEF Next

-----------------------------------------------------------------------------
(* The theorems *)

LEMMA StepInv == PlatformInv /\ [Next]_vars => PlatformInv'
<1> SUFFICES ASSUME PlatformInv, [Next]_vars PROVE PlatformInv'
    OBVIOUS
<1>1. TypeOK /\ DeliveredInv
    BY DEF PlatformInv
<1>2. TypeOK'
    BY <1>1, TypeCloudThread, TypeRosThread, TypeEnvironment, TypeStutters DEF Next
<1>3. Effects
    BY <1>1, StepEffects
<1>4. \A c \in Commands : CommandMoves(c)
    BY <1>1, <1>3, StepOfCommand
<1>5. DeliveredInv'
    BY <1>1, <1>4, DeliveredStep
<1>6. ConfirmationInv'
    BY <1>3, <1>4, ConfirmationStep
<1>7. SentInv'
    BY <1>3, <1>4, <1>6, SentStep
<1>8. TellingInv' /\ WaitingInv'
    BY <1>3, TellingStep, WaitingStep
<1> QED
    BY <1>2, <1>5, <1>6, <1>7, <1>8 DEF PlatformInv

\* The invariant, from which everything below follows.
THEOREM PlatformInvariant == Spec => []PlatformInv
<1> QED
    BY InitInv, StepInv, PTL DEF Spec

\* What the ROS thread has in its queue or in hand was acknowledged to the platform.
THEOREM RobotRunsAckedCommands == Spec => []OnlyAckedCommandsRun
<1>1. PlatformInv => OnlyAckedCommandsRun
    <2> SUFFICES ASSUME PlatformInv PROVE OnlyAckedCommandsRun
        OBVIOUS
    <2>1. queue \in Seq(Received) /\ ros.cmd \in Received \cup {None} /\ \A c \in Received : lease[c] = "acked"
        BY DEF PlatformInv, DeliveredInv, RobotDelivered
    <2>2. \A i \in 1 .. Len(queue) : queue[i] \in Received
        BY <2>1
    <2> QED
        BY <2>1, <2>2 DEF OnlyAckedCommandsRun
<1> QED
    BY <1>1, PlatformInvariant, PTL

\* The end of a command, in the store, is told to the platform by an event that agrees with it.
THEOREM EndsAreTold == Spec => []EndedIsTold
<1>1. PlatformInv => EndedIsTold
    BY DEF PlatformInv, TellingInv
<1> QED
    BY <1>1, PlatformInvariant, PTL

\* At most one START waits for the operator.
THEOREM OneStartIsArmed == Spec => []OneStartWaits
<1>1. PlatformInv => OneStartWaits
    <2> SUFFICES ASSUME WaitingInv PROVE Cardinality(Armed) <= 1
        BY DEF PlatformInv, OneStartWaits
    <2>1. CASE Armed = {}
        BY <2>1, FS_EmptySet
    <2>2. CASE \E a : a \in Armed
        <3>1. PICK a : Armed = {a}
            BY <2>2 DEF WaitingInv
        <3>2. Cardinality(Armed) = 1
            BY <3>1, FS_Singleton, Zenon
        <3> QED
            BY <3>2
    <2> QED
        BY <2>1, <2>2
<1> QED
    BY <1>1, PlatformInvariant, PTL

\* A START with local confirmation is published only when it was confirmed and has not expired.
THEOREM PublishedStartsAreConfirmed == Spec => OnlyConfirmedStartsRun
<1>1. PlatformInv /\ [Next]_vars =>
        [\A c \in Confirmed : Publishes(c) => /\ <<"local_start_confirmed", c>> \in log
                                              /\ <<"expired", c>> \notin log]_vars
    BY DEF PlatformInv, ConfirmationInv, Publishes, Publishing, IsConfirmed, IsExpired
<1> QED
    BY <1>1, PlatformInvariant, PTL DEF Spec, OnlyConfirmedStartsRun

\* A confirmed START is published once between two starts of the bridge.
THEOREM ConfirmedStartsArePublishedOnce == Spec => ConfirmedStartRunsOnce
<1>1. PlatformInv /\ [Next]_vars => [\A c \in Confirmed : Publishes(c) => c \notin sent]_vars
    BY DEF PlatformInv, SentInv, Publishes, Publishing
<1> QED
    BY <1>1, PlatformInvariant, PTL DEF Spec, ConfirmedStartRunsOnce

=============================================================================
