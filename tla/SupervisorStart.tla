--------------------------- MODULE SupervisorStart ---------------------------
(* How the system supervisor starts a patrol and takes it down again          *)
(* (system_supervisor_node.py).  Every command runs in a thread of its own;   *)
(* a start is a transaction of many waits, which a later cancel, stop or      *)
(* emergency stop overtakes by moving startup_generation on.  The status      *)
(* callback runs in the ROS thread and takes an ended transaction down too.   *)
(*                                                                            *)
(* A generation is known by the thread that started it: `current` is the      *)
(* thread whose generation is startup_generation and whose cancel event is    *)
(* clear, or NoThread.  cancel_patrol_start is one step; patrol_mode_state,   *)
(* which no step below reads, is left to RuntimeGuard.  "camera" stands for   *)
(* zed and perception.  What a wait finds is any outcome its processes allow. *)
EXTENDS Naturals, FiniteSets, Sequences, SequencesExt

CONSTANTS Threads,     \* threads that carry out commands
          NoThread,
          ByHand,      \* components somebody starts and stops by hand
          MayExit,     \* components that may exit by themselves
          MaxCommands  \* bound on commands and exits

Processes == {"bringup", "camera", "navigation", "patrol_executor"}
ShutdownOrder == <<"patrol_executor", "navigation", "camera", "bringup">>

(* The commands and, of these, the ones of which only one runs at a time.     *)
Starts == {"start_patrol_mode", "start_platform_patrol", "go_to_checkpoint"}
LongRunning == {"start_patrol_mode", "go_to_checkpoint", "stop_patrol_mode"}

VARIABLES current,      \* startup_generation and patrol_start_cancel_event
          startActive,  \* patrol_start_active
          kind,         \* patrol_transaction_kind
          preexisting, owned,   \* the transaction's components
          running,      \* ManagedProcess.is_running
          lastAck,      \* last_patrol_command_ack
          thread,       \* what each command thread does
          ros,          \* components the status callback is still taking down
          patrol,       \* the executor's state
          since,        \* running since before the latest transaction began
          given         \* commands and exits so far

vars == <<current, startActive, kind, preexisting, owned, running, lastAck,
          thread, ros, patrol, since, given>>

Idle == [command |-> "none", pc |-> "idle", left |-> <<>>, sent |-> 0,
         overtaken |-> FALSE]

\* The waits of _start_patrol_transaction that go through gate(), with the process
\* each of them needs and what follows it: those for the sensors, and those for
\* Nav2's lifecycles, the pose and the map, which differ in nothing modelled here.
Gates == {"sensors", "localized"}
GateProcess == [sensors |-> "bringup", localized |-> "navigation"]
AfterGate == [sensors |-> "camera", localized |-> "executor"]
BeforeExecutor == Gates \union {"bringup", "camera", "navigation"}

Init ==
  /\ current = NoThread /\ startActive = FALSE
  /\ kind = "none"
  /\ preexisting = {} /\ owned = {} /\ running = {} /\ since = {}
  /\ lastAck = NoThread
  /\ thread = [t \in Threads |-> Idle]
  /\ ros = [sweeping |-> FALSE, left |-> <<>>]
  /\ patrol = "idle"
  /\ given = 0

-----------------------------------------------------------------------------
(* Shared pieces                                                              *)

\* cancel_patrol_start: nobody is current any more.  Whoever was is marked when it
\* still had the executor before it.
Overtaken(th) ==
  [u \in Threads |-> IF u = current /\ th[u].pc \in BeforeExecutor
                     THEN [th[u] EXCEPT !.overtaken = TRUE] ELSE th[u]]
CancelStart(th) ==
  /\ current' = NoThread
  /\ startActive' = FALSE
  /\ thread' = Overtaken(th)

Stop(names) ==
  /\ running' = running \ names
  /\ since' = since \ names
  /\ patrol' = IF "patrol_executor" \in names THEN "idle" ELSE patrol
Start(name) == running' = running \union {name}

\* The components among names, in the order they are taken down.
Only(i, names) == IF ShutdownOrder[i] \in names THEN <<ShutdownOrder[i]>> ELSE <<>>
InOrder(names) == Only(1, names) \o Only(2, names) \o Only(3, names) \o Only(4, names)

\* What cleanup_checkpoint_transaction takes down.
Components == IF owned # {} THEN owned ELSE running \ preexisting

\* A command thread ends; start_patrol_mode's finally clause clears the flag of a
\* start that is still current.
Ends(t) ==
  /\ thread' = [thread EXCEPT ![t] = Idle]
  /\ startActive' = (startActive /\ current # t)
  /\ UNCHANGED current

\* fail_patrol_start: a start that was overtaken reports nothing and stops nothing.
Fail(t) ==
  IF current # t
  THEN Ends(t)
  ELSE CancelStart([thread EXCEPT
         ![t].pc = "sweep",
         ![t].left = InOrder(IF kind = "checkpoint" THEN Components ELSE Processes)])

Goes(t, pc) ==
  /\ thread' = [thread EXCEPT ![t].pc = pc]
  /\ UNCHANGED <<current, startActive>>

\* publish_patrol_command(start): the executor, if it runs and drives nothing,
\* accepts the command, and says so in an event of its own.
Publish(t, pc) ==
  /\ thread' = [thread EXCEPT ![t].pc = pc, ![t].sent = @ + 1]
  /\ IF "patrol_executor" \in running /\ patrol # "running"
     THEN patrol' = "running" /\ lastAck' = t
     ELSE UNCHANGED <<patrol, lastAck>>

-----------------------------------------------------------------------------
(* The start transaction                                                      *)

\* A command is heard while the ROS thread is free, within the bound.
Given ==
  /\ ~ros.sweeping
  /\ given < MaxCommands /\ given' = given + 1

Executing(c) == \E t \in Threads : thread[t].command = c

\* command_callback, try_mark_command_inflight, start_patrol_mode.
Begins(t, listed) ==
  /\ Given /\ thread[t].pc = "idle"
  /\ \E c \in Starts :
       /\ c \in LongRunning => ~Executing(c)
       /\ ~startActive
       /\ startActive' = TRUE
       /\ kind' = IF c = "go_to_checkpoint" THEN "checkpoint" ELSE "route"
       /\ thread' = [Overtaken(thread) EXCEPT ![t] =
            [Idle EXCEPT !.command = c, !.pc = "bringup"]]
  /\ current' = t
  /\ preexisting' = running /\ since' = running
  /\ owned' = listed
  /\ lastAck' = NoThread
  /\ UNCHANGED <<running, ros, patrol>>

\* Mutant of StartPatrol: the components of an earlier transaction stay listed.
StartPatrolKeepingOwned(t) == Begins(t, owned)

StartPatrol(t) == Begins(t, {})

commandUnchanged == <<kind, preexisting, owned, lastAck, ros>>
transactionUnchanged == <<commandUnchanged, given>>

\* Components are started without a look at the generation.  The assets of the
\* route, prepared first, may fail a start too; only an inspection needs the camera.
StartComponent(t) ==
  /\ thread[t].pc \in {"bringup", "camera", "navigation"}
  /\ LET name == thread[t].pc
         next == [bringup |-> "sensors", camera |-> "navigation",
                  navigation |-> "localized"][name]
     IN \/ Start(name) /\ Goes(t, next)
        \/ name = "camera" /\ Goes(t, next) /\ UNCHANGED running
        \/ Fail(t) /\ UNCHANGED running
  /\ UNCHANGED <<transactionUnchanged, patrol, since>>

\* Mutant of Gate: a wait that succeeded goes on without looking at the generation.
GateUnchecked(t) ==
  /\ thread[t].pc \in Gates
  /\ LET g == thread[t].pc
     IN \/ GateProcess[g] \in running /\ Goes(t, AfterGate[g])
        \/ Fail(t)
  /\ UNCHANGED <<transactionUnchanged, running, patrol, since>>

\* gate(): an overtaken start ends without a word, a wait that failed fails it.
Gate(t) ==
  /\ thread[t].pc \in Gates
  /\ LET g == thread[t].pc
     IN \/ current # t /\ Ends(t)
        \/ current = t /\ GateProcess[g] \in running /\ Goes(t, AfterGate[g])
        \/ current = t /\ Fail(t)
  /\ UNCHANGED <<transactionUnchanged, running, patrol, since>>

\* start_process('patrol_executor').
StartExecutor(t) ==
  /\ thread[t].pc = "executor"
  /\ \/ Start("patrol_executor") /\ Goes(t, "ready")
     \/ "patrol_executor" \notin running /\ Fail(t) /\ UNCHANGED running
  /\ UNCHANGED <<transactionUnchanged, patrol, since>>

\* The three waits for the executor do not look at the generation either.
ExecutorReady(t) ==
  /\ thread[t].pc = "ready"
  /\ \/ "patrol_executor" \in running /\ Goes(t, "publish")
     \/ Fail(t)
  /\ UNCHANGED <<transactionUnchanged, running, patrol, since>>

PublishStart(t) ==
  /\ thread[t].pc = "publish"
  /\ Publish(t, "ack")
  /\ UNCHANGED <<kind, preexisting, owned, ros, given, current, startActive, running, since>>

\* wait_for_patrol_command_ack, which ends early when the start is overtaken.
WaitForAck(t) ==
  /\ thread[t].pc \in {"ack", "ack2"}
  /\ \/ current = t /\ lastAck = t /\ Goes(t, "own")
     \/ thread[t].pc = "ack" /\ Goes(t, "again")
     \/ thread[t].pc = "ack2" /\ Fail(t)
  /\ UNCHANGED <<transactionUnchanged, running, patrol, since>>

\* The command is repeated once, by a start that is still current.
PublishAgain(t) ==
  /\ thread[t].pc = "again"
  /\ IF current = t THEN Publish(t, "ack2")
     ELSE /\ thread' = [thread EXCEPT ![t].pc = "ack2"]
          /\ UNCHANGED <<patrol, lastAck>>
  /\ UNCHANGED <<kind, preexisting, owned, ros, given, current, startActive, running, since>>

Own(t) ==
  /\ thread[t].pc = "own"
  /\ owned' = running \ preexisting
  /\ Ends(t)
  /\ UNCHANGED <<kind, preexisting, lastAck, ros, given, running, patrol, since>>

-----------------------------------------------------------------------------
(* Taking down                                                                *)

\* stop_process of one component; bringup, navigation and the executor cancel
\* whatever start is under way.
StopNext(name, th) ==
  /\ Stop({name})
  /\ IF name = "camera"
     THEN thread' = th /\ UNCHANGED <<current, startActive>>
     ELSE CancelStart(th)

\* The failing start's thread, and the thread of stop_patrol_mode.
Sweep(t) ==
  /\ thread[t].pc = "sweep" /\ thread[t].left # <<>>
  /\ StopNext(Head(thread[t].left), [thread EXCEPT ![t].left = Tail(@)])
  /\ UNCHANGED <<transactionUnchanged>>

Swept(t) ==
  /\ thread[t].pc = "sweep" /\ thread[t].left = <<>>
  /\ owned' = IF thread[t].command \in Starts /\ kind = "checkpoint" THEN {} ELSE owned
  /\ Ends(t)
  /\ UNCHANGED <<kind, preexisting, lastAck, ros, given, running, patrol, since>>

\* handle_command: cancel_patrol and emergency_stop end at once; the executor, if it
\* runs, hears the cancel.
CancelPatrol(t) ==
  /\ Given /\ thread[t].pc = "idle"
  /\ CancelStart(thread)
  /\ patrol' = IF patrol = "running" THEN "ended" ELSE patrol
  /\ UNCHANGED <<commandUnchanged, running, since>>

EmergencyStop(t) ==
  /\ Given /\ thread[t].pc = "idle"
  /\ CancelStart(thread)
  /\ UNCHANGED <<commandUnchanged, running, patrol, since>>

StopPatrolMode(t) ==
  /\ Given /\ thread[t].pc = "idle"
  /\ ~Executing("stop_patrol_mode")
  /\ CancelStart([thread EXCEPT ![t] =
       [Idle EXCEPT !.command = "stop_patrol_mode", !.pc = "sweep", !.left = ShutdownOrder]])
  /\ patrol' = IF patrol = "running" THEN "ended" ELSE patrol
  /\ UNCHANGED <<commandUnchanged, running, since>>

\* start_<process> and stop_<process> by hand.
StartByHand(name) ==
  /\ Given
  /\ name \notin running
  /\ Start(name)
  /\ UNCHANGED <<current, startActive, commandUnchanged, thread, patrol, since>>

StopByHand(name) ==
  /\ Given
  /\ name \in running
  /\ StopNext(name, thread)
  /\ UNCHANGED <<commandUnchanged>>

-----------------------------------------------------------------------------
(* The ROS thread, the executor and the operating system                      *)

\* patrol_status_callback: the end of a patrol takes the transaction's components down.
PatrolStatus ==
  /\ ~ros.sweeping
  /\ "patrol_executor" \in running /\ patrol # "idle"
  /\ ros' = IF patrol = "ended" /\ kind # "none"
            THEN [sweeping |-> TRUE, left |-> InOrder(Components)] ELSE ros
  /\ UNCHANGED <<current, startActive, kind, preexisting, owned, running, lastAck,
                 thread, patrol, since, given>>

StatusSweep ==
  /\ ros.sweeping /\ ros.left # <<>>
  /\ StopNext(Head(ros.left), thread)
  /\ ros' = [ros EXCEPT !.left = Tail(@)]
  /\ UNCHANGED <<kind, preexisting, owned, lastAck, given>>

StatusSwept ==
  /\ ros.sweeping /\ ros.left = <<>>
  /\ ros' = [ros EXCEPT !.sweeping = FALSE]
  /\ owned' = {} /\ kind' = "none"
  /\ UNCHANGED <<current, startActive, preexisting, running, lastAck, thread,
                 patrol, since, given>>

\* The executor ends its patrol, and later forgets it.
PatrolEnds ==
  /\ patrol' = CASE patrol = "running" -> "ended" [] patrol = "ended" -> "idle"
                 [] OTHER -> "idle"
  /\ patrol # "idle"
  /\ UNCHANGED <<current, startActive, transactionUnchanged, running, thread, since>>

Exits(name) ==
  /\ name \in running
  /\ given < MaxCommands /\ given' = given + 1
  /\ Stop({name})
  /\ UNCHANGED <<current, startActive, commandUnchanged, thread>>

-----------------------------------------------------------------------------
Transaction(t) ==
  \/ StartComponent(t) \/ Gate(t) \/ StartExecutor(t) \/ ExecutorReady(t)
  \/ PublishStart(t) \/ WaitForAck(t) \/ PublishAgain(t) \/ Own(t)
  \/ Sweep(t) \/ Swept(t)

Next ==
  \/ \E t \in Threads : \/ StartPatrol(t) \/ CancelPatrol(t) \/ EmergencyStop(t)
                        \/ StopPatrolMode(t) \/ Transaction(t)
  \/ \E name \in ByHand : StartByHand(name) \/ StopByHand(name)
  \/ \E name \in MayExit : Exits(name)
  \/ PatrolStatus \/ StatusSweep \/ StatusSwept \/ PatrolEnds

Spec == Init /\ [][Next]_vars

-----------------------------------------------------------------------------
(* Every variable keeps to its values, in every interleaving of the threads.  *)
TypeOK ==
  /\ current \in Threads \union {NoThread}
  /\ startActive \in BOOLEAN
  /\ kind \in {"none", "route", "checkpoint"}
  /\ preexisting \subseteq Processes /\ owned \subseteq Processes
  /\ running \subseteq Processes /\ since \subseteq running
  /\ lastAck \in Threads \union {NoThread}
  /\ \A t \in Threads : thread[t].sent \in 0..2
  /\ patrol \in {"idle", "running", "ended"}

(* A start that is cancelled, stopped or superseded before it sets out to start *)
(* the executor never publishes its command, however the waits it is in end,    *)
(* and a later one publishes at most the command it was about to publish.       *)
CanceledStartIsDroppedStep ==
  \A t \in Threads :
    thread'[t].sent > thread[t].sent
      => ~thread[t].overtaken /\ (thread[t].sent > 0 => current = t)

CanceledStartIsDropped == [][CanceledStartIsDroppedStep]_vars

(* What takes a transaction down when its patrol ends never reaches a component *)
(* that has been running since before the transaction began.                    *)
KeepsWhatWasThereStep ==
  ~ros.sweeping /\ ros'.sweeping
    => \A name \in since : ~Contains(ros'.left, name)

KeepsWhatWasThere == [][KeepsWhatWasThereStep]_vars
==============================================================================
