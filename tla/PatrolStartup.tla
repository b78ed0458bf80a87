---------------------------- MODULE PatrolStartup ----------------------------
(***************************************************************************)
(* What sets the patrol executor off (patrol_executor_node.py): the        *)
(* start-up timer with its series of initial poses, commands, redelivered  *)
(* ones among them, and interval schedules.  What a patrol does once it    *)
(* runs is the matter of PatrolExecutor: here it is "active" until it ends *)
(* or is ended.                                                            *)
(***************************************************************************)
EXTENDS Naturals, Sequences

CONSTANTS
  Requests,      \* request ids of start commands
  Nobody,        \* no id: a schedule, the automatic start, a plain command
  Memory,        \* request ids remembered: 64
  PoseCount,     \* initial_pose_publish_count
  MaxPatrols     \* bound: patrols ever started

VARIABLES
  state,       \* "idle", "waiting_schedule", "active", "terminal"
  booting,     \* the start-up timer has not fired
  autoStart,   \* _auto_start_after_initial_pose
  remaining,   \* _initial_pose_remaining; its timer exists while it is not 0
  loaded,      \* _route_data
  seen,        \* _seen_start_request_ids
  shown,       \* start_request_id, which status and events carry
  due,         \* the schedule: its period is over, or it never started
  patrol,      \* history: how many patrols started, and who asked for the last
  others       \* history: requests remembered since each started a patrol,
               \* up to Memory; Memory, too, for one that never did

vars == <<state, booting, autoStart, remaining, loaded, seen, shown, due, patrol,
          others>>

TypeOK ==
  /\ state \in {"idle", "waiting_schedule", "active", "terminal"}
  /\ {booting, autoStart, loaded, due} \subseteq BOOLEAN
  /\ remaining \in 0 .. PoseCount
  /\ seen \in Seq(Requests) /\ Len(seen) <= Memory
  /\ shown \in Requests \cup {Nobody}
  /\ patrol \in [n : 0 .. MaxPatrols, by : Requests \cup {Nobody}]
  /\ others \in [Requests -> 0 .. Memory]

Init ==
  /\ state = "idle" /\ booting = TRUE /\ autoStart = FALSE /\ remaining = 0
  /\ loaded \in BOOLEAN /\ seen = <<>> /\ shown = Nobody /\ due = TRUE
  /\ patrol = [n |-> 0, by |-> Nobody] /\ others = [r \in Requests |-> Memory]

(***************************************************************************)
(* Starting a patrol                                                       *)
(***************************************************************************)
Begun(by) ==
  /\ patrol.n < MaxPatrols /\ patrol' = [n |-> patrol.n + 1, by |-> by]
  /\ loaded' = TRUE
  /\ state' \in {"active", "terminal"}     \* a route without targets is over

\* The file, the route or its targets are not there.
FailedToStart ==
  state' = "terminal" /\ loaded' \in BOOLEAN /\ UNCHANGED patrol

\* _start_route_from_file.  A patrol on its way is left alone.
StartRouteFromFile(by) ==
  \/ state # "active" /\ (Begun(by) \/ FailedToStart)
  \/ state = "active" /\ UNCHANGED <<state, loaded, patrol>>

Known(r) == \E i \in DOMAIN seen : seen[i] = r
Remember(r) == LET s == Append(seen, r)
               IN IF Len(s) > Memory THEN Tail(s) ELSE s
Count(r) == [q \in Requests |-> IF q = r THEN 0
                                ELSE IF others[q] < Memory THEN others[q] + 1
                                ELSE Memory]

\* Mutant of Start: a duplicate is remembered anew and pushes another id out.
StartRememberingAgain(r) ==
  /\ shown' = r
  /\ IF Known(r)
     THEN seen' = Remember(r) /\ UNCHANGED <<state, loaded, patrol, others>>
     ELSE /\ StartRouteFromFile(r)
          /\ IF patrol' # patrol THEN seen' = Remember(r) /\ others' = Count(r)
             ELSE UNCHANGED <<seen, others>>
  /\ UNCHANGED <<booting, autoStart, remaining, due>>

\* The start command, new or delivered again.  The identity is the command's
\* before anybody has looked at the state.
Start(r) ==
  /\ shown' = r
  /\ IF Known(r) THEN UNCHANGED <<state, loaded, patrol, seen, others>>
     ELSE /\ StartRouteFromFile(r)
          /\ IF patrol' # patrol THEN seen' = Remember(r) /\ others' = Count(r)
             ELSE UNCHANGED <<seen, others>>
  /\ UNCHANGED <<booting, autoStart, remaining, due>>

\* go_to_target, and a start without an id, which clears the identity.
PlainStart ==
  /\ StartRouteFromFile(Nobody) /\ shown' \in {shown, Nobody}
  /\ UNCHANGED <<booting, autoStart, remaining, seen, due, others>>

\* The patrol ends by itself, is canceled or failed.
PatrolEnds ==
  /\ state = "active" /\ state' = "terminal"
  /\ UNCHANGED <<booting, autoStart, remaining, loaded, seen, shown, due, patrol,
                 others>>

ResetTerminalState ==
  /\ state = "terminal" /\ state' \in {"idle", "waiting_schedule"}
  /\ (state' = "waiting_schedule") => loaded
  /\ UNCHANGED <<booting, autoStart, remaining, loaded, seen, shown, due, patrol,
                 others>>

(***************************************************************************)
(* The initial pose                                                        *)
(***************************************************************************)
\* _publish_one_initial_pose: after the last of the series the patrol starts
\* if that was wanted, whatever has been started and ended since.
PoseSent(left, auto) ==
  /\ remaining' = left
  /\ IF left = 0 /\ auto THEN autoStart' = FALSE /\ StartRouteFromFile(Nobody)
     ELSE autoStart' = auto /\ loaded' = TRUE /\ UNCHANGED <<state, patrol>>

\* _on_startup_timer, with either value of auto_start and of
\* publish_initial_pose_on_startup.
OnStartupTimer ==
  /\ booting /\ booting' = FALSE
  /\ \E auto \in BOOLEAN :
       \/ loaded /\ PoseSent(PoseCount - 1, auto)
       \/ /\ autoStart' = FALSE /\ UNCHANGED remaining
          /\ IF auto THEN StartRouteFromFile(Nobody)
             ELSE UNCHANGED <<state, loaded, patrol>>
  /\ UNCHANGED <<seen, shown, due, others>>

\* The timer of the series goes on whatever the state.
PublishOneInitialPose ==
  /\ remaining > 0 /\ loaded /\ PoseSent(remaining - 1, autoStart)
  /\ UNCHANGED <<booting, seen, shown, due, others>>

\* relocalize: only at rest, with the file loaded again; the series begins
\* anew.
Relocalize ==
  /\ state # "active"
  /\ \/ loaded' = FALSE /\ UNCHANGED <<remaining, autoStart, state, patrol>>
     \/ PoseSent(PoseCount - 1, autoStart)
  /\ UNCHANGED <<booting, seen, shown, due, others>>

(***************************************************************************)
(* Schedules                                                               *)
(***************************************************************************)
\* _check_schedules: only at rest; one that could not be started is due
\* again at once.
CheckSchedules ==
  /\ loaded /\ due /\ state \in {"idle", "waiting_schedule"}
  /\ StartRouteFromFile(Nobody) /\ due' = (patrol' = patrol)
  /\ UNCHANGED <<booting, autoStart, remaining, seen, shown, others>>

PeriodPasses ==
  /\ ~ due /\ due' = TRUE
  /\ UNCHANGED <<state, booting, autoStart, remaining, loaded, seen, shown, patrol,
                 others>>

Next ==
  \/ \E r \in Requests : Start(r)
  \/ PlainStart \/ PatrolEnds \/ ResetTerminalState
  \/ OnStartupTimer \/ PublishOneInitialPose \/ Relocalize
  \/ CheckSchedules \/ PeriodPasses

Spec == Init /\ [][Next]_vars

(***************************************************************************)
(* Properties                                                              *)
(***************************************************************************)
\* A start command delivered again, at any time and in any order, sets the
\* robot off a second time only after Memory other requests.
RequestStartsOnceStep ==
  (patrol'.n # patrol.n /\ patrol'.by \in Requests)
    => others[patrol'.by] = Memory

RequestStartsOnce == [][RequestStartsOnceStep]_vars

==============================================================================
