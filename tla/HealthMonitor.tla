--------------------------- MODULE HealthMonitor ---------------------------
(***************************************************************************)
(* The agent's watch over the robot: what it hears of the supervisor and   *)
(* of the sensors (robot_status_aggregator.py), the faults it finds there  *)
(* (robot_diagnostics.py) and the timer that announces those that last and *)
(* asks the supervisor to restart what may be restarted                    *)
(* (health_monitor_tick of inspection_agent_node.py, with                  *)
(* enable_agent_auto_recovery).  What the supervisor makes of the request  *)
(* is RuntimeGuard.                                                        *)
(***************************************************************************)
EXTENDS Naturals

CONSTANTS
  Statuses,     \* the system_status messages of the supervisor that may be heard
  Sources,      \* topics with a freshness: chassis, odom, scan, imu, perception, voice
  Debounce,     \* health_issue_debounce_sec, in ticks of the timer
  Cooldown      \* the longer of the two cooldowns, in ticks

VARIABLES
  system,       \* system_status as last heard, or Unheard; it is never stale
  executor,     \* the state in the last patrol_status, or "none"
  heard,        \* "never", "fresh" or "stale", for each source
  chassis,      \* what the last chassis_status says
  since,        \* health_issue_first_seen: the age of each issue, up to Debounce,
                \* or Unseen; one of age Debounce has been announced
  recovered,    \* components with their issue in health_auto_recovered_incidents
  cool,         \* ticks since health_last_recovery_at, up to Cooldown
  asked,        \* history: requests since the last report without the issue
  calm, gap     \* history: ticks since the last request, and between the last two

vars == <<system, executor, heard, chassis, since, recovered, cool, asked, calm, gap>>

Patrols == {"idle", "busy", "waiting"}
Sensors == Sources \cap {"scan", "imu", "odom"}

\* What a status tells of, up being what is well: the processes, Nav2, and the
\* patrol when it has no patrol_error.
StatusOK(s) ==
  /\ s.up \subseteq {"bridge", "bringup", "mapping", "navigation", "nav2", "perception", "zed",
                     "patrol"}
  /\ s.owner \in {"supervisor", "systemd"} /\ s.patrol \in Patrols
  /\ s.published \subseteq Sensors
Unheard == [up |-> {}, owner |-> "unknown", patrol |-> "unknown", published |-> Sensors]

\* What a component is restarted for.
Cause == [mobile_bridge |-> <<"bridge", "STOPPED">>, perception |-> <<"perception", "STOPPED">>]
Components == DOMAIN Cause

Issues ==
  {<<"bridge", "STOPPED">>, <<"perception", "STOPPED">>, <<"navigation", "NOT_ACTIVE">>,
   <<"zed", "NOT_RUNNING">>, <<"perception", "STALE">>, <<"patrol", "ERROR">>,
   <<"voice", "STALE">>}
  \cup {"base"} \X {"STATUS_MISSING", "FAULT", "HEARTBEAT_MISSING", "ODOM_STALE"}
  \cup Sensors \X {"STALE", "NO_PUBLISHER"}
Unseen == Debounce + 1

TypeOK ==
  /\ system = Unheard \/ StatusOK(system)
  /\ executor \in Patrols \cup {"none"}
  /\ heard \in [Sources -> {"never", "fresh", "stale"}]
  /\ chassis \in {"online", "fault", "deaf", "other"}
  /\ since \in [Issues -> 0 .. Unseen] /\ recovered \subseteq Components
  /\ cool \in [Components -> 0 .. Cooldown] /\ asked \in [Components -> 0 .. 2]
  /\ calm \in [Components -> 0 .. Cooldown] /\ gap \in [Components -> 0 .. Cooldown]

\* The clock is that of the machine, which may have been up for less than the
\* cooldown.
Init ==
  /\ system = Unheard /\ executor = "none" /\ heard = [s \in Sources |-> "never"]
  /\ chassis = "online" /\ since = [i \in Issues |-> Unseen] /\ recovered = {}
  /\ \E c \in 0 .. Cooldown : cool = [k \in Components |-> c]
  /\ asked = [k \in Components |-> 0] /\ calm = [k \in Components |-> Cooldown]
  /\ gap = [k \in Components |-> Cooldown]

-----------------------------------------------------------------------------
OnSystemStatus(s) ==
  /\ system' = s
  /\ UNCHANGED <<executor, heard, chassis, since, recovered, cool, asked, calm, gap>>

OnPatrolStatus(p) ==
  /\ executor' = p
  /\ UNCHANGED <<system, heard, chassis, since, recovered, cool, asked, calm, gap>>

\* update of the aggregator: a message of a source.
Heard(s) ==
  /\ heard' = [heard EXCEPT ![s] = "fresh"]
  /\ IF s = "chassis" THEN chassis' \in {"online", "fault", "deaf", "other"} ELSE UNCHANGED chassis
  /\ UNCHANGED <<system, executor, since, recovered, cool, asked, calm, gap>>

\* No message of a source for longer than its max_age_sec.
FallsSilent(s) ==
  /\ heard[s] = "fresh" /\ heard' = [heard EXCEPT ![s] = "stale"]
  /\ UNCHANGED <<system, executor, chassis, since, recovered, cool, asked, calm, gap>>

-----------------------------------------------------------------------------
Up(p) == p \in system.up
Fresh(s) == s \in Sources /\ heard[s] = "fresh"

\* The mode the supervisor puts into its status.
Mode == IF system.patrol \in {"busy", "waiting"}
          THEN IF Up("perception") THEN "inspection" ELSE "patrol"
          ELSE IF Up("mapping") THEN "mapping" ELSE IF Up("navigation") THEN "navigation" ELSE "other"

Base == IF ~Fresh("chassis") THEN {<<"base", "STATUS_MISSING">>}
        ELSE IF chassis = "fault" THEN {<<"base", "FAULT">>}
        ELSE IF chassis = "deaf" THEN {<<"base", "HEARTBEAT_MISSING">>}
        ELSE IF chassis = "online" /\ ~Fresh("odom") THEN {<<"base", "ODOM_STALE">>} ELSE {}

Silent == {<<s, IF s \in system.published THEN "STALE" ELSE "NO_PUBLISHER">> :
             s \in {t \in Sensors : ~Fresh(t)}}

Navigation == IF (Mode \in {"navigation", "patrol", "inspection"} \/ Up("navigation")) /\ ~Up("nav2")
                THEN {<<"navigation", "NOT_ACTIVE">>} ELSE {}

Perception == IF ~Up("perception") THEN {<<"perception", "STOPPED">>}
              ELSE IF ~Up("zed") THEN {<<"zed", "NOT_RUNNING">>}
              ELSE IF ~Fresh("perception") THEN {<<"perception", "STALE">>} ELSE {}

\* run_self_check of everything, parts that the mode does not need left out.
Found ==
  (IF Up("bridge") THEN {} ELSE {<<"bridge", "STOPPED">>})
    \cup (IF Up("bringup") THEN Base \cup Silent ELSE {})
    \cup Navigation
    \cup (IF Mode # "inspection" /\ ~Up("perception") THEN {} ELSE Perception)
    \cup (IF Mode \in {"patrol", "inspection"} /\ ~Up("patrol") THEN {<<"patrol", "ERROR">>} ELSE {})
    \cup (IF "voice" \in Sources /\ heard["voice"] = "stale" THEN {<<"voice", "STALE">>} ELSE {})

\* The ages at a tick; an issue that is gone is forgotten.
Aged == [i \in Issues |-> IF i \notin Found THEN Unseen
                          ELSE IF since[i] = Unseen THEN 0
                          ELSE IF since[i] < Debounce THEN since[i] + 1 ELSE Debounce]
Lasting == {i \in Found : since[i] # Unseen /\ Aged[i] = Debounce}

Later(t) == [c \in Components |-> IF t[c] < Cooldown THEN t[c] + 1 ELSE Cooldown]

\* The state of the patrol as the agent has it, from the executor if it spoke.
PatrolState == IF executor = "none" THEN system.patrol ELSE executor

Allowed(c) == IF c = "mobile_bridge" THEN system.owner = "supervisor" ELSE PatrolState # "busy"

\* try_auto_recover: the components whose restart is asked for at this tick.
Requests == {c \in Components : /\ Cause[c] \in Lasting /\ Allowed(c)
                                /\ c \notin recovered /\ Later(cool)[c] = Cooldown}

HealthMonitorTick ==
  /\ since' = Aged
  /\ recovered' = {c \in recovered \cup Requests : Cause[c] \in Found}
  /\ cool' = [c \in Components |-> IF c \in Requests THEN 0 ELSE Later(cool)[c]]
  /\ asked' = [c \in Components |-> IF Cause[c] \notin Found THEN 0
                 ELSE IF c \in Requests /\ asked[c] < 2 THEN asked[c] + 1 ELSE asked[c]]
  /\ calm' = [c \in Components |-> IF c \in Requests THEN 0 ELSE Later(calm)[c]]
  /\ gap' = [c \in Components |-> IF c \in Requests THEN Later(calm)[c] ELSE gap[c]]
  /\ UNCHANGED <<system, executor, heard, chassis>>

Next ==
  \/ HealthMonitorTick
  \/ \E s \in Statuses : OnSystemStatus(s)
  \/ \E p \in Patrols : OnPatrolStatus(p)
  \/ \E s \in Sources : Heard(s) \/ FallsSilent(s)

Spec == Init /\ [][Next]_vars

(***************************************************************************)
(* Properties                                                              *)
(***************************************************************************)
\* A restart is asked for once for every fault, however long it lasts, and two
\* faults in a row do not make two restarts within the cooldown.
OneRepairPerFault ==
  \A c \in Components : asked[c] <= 1 /\ gap[c] = Cooldown

\* The restart of the perception is never asked for: the mode is inspection
\* only in a status that has the perception running, and outside that mode a
\* stopped perception is no fault.
PerceptionIsLeftDown ==
  <<"perception", "STOPPED">> \notin Found /\ asked["perception"] = 0
=============================================================================
