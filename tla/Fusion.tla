------------------------------- MODULE Fusion -------------------------------
(***************************************************************************)
(* The multi-source fusion (multisource_fusion_core.py and its node): the  *)
(* pose on the map is carried on by the odometry and drawn, step by step,  *)
(* towards what the receiver, the scan matcher and AMCL measure.  A        *)
(* measurement is used some time after it was taken, at a moment when the  *)
(* robot is somewhere else, and the node hands the same one over again     *)
(* whenever a message about its quality arrives.                           *)
(*                                                                         *)
(* Places lie on a line and the heading is left out; time goes in ticks of *)
(* the freshness timeout's unit and the robot moves one place a tick at    *)
(* most.  Where the robot really is and was is known to the model only.    *)
(* The uncertainty, the reasons and the mode that are published are words  *)
(* of the status message and left out.                                     *)
(***************************************************************************)
EXTENDS Integers

CONSTANTS
  Sources,      \* those in use, of "GNSS", "SCAN_MATCH", "AMCL"
  Span,         \* bound: the robot is at a place in 0 .. Span
  Origin,       \* where on the map the odometry begins to count
  Freshness,    \* freshness_timeout
  Gate,         \* the residual gates
  MaxStep       \* max_correction_step

VARIABLES
  track,       \* history: where the robot was so many ticks ago
  counted,     \* history: where the robot was at the odometry last used
  odom, lag,   \* _local_odom if it is new, and the age of what was used
  measured,    \* the last measurement of a source: its place and its age
  new,         \* its sequence is ahead of the consumed one
  good,        \* accepted, and its state is not REJECTED or STALE
  core         \* _map_pose, _global_anchored, _last_absolute_timestamps

vars == <<track, counted, odom, lag, measured, new, good, core>>

Ages == 0 .. Freshness + 1
Never == Freshness + 1     \* longer ago than any measurement that is used
Distance(p, q) == IF p < q THEN q - p ELSE p - q

TypeOK ==
  /\ track \in [Ages -> 0 .. Span] /\ counted \in 0 .. Span
  /\ odom \in {{}} \cup {{o} : o \in [at : 0 .. Span, age : 0 .. Freshness]} /\ lag \in 0 .. Freshness
  /\ measured \in [Sources -> {{}} \cup {{m} : m \in [at : 0 .. Span, age : Ages]}]
  /\ new \in [Sources -> BOOLEAN] /\ good \in [Sources -> BOOLEAN]
  /\ core.pose \subseteq -Span .. 2 * Span /\ core.anchored \in BOOLEAN
  /\ core.last \in [Sources -> 0 .. Never]

Init ==
  /\ \E p \in 0 .. Span : track = [a \in Ages |-> p] /\ counted = p
  /\ odom = {} /\ lag = 0
  /\ measured = [s \in Sources |-> {}] /\ new = [s \in Sources |-> FALSE]
  /\ good = [s \in Sources |-> FALSE]
  /\ core = [pose |-> {}, anchored |-> FALSE, last |-> [s \in Sources |-> Never]]

Older(a, cap) == IF a = cap THEN cap ELSE a + 1

\* The robot moves and a tick goes by; odometry is not silent for longer than
\* a measurement stays fresh.
Move ==
  /\ lag < Freshness
  /\ \E p \in 0 .. Span :
       /\ Distance(p, track[0]) <= 1
       /\ track' = [a \in Ages |-> IF a = 0 THEN p ELSE track[a - 1]]
  /\ lag' = lag + 1 /\ odom' = {[o EXCEPT !.age = @ + 1] : o \in odom}
  /\ measured' = [s \in Sources |->
       {[m EXCEPT !.age = Older(m.age, Freshness + 1)] : m \in measured[s]}]
  /\ core' = [core EXCEPT !.last = [s \in Sources |-> Older(@[s], Never)]]
  /\ UNCHANGED <<counted, new, good>>

\* _on_odom.
OnOdom ==
  /\ odom' = {[at |-> track[0], age |-> 0]}
  /\ UNCHANGED <<track, counted, lag, measured, new, good, core>>

\* _on_gnss_fix, _on_scan_match_pose, _on_amcl: a measurement taken a while ago
\* arrives.  AMCL's carries its own quality; a fix counts as accepted, though
\* not as fresh, by itself.  One that arrives too late is as good as one that
\* then waits.
OnMeasurement(s) ==
  /\ \E a \in 0 .. Freshness : measured' = [measured EXCEPT ![s] = {[at |-> track[a], age |-> a]}]
  /\ new' = [new EXCEPT ![s] = TRUE]
  /\ IF s = "AMCL" THEN \E q \in BOOLEAN : good' = [good EXCEPT ![s] = q]
     ELSE UNCHANGED good
  /\ UNCHANGED <<track, counted, odom, lag, core>>

\* _on_gnss_quality, _on_match_quality: the sequence goes on as well, and the
\* last measurement is handed over once more.  A quality that has gone stale
\* counts as a bad one, and so does a receiver that is not aligned with the map.
OnQuality(s) ==
  /\ s # "AMCL"
  /\ \E q \in BOOLEAN : good' = [good EXCEPT ![s] = q]
  /\ new' = [new EXCEPT ![s] = TRUE]
  /\ UNCHANGED <<track, counted, odom, lag, measured, core>>

\* _measurement_usable, _gnss_usable.
Usable(s) ==
  /\ s \in Sources /\ new[s] /\ good[s]
  /\ \E m \in measured[s] : m.age <= Freshness

\* _gnss_update and _select_lidar_update: the source that may correct the pose.
Lidar == IF Usable("SCAN_MATCH") THEN {"SCAN_MATCH"}
         ELSE {s \in {"AMCL"} : Usable(s)}
Gnss == {s \in {"GNSS"} : Usable(s)}

\* Where a correction may bring the pose: onto the first measurement, later
\* some part of the way to it (the confidence), a step at most.
Drawn(c, at) ==
  IF ~ c.anchored THEN {at}
  ELSE {p \in -Span .. 2 * Span : \E q \in c.pose :
          /\ Distance(p, q) <= MaxStep
          /\ Distance(p, q) + Distance(p, at) = Distance(q, at)}

\* _apply_absolute_update: not without a pose, not with a measurement that is
\* not newer than the last of its source, and not with one beyond the gate.
Applied(c, s) ==
  LET m == CHOOSE m \in measured[s] : TRUE IN
    IF \/ c.pose = {} \/ m.age >= c.last[s]
       \/ c.anchored /\ \E q \in c.pose : Distance(q, m.at) > Gate
    THEN {c}
    ELSE {[pose |-> {p}, anchored |-> TRUE, last |-> [c.last EXCEPT ![s] = m.age]]
            : p \in Drawn(c, m.at)}

ApplyAny(cs, s) == (UNION {Applied(c, t) : c \in cs, t \in s}) \cup (IF s = {} THEN cs ELSE {})

\* Mutant of Propagated: a pose that is anchored waits for the next measurement.
PropagatedUntilAnchored ==
  IF odom = {} \/ core.anchored THEN core
  ELSE LET o == (CHOOSE o \in odom : TRUE).at IN
         [core EXCEPT !.pose = IF @ = {} THEN {o - Origin} ELSE {q + o - counted : q \in @}]

\* _propagate_odom: the first odometry is the pose; later the pose moves as
\* far as the odometry did.
Propagated ==
  IF odom = {} THEN core
  ELSE LET o == (CHOOSE o \in odom : TRUE).at IN
         [core EXCEPT !.pose = IF @ = {} THEN {o - Origin} ELSE {q + o - counted : q \in @}]

\* process: to begin with the scan matcher or AMCL anchor the pose, and the
\* receiver does only when neither measured anything; later both correct it.
Processed ==
  IF Propagated.anchored THEN ApplyAny(ApplyAny({Propagated}, Gnss), Lidar)
  ELSE ApplyAny({Propagated}, IF Lidar # {} THEN Lidar ELSE Gnss)

\* _tick: everything that is new is handed over, and nothing is new any more.
\* The measurements stay.
Tick ==
  /\ core' \in Processed
  /\ IF odom = {} THEN UNCHANGED <<counted, lag>>
     ELSE \E o \in odom : counted' = o.at /\ lag' = o.age
  /\ odom' = {} /\ new' = [s \in Sources |-> FALSE]
  /\ UNCHANGED <<track, measured, good>>

Next ==
  \/ Move \/ OnOdom \/ Tick
  \/ \E s \in Sources : OnMeasurement(s) \/ OnQuality(s)

Spec == Init /\ [][Next]_vars

\* Once it is anchored the pose is no further from where the odometry left the
\* robot than the robot gets while a measurement stays fresh: a measurement
\* that arrives late, that is handed over again or that comes from another
\* source than the last one, and odometry that comes in between, do not add up
\* (MultisourceFusionCore.process).
ErrorStaysSmall ==
  core.anchored => \A p \in core.pose : Distance(p, counted) <= Freshness
=============================================================================
