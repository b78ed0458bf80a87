------------------------ MODULE SwingRelocalization ------------------------
(***************************************************************************)
(* The small swing that helps AMCL to converge                             *)
(* (amcl_swing_relocalization_node.py): the robot is turned to and fro by  *)
(* segments, each relative to the heading that odometry tells at its       *)
(* start, and rests after each.  A heading is counted in what the robot    *)
(* turns by in one control period.  The robot may not turn although it is  *)
(* told to, and odometry comes late, or from some time on not at all.      *)
(***************************************************************************)
EXTENDS Integers, Sequences

CONSTANTS
  Segments,      \* the turns of all cycles, one after the other
  Tolerance,     \* yaw_tolerance
  Timeout,       \* segment_timeout, in control periods
  Settle,        \* settle_seconds, in control periods
  MaxLag         \* bound: how old the last odometry is while it comes, not more
                 \* than Settle

VARIABLES
  yaw,         \* _yaw, or Unknown
  heading,     \* external: where the robot points
  lag,         \* external: control periods since yaw was heard
  odometry,    \* external: odometry comes
  next,        \* _segment_index, from 1
  target,      \* _target_yaw, or Unknown
  elapsed,     \* control periods since _segment_started
  rest,        \* control periods until _settle_until, or None
  command,     \* the turn last published
  ended        \* "no", "complete", "failed" (a timeout) or "stopped" (by hand)

vars == <<yaw, heading, lag, odometry, next, target, elapsed, rest, command, ended>>

Count == Len(Segments)
Sum[n \in 0 .. Count] == IF n = 0 THEN 0 ELSE Sum[n - 1] + Segments[n]
Error == Tolerance + MaxLag
\* How far from its first heading the robot may come to be.
Reach == LET ends == {Sum[n] : n \in 0 .. Count} \cup {-Sum[n] : n \in 0 .. Count}
         IN (CHOOSE n \in ends : \A m \in ends : m <= n) + Count * Error + Timeout + 1
Unknown == 3 * Reach
None == Settle + 1

TypeOK ==
  /\ heading \in -Reach .. Reach /\ yaw \in -Reach .. Reach \cup {Unknown}
  /\ lag \in 0 .. MaxLag /\ odometry \in BOOLEAN
  /\ next \in 1 .. Count + 1 /\ target \in -(2 * Reach) .. 2 * Reach \cup {Unknown}
  /\ elapsed \in 0 .. Timeout + 1 /\ rest \in 0 .. None
  /\ command \in {-1, 0, 1} /\ ended \in {"no", "complete", "failed", "stopped"}

Init ==
  /\ yaw = Unknown /\ heading = 0 /\ lag = 0 /\ odometry = TRUE
  /\ next = 1 /\ target = Unknown /\ elapsed = 0 /\ rest = None
  /\ command = 0 /\ ended = "no"

-----------------------------------------------------------------------------
OnOdom ==
  /\ odometry /\ yaw' = heading /\ lag' = 0
  /\ UNCHANGED <<heading, odometry, next, target, elapsed, rest, command, ended>>

OdometryEnds ==
  /\ odometry /\ odometry' = FALSE /\ lag' = 0
  /\ UNCHANGED <<yaw, heading, next, target, elapsed, rest, command, ended>>

-----------------------------------------------------------------------------
\* The cases of _tick.  Without odometry: wait.
Wait == /\ yaw = Unknown /\ command' = 0 /\ UNCHANGED <<next, target, elapsed, rest, ended>>

\* _start_next_segment, which ends the program after the last.
StartNextSegment ==
  IF next > Count
    THEN ended' = "complete" /\ command' = 0 /\ UNCHANGED <<next, target, elapsed>>
    ELSE /\ target' = yaw + Segments[next] /\ next' = next + 1 /\ elapsed' = 0
         /\ command' = 0 /\ UNCHANGED ended

Begin == yaw # Unknown /\ rest = None /\ target = Unknown /\ StartNextSegment /\ UNCHANGED rest

Resting ==
  /\ yaw # Unknown /\ rest # None
  /\ IF rest = 0 THEN rest' = None /\ StartNextSegment
                 ELSE /\ rest' = rest - 1 /\ command' = 0
                      /\ UNCHANGED <<next, target, elapsed, ended>>

Turning == yaw # Unknown /\ rest = None /\ target # Unknown
Reached == target - yaw \in -Tolerance .. Tolerance

Arrive == /\ Turning /\ Reached /\ command' = 0 /\ target' = Unknown /\ rest' = Settle
          /\ UNCHANGED <<next, elapsed, ended>>

TimesOut == /\ Turning /\ ~Reached /\ elapsed > Timeout /\ command' = 0 /\ ended' = "failed"
            /\ UNCHANGED <<next, target, elapsed, rest>>

Turn == /\ Turning /\ ~Reached /\ elapsed <= Timeout
        /\ command' = (IF target > yaw THEN 1 ELSE -1) /\ elapsed' = elapsed + 1
        /\ UNCHANGED <<next, target, rest, ended>>

\* _tick, and what the robot does until the next.
Tick ==
  /\ ended = "no" /\ (odometry => lag < MaxLag)
  /\ Wait \/ Begin \/ Resting \/ Arrive \/ TimesOut \/ Turn
  /\ heading' \in {heading, heading + command'}
  /\ lag' = (IF odometry THEN lag + 1 ELSE 0) /\ UNCHANGED <<yaw, odometry>>

\* main and destroy_node: a zero is published however the program ends.
Interrupt ==
  /\ ended = "no" /\ ended' = "stopped" /\ command' = 0
  /\ UNCHANGED <<yaw, heading, lag, odometry, next, target, elapsed, rest>>

Next == OnOdom \/ OdometryEnds \/ Tick \/ Interrupt

Spec == Init /\ [][Next]_vars

(***************************************************************************)
(* Properties                                                              *)
(***************************************************************************)
\* However late or silent odometry is and however the program ends, the robot is
\* left with a zero and within reach; after the whole swing it points to where
\* it did before, up to the error of one stop for each segment.
SwingComesBack ==
  /\ ended # "no" => command = 0
  /\ heading \in -Reach .. Reach
  /\ ended = "complete" => heading \in Sum[Count] - Count * Error .. Sum[Count] + Count * Error
=============================================================================
