------------------------ MODULE ActiveRelocalization ------------------------
(***************************************************************************)
(* The side node that finds the robot again when AMCL has lost it          *)
(* (active_relocalization_node.py, its controller in                       *)
(* active_relocalization_core.py): stop the robot, turn it segment by      *)
(* segment, ask the scan matcher for a pose at each stop, and verify the   *)
(* answer over several samples.                                            *)
(*                                                                         *)
(* One Tick is one call of process: the timer or a takeover message calls  *)
(* it.  Clocks are left to chance, a deadline may have passed at any tick; *)
(* angles are counted in units, a segment of n units being turned in n or  *)
(* more ticks.  They are the units the odometry shows: what the robot      *)
(* turns between two of its messages, whose yaw may be signal_timeout old, *)
(* is left out.                                                            *)
(***************************************************************************)
EXTENDS Integers, Sequences

CONSTANTS
  Segments,             \* segment_deltas, in units, without their signs
  MaxTotalRotation,
  MaxAttempts,
  SuspectSamples, TriggerSamples, HealthyRecoverySamples,
  VerificationSamples

\* Units of the first n segments.
Total[n \in 0 .. Len(Segments)] == IF n = 0 THEN 0 ELSE Total[n - 1] + Segments[n]
SumOfSegments == Total[Len(Segments)]

VARIABLES
  state, attempt_id,
  bad, trigger, healthy,        \* the three streaks
  segment, left, rotated,       \* segment_index + 1, units to its target,
                                \* total_rotation
  settling, requested, asked,   \* settle_until, candidate_request_time is
                                \* set, candidate_requested_for_segment
  candidate,                    \* "none", "good" or "bad"
  verified,                     \* verification_count
  inbox,                        \* the match quality not yet consumed
  takeover,                     \* _manual_takeover
  turned,                       \* history: units turned on command, ever
  steady                        \* history: good samples in a row since the
                                \* request of the last answer taken

streaks == <<bad, trigger, healthy>>
motion == <<segment, left, rotated, settling>>
answers == <<requested, asked, candidate, verified>>
vars == <<state, attempt_id, streaks, motion, answers, inbox, takeover,
          turned, steady>>

States == {"NORMAL", "SUSPECTED", "TRIGGERED", "STOPPING", "ACTIVE_SCAN",
           "WAITING_CANDIDATE", "VERIFYING", "RECOVERED", "FAILED",
           "MANUAL_REQUIRED"}

TypeOK ==
  /\ state \in States
  /\ attempt_id \in 0 .. MaxAttempts
  /\ bad \in 0 .. SuspectSamples
  /\ trigger \in 0 .. TriggerSamples
  /\ healthy \in 0 .. HealthyRecoverySamples
  /\ segment \in 0 .. Len(Segments)
  /\ left \in 0 .. SumOfSegments /\ rotated \in 0 .. SumOfSegments
  /\ {settling, requested, asked, takeover} \subseteq BOOLEAN
  /\ candidate \in {"none", "good", "bad"} /\ inbox \in {"none", "good", "bad"}
  /\ verified \in 0 .. VerificationSamples
  /\ steady \in 0 .. VerificationSamples
  /\ turned \in 0 .. MaxAttempts * SumOfSegments

Init ==
  /\ state = "NORMAL" /\ attempt_id = 0
  /\ bad = 0 /\ trigger = 0 /\ healthy = 0
  /\ segment = 0 /\ left = 0 /\ rotated = 0 /\ settling = FALSE
  /\ requested = FALSE /\ asked = FALSE /\ candidate = "none" /\ verified = 0
  /\ inbox = "none" /\ takeover = FALSE
  /\ turned = 0 /\ steady = 0

(***************************************************************************)
(* What a tick sees: the assessment of the health (assess_health), whether *)
(* odometry and scans are fresh, whether the robot stands, whether a new   *)
(* scan came, whether a deadline has passed, and whether the sample        *)
(* verifies.                                                               *)
(***************************************************************************)
Assessments == {"triggerable", "degraded", "healthy"}
CapTo(n, max) == IF n < max THEN n ELSE max

Event == [health : Assessments, odom : BOOLEAN, scan : BOOLEAN,
          stands : BOOLEAN, yaw : BOOLEAN, updated : BOOLEAN,
          late : BOOLEAN, overdue : BOOLEAN, sample : BOOLEAN]

\* The candidate of this tick: a new one is dropped unless a request is out.
Taken == IF inbox # "none" /\ requested THEN inbox ELSE candidate

Fail == /\ state' = "FAILED" /\ settling' = FALSE
        /\ UNCHANGED <<attempt_id, streaks, segment, left, rotated>>

(***************************************************************************)
(* NORMAL and SUSPECTED: streaks of bad and of healthy samples.  A         *)
(* degraded sample breaks the healthy streak and nothing else.             *)
(***************************************************************************)
UpdateTriggerState(ev) ==
  /\ \/ /\ ev.health = "triggerable"
        /\ bad' = CapTo(bad + 1, SuspectSamples) /\ healthy' = 0
        /\ \/ /\ state = "NORMAL" /\ bad + 1 >= SuspectSamples
              /\ state' = "SUSPECTED" /\ trigger' = 1
           \/ /\ state = "NORMAL" /\ bad + 1 < SuspectSamples
              /\ UNCHANGED <<state, trigger>>
           \/ /\ state = "SUSPECTED"
              /\ trigger' = CapTo(trigger + 1, TriggerSamples)
              /\ state' = IF trigger + 1 >= TriggerSamples
                          THEN "TRIGGERED" ELSE state
     \/ /\ ev.health = "degraded" /\ healthy' = 0
        /\ UNCHANGED <<state, bad, trigger>>
     \/ /\ ev.health = "healthy" /\ bad' = 0 /\ trigger' = 0
        /\ IF state = "SUSPECTED" /\ healthy + 1 >= HealthyRecoverySamples
           THEN state' = "NORMAL" /\ healthy' = 0
           ELSE /\ healthy' = IF state = "SUSPECTED" THEN healthy + 1 ELSE healthy
                /\ UNCHANGED state
  /\ UNCHANGED <<attempt_id, motion, requested, asked, verified, turned, steady>>
  /\ candidate' = Taken

Triggered ==
  /\ state' = "STOPPING" /\ candidate' = Taken
  /\ UNCHANGED <<attempt_id, streaks, motion, requested, asked, verified,
                 turned, steady>>

BeginAttempt ==
  /\ state' = "ACTIVE_SCAN" /\ attempt_id' = attempt_id + 1
  /\ segment' = 1 /\ left' = Segments[1] /\ rotated' = 0 /\ settling' = FALSE
  /\ requested' = FALSE /\ asked' = FALSE /\ candidate' = "none"
  /\ verified' = 0 /\ steady' = 0
  /\ UNCHANGED <<streaks, turned>>

\* The attempt begins once odometry says that the robot stands.
Stopping(ev) ==
  \/ /\ ~ ev.odom \/ (ev.stands /\ ~ ev.yaw)
     /\ Fail /\ candidate' = Taken
     /\ UNCHANGED <<requested, asked, verified, turned, steady>>
  \/ /\ ev.odom /\ ~ ev.stands
     /\ candidate' = Taken
     /\ UNCHANGED <<state, attempt_id, streaks, motion, requested, asked,
                    verified, turned, steady>>
  \/ ev.odom /\ ev.stands /\ ev.yaw /\ BeginAttempt

\* Mutant of Advance: a failed verification turns the same segment again.
AdvanceNowhere == segment' = segment /\ left' = Segments[segment]

Advance == segment' = segment + 1 /\ left' = Segments[segment + 1]

\* _candidate_failed: the next segment, as far as the rotation allows.  The
\* request is withdrawn.
CandidateFailed(ev) ==
  /\ candidate' = "none"
  /\ IF segment < Len(Segments) /\ ev.yaw
        /\ rotated + Segments[segment + 1] <= MaxTotalRotation
     THEN /\ Advance /\ state' = "ACTIVE_SCAN"
          /\ requested' = FALSE /\ asked' = FALSE
          /\ UNCHANGED <<attempt_id, streaks, rotated, settling>>
     ELSE Fail /\ UNCHANGED <<requested, asked>>
  /\ steady' = 0
  /\ UNCHANGED <<verified, turned>>

\* _verification_failed: the next segment too, but the request stays out and
\* the rotation is looked at only once the segment is under way.  Without a
\* yaw the segment is counted and the attempt fails.
VerificationFailed(ev) ==
  /\ verified' = 0 /\ candidate' = "none" /\ steady' = 0
  /\ IF segment < Len(Segments) /\ ev.yaw
     THEN /\ Advance /\ state' = "ACTIVE_SCAN" /\ asked' = FALSE
          /\ UNCHANGED <<attempt_id, streaks, rotated, settling>>
     ELSE /\ state' = "FAILED" /\ settling' = FALSE
          /\ segment' = CapTo(segment + 1, Len(Segments))
          /\ UNCHANGED <<attempt_id, streaks, left, rotated, asked>>
  /\ UNCHANGED <<requested, turned>>

\* A candidate ends the segment at once, whatever is left to turn.
JudgeCandidate(ev) ==
  \/ /\ Taken = "good"
     /\ state' = "VERIFYING" /\ candidate' = Taken /\ verified' = 0
     /\ steady' = 0
     /\ UNCHANGED <<attempt_id, streaks, motion, requested, asked, turned>>
  \/ Taken = "bad" /\ CandidateFailed(ev)

Request == requested' = TRUE /\ asked' = TRUE /\ candidate' = "none"

Rotate(ev) ==
  \/ /\ settling /\ ~ ev.overdue                        \* SETTLING
     /\ UNCHANGED <<state, left, rotated, settling, requested, asked, turned>>
     /\ candidate' = Taken
  \/ /\ settling /\ ev.overdue
     /\ settling' = FALSE /\ state' = "WAITING_CANDIDATE"
     /\ IF ev.updated THEN Request
        ELSE asked' = FALSE /\ candidate' = Taken /\ UNCHANGED requested
     /\ UNCHANGED <<left, rotated, turned>>
  \/ /\ ~ settling /\ ~ ev.overdue /\ left = 0          \* SEGMENT_REACHED
     /\ rotated' = rotated + Segments[segment] /\ settling' = TRUE
     /\ candidate' = Taken
     /\ UNCHANGED <<state, left, requested, asked, turned>>
  \/ /\ ~ settling /\ ~ ev.overdue /\ left > 0          \* ACTIVE_ROTATION
     /\ rotated + Segments[segment] <= MaxTotalRotation
     /\ left' \in {left, left - 1} /\ turned' = turned + left - left'
     /\ candidate' = Taken
     /\ UNCHANGED <<state, rotated, settling, requested, asked>>

ActiveScan(ev) ==
  LET broken == ev.late \/ ~ ev.odom \/ ~ ev.scan
      stuck == /\ Taken = "none"
               /\ \/ ~ ev.yaw
                  \/ ~ settling /\ ev.overdue           \* SEGMENT_TIMEOUT
                  \/ /\ ~ settling /\ left > 0
                     /\ rotated + Segments[segment] > MaxTotalRotation
  IN \/ /\ broken \/ stuck
        /\ Fail /\ candidate' = Taken
        /\ UNCHANGED <<requested, asked, verified, turned, steady>>
     \/ ~ broken /\ ~ stuck /\ Taken # "none" /\ JudgeCandidate(ev)
     \/ /\ ~ broken /\ ~ stuck /\ Taken = "none" /\ Rotate(ev)
        /\ UNCHANGED <<attempt_id, streaks, segment, verified, steady>>

WaitingCandidate(ev) ==
  LET broken == ev.late \/ ~ ev.odom \/ ~ ev.scan \/ (Taken = "none" /\ ev.overdue)
  IN \/ /\ broken /\ Fail /\ candidate' = Taken
        /\ UNCHANGED <<requested, asked, verified, turned, steady>>
     \/ ~ broken /\ Taken # "none" /\ JudgeCandidate(ev)
     \/ /\ ~ broken /\ Taken = "none"
        /\ IF ev.updated /\ ~ asked THEN Request
           ELSE candidate' = Taken /\ UNCHANGED <<requested, asked>>
        /\ UNCHANGED <<state, attempt_id, streaks, motion, verified, turned, steady>>

\* Mutant of Verifying: a bad sample does not start the count again.
VerifyingForgivingly(ev) ==
  /\ ~ ev.late
  /\ verified' = verified + IF ev.sample THEN 1 ELSE 0
  /\ steady' = IF ev.sample THEN CapTo(steady + 1, VerificationSamples) ELSE 0
  /\ state' = IF verified' >= VerificationSamples THEN "RECOVERED" ELSE state
  /\ candidate' = Taken
  /\ UNCHANGED <<attempt_id, streaks, motion, requested, asked, turned>>

\* A newer candidate replaces the one under verification; the count goes on.
Verifying(ev) ==
  LET good == Taken = "good" /\ ev.odom /\ ev.scan /\ ev.sample
  IN \/ /\ ev.late /\ Fail /\ candidate' = Taken
        /\ UNCHANGED <<requested, asked, verified, turned, steady>>
     \/ ~ ev.late /\ ~ good /\ VerificationFailed(ev)
     \/ /\ ~ ev.late /\ good
        /\ verified' = verified + 1 /\ candidate' = Taken
        /\ steady' = CapTo(steady + 1, VerificationSamples)
        /\ state' = IF verified + 1 >= VerificationSamples
                    THEN "RECOVERED" ELSE state
        /\ UNCHANGED <<attempt_id, streaks, motion, requested, asked, turned>>

\* Mutant of Failed: the attempts are not counted.
FailedForEver ==
  /\ state' = "STOPPING" /\ candidate' = Taken
  /\ attempt_id' = CapTo(attempt_id, MaxAttempts - 1)
  /\ UNCHANGED <<streaks, motion, requested, asked, verified, turned, steady>>

\* attempt_id counts the attempts that began to turn: one that failed while
\* the robot was being stopped is tried again without limit.
Failed ==
  /\ state' = IF attempt_id < MaxAttempts THEN "STOPPING" ELSE "MANUAL_REQUIRED"
  /\ candidate' = Taken
  /\ UNCHANGED <<attempt_id, streaks, motion, requested, asked, verified,
                 turned, steady>>

Stay == /\ candidate' = Taken
        /\ UNCHANGED <<state, attempt_id, streaks, motion, requested, asked,
                       verified, turned, steady>>

\* process.  A takeover is latched; RECOVERED is left by nothing else, nor is
\* MANUAL_REQUIRED.
Tick ==
  /\ inbox' = "none" /\ UNCHANGED takeover
  /\ \/ /\ takeover /\ state' = "MANUAL_REQUIRED" /\ candidate' = Taken
        /\ UNCHANGED <<attempt_id, streaks, motion, requested, asked, verified,
                       turned, steady>>
     \/ /\ ~ takeover
        /\ \/ /\ state \in {"NORMAL", "SUSPECTED"}
              /\ \E ev \in [health : Assessments] : UpdateTriggerState(ev)
           \/ state = "TRIGGERED" /\ Triggered
           \/ state = "STOPPING" /\ \E ev \in Event : Stopping(ev)
           \/ state = "ACTIVE_SCAN" /\ \E ev \in Event : ActiveScan(ev)
           \/ state = "WAITING_CANDIDATE" /\ \E ev \in Event : WaitingCandidate(ev)
           \/ state = "VERIFYING" /\ \E ev \in Event : Verifying(ev)
           \/ state = "FAILED" /\ Failed
           \/ state \in {"RECOVERED", "MANUAL_REQUIRED"} /\ Stay

\* External: the scan matcher publishes match qualities, asked or not.
OnMatchQuality ==
  /\ inbox' \in {"good", "bad"}
  /\ UNCHANGED <<state, attempt_id, streaks, motion, answers, takeover,
                 turned, steady>>

\* A takeover is processed in the callback that brings it.
OnManualTakeover ==
  /\ ~ takeover /\ takeover' = TRUE /\ inbox' = "none"
  /\ state' = "MANUAL_REQUIRED" /\ candidate' = Taken
  /\ UNCHANGED <<attempt_id, streaks, motion, requested, asked, verified,
                 turned, steady>>

Next == Tick \/ OnMatchQuality \/ OnManualTakeover

Spec == Init /\ [][Next]_vars

(***************************************************************************)
(* Properties                                                              *)
(***************************************************************************)
\* In its whole life the node turns the robot by no more than MaxAttempts
\* times its segments, whatever answers, failures and retries come: a failed
\* answer goes on to the next segment and never back.
TurningIsBoundedStep ==
  /\ turned' <= MaxAttempts * SumOfSegments
  /\ takeover => turned' = turned

TurningIsBounded == [][TurningIsBoundedStep]_vars

\* The robot is called recovered only after VerificationSamples good samples
\* in a row, all of them later than the answer to a request made in this
\* attempt.
RecoveredIsVerified ==
  state = "RECOVERED" => requested /\ steady = VerificationSamples

==============================================================================
