---------------------------- MODULE MotionSkills ----------------------------
(***************************************************************************)
(* The two nodes that drive the base on behalf of the agent and of voice   *)
(* commands: base_motion_skill_node.py (rotate or move by an amount, ended *)
(* by odometry, a deadline or a failure) and basic_motion_command_node.py  *)
(* (drive in a direction for a fixed time).  They know nothing of each     *)
(* other and publish on the same velocity topic, whose last message is     *)
(* what the arbiter forwards.                                              *)
(*                                                                         *)
(* Time goes in periods of the nodes' timers (20 Hz for both); each node's *)
(* timer fires once in a period, at any moment of it.                      *)
(***************************************************************************)
EXTENDS Naturals

CONSTANTS
  SkillTimeout,  \* timeout_sec of a skill, in periods
  Duration,      \* the periods a basic motion may touch: those of
                 \* motion_duration_sec, the one it begins in and the one it ends in
  PoseLoss,      \* pose_loss_timeout_sec, in periods
  StatusAge      \* chassis_status_max_age_sec, in periods

Modes == {"sleep", "ready", "mapping", "running", "fault"}
Idle == [on |-> FALSE, left |-> 0, lost |-> 0]

VARIABLES
  skill,      \* active of the skill node, with the periods to its deadline
              \* and since its last pose
  basic,      \* active_twist and stop_at of the basic motion node
  skillMode,  \* system_mode, as each node last received it
  basicMode,
  chassis,    \* external: the chassis status as received, and its age
  pose,       \* external: odom -> base_footprint can be looked up
  velocity,   \* the last message on cmd_vel: 0, or the node that publishes
  due,        \* timers that have not fired in this period
  blocked,    \* history: ticks of the skill timer since fault mode came
  driven      \* history: periods for which the velocity has not been zero
              \* since the last command was taken, capped

vars == <<skill, basic, skillMode, basicMode, chassis, pose, velocity, due,
          blocked, driven>>
world == <<skillMode, basicMode, chassis, pose>>

Cap == SkillTimeout + Duration + 1

TypeOK ==
  /\ skill \in [on : BOOLEAN, left : 0 .. SkillTimeout, lost : 0 .. PoseLoss]
  /\ basic \in 0 .. Duration
  /\ skillMode \in Modes /\ basicMode \in Modes
  /\ chassis \in [online : BOOLEAN, age : 0 .. StatusAge + 1]
  /\ pose \in BOOLEAN
  /\ velocity \in {"zero", "skill", "basic"}
  /\ due \subseteq {"skill", "basic"}
  /\ blocked \in 0 .. 2 /\ driven \in 0 .. Cap

\* No chassis status has been received yet: neither node calls it online.
Init ==
  /\ skill = Idle /\ basic = 0
  /\ skillMode = "ready" /\ basicMode = "ready"
  /\ chassis = [online |-> FALSE, age |-> StatusAge + 1]
  /\ pose = FALSE
  /\ velocity = "zero" /\ due = {"skill", "basic"}
  /\ blocked = 0 /\ driven = 0

ChassisOnline == chassis.online /\ chassis.age <= StatusAge

----------------------------------------------------------------------------
(* The skill node.                                                         *)

\* BaseMotionSkillLogic.validate, of arguments that are within the limits.
Blocked == skillMode = "fault" \/ ~ChassisOnline

\* stop: the velocity is zeroed and the end of the motion is reported.
StopSkill == skill' = Idle /\ velocity' = "zero"

\* command_callback of rotate_relative or move_relative.  A second motion
\* while one is active cancels the first and is itself rejected.
SkillCommand(timeout) ==
  /\ \/ /\ skill.on
        /\ StopSkill
        /\ UNCHANGED driven
     \/ /\ ~skill.on /\ (Blocked \/ ~pose)
        /\ velocity' = "zero"          \* reject
        /\ UNCHANGED <<skill, driven>>
     \/ /\ ~skill.on /\ ~Blocked /\ pose
        /\ skill' = [on |-> TRUE, left |-> timeout, lost |-> 0]
        /\ driven' = 0
        /\ UNCHANGED velocity
  /\ UNCHANGED <<world, basic, due, blocked>>

SkillStop ==
  /\ IF skill.on THEN StopSkill ELSE UNCHANGED <<skill, velocity>>
  /\ UNCHANGED <<world, basic, due, blocked, driven>>

\* Mutant of SkillTick: the conditions are looked at only when a motion begins.
SkillTickUnchecked ==
  /\ "skill" \in due
  /\ due' = due \ {"skill"}
  /\ blocked' = IF skillMode = "fault" /\ blocked < 2 THEN blocked + 1 ELSE blocked
  /\ \/ ~skill.on /\ UNCHANGED <<skill, velocity>>
     \/ skill.on /\ skill.left = 0 /\ StopSkill
     \/ /\ skill.on /\ skill.left > 0 /\ ~pose
        /\ velocity' = "zero"
        /\ skill' = IF skill.lost >= PoseLoss THEN Idle ELSE skill
     \/ /\ skill.on /\ skill.left > 0 /\ pose
        /\ \/ StopSkill
           \/ velocity' = "skill" /\ skill' = [skill EXCEPT !.lost = 0]
  /\ UNCHANGED <<world, basic, driven>>

\* tick: deadline, conditions, pose, target, in this order.  Whether the
\* target is reached is up to the odometry.
SkillTick ==
  /\ "skill" \in due
  /\ due' = due \ {"skill"}
  /\ blocked' = IF skillMode = "fault" /\ blocked < 2 THEN blocked + 1 ELSE blocked
  /\ \/ ~skill.on /\ UNCHANGED <<skill, velocity>>
     \/ skill.on /\ (skill.left = 0 \/ Blocked) /\ StopSkill
     \/ /\ skill.on /\ skill.left > 0 /\ ~Blocked /\ ~pose
        /\ velocity' = "zero"
        /\ skill' = IF skill.lost >= PoseLoss THEN Idle ELSE skill
     \/ /\ skill.on /\ skill.left > 0 /\ ~Blocked /\ pose
        /\ \/ StopSkill
           \/ velocity' = "skill" /\ skill' = [skill EXCEPT !.lost = 0]
  /\ UNCHANGED <<world, basic, driven>>

----------------------------------------------------------------------------
(* The basic motion node.                                                  *)

\* motion_command_callback of a direction.  The arbiter subscribes to the
\* topic, so the subscription count is not zero.
BasicCommand ==
  /\ \/ basicMode \in {"sleep", "fault"} /\ UNCHANGED <<basic, velocity, driven>>
     \/ /\ basicMode \notin {"sleep", "fault"} /\ ~ChassisOnline
        /\ basic' = 0 /\ velocity' = "zero"      \* reject_motion
        /\ UNCHANGED driven
     \/ /\ basicMode \notin {"sleep", "fault"} /\ ChassisOnline
        /\ basic' = Duration /\ velocity' = "basic"
        /\ driven' = 0
  /\ UNCHANGED <<world, skill, due, blocked>>

\* The word "stop", in any mode.
BasicStop ==
  /\ basic' = 0 /\ velocity' = "zero"
  /\ UNCHANGED <<world, skill, due, blocked, driven>>

\* timer_callback.  It looks at the time alone: stop_at lies in the last period
\* but one, and the timer may fire before it there or after it.
BasicTick ==
  /\ "basic" \in due
  /\ due' = due \ {"basic"}
  /\ \/ basic = 0 /\ UNCHANGED <<basic, velocity>>
     \/ basic \in {1, 2} /\ basic' = 0 /\ velocity' = "zero"
     \/ basic > 1 /\ velocity' = "basic" /\ UNCHANGED basic
  /\ UNCHANGED <<world, skill, blocked, driven>>

----------------------------------------------------------------------------
(* What the nodes hear, and time.                                          *)

SkillModeChanges(m) ==
  /\ skillMode' = m
  /\ blocked' = IF m = "fault" /\ skillMode = "fault" THEN blocked ELSE 0
  /\ UNCHANGED <<skill, basic, basicMode, chassis, pose, velocity, due, driven>>

BasicModeChanges(m) ==
  /\ basicMode' = m
  /\ UNCHANGED <<skill, basic, skillMode, chassis, pose, velocity, due, blocked, driven>>

ChassisReports(online) ==
  /\ chassis' = [online |-> online, age |-> 0]
  /\ UNCHANGED <<skill, basic, skillMode, basicMode, pose, velocity, due, blocked, driven>>

PoseChanges ==
  /\ pose' = ~pose
  /\ UNCHANGED <<skill, basic, skillMode, basicMode, chassis, velocity, due, blocked, driven>>

\* A period ends once both timers have fired in it.
Pass ==
  /\ due = {}
  /\ due' = {"skill", "basic"}
  /\ skill' = IF skill.on
              THEN [skill EXCEPT !.left = IF @ = 0 THEN 0 ELSE @ - 1,
                                 !.lost = IF @ < PoseLoss THEN @ + 1 ELSE @]
              ELSE skill
  /\ basic' = IF basic > 1 THEN basic - 1 ELSE basic
  /\ chassis' = [chassis EXCEPT !.age = IF @ > StatusAge THEN @ ELSE @ + 1]
  /\ driven' = IF velocity = "zero" THEN 0
               ELSE IF driven < Cap THEN driven + 1 ELSE driven
  /\ UNCHANGED <<skillMode, basicMode, pose, velocity, blocked>>

Next ==
  \/ \E t \in 1 .. SkillTimeout : SkillCommand(t)
  \/ SkillStop \/ SkillTick
  \/ BasicCommand \/ BasicStop \/ BasicTick
  \/ \E m \in Modes : SkillModeChanges(m) \/ BasicModeChanges(m)
  \/ \E online \in BOOLEAN : ChassisReports(online)
  \/ PoseChanges \/ Pass

Spec == Init /\ [][Next]_vars

----------------------------------------------------------------------------
(* The topic does not carry a velocity that nobody is going to end: a node *)
(* that is still at it stands behind it, whatever the two nodes publish    *)
(* over each other; a skill is over by the first tick of its timer in      *)
(* fault mode; and no command keeps the base moving for longer than its    *)
(* own time.                                                               *)
MotionHasAnEnd ==
  /\ velocity = "skill" => skill.on
  /\ velocity = "basic" => basic > 0
  /\ skillMode = "fault" /\ blocked > 0 => velocity # "skill"
  /\ velocity # "zero" => driven <= IF SkillTimeout > Duration THEN SkillTimeout ELSE Duration
=============================================================================
