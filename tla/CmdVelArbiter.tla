--------------------------- MODULE CmdVelArbiter ---------------------------
(***************************************************************************)
(* The velocity arbiter (cmd_vel_arbiter_core.py, cmd_vel_arbiter_node.py):*)
(* the one publisher of /cmd_vel, which forwards the newest command of     *)
(* navigation or of the recovery behaviour, as the navigation health says, *)
(* and puts a zero guard between two owners.                               *)
(*                                                                         *)
(* The code compares time stamps with the current time; here each stamp is *)
(* the age of what it stamps, in ticks, and guardLeft is what is left of   *)
(* _guard_until.  An age stops growing at AgeCap, where everything is      *)
(* stale; what was never received has that age too.  The node's timer runs *)
(* _tick every TimerPeriod, so time does not pass a timer that is due.     *)
(***************************************************************************)
EXTENDS Naturals

CONSTANTS
  SourceTimeout, \* source_timeout
  StatusTimeout, \* status_timeout
  SwitchGuard,   \* switch_guard_duration
  TimerPeriod,   \* timer_period
  AgeCap         \* ages are not told apart from here on

ASSUME TimesAssumption ==
  /\ SourceTimeout \in Nat /\ StatusTimeout \in Nat /\ SwitchGuard \in Nat
  /\ TimerPeriod \in Nat \ {0}
  /\ AgeCap \in Nat
  /\ AgeCap > SourceTimeout + TimerPeriod
  /\ AgeCap > StatusTimeout + TimerPeriod
  /\ AgeCap >= SwitchGuard

Sources == {"NAV", "RECOVERY"}
Commands == {"drive", "zero", "nonfinite"}
Ages == 0 .. AgeCap

NavigationStates == {"NOMINAL", "DEGRADED", "RECOVERED"}
\* FAILED, MANUAL_REQUIRED, LOCALIZATION_SUSPECT and any word unknown to the
\* arbiter are "STOP".
HealthStates == NavigationStates \cup {"RECOVERING", "STOP"}

VARIABLES
  command,   \* _nav_cmd and _recovery_cmd
  age,       \* since _nav_received_at and _recovery_received_at
  health,    \* _navigation_state
  statusAge, \* since _navigation_status_received_at
  manual,    \* _manual_takeover
  source,    \* CmdVelArbiter._source
  guardLeft, \* until CmdVelArbiter._guard_until
  timerAge,  \* since the timer last ran _tick
  out,       \* who owns the Twist published last, and what it says
  rest       \* history: since a command was last forwarded

inputs == <<command, age, health, statusAge>>
vars == <<inputs, manual, source, guardLeft, timerAge, out, rest>>

Zero == [owner |-> "NONE", command |-> "zero"]
Forwarded(s) == [owner |-> s, command |-> command[s]]

Older(a) == IF a < AgeCap THEN a + 1 ELSE a

-----------------------------------------------------------------------------
(* CmdVelArbiter.process, called with manual_takeover = takenOver.         *)

Usable(s) == age[s] <= SourceTimeout /\ command[s] # "nonfinite"

Owner == IF health = "RECOVERING" THEN "RECOVERY" ELSE "NAV"

\* Mutant: the age of the health status is not looked at.
SelectedOnOldStatus(takenOver) ==
  IF ~takenOver /\ health # "STOP" /\ Usable(Owner) THEN Owner ELSE "NONE"

Selected(takenOver) ==
  IF /\ ~takenOver /\ statusAge <= StatusTimeout
     /\ health # "STOP" /\ Usable(Owner)
  THEN Owner ELSE "NONE"

Publish(o) ==
  /\ out' = o
  /\ rest' = IF o = Zero THEN rest ELSE 0

\* Mutant: a lost source keeps its ownership.
ProcessKeepingOwner(takenOver) ==
  LET selected == Selected(takenOver) IN
  \/ /\ selected = "NONE"
     /\ Publish(Zero)
     /\ UNCHANGED <<source, guardLeft>>
  \/ /\ selected \notin {"NONE", source}
     /\ source' = selected
     /\ guardLeft' = SwitchGuard
     /\ Publish(Zero)
  \/ /\ selected # "NONE" /\ selected = source
     /\ Publish(IF guardLeft > 0 THEN Zero ELSE Forwarded(selected))
     /\ UNCHANGED <<source, guardLeft>>

\* Mutant: every tick is a switch, and a new guard is added to the old one.
ProcessSwitching(takenOver) ==
  LET selected == Selected(takenOver) IN
  /\ source' = selected
  /\ guardLeft' = IF selected = "NONE" THEN guardLeft ELSE guardLeft + SwitchGuard
  /\ Publish(Zero)

\* Mutant: the guard is armed again by each zero it publishes.
ProcessRearming(takenOver) ==
  LET selected == Selected(takenOver) IN
  \/ /\ selected = "NONE"
     /\ source' = "NONE"
     /\ Publish(Zero)
     /\ UNCHANGED guardLeft
  \/ /\ selected # "NONE" /\ (selected # source \/ guardLeft > 0)
     /\ source' = selected
     /\ guardLeft' = SwitchGuard
     /\ Publish(Zero)
  \/ /\ selected # "NONE" /\ selected = source /\ guardLeft = 0
     /\ Publish(Forwarded(selected))
     /\ UNCHANGED <<source, guardLeft>>

Process(takenOver) ==
  LET selected == Selected(takenOver) IN
  \/ /\ selected = "NONE"
     /\ source' = "NONE"
     /\ Publish(Zero)
     /\ UNCHANGED guardLeft
  \/ /\ selected \notin {"NONE", source}
     /\ source' = selected
     /\ guardLeft' = SwitchGuard
     /\ Publish(Zero)
  \/ /\ selected # "NONE" /\ selected = source
     /\ Publish(IF guardLeft > 0 THEN Zero ELSE Forwarded(selected))
     /\ UNCHANGED <<source, guardLeft>>

-----------------------------------------------------------------------------
Init ==
  /\ command = [s \in Sources |-> "zero"]
  /\ age = [s \in Sources |-> AgeCap]
  /\ health = "DEGRADED" /\ statusAge = AgeCap
  /\ manual = FALSE
  /\ source = "NONE" /\ guardLeft = 0
  /\ timerAge = 0
  /\ out = Zero
  /\ rest = AgeCap

\* _on_nav and _on_recovery.
OnCommand(s) ==
  /\ \E c \in Commands : command' = [command EXCEPT ![s] = c]
  /\ age' = [age EXCEPT ![s] = 0]
  /\ UNCHANGED <<health, statusAge, manual, source, guardLeft, timerAge, out, rest>>

OnNavigationStatus ==
  /\ health' \in HealthStates
  /\ statusAge' = 0
  /\ UNCHANGED <<command, age, manual, source, guardLeft, timerAge, out, rest>>

\* A takeover publishes zero, and the tick it calls publishes zero again.
OnManual ==
  \E data \in BOOLEAN :
    /\ manual' = data
    /\ IF data THEN Process(TRUE) ELSE UNCHANGED <<source, guardLeft, out, rest>>
    /\ UNCHANGED <<inputs, timerAge>>

Tick ==
  /\ Process(manual)
  /\ timerAge' = 0
  /\ UNCHANGED <<inputs, manual>>

Elapse ==
  /\ timerAge < TimerPeriod
  /\ timerAge' = timerAge + 1
  /\ age' = [s \in Sources |-> Older(age[s])]
  /\ statusAge' = Older(statusAge)
  /\ guardLeft' = IF guardLeft > 0 THEN guardLeft - 1 ELSE 0
  /\ rest' = Older(rest)
  /\ UNCHANGED <<command, health, manual, source, out>>

Next ==
  \/ \E s \in Sources : OnCommand(s)
  \/ OnNavigationStatus
  \/ OnManual
  \/ Tick
  \/ Elapse

Spec == Init /\ [][Next]_vars

\* The timer runs, and time goes on; nothing is assumed of the publishers.
FairSpec == Spec /\ WF_vars(Tick) /\ WF_vars(Elapse)

-----------------------------------------------------------------------------
(* Properties.                                                             *)

TypeOK ==
  /\ command \in [Sources -> Commands]
  /\ age \in [Sources -> Ages]
  /\ health \in HealthStates
  /\ statusAge \in Ages
  /\ manual \in BOOLEAN
  /\ source \in Sources \cup {"NONE"}
  /\ guardLeft \in 0 .. SwitchGuard
  /\ timerAge \in 0 .. TimerPeriod
  /\ out \in [owner : Sources \cup {"NONE"}, command : {"drive", "zero"}]
  /\ rest \in Ages

Owned == out.owner # "NONE"

\* Whatever publisher dies, the robot is not left with a command older than
\* the timeouts allow plus one period of the timer, and never drives while
\* an operator has taken over.
StopBound ==
  Owned => /\ ~manual
           /\ age[out.owner] <= SourceTimeout + TimerPeriod
           /\ statusAge <= StatusTimeout + TimerPeriod

\* Ownership of the wheels changes hands, and is regained after any loss,
\* only from zero and after zero for the whole switch guard.
GuardedHandover ==
  [][out'.owner \notin {"NONE", out.owner} => ~Owned /\ rest >= SwitchGuard]_vars

\* The guard does not starve its source: a source that stays the selected
\* one is forwarded for good in the end.
SelectedIsForwarded ==
  \A s \in Sources : <>[](Selected(manual) = s) => <>[](out.owner = s)
=============================================================================
