---------------------------- MODULE RuntimeGuard ----------------------------
(***************************************************************************)
(* What the supervisor does for a patrol that runs: the guard that looks   *)
(* at its processes and sensors on every tick (check_patrol_runtime_guard) *)
(* and the restart of a component (recover_component), which one command   *)
(* thread at a time carries out and which both take a process down.        *)
(***************************************************************************)
EXTENDS Naturals, FiniteSets

CONSTANTS
  Keys,           \* what the guard looks at: processes, odometry, scan
  Recoverable,    \* the processes of recovery_catalog among them
  Debounce,       \* patrol_runtime_guard_debounce_sec, in ticks
  Cooldown,       \* cooldown_sec, in ticks
  Incidents       \* diagnostic ids

ASSUME GuardAssumption ==
  Recoverable \subseteq Keys /\ Debounce \in Nat /\ Cooldown \in Nat

VARIABLES
  mode,        \* patrol_mode_state: "starting", "busy" (on its way),
               \* "waiting" (waiting_loop, manual_takeover), "idle" (the rest)
  up,          \* the keys that are well
  since,       \* _runtime_fault_since: the age of each fault noted, or Unseen
  triggered,   \* _runtime_faults_triggered
  mending,     \* recover_component: its process and next step, or nothing
  attempts,    \* recovery_incidents
  cool,        \* ticks since the last attempt on each, up to Cooldown
  lasted       \* history: ticks of a guarded patrol in a row that found each
               \* key down, up to Debounce + 1

vars == <<mode, up, since, triggered, mending, attempts, cool, lasted>>

Unseen == Debounce + 1
Guarded == {"busy", "waiting"}
Faults == Keys \ up

TypeOK ==
  /\ mode \in {"idle", "starting", "busy", "waiting"} /\ up \subseteq Keys
  /\ since \in [Keys -> 0 .. Unseen] /\ triggered \subseteq Keys
  /\ mending \in {{}} \cup {{[process |-> p, next |-> s]} :
                              p \in Recoverable, s \in {"stop", "start"}}
  /\ attempts \subseteq Recoverable \X Incidents
  /\ cool \in [Recoverable -> 0 .. Cooldown] /\ lasted \in [Keys -> 0 .. Debounce + 1]

Init ==
  /\ mode = "idle" /\ up = {} /\ since = [k \in Keys |-> Unseen] /\ triggered = {}
  /\ mending = {} /\ attempts = {} /\ cool = [p \in Recoverable |-> Cooldown]
  /\ lasted = [k \in Keys |-> 0]

\* Mutant of Noted: a fault that was over and is back goes on where it was.
NotedForGood ==
  [k \in Keys |-> IF since[k] = Unseen THEN (IF k \in Faults THEN 0 ELSE Unseen)
                  ELSE IF since[k] < Debounce THEN since[k] + 1 ELSE since[k]]

\* The faults of this tick with their ages; one that is over is forgotten.
Noted ==
  [k \in Keys |-> IF k \in up THEN Unseen
                  ELSE IF since[k] = Unseen THEN 0
                  ELSE IF since[k] < Debounce THEN since[k] + 1 ELSE since[k]]

\* check_patrol_runtime_guard, once a tick: the first fault that has lasted is
\* reported to the executor, one for each patrol.
Guard ==
  /\ IF mode \notin Guarded
     THEN /\ since' = [k \in Keys |-> Unseen] /\ triggered' = {}
          /\ lasted' = [k \in Keys |-> 0]
     ELSE /\ lasted' = [k \in Keys |-> IF k \in up THEN 0
                          ELSE IF lasted[k] <= Debounce THEN lasted[k] + 1 ELSE lasted[k]]
          /\ IF triggered # {} THEN UNCHANGED <<since, triggered>>
             ELSE /\ since' = Noted
                  /\ LET late == {k \in Faults : Noted[k] = Debounce}
                     IN IF late = {} THEN UNCHANGED triggered
                        ELSE \E k \in late : triggered' = {k}
  /\ cool' = [p \in Recoverable |-> IF cool[p] < Cooldown THEN cool[p] + 1 ELSE Cooldown]
  /\ UNCHANGED <<mode, up, mending, attempts>>

\* patrol_status_callback: any state the executor reports.
PatrolStatus ==
  /\ mode' \in {"idle", "starting", "busy", "waiting"}
  /\ UNCHANGED <<up, since, triggered, mending, attempts, cool, lasted>>

\* A process exits or a sensor falls silent, or either is back.
Changes(k) ==
  /\ up' = IF k \in up THEN up \ {k} ELSE up \cup {k}
  /\ UNCHANGED <<mode, since, triggered, mending, attempts, cool, lasted>>

\* recover_component: refused when the incident was tried before or the last
\* attempt is too recent, and during a patrol, but not during one that waits,
\* which the guard looks after too: a restart there can fail the patrol.
RecoverComponent(p, i) ==
  /\ mending = {} /\ mode \notin {"starting", "busy"}
  /\ <<p, i>> \notin attempts /\ cool[p] = Cooldown
  /\ attempts' = attempts \cup {<<p, i>>} /\ cool' = [cool EXCEPT ![p] = 0]
  /\ mending' = {[process |-> p, next |-> "stop"]}
  /\ UNCHANGED <<mode, up, since, triggered, lasted>>

StopProcess ==
  /\ \E m \in mending : /\ m.next = "stop" /\ mending' = {[m EXCEPT !.next = "start"]}
                        /\ up' = up \ {m.process}
  /\ UNCHANGED <<mode, since, triggered, attempts, cool, lasted>>

StartProcess ==
  /\ \E m \in mending : m.next = "start" /\ up' \in {up, up \cup {m.process}}
  /\ mending' = {}
  /\ UNCHANGED <<mode, since, triggered, attempts, cool, lasted>>

Next ==
  \/ Guard \/ PatrolStatus \/ StopProcess \/ StartProcess
  \/ \E k \in Keys : Changes(k)
  \/ \E p \in Recoverable, i \in Incidents : RecoverComponent(p, i)

Spec == Init /\ [][Next]_vars

(***************************************************************************)
(* Properties                                                              *)
(***************************************************************************)
\* A patrol is failed for what lasts and for nothing else: the fault reported
\* was found on every tick of the debounce, and none is found for longer
\* without a report.
GuardReportsWhatLastsStep ==
  /\ \A k \in triggered' \ triggered : lasted'[k] > Debounce
  /\ (\E k \in Keys : lasted'[k] > Debounce) => triggered' # {}

GuardReportsWhatLasts == [][GuardReportsWhatLastsStep]_vars

==============================================================================
