--------------------------- MODULE PatrolMission ---------------------------
(***************************************************************************)
(* What the patrol executor promises of a mission: targets are visited one *)
(* at a time and in order, a target counts only after the robot drove to   *)
(* it and stayed for its task, a hold keeps the place in the route, and    *)
(* success is reported only when every target of every lap, and the return *)
(* home if the route asks for one, is done.  Navigation, timers, retries   *)
(* and tokens are not part of the promise.                                 *)
(***************************************************************************)
EXTENDS Naturals

CONSTANTS Plans, NoPlan

VARIABLES
  plan,     \* the route, NoPlan when there is none
  mode,     \* what the mission is doing, or was doing when it was held
  held,     \* paused or taken over by an operator
  visited,  \* targets of this lap that are done
  lap

vars == <<plan, mode, held, visited, lap>>

OnTheWay == {"driving", "visiting", "homing", "retreating", "resting"}

Init ==
  /\ plan = NoPlan /\ mode = "ready" /\ held = FALSE
  /\ visited = 0 /\ lap = 1

\* Where a mission goes once v targets of p are done.
After(p, v) ==
  IF v < p.targets THEN "driving"
  ELSE IF p.returnToStart THEN "homing" ELSE "succeeded"

Depart ==
  /\ mode \notin OnTheWay
  /\ plan' \in Plans
  /\ mode' = After(plan', 0)
  /\ visited' = 0 /\ lap' = 1
  /\ UNCHANGED held

Refuse ==
  /\ mode \notin OnTheWay
  /\ plan' = NoPlan /\ mode' = "failed"
  /\ UNCHANGED <<held, visited, lap>>

Arrive ==
  /\ ~held /\ mode = "driving"
  /\ mode' = "visiting"
  /\ UNCHANGED <<plan, held, visited, lap>>

FinishTask ==
  /\ ~held /\ mode = "visiting"
  /\ visited' = visited + 1
  /\ mode' = After(plan, visited + 1)
  /\ UNCHANGED <<plan, held, lap>>

\* Home again: another lap if the route loops, success otherwise.
ReachHome ==
  /\ ~held /\ mode = "homing"
  /\ mode' = IF plan.loop /\ (plan.maxCycles = 0 \/ lap < plan.maxCycles)
             THEN "resting" ELSE "succeeded"
  /\ UNCHANGED <<plan, held, visited, lap>>

NextLap ==
  /\ ~held /\ mode = "resting"
  /\ lap' = lap + 1 /\ visited' = 0
  /\ mode' = After(plan, 0)
  /\ UNCHANGED <<plan, held>>

\* A hold in the middle of a task means driving to that target again.
Hold ==
  /\ ~held /\ mode \in OnTheWay
  /\ held' = TRUE
  /\ mode' = IF mode = "visiting" THEN "driving" ELSE mode
  /\ UNCHANGED <<plan, visited, lap>>

Release ==
  /\ held
  /\ held' = FALSE
  /\ UNCHANGED <<plan, mode, visited, lap>>

\* A target is given up: back home and then failure, if the route says so.
Retreat ==
  /\ ~held /\ mode \in {"driving", "visiting"} /\ plan.abortHome
  /\ mode' = "retreating"
  /\ UNCHANGED <<plan, held, visited, lap>>

Abandon ==
  /\ mode \in OnTheWay
  /\ mode' \in {"failed", "canceled"}
  /\ held' = FALSE
  /\ UNCHANGED <<plan, visited, lap>>

Reset ==
  /\ mode \notin OnTheWay
  /\ mode' = "ready" /\ plan' = NoPlan
  /\ visited' = 0 /\ lap' = 1
  /\ UNCHANGED held

Next ==
  \/ Depart \/ Refuse \/ Arrive \/ FinishTask \/ ReachHome \/ NextLap
  \/ Hold \/ Release \/ Retreat \/ Abandon \/ Reset

Spec == Init /\ [][Next]_vars
=============================================================================
