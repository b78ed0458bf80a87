------------------------- MODULE MCPatrolExecutor -------------------------
(***************************************************************************)
(* Instances of PatrolExecutor for TLC.  The routes differ in everything   *)
(* the executor branches on: number of targets, none included, the way     *)
(* home, finite and endless loops, retries and the failure policy.         *)
(***************************************************************************)
EXTENDS PatrolExecutor, TLC

Route(n, home, laps, retries, abort) ==
  [targets |-> n, returnToStart |-> home, loop |-> laps # 1,
   maxCycles |-> laps, maxRetries |-> retries, abortHome |-> abort]

MCRoutes == {Route(2, TRUE, 2, 1, TRUE), Route(0, TRUE, 0, 0, FALSE)}

\* For liveness: two legs, each of which may be retried, and a finite loop.
MCShortRoutes == {Route(1, TRUE, 2, 1, TRUE)}

\* An endless loop from target to target, with no way home.
MCOneWayRoutes == {Route(2, FALSE, 0, 0, FALSE)}

Symmetry == Permutations(NavIds) \cup Permutations(TimerIds)
=============================================================================
