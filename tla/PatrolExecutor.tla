--------------------------- MODULE PatrolExecutor ---------------------------
(***************************************************************************)
(* The patrol executor (patrol_executor_node.py): PatrolExecutorLogic, the *)
(* state machine that drives a route, and the part of PatrolExecutorNode   *)
(* that turns its navigation requests into NavigateToPose goals and its    *)
(* delays into one-shot timers.                                            *)
(*                                                                         *)
(* rclpy.spin runs every subscription, timer and future callback of the    *)
(* node on one thread, so one callback, with everything it calls, is one   *)
(* action.  Callbacks interleave with each other and with Nav2, which      *)
(* answers and ends goals whenever it likes.                               *)
(*                                                                         *)
(* A navigation request, its token and its Nav2 goal share one id of       *)
(* NavIds; a one-shot timer and the token it carries share one id of       *)
(* TimerIds.  The code numbers both from a growing counter and compares    *)
(* the numbers for equality only, so an id is used again once nothing      *)
(* refers to it, and a token that was bumped, or whose callback has run,   *)
(* is None.  The two sets bound what is outstanding, not the run.          *)
(***************************************************************************)
EXTENDS Naturals

CONSTANTS
  NavIds,            \* navigation contexts that may be outstanding at once
  TimerIds,          \* one-shot timers that may be pending at once
  Routes,            \* routes a valid route file may hold
  None,              \* no route, no context, no token
  MaxGoalRejects,    \* nav2_goal_reject_max_retries
  InspectionEnabled, \* the parameter inspection_enabled
  HasSchedules,      \* the route file has schedules
  CycleBound         \* bound on the loop cycles explored

RouteType ==
  [targets : Nat, returnToStart : BOOLEAN, loop : BOOLEAN,
   maxCycles : Nat, maxRetries : Nat, abortHome : BOOLEAN]

ASSUME ConstantsAssumption ==
  /\ Routes \subseteq RouteType
  /\ None \notin NavIds \cup TimerIds \cup RouteType
  /\ MaxGoalRejects \in Nat
  /\ InspectionEnabled \in BOOLEAN
  /\ HasSchedules \in BOOLEAN
  /\ CycleBound \in Nat

VARIABLES
  \* PatrolExecutorLogic
  state, route,
  index,        \* current_target_index
  cycle,        \* cycle_index
  retry,        \* _retry_count
  pausedFrom,   \* _paused_from_state
  homeReason,   \* _return_home_failure_reason is not empty
  purpose,      \* _navigation_purpose
  navToken,     \* the context whose callback carries _navigation_token
  windowToken,  \* the timer that carries _inspection_token
  loopToken,    \* the timer that carries _loop_wait_token
  sampled,      \* the open window's sample_count is not 0
  \* PatrolExecutorNode
  nav,          \* the navigation contexts, each with the fate of its Nav2 goal
  active,       \* _active_navigation
  handle,       \* _active_goal_handle
  timers,       \* what each pending _schedule_once timer will call
  resetTimer    \* _terminal_reset_timer is pending

missionVars == <<route, index, cycle, pausedFrom>>
bookVars == <<homeReason, purpose, navToken, windowToken, loopToken, sampled,
              nav, active, handle, timers>>
vars == <<state, resetTimer, retry, missionVars, bookVars>>

MovingStates == {"running", "returning_home"}
HeldStates == {"paused", "manual_takeover"}
TerminalStates == {"succeeded", "failed", "canceled"}
\* "canceling" is entered and left inside one callback, so it is never seen here.
ActiveStates == MovingStates \cup HeldStates \cup {"waiting_loop"}
States == ActiveStates \cup TerminalStates \cup {"idle", "waiting_schedule"}

-----------------------------------------------------------------------------
(* Navigation contexts.  A record of nav is one context dictionary, with   *)
(* goal, the state of the goal it sent.  The timers of a context follow    *)
(* from its phase: "waiting" has wait_timer and the wait timeout, the      *)
(* later ones the goal timeout, "retrying" also the retry timer.           *)

Phases == {"waiting", "sending", "retrying", "executing", "completed"}
Unanswered == {"requested", "accepted", "refused", "error"}
Ended == {"succeeded", "failed"}
Goals == {"none", "executing", "canceling"} \cup Unanswered \cup Ended

ContextType ==
  [phase : Phases, canceled : BOOLEAN, rejects : Nat, goal : Goals]

Waiting == [phase |-> "waiting", canceled |-> FALSE, rejects |-> 0, goal |-> "none"]
Sending(n) ==
  [phase |-> "sending", canceled |-> FALSE, rejects |-> n, goal |-> "requested"]
Retrying(n) ==
  [phase |-> "retrying", canceled |-> FALSE, rejects |-> n, goal |-> "none"]
Unused == [phase |-> "completed", canceled |-> FALSE, rejects |-> 0, goal |-> "none"]

\* A completed context ignores the result of its goal; its canceled flag is
\* read once more, by a goal response that is still to come.
CompletionOf(x) ==
  [phase    |-> "completed",
   canceled |-> x.canceled /\ x.goal \in Unanswered,
   rejects  |-> 0,
   goal     |-> IF x.goal \in Ended THEN "none" ELSE x.goal]

-----------------------------------------------------------------------------
(* The executor's bookkeeping as a value: an operator below takes what the *)
(* callback has made of it so far (m) and says what the rest makes of it.  *)

Now ==
  [homeReason |-> homeReason, purpose |-> purpose, navToken |-> navToken,
   windowToken |-> windowToken, loopToken |-> loopToken, sampled |-> sampled,
   nav |-> nav, active |-> active, handle |-> handle, timers |-> timers]

Adopt(m) ==
  /\ homeReason' = m.homeReason
  /\ purpose' = m.purpose
  /\ navToken' = m.navToken
  /\ windowToken' = m.windowToken
  /\ loopToken' = m.loopToken
  /\ sampled' = m.sampled
  /\ nav' = m.nav
  /\ active' = m.active
  /\ handle' = m.handle
  /\ timers' = m.timers

FinishNavigation(m, c) ==
  LET owner == m.active = c IN
  [m EXCEPT !.nav[c] = CompletionOf(@),
            !.active = IF owner THEN None ELSE @,
            !.handle = IF owner THEN None ELSE @]

\* The two places that set canceled: the goal behind the active handle, if
\* there is one, is asked to stop.
CancelContext(m, c) ==
  LET flagged == [m EXCEPT !.nav[c].canceled = TRUE] IN
  IF m.handle # None /\ m.nav[m.handle].goal = "executing"
  THEN [flagged EXCEPT !.nav[m.handle].goal = "canceling"]
  ELSE flagged

CancelNavigation(m) ==
  IF m.active = None THEN m
  ELSE FinishNavigation(CancelContext(m, m.active), m.active)

Fired(t) ==
  [Now EXCEPT !.timers[t] = "none",
              !.windowToken = IF @ = t THEN None ELSE @,
              !.loopToken = IF @ = t THEN None ELSE @]

\* Publishing a terminal status arms the timer that will reset it.
SetState(s) ==
  /\ state' = s
  /\ resetTimer' = (resetTimer \/ s \in TerminalStates)

\* A window and a loop wait carry a token, a plain task delay carries none.
ScheduleOnce(m, kind) ==
  \E t \in TimerIds :
    /\ m.timers[t] = "none"
    /\ Adopt([m EXCEPT !.timers[t] = kind,
                       !.windowToken = IF kind = "window" THEN t ELSE @,
                       !.loopToken = IF kind = "loop" THEN t ELSE @])

StartNavigation(m, why) ==
  \E c \in NavIds, serverReady \in BOOLEAN :
    /\ m.nav[c] = Unused
    /\ Adopt([m EXCEPT !.nav[c] = IF serverReady THEN Sending(0) ELSE Waiting,
                       !.active = c, !.handle = None, !.navToken = c,
                       !.purpose = why])

-----------------------------------------------------------------------------
(* What the logic does next.                                               *)

HasTarget(r, i) == r # None /\ i < r.targets

StartReturnHome(m, afterFailure) ==
  /\ SetState("returning_home")
  /\ StartNavigation([m EXCEPT !.homeReason = afterFailure], "home")

CompleteSuccess(m) ==
  /\ SetState("succeeded")
  /\ Adopt(m)

FinishFailure(m) ==
  /\ SetState("failed")
  /\ Adopt([m EXCEPT !.windowToken = None])

CompleteTargets(m, r) ==
  IF r # None /\ r.returnToStart THEN StartReturnHome(m, FALSE) ELSE CompleteSuccess(m)

\* _navigate_current_target, when i is the current target of r.
NavigateTarget(m, r, i) ==
  IF HasTarget(r, i)
  THEN SetState("running") /\ StartNavigation(m, "target")
  ELSE CompleteTargets(m, r)

StartLoopWait(m) ==
  /\ SetState("waiting_loop")
  /\ ScheduleOnce(m, "loop")

ShouldContinueLoop ==
  route # None /\ route.loop /\ (route.maxCycles = 0 \/ cycle < route.maxCycles)

CompleteCycleSuccess(m) ==
  IF ShouldContinueLoop THEN StartLoopWait(m) ELSE CompleteSuccess(m)

\* With inspection the dwell is a window that only its own timer may close.
TargetReached(m) ==
  /\ IF HasTarget(route, index)
     THEN ScheduleOnce([m EXCEPT !.sampled = FALSE],
                       IF InspectionEnabled THEN "window" ELSE "task")
     ELSE Adopt(m)
  /\ UNCHANGED <<state, resetTimer, retry>>

AbandonTarget(m) ==
  IF route.abortHome THEN StartReturnHome(m, TRUE) ELSE FinishFailure(m)

\* Mutant: a failed attempt is not counted.
TargetFailedUncounted(m) ==
  \/ /\ route # None /\ retry < route.maxRetries
     /\ UNCHANGED retry
     /\ NavigateTarget(m, route, index)
  \/ /\ route # None /\ retry >= route.maxRetries
     /\ AbandonTarget(m)
     /\ UNCHANGED retry

TargetFailed(m) ==
  \/ /\ route = None
     /\ Adopt(m)
     /\ UNCHANGED <<state, resetTimer, retry>>
  \/ /\ route # None /\ retry < route.maxRetries
     /\ retry' = retry + 1
     /\ NavigateTarget(m, route, index)
  \/ /\ route # None /\ retry >= route.maxRetries
     /\ AbandonTarget(m)
     /\ UNCHANGED retry

HomeFinished(m, success) ==
  /\ IF success /\ ~homeReason THEN CompleteCycleSuccess(m) ELSE FinishFailure(m)
  /\ UNCHANGED retry

\* The callback the logic hands to the node with a navigation request.
NavigationFinished(m, c, success) ==
  LET stale == navToken # c \/ state \in {"paused", "canceled"}
      live == [m EXCEPT !.navToken = None]
  IN /\ UNCHANGED missionVars
     /\ \/ /\ stale
           /\ Adopt(m)
           /\ UNCHANGED <<state, resetTimer, retry>>
        \/ ~stale /\ purpose = "home" /\ HomeFinished(live, success)
        \/ ~stale /\ purpose = "target" /\ success /\ TargetReached(live)
        \/ ~stale /\ purpose = "target" /\ ~success /\ TargetFailed(live)

-----------------------------------------------------------------------------
(* Commands on /patrol/command.  A command the state refuses, and a start  *)
(* request seen before, change nothing modelled here.                      *)

Init ==
  /\ state = "idle" /\ route = None
  /\ index = 0 /\ cycle = 1 /\ retry = 0
  /\ pausedFrom = "none" /\ homeReason = FALSE /\ purpose = "none"
  /\ navToken = None /\ windowToken = None /\ loopToken = None
  /\ sampled = FALSE
  /\ nav = [c \in NavIds |-> Unused]
  /\ active = None /\ handle = None
  /\ timers = [t \in TimerIds |-> "none"]
  /\ resetTimer = FALSE

StartRoute(r) ==
  /\ state \notin ActiveStates
  /\ route' = r
  /\ index' = 0 /\ cycle' = 1 /\ retry' = 0
  /\ pausedFrom' = "none"
  /\ NavigateTarget([Now EXCEPT !.homeReason = FALSE, !.windowToken = None, !.loopToken = None],
          r, 0)

\* The route file does not load, or the route or the target is unknown.
FailToStart ==
  /\ state \notin ActiveStates
  /\ route' = None
  /\ SetState("failed")
  /\ UNCHANGED <<index, cycle, retry, pausedFrom, bookVars>>

\* A start command, an auto start after the initial pose or a due schedule.
StartRouteFromFile == (\E r \in Routes : StartRoute(r)) \/ FailToStart

GoToRoute ==
  [targets |-> 1, returnToStart |-> FALSE, loop |-> FALSE, maxCycles |-> 0,
   maxRetries |-> 0, abortHome |-> FALSE]

GoToTarget == StartRoute(GoToRoute)

\* pause, takeover, cancel and fail bump every token they can find.
Invalidated(m) ==
  [m EXCEPT !.navToken = None, !.windowToken = None, !.loopToken = None]

Pause ==
  /\ state \in MovingStates \cup {"waiting_loop"}
  /\ pausedFrom' = state
  /\ Adopt(IF state = "waiting_loop" THEN Invalidated(Now)
                                     ELSE CancelNavigation(Invalidated(Now)))
  /\ SetState("paused")
  /\ UNCHANGED <<route, index, cycle, retry>>

\* Mutant: a second hold forgets where the first one came from.
TakeoverForgetful ==
  /\ state \in MovingStates \cup {"paused", "waiting_loop"}
  /\ pausedFrom' = state
  /\ Adopt(CancelNavigation(Invalidated(Now)))
  /\ SetState("manual_takeover")
  /\ UNCHANGED <<route, index, cycle, retry>>

\* Mutant: a takeover leaves the navigation under way.
TakeoverUncanceled ==
  /\ state \in MovingStates \cup {"paused", "waiting_loop"}
  /\ pausedFrom' = IF state = "paused" THEN pausedFrom ELSE state
  /\ Adopt(Now)
  /\ SetState("manual_takeover")
  /\ UNCHANGED <<route, index, cycle, retry>>

Takeover ==
  /\ state \in MovingStates \cup {"paused", "waiting_loop"}
  /\ pausedFrom' = IF state = "paused" THEN pausedFrom ELSE state
  /\ Adopt(CancelNavigation(Invalidated(Now)))
  /\ SetState("manual_takeover")
  /\ UNCHANGED <<route, index, cycle, retry>>

Cancel ==
  /\ state \in ActiveStates
  /\ Adopt(CancelNavigation(Invalidated(Now)))
  /\ SetState("canceled")
  /\ UNCHANGED <<missionVars, retry>>

\* fail leaves the loop wait's token alone; its callback looks at the state.
Fail ==
  /\ state \in ActiveStates
  /\ FinishFailure(CancelNavigation([Now EXCEPT !.navToken = None]))
  /\ UNCHANGED <<missionVars, retry>>

ResumeTarget ==
  IF HasTarget(route, index) THEN NavigateTarget(Now, route, index)
  ELSE IF route.returnToStart THEN StartReturnHome(Now, homeReason)
  ELSE CompleteSuccess(Now)

Resume ==
  /\ state \in HeldStates
  /\ retry' = 0
  /\ pausedFrom' = "none"
  /\ CASE pausedFrom = "waiting_loop" -> StartLoopWait(Now)
       [] pausedFrom = "returning_home" -> StartReturnHome(Now, homeReason)
       [] OTHER -> ResumeTarget
  /\ UNCHANGED <<route, index, cycle>>

Command ==
  \/ StartRouteFromFile \/ GoToTarget
  \/ Pause \/ Takeover \/ Cancel \/ Fail \/ Resume

-----------------------------------------------------------------------------
(* Timers of the logic, and perception samples.                            *)

TargetTaskDone(m) ==
  /\ index' = index + 1
  /\ retry' = 0
  /\ NavigateTarget(m, route, index + 1)
  /\ UNCHANGED <<route, cycle, pausedFrom>>

TimerIgnored(t) ==
  /\ Adopt(Fired(t))
  /\ UNCHANGED <<state, resetTimer, retry, missionVars>>

\* Mutant: the delay does not ask whether the patrol still runs.
TargetTaskFinishedUnguarded(t) ==
  /\ timers[t] = "task"
  /\ IF HasTarget(route, index) THEN TargetTaskDone(Fired(t)) ELSE TimerIgnored(t)

TargetTaskFinished(t) ==
  /\ timers[t] = "task"
  /\ IF state = "running" /\ HasTarget(route, index) THEN TargetTaskDone(Fired(t))
                                                     ELSE TimerIgnored(t)

\* Mutant: any window's timer closes the current one.
AnyWindowIsCurrent(t) == state = "running" /\ HasTarget(route, index)

InspectionWindowIsCurrent(t) ==
  windowToken = t /\ state = "running" /\ HasTarget(route, index)

InspectionWindowFinished(t) ==
  /\ timers[t] = "window"
  /\ \/ ~InspectionWindowIsCurrent(t) /\ TimerIgnored(t)
     \/ /\ InspectionWindowIsCurrent(t) /\ sampled
        /\ TargetTaskDone([Fired(t) EXCEPT !.sampled = FALSE])
     \/ /\ InspectionWindowIsCurrent(t) /\ ~sampled
        /\ AbandonTarget(Fired(t))
        /\ UNCHANGED <<missionVars, retry>>

LocalizedObjects ==
  /\ InspectionEnabled
  /\ state = "running" /\ windowToken # None
  /\ sampled' = TRUE
  /\ UNCHANGED <<state, resetTimer, retry, missionVars, homeReason, purpose,
                 navToken, windowToken, loopToken, nav, active, handle, timers>>

LoopWaitFinished(t) ==
  /\ timers[t] = "loop"
  /\ IF loopToken = t /\ state = "waiting_loop"
     THEN /\ cycle < CycleBound
          /\ cycle' = cycle + 1
          /\ index' = 0
          /\ retry' = 0
          /\ NavigateTarget(Fired(t), route, 0)
          /\ UNCHANGED <<route, pausedFrom>>
     ELSE TimerIgnored(t)

\* reset_to_idle does nothing once a new route is running.
ResetTerminalState ==
  /\ resetTimer
  /\ resetTimer' = FALSE
  /\ \/ /\ state \notin ActiveStates
        /\ state' \in {"idle"} \cup (IF HasSchedules THEN {"waiting_schedule"} ELSE {})
        /\ route' = None
        /\ index' = 0
        /\ cycle' = 1
        /\ UNCHANGED <<pausedFrom, retry, bookVars>>
     \/ /\ state \in ActiveStates
        /\ UNCHANGED <<state, missionVars, retry, bookVars>>

-----------------------------------------------------------------------------
(* Callbacks of a navigation context.                                      *)

LogicVars == <<state, resetTimer, retry, missionVars, homeReason, purpose,
               navToken, windowToken, loopToken, sampled, timers>>

CheckNav2Ready(c) ==
  /\ nav[c].phase = "waiting"
  /\ nav' = [nav EXCEPT ![c] = Sending(0)]
  /\ UNCHANGED <<LogicVars, active, handle>>

Nav2WaitTimeout(c) ==
  /\ nav[c].phase = "waiting"
  /\ NavigationFinished(FinishNavigation(Now, c), c, FALSE)

ResendGoal(c) ==
  /\ nav[c].phase = "retrying"
  /\ nav' = [nav EXCEPT ![c] = Sending(@.rejects)]
  /\ UNCHANGED <<LogicVars, active, handle>>

\* Mutant: a late acceptance is dropped like any other late answer.
LateGoalResponseDropped(c) ==
  /\ nav[c].phase = "completed" /\ nav[c].goal \in Unanswered
  /\ nav' = [nav EXCEPT ![c] = [Unused EXCEPT !.goal =
               IF nav[c].goal # "accepted" THEN "none" ELSE "executing"]]
  /\ UNCHANGED <<LogicVars, active, handle>>

\* The answer comes after cancel or timeout: an accepted goal is asked to
\* stop if the context was canceled, any other answer is dropped.
LateGoalResponse(c) ==
  /\ nav[c].phase = "completed" /\ nav[c].goal \in Unanswered
  /\ nav' = [nav EXCEPT ![c] = [Unused EXCEPT !.goal =
               IF nav[c].goal # "accepted" THEN "none"
               ELSE IF nav[c].canceled THEN "canceling" ELSE "executing"]]
  /\ UNCHANGED <<LogicVars, active, handle>>

GoalAccepted(c) ==
  /\ nav[c].phase = "sending" /\ nav[c].goal = "accepted"
  /\ nav' = [nav EXCEPT ![c] = [@ EXCEPT !.phase = "executing", !.goal = "executing"]]
  /\ handle' = c
  /\ UNCHANGED <<LogicVars, active>>

\* A request whose future raises ends the navigation; so does a refusal when
\* the retries are used up.
GoalRequestFailed(c) ==
  /\ nav[c].phase = "sending"
  /\ \/ nav[c].goal = "error"
     \/ nav[c].goal = "refused" /\ nav[c].rejects >= MaxGoalRejects
  /\ NavigationFinished(FinishNavigation([Now EXCEPT !.nav[c].goal = "none"], c), c, FALSE)

RetryRejectedGoal(c) ==
  /\ nav[c].phase = "sending" /\ nav[c].goal = "refused"
  /\ nav[c].rejects < MaxGoalRejects
  /\ nav' = [nav EXCEPT ![c] = Retrying(@.rejects + 1)]
  /\ UNCHANGED <<LogicVars, active, handle>>

NavigationResult(c) ==
  /\ nav[c].phase = "executing" /\ nav[c].goal \in Ended
  /\ NavigationFinished(FinishNavigation(Now, c), c, nav[c].goal = "succeeded")

\* Mutant: the timeout does not call back.
NavigationTimeoutSilent(c) ==
  /\ nav[c].phase \in {"sending", "retrying", "executing"}
  /\ Adopt(FinishNavigation(CancelContext(Now, c), c))
  /\ UNCHANGED <<state, resetTimer, retry, missionVars>>

\* Mutant: the timeout reports an arrival.
NavigationTimeoutArrives(c) ==
  /\ nav[c].phase \in {"sending", "retrying", "executing"}
  /\ NavigationFinished(FinishNavigation(CancelContext(Now, c), c), c, TRUE)

NavigationTimeout(c) ==
  /\ nav[c].phase \in {"sending", "retrying", "executing"}
  /\ NavigationFinished(FinishNavigation(CancelContext(Now, c), c), c, FALSE)

-----------------------------------------------------------------------------
(* The Nav2 action server (external): it answers a request once, and ends  *)
(* a goal it has accepted with success or without, asked to or not.        *)

Nav2Answers(c) ==
  /\ nav[c].goal = "requested"
  /\ \E answer \in {"accepted", "refused", "error"} :
       nav' = [nav EXCEPT ![c].goal = answer]
  /\ UNCHANGED <<LogicVars, active, handle>>

Nav2Ends(c) ==
  /\ nav[c].goal \in {"executing", "canceling"}
  /\ \E result \in Ended :
       nav' = [nav EXCEPT ![c].goal =
                 IF nav[c].phase = "completed" THEN "none" ELSE result]
  /\ UNCHANGED <<LogicVars, active, handle>>

NavigationStep(c) ==
  \/ CheckNav2Ready(c) \/ Nav2WaitTimeout(c) \/ ResendGoal(c)
  \/ LateGoalResponse(c) \/ GoalAccepted(c) \/ GoalRequestFailed(c)
  \/ RetryRejectedGoal(c) \/ NavigationResult(c) \/ NavigationTimeout(c)
  \/ Nav2Answers(c) \/ Nav2Ends(c)

TimerFires(t) ==
  TargetTaskFinished(t) \/ InspectionWindowFinished(t) \/ LoopWaitFinished(t)

Next ==
  \/ Command
  \/ \E t \in TimerIds : TimerFires(t)
  \/ \E c \in NavIds : NavigationStep(c)
  \/ LocalizedObjects
  \/ ResetTerminalState

Spec == Init /\ [][Next]_vars

\* rclpy fires every pending timer and delivers every answer in the end, and
\* Nav2 answers each request.  Nothing is assumed of how long a goal executes
\* unless it has been asked to stop, of commands or of perception.
Fairness ==
  /\ \A t \in TimerIds : WF_vars(TimerFires(t))
  /\ \A c \in NavIds :
       /\ WF_vars(Nav2WaitTimeout(c)) /\ WF_vars(ResendGoal(c))
       /\ WF_vars(NavigationTimeout(c))
       /\ WF_vars(LateGoalResponse(c)) /\ WF_vars(Nav2Answers(c))
       /\ WF_vars(nav[c].goal = "canceling" /\ Nav2Ends(c))
  /\ WF_vars(ResetTerminalState)

FairSpec == Spec /\ Fairness

-----------------------------------------------------------------------------
(* Properties.                                                             *)

\* Every variable has the type its comment says.
TypeOK ==
  /\ state \in States
  /\ route \in Routes \cup {GoToRoute, None}
  /\ index \in Nat /\ cycle \in Nat /\ retry \in Nat
  /\ pausedFrom \in {"none", "waiting_loop"} \cup MovingStates
  /\ homeReason \in BOOLEAN
  /\ purpose \in {"none", "target", "home"}
  /\ navToken \in NavIds \cup {None}
  /\ windowToken \in TimerIds \cup {None}
  /\ loopToken \in TimerIds \cup {None}
  /\ sampled \in BOOLEAN
  /\ nav \in [NavIds -> ContextType]
  /\ active \in NavIds \cup {None}
  /\ handle \in NavIds \cup {None}
  /\ timers \in [TimerIds -> {"none", "task", "window", "loop"}]
  /\ resetTimer \in BOOLEAN

Driving(c) == active = c /\ navToken = c /\ nav[c].phase # "completed"

PendingDwell(t) ==
  IF InspectionEnabled THEN timers[t] = "window" /\ windowToken = t
                       ELSE timers[t] = "task"

\* No callback, dropped or ignored, leaves an active patrol with nothing that
\* will move it on: a moving patrol has a live navigation whose result will
\* be heard, or a dwell timer that will be, and a waiting one has its loop
\* timer (lines 240-665: every token that is bumped must be re-armed).
NeverStranded ==
  /\ state \in MovingStates =>
       \/ \E c \in NavIds : Driving(c)
       \/ state = "running" /\ \E t \in TimerIds : PendingDwell(t)
  /\ state = "waiting_loop" =>
       \E t \in TimerIds : timers[t] = "loop" /\ loopToken = t

\* Nav2 executes no goal that the executor has forgotten: a goal whose
\* acceptance was delivered, and that was not asked to stop, belongs to the
\* active navigation of a patrol that is moving.  Pause, takeover, cancel,
\* fail and the goal timeout, also before the acceptance arrives, leave no
\* goal driving the robot (_cancel_navigation, _on_goal_response).
NoGhostGoal ==
  \A c \in NavIds :
    nav[c].goal = "executing" => active = c /\ state \in MovingStates

\* A patrol that is paused or taken over stays so until an operator's resume,
\* cancel or fail: no late result, timeout or timer takes it out.
HeldUntilReleased ==
  [][(state \in HeldStates /\ state' \notin HeldStates) => (Resume \/ Cancel \/ Fail)]_vars

Dwelling == state = "running" /\ active = None

\* The operating manual's steps 7 to 9: the task at a target is over, and the
\* next one set out for, only after the target was reached and its dwell done.
TargetDoneAfterArrival == [][index' = index + 1 => Dwelling]_vars

\* A target counts as reached, and the way home as done, only on Nav2's word
\* for the navigation the logic is waiting for: never on a timeout, a refusal
\* or the result of a navigation that was given up (_navigation_finished).
ArrivalIsNav2Success ==
  [][LET byNav2(why) ==
           purpose = why /\ \E c \in NavIds : Driving(c) /\ nav[c].goal = "succeeded"
     IN /\ ~Dwelling /\ Dwelling' => byNav2("target")
        /\ state = "returning_home" /\ state' \in {"waiting_loop", "succeeded"}
             => byNav2("home")]_vars

\* The manual's rule for loops: with loop.enabled, max_cycles = 0 means laps
\* without end, so such a route never succeeds.
EndlessLoopsGoOn ==
  state = "succeeded" => ~(route # None /\ route.loop /\ route.maxCycles = 0)

\* The mission the executor carries out: between a target's navigation and
\* the next one there is an active navigation or a dwell, never both.
ModeOf(s) ==
  CASE s = "running" -> IF active = None THEN "visiting" ELSE "driving"
    [] s = "returning_home" -> IF homeReason THEN "retreating" ELSE "homing"
    [] s = "waiting_loop" -> "resting"
    [] s \in {"idle", "waiting_schedule"} -> "ready"
    [] OTHER -> s

Held == state \in HeldStates

HeldMode == IF pausedFrom = "running" THEN "driving" ELSE ModeOf(pausedFrom)

Mission ==
  INSTANCE PatrolMission WITH
    Plans <- Routes \cup {GoToRoute}, NoPlan <- None, plan <- route,
    mode <- IF Held THEN HeldMode ELSE ModeOf(state),
    held <- Held, visited <- index, lap <- cycle

\* The executor implements PatrolMission: order of targets, dwell after
\* arrival, the place kept by a hold, honest success.
ImplementsMission == Mission!Spec

\* A patrol that moves gets somewhere: every leg ends, with the retries of
\* every target and of every refused goal used up, in a hold, a wait or a
\* terminal state, whatever Nav2 does with its goals.
MovingEnds == state \in MovingStates ~> state \notin MovingStates
=============================================================================
