----------------------- MODULE PatrolExecutorProofs -----------------------
(***************************************************************************)
(* Proofs about PatrolExecutor for every set of routes, of navigation      *)
(* contexts and of timers: its invariant, then its step properties and its *)
(* refinement of PatrolMission, which rest on that invariant.              *)
(***************************************************************************)
EXTENDS PatrolExecutor, TLAPS

\* A context that is not completed is the active one, the one the logic
\* listens to, and the patrol moves; its goal is where its phase says.
ContextInv ==
  \A c \in NavIds :
    /\ nav[c].phase # "completed" =>
         active = c /\ navToken = c /\ state \in MovingStates
    /\ nav[c].phase \in {"waiting", "retrying"} => nav[c].goal = "none"
    /\ nav[c].phase = "sending" => nav[c].goal \in Unanswered
    /\ nav[c].phase = "executing" => nav[c].goal \in {"executing"} \cup Ended
    /\ nav[c].phase = "completed" =>
         \/ nav[c].goal \in {"none", "canceling"}
         \/ nav[c].goal \in Unanswered /\ nav[c].canceled

\* The active navigation is not completed, and the handle is its goal's.
ActiveInv ==
  /\ active # None => nav[active].phase # "completed"
  /\ handle # None => handle = active
  /\ \A c \in NavIds : nav[c].phase = "executing" => handle = c

\* An open window stands between two navigations of a running patrol.
WindowInv ==
  /\ windowToken # None =>
       state = "running" /\ active = None /\ timers[windowToken] = "window"
  /\ \A t \in TimerIds : timers[t] # "task"

\* What each state waits for, and what it may rely on.
StateInv ==
  /\ state = "running" => active # None \/ windowToken # None
  /\ state = "running" => HasTarget(route, index)
  /\ state = "running" /\ active # None => purpose = "target"
  /\ state = "returning_home" => active # None /\ purpose = "home"
  /\ state = "waiting_loop" => loopToken # None /\ timers[loopToken] = "loop"
  /\ state \in ActiveStates => route # None
  /\ state \in HeldStates => pausedFrom # "none"
  /\ state \in HeldStates /\ pausedFrom = "running" => HasTarget(route, index)

IInv == TypeOK /\ ContextInv /\ ActiveInv /\ WindowInv /\ StateInv

-----------------------------------------------------------------------------
(* Bookkeeping values with nothing under way: no active navigation, every  *)
(* context done with, no window open.  Every callback first brings the     *)
(* bookkeeping to such a value and then starts at most one thing.          *)

Books ==
  [homeReason : BOOLEAN, purpose : {"none", "target", "home"},
   navToken : NavIds \cup {None}, windowToken : TimerIds \cup {None},
   loopToken : TimerIds \cup {None}, sampled : BOOLEAN,
   nav : [NavIds -> ContextType], active : NavIds \cup {None},
   handle : NavIds \cup {None},
   timers : [TimerIds -> {"none", "task", "window", "loop"}]]

Done(x) ==
  /\ x.phase = "completed"
  /\ x.goal \in {"none", "canceling"} \/ (x.goal \in Unanswered /\ x.canceled)

Still(m) ==
  /\ m \in Books
  /\ m.active = None /\ m.handle = None
  /\ \A c \in NavIds : Done(m.nav[c])
  /\ \A t \in TimerIds : m.timers[t] # "task"

Quiet(m) == Still(m) /\ m.windowToken = None

BookInv == ContextInv /\ ActiveInv /\ WindowInv

\* The part of TypeOK a callback's continuation decides, and the rest.
Flow == Now \in Books /\ state \in States /\ resetTimer \in BOOLEAN

MissionTyped ==
  /\ route \in Routes \cup {GoToRoute, None}
  /\ index \in Nat /\ cycle \in Nat /\ retry \in Nat
  /\ pausedFrom \in {"none", "waiting_loop"} \cup MovingStates

LEMMA TypeSplit ==
  /\ TypeOK => Flow /\ MissionTyped
  /\ Flow' /\ MissionTyped' => TypeOK'
BY DEF TypeOK, Flow, MissionTyped, Now, Books

LEMMA AdoptTyped == ASSUME NEW m \in Books, Adopt(m) PROVE (Now \in Books)'
BY DEF Adopt, Books, Now

LEMMA FinishTyped ==
  ASSUME NEW m \in Books, NEW c \in NavIds
  PROVE  FinishNavigation(m, c) \in Books
<1>1. m.nav[c] \in ContextType
  BY DEF Books
<1>2. CompletionOf(m.nav[c]) \in ContextType
  BY <1>1 DEF CompletionOf, ContextType, Phases, Goals, Ended, Unanswered
<1>3. [m.nav EXCEPT ![c] = CompletionOf(@)] \in [NavIds -> ContextType]
  BY <1>2 DEF Books
<1>. QED
  BY <1>3 DEF FinishNavigation, Books

LEMMA ContextExcept ==
  /\ \A x \in ContextType : [x EXCEPT !.canceled = TRUE] \in ContextType
  /\ \A x \in ContextType, g \in Goals : [x EXCEPT !.goal = g] \in ContextType
BY DEF ContextType

LEMMA CancelContextTyped ==
  ASSUME NEW m \in Books, NEW c \in NavIds
  PROVE  CancelContext(m, c) \in Books
<1>. DEFINE flagged == [m EXCEPT !.nav[c].canceled = TRUE]
<1>0. m.nav[c] \in ContextType
  BY DEF Books
<1>1. [m.nav[c] EXCEPT !.canceled = TRUE] \in ContextType
  BY <1>0, ContextExcept, Zenon
<1>2. flagged \in Books
  BY <1>1 DEF Books
<1>3. ASSUME m.handle # None
      PROVE  [flagged EXCEPT !.nav[m.handle].goal = "canceling"] \in Books
  <2>1. m.handle \in NavIds
    BY <1>3 DEF Books
  <2>2. flagged.nav[m.handle] \in ContextType
    BY <1>2, <2>1 DEF Books
  <2>3. [flagged.nav[m.handle] EXCEPT !.goal = "canceling"] \in ContextType
    BY <2>2, ContextExcept DEF Goals
  <2>. QED
    BY <1>2, <2>1, <2>3 DEF Books
<1>. QED
  BY <1>2, <1>3 DEF CancelContext

LEMMA CancelNavigationTyped ==
  ASSUME NEW m \in Books
  PROVE  CancelNavigation(m) \in Books
<1>1. CASE m.active = None
  BY <1>1 DEF CancelNavigation
<1>2. CASE m.active # None
  <2>1. m.active \in NavIds
    BY <1>2 DEF Books
  <2>2. CancelContext(m, m.active) \in Books
    BY <2>1, CancelContextTyped
  <2>. QED
    BY <1>2, <2>1, <2>2, FinishTyped DEF CancelNavigation
<1>. QED
  BY <1>1, <1>2

LEMMA FiredTyped ==
  ASSUME Now \in Books, NEW t \in TimerIds
  PROVE  Fired(t) \in Books
BY DEF Fired, Books

LEMMA StartNavigationTyped ==
  ASSUME NEW m \in Books, NEW why \in {"target", "home"}, StartNavigation(m, why)
  PROVE  (Now \in Books)'
<1>1. PICK c \in NavIds, serverReady \in BOOLEAN :
        Adopt([m EXCEPT !.nav[c] = IF serverReady THEN Sending(0) ELSE Waiting,
                        !.active = c, !.handle = None, !.navToken = c,
                        !.purpose = why])
  BY DEF StartNavigation
<1>2. Sending(0) \in ContextType /\ Waiting \in ContextType
  BY DEF Sending, Waiting, ContextType, Phases, Goals, Unanswered
<1>3. [m.nav EXCEPT ![c] = IF serverReady THEN Sending(0) ELSE Waiting]
        \in [NavIds -> ContextType]
  BY <1>2 DEF Books
<1>. QED
  BY <1>1, <1>3, AdoptTyped DEF Books

LEMMA ScheduleOnceTyped ==
  ASSUME NEW m \in Books, NEW kind \in {"task", "window", "loop"}, ScheduleOnce(m, kind)
  PROVE  (Now \in Books)'
<1>1. PICK t \in TimerIds :
        Adopt([m EXCEPT !.timers[t] = kind,
                        !.windowToken = IF kind = "window" THEN t ELSE @,
                        !.loopToken = IF kind = "loop" THEN t ELSE @])
  BY DEF ScheduleOnce
<1>2. [m.timers EXCEPT ![t] = kind] \in [TimerIds -> {"none", "task", "window", "loop"}]
  BY DEF Books
<1>. QED
  BY <1>1, <1>2, AdoptTyped DEF Books

-----------------------------------------------------------------------------
(* Type correctness.                                                       *)

LEMMA SetStateTyped ==
  ASSUME resetTimer \in BOOLEAN, NEW s \in States, SetState(s)
  PROVE  state' \in States /\ resetTimer' \in BOOLEAN
BY DEF SetState

LEMMA StatesListed ==
  /\ {"running", "returning_home", "waiting_loop"} \subseteq States
  /\ HeldStates \cup TerminalStates \subseteq States
  /\ "idle" \in States /\ "waiting_schedule" \in States
BY DEF States, ActiveStates, HeldStates, MovingStates, TerminalStates

LEMMA CompleteSuccessFlow ==
  ASSUME Flow, NEW m \in Books, CompleteSuccess(m)
  PROVE  Flow'
BY AdoptTyped, SetStateTyped, StatesListed DEF Flow, CompleteSuccess, TerminalStates

LEMMA FinishFailureFlow ==
  ASSUME Flow, NEW m \in Books, FinishFailure(m)
  PROVE  Flow'
<1>1. [m EXCEPT !.windowToken = None] \in Books
  BY DEF Books
<1>. QED
  BY <1>1, AdoptTyped, SetStateTyped, StatesListed DEF Flow, FinishFailure, TerminalStates

LEMMA StartReturnHomeFlow ==
  ASSUME Flow, NEW m \in Books, NEW b \in BOOLEAN, StartReturnHome(m, b)
  PROVE  Flow'
<1>1. [m EXCEPT !.homeReason = b] \in Books
  BY DEF Books
<1>. QED
  BY <1>1, StartNavigationTyped, SetStateTyped, StatesListed DEF Flow, StartReturnHome

LEMMA CompleteTargetsFlow ==
  ASSUME Flow, NEW m \in Books, NEW r, CompleteTargets(m, r)
  PROVE  Flow'
BY StartReturnHomeFlow, CompleteSuccessFlow DEF CompleteTargets

LEMMA NavigateTargetFlow ==
  ASSUME Flow, NEW m \in Books, NEW r, NEW i, NavigateTarget(m, r, i)
  PROVE  Flow'
<1>1. CASE HasTarget(r, i)
  BY <1>1, StartNavigationTyped, SetStateTyped, StatesListed DEF NavigateTarget, Flow
<1>2. CASE ~HasTarget(r, i)
  BY <1>2, CompleteTargetsFlow DEF NavigateTarget
<1>. QED
  BY <1>1, <1>2

LEMMA StartLoopWaitFlow ==
  ASSUME Flow, NEW m \in Books, StartLoopWait(m)
  PROVE  Flow'
BY ScheduleOnceTyped, SetStateTyped, StatesListed DEF StartLoopWait, Flow

LEMMA AbandonTargetFlow ==
  ASSUME Flow, NEW m \in Books, AbandonTarget(m)
  PROVE  Flow'
BY StartReturnHomeFlow, FinishFailureFlow DEF AbandonTarget

LEMMA StandStillFlow ==
  ASSUME Flow, NEW m \in Books, Adopt(m), UNCHANGED <<state, resetTimer>>
  PROVE  Flow'
BY AdoptTyped DEF Flow

LEMMA TargetReachedFlow ==
  ASSUME Flow, NEW m \in Books, TargetReached(m)
  PROVE  Flow'
<1>1. [m EXCEPT !.sampled = FALSE] \in Books
  BY DEF Books
<1>. QED
  BY <1>1, ScheduleOnceTyped, StandStillFlow DEF TargetReached, Flow

LEMMA TargetFailedTyped ==
  ASSUME Flow, MissionTyped, NEW m \in Books, TargetFailed(m)
  PROVE  Flow' /\ retry' \in Nat
<1>1. CASE route = None /\ Adopt(m) /\ UNCHANGED <<state, resetTimer, retry>>
  BY <1>1, StandStillFlow DEF MissionTyped
<1>2. CASE retry' = retry + 1 /\ NavigateTarget(m, route, index)
  BY <1>2, NavigateTargetFlow DEF MissionTyped
<1>3. CASE AbandonTarget(m) /\ UNCHANGED retry
  BY <1>3, AbandonTargetFlow DEF MissionTyped
<1>. QED
  BY <1>1, <1>2, <1>3 DEF TargetFailed

LEMMA HomeFinishedTyped ==
  ASSUME Flow, MissionTyped, NEW m \in Books, NEW ok, HomeFinished(m, ok)
  PROVE  Flow' /\ retry' \in Nat
BY StartLoopWaitFlow, CompleteSuccessFlow, FinishFailureFlow
   DEF HomeFinished, CompleteCycleSuccess, MissionTyped

LEMMA NavigationFinishedTyped ==
  ASSUME TypeOK, NEW m \in Books, NEW c \in NavIds, NEW ok,
         NavigationFinished(m, c, ok)
  PROVE  TypeOK'
<1>. DEFINE live == [m EXCEPT !.navToken = None]
<1>1. Flow /\ MissionTyped
  BY TypeSplit
<1>2. live \in Books
  BY DEF Books
<1>3. UNCHANGED missionVars
  BY DEF NavigationFinished
<1>4. Flow' /\ retry' \in Nat
  <2>1. CASE Adopt(m) /\ UNCHANGED <<state, resetTimer, retry>>
    BY <2>1, <1>1, StandStillFlow DEF MissionTyped
  <2>2. CASE HomeFinished(live, ok)
    BY <2>2, <1>1, <1>2, HomeFinishedTyped
  <2>3. CASE TargetReached(live)
    BY <2>3, <1>1, <1>2, TargetReachedFlow DEF TargetReached, MissionTyped
  <2>4. CASE TargetFailed(live)
    BY <2>4, <1>1, <1>2, TargetFailedTyped
  <2>. QED
    BY <2>1, <2>2, <2>3, <2>4 DEF NavigationFinished
<1>5. MissionTyped'
  BY <1>1, <1>3, <1>4 DEF MissionTyped, missionVars
<1>. QED
  BY <1>4, <1>5, TypeSplit

LEMMA TypeInit == Init => TypeOK
<1>. SUFFICES ASSUME Init PROVE TypeOK
  OBVIOUS
<1>1. Unused \in ContextType
  BY DEF Unused, ContextType, Phases, Goals
<1>. QED
  BY <1>1, StatesListed DEF Init, TypeOK

LEMMA StartRouteTyped ==
  ASSUME TypeOK, NEW r \in Routes \cup {GoToRoute}, StartRoute(r)
  PROVE  TypeOK'
<1>. DEFINE m == [Now EXCEPT !.homeReason = FALSE, !.windowToken = None,
                             !.loopToken = None]
<1>1. Flow /\ MissionTyped
  BY TypeSplit
<1>2. m \in Books
  BY <1>1 DEF Flow, Books
<1>3. NavigateTarget(m, r, 0)
  BY DEF StartRoute
<1>4. Flow'
  BY <1>1, <1>2, <1>3, NavigateTargetFlow
<1>5. MissionTyped'
  BY DEF StartRoute, MissionTyped
<1>. QED
  BY <1>4, <1>5, TypeSplit

LEMMA CommandTyped ==
  ASSUME TypeOK, Command
  PROVE  TypeOK'
<1>1. Flow /\ MissionTyped
  BY TypeSplit
<1>2. Now \in Books /\ resetTimer \in BOOLEAN
  BY <1>1 DEF Flow
<1>3. Invalidated(Now) \in Books
  BY <1>2 DEF Invalidated, Books
<1>4. CancelNavigation(Invalidated(Now)) \in Books
  BY <1>3, CancelNavigationTyped
<1>5. CASE StartRouteFromFile
  <2>1. CASE \E r \in Routes : StartRoute(r)
    BY <2>1, StartRouteTyped
  <2>2. CASE FailToStart
    BY <2>2, <1>2, SetStateTyped, StatesListed
       DEF FailToStart, TypeOK, bookVars, TerminalStates
  <2>. QED
    BY <1>5, <2>1, <2>2 DEF StartRouteFromFile
<1>6. CASE GoToTarget
  BY <1>6, StartRouteTyped DEF GoToTarget
<1>7. CASE Pause
  <2>1. (Now \in Books)'
    BY <1>7, <1>3, <1>4, AdoptTyped DEF Pause
  <2>2. Flow'
    BY <2>1, <1>7, <1>2, SetStateTyped, StatesListed DEF Pause, Flow, HeldStates
  <2>. QED
    BY <2>2, <1>1, <1>7, TypeSplit DEF Pause, MissionTyped
<1>8. CASE Takeover
  <2>1. (Now \in Books)'
    BY <1>8, <1>4, AdoptTyped DEF Takeover
  <2>2. Flow'
    BY <2>1, <1>8, <1>2, SetStateTyped, StatesListed DEF Takeover, Flow, HeldStates
  <2>. QED
    BY <2>2, <1>1, <1>8, TypeSplit DEF Takeover, MissionTyped
<1>9. CASE Cancel
  <2>1. (Now \in Books)'
    BY <1>9, <1>4, AdoptTyped DEF Cancel
  <2>2. Flow'
    BY <2>1, <1>9, <1>2, SetStateTyped, StatesListed DEF Cancel, Flow, TerminalStates
  <2>. QED
    BY <2>2, <1>1, <1>9, TypeSplit DEF Cancel, MissionTyped, missionVars
<1>10. CASE Fail
  <2>1. [Now EXCEPT !.navToken = None] \in Books
    BY <1>2 DEF Books
  <2>2. CancelNavigation([Now EXCEPT !.navToken = None]) \in Books
    BY <2>1, CancelNavigationTyped
  <2>3. Flow'
    BY <2>2, <1>1, <1>10, FinishFailureFlow DEF Fail
  <2>. QED
    BY <2>3, <1>1, <1>10, TypeSplit DEF Fail, MissionTyped, missionVars
<1>11. CASE Resume
  <2>1. homeReason \in BOOLEAN
    BY DEF TypeOK
  <2>2. ResumeTarget => Flow'
    BY <1>1, <1>2, <2>1, NavigateTargetFlow, StartReturnHomeFlow, CompleteSuccessFlow
       DEF ResumeTarget
  <2>3. Flow'
    BY <2>1, <2>2, <1>1, <1>2, <1>11, StartLoopWaitFlow, StartReturnHomeFlow DEF Resume
  <2>. QED
    BY <2>3, <1>1, <1>11, TypeSplit DEF Resume, MissionTyped
<1>. QED
  BY <1>5, <1>6, <1>7, <1>8, <1>9, <1>10, <1>11 DEF Command

LEMMA TargetTaskDoneTyped ==
  ASSUME TypeOK, NEW m \in Books, TargetTaskDone(m)
  PROVE  TypeOK'
<1>1. Flow /\ MissionTyped
  BY TypeSplit
<1>2. Flow'
  BY <1>1, NavigateTargetFlow DEF TargetTaskDone
<1>3. MissionTyped'
  BY <1>1 DEF TargetTaskDone, MissionTyped
<1>. QED
  BY <1>2, <1>3, TypeSplit

LEMMA TimerIgnoredTyped ==
  ASSUME TypeOK, NEW t \in TimerIds, TimerIgnored(t)
  PROVE  TypeOK'
<1>1. Flow /\ MissionTyped
  BY TypeSplit
<1>2. Fired(t) \in Books
  BY <1>1, FiredTyped DEF Flow
<1>3. Flow'
  BY <1>1, <1>2, StandStillFlow DEF TimerIgnored
<1>4. MissionTyped'
  BY <1>1 DEF TimerIgnored, MissionTyped, missionVars
<1>. QED
  BY <1>3, <1>4, TypeSplit

LEMMA TimerFiresTyped ==
  ASSUME TypeOK, NEW t \in TimerIds, TimerFires(t)
  PROVE  TypeOK'
<1>1. Flow /\ MissionTyped
  BY TypeSplit
<1>2. Fired(t) \in Books
  BY <1>1, FiredTyped DEF Flow
<1>3. CASE TargetTaskFinished(t)
  BY <1>2, <1>3, TargetTaskDoneTyped, TimerIgnoredTyped DEF TargetTaskFinished
<1>4. CASE InspectionWindowFinished(t)
  <2>1. [Fired(t) EXCEPT !.sampled = FALSE] \in Books
    BY <1>2 DEF Books
  <2>2. CASE AbandonTarget(Fired(t)) /\ UNCHANGED <<missionVars, retry>>
    <3>1. Flow'
      BY <1>1, <1>2, <2>2, AbandonTargetFlow
    <3>. QED
      BY <3>1, <1>1, <2>2, TypeSplit DEF MissionTyped, missionVars
  <2>. QED
    BY <1>4, <2>1, <2>2, TargetTaskDoneTyped, TimerIgnoredTyped DEF InspectionWindowFinished
<1>5. CASE LoopWaitFinished(t)
  <2>1. CASE TimerIgnored(t)
    BY <2>1, TimerIgnoredTyped
  <2>2. CASE ~TimerIgnored(t)
    <3>1. NavigateTarget(Fired(t), route, 0)
      BY <1>5, <2>2 DEF LoopWaitFinished
    <3>2. Flow'
      BY <3>1, <1>1, <1>2, NavigateTargetFlow
    <3>3. MissionTyped'
      BY <1>1, <1>5, <2>2 DEF LoopWaitFinished, MissionTyped
    <3>. QED
      BY <3>2, <3>3, TypeSplit
  <2>. QED
    BY <2>1, <2>2
<1>. QED
  BY <1>3, <1>4, <1>5 DEF TimerFires

LEMMA NavUpdateTyped ==
  ASSUME TypeOK, NEW c \in NavIds, NEW x \in ContextType,
         nav' = [nav EXCEPT ![c] = x], UNCHANGED LogicVars,
         active' = active, handle' \in NavIds \cup {None}
  PROVE  TypeOK'
<1>1. nav' \in [NavIds -> ContextType]
  BY DEF TypeOK
<1>. QED
  BY <1>1 DEF TypeOK, LogicVars, missionVars

LEMMA NavigationStepTyped ==
  ASSUME TypeOK, NEW c \in NavIds, NavigationStep(c)
  PROVE  TypeOK'
<1>0. nav \in [NavIds -> ContextType] /\ nav[c] \in ContextType /\ handle \in NavIds \cup {None}
  BY DEF TypeOK
<1>1. Now \in Books
  BY TypeSplit DEF Flow
<1>2. FinishNavigation(Now, c) \in Books
  BY <1>1, FinishTyped
<1>3. \A n \in Nat : Sending(n) \in ContextType
  BY DEF Sending, ContextType, Phases, Goals, Unanswered
<1>4. CASE CheckNav2Ready(c)
  BY <1>0, <1>3, <1>4, NavUpdateTyped DEF CheckNav2Ready
<1>5. CASE Nav2WaitTimeout(c)
  BY <1>2, <1>5, NavigationFinishedTyped DEF Nav2WaitTimeout
<1>6. CASE ResendGoal(c)
  <2>1. nav[c].rejects \in Nat
    BY <1>0 DEF ContextType
  <2>. QED
    BY <2>1, <1>0, <1>3, <1>6, NavUpdateTyped DEF ResendGoal
<1>7. CASE LateGoalResponse(c)
  <2>. DEFINE g == IF nav[c].goal # "accepted" THEN "none"
                   ELSE IF nav[c].canceled THEN "canceling" ELSE "executing"
  <2>1. [Unused EXCEPT !.goal = g] \in ContextType
    BY DEF Unused, ContextType, Phases, Goals
  <2>. QED
    BY <2>1, <1>0, <1>7, NavUpdateTyped DEF LateGoalResponse
<1>8. CASE GoalAccepted(c)
  <2>1. [nav[c] EXCEPT !.phase = "executing", !.goal = "executing"] \in ContextType
    BY <1>0 DEF ContextType, Phases, Goals
  <2>. QED
    BY <2>1, <1>0, <1>8, NavUpdateTyped DEF GoalAccepted
<1>9. CASE GoalRequestFailed(c)
  <2>1. [nav[c] EXCEPT !.goal = "none"] \in ContextType
    BY <1>0, ContextExcept DEF Goals
  <2>2. [Now EXCEPT !.nav[c].goal = "none"] \in Books
    BY <2>1, <1>1 DEF Books, Now
  <2>. QED
    BY <2>2, <1>9, FinishTyped, NavigationFinishedTyped DEF GoalRequestFailed
<1>10. CASE RetryRejectedGoal(c)
  <2>1. Retrying(nav[c].rejects + 1) \in ContextType
    BY <1>0 DEF Retrying, ContextType, Phases, Goals
  <2>. QED
    BY <2>1, <1>0, <1>10, NavUpdateTyped DEF RetryRejectedGoal
<1>11. CASE NavigationResult(c)
  BY <1>2, <1>11, NavigationFinishedTyped DEF NavigationResult
<1>12. CASE NavigationTimeout(c)
  BY <1>1, <1>12, CancelContextTyped, FinishTyped, NavigationFinishedTyped
     DEF NavigationTimeout
<1>13. CASE Nav2Answers(c)
  BY <1>0, <1>13, ContextExcept, NavUpdateTyped DEF Nav2Answers, Goals, Unanswered
<1>14. CASE Nav2Ends(c)
  BY <1>0, <1>14, ContextExcept, NavUpdateTyped DEF Nav2Ends, Goals, Ended
<1>. QED
  BY <1>4, <1>5, <1>6, <1>7, <1>8, <1>9, <1>10, <1>11, <1>12, <1>13, <1>14
     DEF NavigationStep

\* Every variable keeps its type, whatever the routes and the pools of
\* contexts and timers, with inspection windows or without.
THEOREM TypeCorrect == Spec => []TypeOK
<1>1. ASSUME TypeOK, [Next]_vars
      PROVE  TypeOK'
  <2>1. CASE Command
    BY <1>1, <2>1, CommandTyped
  <2>2. CASE \E t \in TimerIds : TimerFires(t)
    BY <1>1, <2>2, TimerFiresTyped
  <2>3. CASE \E c \in NavIds : NavigationStep(c)
    BY <1>1, <2>3, NavigationStepTyped
  <2>4. CASE LocalizedObjects
    BY <1>1, <2>4 DEF LocalizedObjects, TypeOK, missionVars
  <2>5. CASE ResetTerminalState
    <3>1. state' \in States
      BY <1>1, <2>5, StatesListed DEF ResetTerminalState, TypeOK
    <3>2. (Now \in Books)'
      BY <1>1, <2>5, TypeSplit DEF ResetTerminalState, bookVars, Flow, Now
    <3>3. MissionTyped'
      BY <1>1, <2>5, TypeSplit DEF ResetTerminalState, MissionTyped, missionVars
    <3>. QED
      BY <2>5, <3>1, <3>2, <3>3, TypeSplit DEF ResetTerminalState, Flow
  <2>6. CASE UNCHANGED vars
    BY <1>1, <2>6 DEF TypeOK, vars, missionVars, bookVars
  <2>. QED
    BY <1>1, <2>1, <2>2, <2>3, <2>4, <2>5, <2>6 DEF Next
<1>. QED
  BY <1>1, TypeInit, PTL DEF Spec

-----------------------------------------------------------------------------
(* What a callback may do with a quiet bookkeeping keeps the invariant.    *)

LEMMA AdoptQuiet ==
  ASSUME NEW m, Quiet(m), Adopt(m)
  PROVE  /\ BookInv'
         /\ active' = None /\ windowToken' = None
BY DEF Quiet, Still, Adopt, BookInv, ContextInv, ActiveInv, WindowInv, Done

LEMMA StartQuiet ==
  ASSUME NEW m, Quiet(m), NEW why, StartNavigation(m, why), state' \in MovingStates
  PROVE  /\ BookInv'
         /\ active' # None /\ purpose' = why
<1>1. PICK c \in NavIds, serverReady \in BOOLEAN :
        Adopt([m EXCEPT !.nav[c] = IF serverReady THEN Sending(0) ELSE Waiting,
                        !.active = c, !.handle = None, !.navToken = c,
                        !.purpose = why])
  BY DEF StartNavigation
<1>. DEFINE x == IF serverReady THEN Sending(0) ELSE Waiting
<1>2. /\ active' = c /\ handle' = None /\ navToken' = c /\ purpose' = why
      /\ nav' = [m.nav EXCEPT ![c] = x]
      /\ windowToken' = None /\ timers' = m.timers
  BY <1>1 DEF Adopt, Quiet, Still, Books
<1>3. c # None
  BY ConstantsAssumption
<1>4. m.nav \in [NavIds -> ContextType]
  BY DEF Quiet, Still, Books
<1>5. nav'[c] = x /\ \A d \in NavIds : d # c => nav'[d] = m.nav[d]
  BY <1>2, <1>4
<1>6. x.phase # "completed" /\ x.phase # "executing"
      /\ (x.phase = "waiting" => x.goal = "none")
      /\ (x.phase = "sending" => x.goal \in Unanswered)
      /\ x.phase # "retrying"
  BY DEF Sending, Waiting, Unanswered
<1>7. ContextInv'
  BY <1>2, <1>5, <1>6 DEF ContextInv, Quiet, Still, Done
<1>8. ActiveInv'
  BY <1>2, <1>3, <1>5, <1>6 DEF ActiveInv, Quiet, Still, Done
<1>9. WindowInv'
  BY <1>2 DEF WindowInv, Quiet, Still
<1>. QED
  BY <1>2, <1>3, <1>7, <1>8, <1>9 DEF BookInv

LEMMA ScheduleQuiet ==
  ASSUME NEW m, Quiet(m), NEW kind \in {"window", "loop"}, ScheduleOnce(m, kind)
  PROVE  /\ ContextInv' /\ ActiveInv' /\ active' = None
         /\ \A t \in TimerIds : timers'[t] # "task"
         /\ kind = "window" =>
              windowToken' # None /\ timers'[windowToken'] = "window"
         /\ kind = "loop" =>
              /\ windowToken' = None
              /\ loopToken' # None /\ timers'[loopToken'] = "loop"
<1>1. PICK t \in TimerIds :
        Adopt([m EXCEPT !.timers[t] = kind,
                        !.windowToken = IF kind = "window" THEN t ELSE @,
                        !.loopToken = IF kind = "loop" THEN t ELSE @])
  BY DEF ScheduleOnce
<1>2. /\ active' = None /\ handle' = None /\ nav' = m.nav
      /\ timers' = [m.timers EXCEPT ![t] = kind]
      /\ windowToken' = IF kind = "window" THEN t ELSE None
      /\ kind = "loop" => loopToken' = t
  BY <1>1 DEF Adopt, Quiet, Still, Books
<1>3. t # None
  BY ConstantsAssumption
<1>4. timers'[t] = kind /\ \A u \in TimerIds : u # t => timers'[u] = m.timers[u]
  BY <1>2 DEF Quiet, Still, Books
<1>5. ContextInv' /\ ActiveInv'
  BY <1>2 DEF ContextInv, ActiveInv, Quiet, Still, Done
<1>. QED
  BY <1>2, <1>3, <1>4, <1>5 DEF Quiet, Still

LEMMA StillQuiet ==
  ASSUME NEW m, Still(m)
  PROVE  Quiet([m EXCEPT !.windowToken = None])
BY DEF Still, Quiet, Books

-----------------------------------------------------------------------------
(* Every way a callback may go on establishes the invariant.               *)

Safe == BookInv /\ StateInv

LEMMA StopSafe ==
  ASSUME NEW m, Quiet(m), Adopt(m), state' \notin ActiveStates
  PROVE  Safe'
BY AdoptQuiet DEF Safe, StateInv, ActiveStates, MovingStates, HeldStates

LEMMA CompleteSuccessSafe ==
  ASSUME NEW m, Quiet(m), CompleteSuccess(m)
  PROVE  Safe'
BY StopSafe DEF CompleteSuccess, SetState, ActiveStates, MovingStates, HeldStates

LEMMA FinishFailureSafe ==
  ASSUME NEW m, Still(m), FinishFailure(m)
  PROVE  Safe'
BY StillQuiet, StopSafe
   DEF FinishFailure, SetState, ActiveStates, MovingStates, HeldStates

LEMMA StartReturnHomeSafe ==
  ASSUME NEW m, Quiet(m), NEW b \in BOOLEAN, StartReturnHome(m, b), route' # None
  PROVE  Safe'
<1>1. Quiet([m EXCEPT !.homeReason = b])
  BY DEF Quiet, Still, Books
<1>2. state' = "returning_home"
  BY DEF StartReturnHome, SetState
<1>3. BookInv' /\ active' # None /\ purpose' = "home"
  BY <1>1, <1>2, StartQuiet DEF StartReturnHome, MovingStates
<1>. QED
  BY <1>2, <1>3 DEF Safe, StateInv, HeldStates

LEMMA CompleteTargetsSafe ==
  ASSUME NEW m, Quiet(m), CompleteTargets(m, route')
  PROVE  Safe'
BY CompleteSuccessSafe, StartReturnHomeSafe DEF CompleteTargets

LEMMA NavigateTargetSafe ==
  ASSUME NEW m, Quiet(m), NavigateTarget(m, route', index')
  PROVE  Safe'
<1>1. CASE HasTarget(route', index')
  <2>1. state' = "running"
    BY <1>1 DEF NavigateTarget, SetState
  <2>2. BookInv' /\ active' # None /\ purpose' = "target"
    BY <1>1, <2>1, StartQuiet DEF NavigateTarget, MovingStates
  <2>. QED
    BY <1>1, <2>1, <2>2 DEF Safe, StateInv, HeldStates, HasTarget
<1>2. CASE ~HasTarget(route', index')
  BY <1>2, CompleteTargetsSafe DEF NavigateTarget
<1>. QED
  BY <1>1, <1>2

LEMMA StartLoopWaitSafe ==
  ASSUME NEW m, Quiet(m), StartLoopWait(m), route' # None
  PROVE  Safe'
<1>1. state' = "waiting_loop"
  BY DEF StartLoopWait, SetState
<1>2. /\ ContextInv' /\ ActiveInv' /\ windowToken' = None
      /\ \A t \in TimerIds : timers'[t] # "task"
      /\ loopToken' # None /\ timers'[loopToken'] = "loop"
  BY ScheduleQuiet DEF StartLoopWait
<1>3. BookInv'
  BY <1>2 DEF BookInv, WindowInv
<1>. QED
  BY <1>1, <1>2, <1>3 DEF Safe, StateInv, HeldStates

LEMMA AbandonTargetSafe ==
  ASSUME NEW m, Quiet(m), AbandonTarget(m), route # None, UNCHANGED route
  PROVE  Safe'
BY StartReturnHomeSafe, FinishFailureSafe DEF AbandonTarget, Quiet

LEMMA TargetReachedSafe ==
  ASSUME InspectionEnabled, NEW m, Quiet(m), TargetReached(m),
         state = "running", HasTarget(route, index), UNCHANGED missionVars
  PROVE  Safe'
<1>1. Quiet([m EXCEPT !.sampled = FALSE])
  BY DEF Quiet, Still, Books
<1>2. ScheduleOnce([m EXCEPT !.sampled = FALSE], "window")
  BY DEF TargetReached
<1>3. /\ ContextInv' /\ ActiveInv' /\ active' = None
      /\ \A t \in TimerIds : timers'[t] # "task"
      /\ windowToken' # None /\ timers'[windowToken'] = "window"
  BY <1>1, <1>2, ScheduleQuiet
<1>4. state' = "running" /\ HasTarget(route', index')
  BY DEF TargetReached, missionVars
<1>. QED
  BY <1>3, <1>4 DEF Safe, BookInv, WindowInv, StateInv, HasTarget, HeldStates

LEMMA TargetFailedSafe ==
  ASSUME NEW m, Quiet(m), TargetFailed(m), route # None, UNCHANGED missionVars
  PROVE  Safe'
BY NavigateTargetSafe, AbandonTargetSafe DEF TargetFailed, missionVars

LEMMA HomeFinishedSafe ==
  ASSUME NEW m, Quiet(m), NEW ok, HomeFinished(m, ok), route # None, UNCHANGED missionVars
  PROVE  Safe'
BY StartLoopWaitSafe, CompleteSuccessSafe, FinishFailureSafe
   DEF HomeFinished, CompleteCycleSuccess, missionVars, Quiet

\* The context a callback belongs to is the one the logic listens to.
LEMMA NavigationFinishedSafe ==
  ASSUME InspectionEnabled, Safe, NEW m, Quiet(m), NEW c \in NavIds,
         nav[c].phase # "completed", NEW ok, NavigationFinished(m, c, ok)
  PROVE  Safe'
<1>. DEFINE live == [m EXCEPT !.navToken = None]
<1>1. Quiet(live)
  BY DEF Quiet, Still, Books
<1>2. active = c /\ navToken = c /\ state \in MovingStates
  BY DEF Safe, BookInv, ContextInv
<1>3. c # None
  BY ConstantsAssumption
<1>4. route # None
  BY <1>2 DEF Safe, StateInv, ActiveStates
<1>5. UNCHANGED missionVars
  BY DEF NavigationFinished
<1>6. CASE state = "running"
  <2>1. purpose = "target" /\ HasTarget(route, index)
    BY <1>2, <1>3, <1>6 DEF Safe, StateInv
  <2>2. TargetReached(live) \/ TargetFailed(live)
    BY <1>2, <1>6, <2>1 DEF NavigationFinished
  <2>. QED
    BY <1>1, <1>4, <1>5, <1>6, <2>1, <2>2, TargetReachedSafe, TargetFailedSafe
<1>7. CASE state = "returning_home"
  <2>1. purpose = "home"
    BY <1>7 DEF Safe, StateInv
  <2>2. HomeFinished(live, ok)
    BY <1>2, <1>7, <2>1 DEF NavigationFinished
  <2>. QED
    BY <1>1, <1>4, <1>5, <2>2, HomeFinishedSafe
<1>. QED
  BY <1>2, <1>6, <1>7 DEF MovingStates

-----------------------------------------------------------------------------
(* Every callback begins by making the bookkeeping quiet.                  *)

\* m agrees with the variables on all that quietness is about, except that
\* context c may have been flagged or its goal may have changed.
Agrees(m, c) ==
  /\ m \in Books
  /\ m.active = active /\ m.handle = handle
  /\ m.windowToken = windowToken /\ m.timers = timers
  /\ \A d \in NavIds : d # c => m.nav[d] = nav[d]

LEMMA FinishQuiet ==
  ASSUME Safe, NEW c \in NavIds, nav[c].phase # "completed", NEW m, Agrees(m, c),
         \/ m.nav[c].goal \in Ended \cup {"none", "canceling"}
         \/ m.nav[c].goal \in Unanswered /\ m.nav[c].canceled
  PROVE  Quiet(FinishNavigation(m, c))
<1>. DEFINE f == FinishNavigation(m, c)
<1>1. active = c /\ c # None
  BY ConstantsAssumption DEF Safe, BookInv, ContextInv
<1>2. f \in Books
  BY FinishTyped DEF Agrees
<1>3. /\ f.active = None /\ f.handle = None
      /\ f.windowToken = m.windowToken /\ f.timers = m.timers
      /\ f.nav = [m.nav EXCEPT ![c] = CompletionOf(m.nav[c])]
  BY <1>1 DEF FinishNavigation, Agrees, Books
<1>4. f.windowToken = None /\ \A t \in TimerIds : f.timers[t] # "task"
  BY <1>1, <1>3 DEF Agrees, Safe, BookInv, WindowInv
<1>5. Done(CompletionOf(m.nav[c]))
  BY DEF Done, CompletionOf, Ended, Unanswered
<1>6. ASSUME NEW d \in NavIds, d # c
      PROVE  Done(nav[d])
  BY <1>1, <1>6 DEF Safe, BookInv, ContextInv, Done
<1>7. \A d \in NavIds : Done(f.nav[d])
  <2>1. m.nav \in [NavIds -> ContextType] /\ \A d \in NavIds : d # c => m.nav[d] = nav[d]
    BY DEF Agrees, Books
  <2>2. f.nav[c] = CompletionOf(m.nav[c]) /\ \A d \in NavIds : d # c => f.nav[d] = nav[d]
    BY <1>3, <2>1
  <2>. QED
    BY <1>5, <1>6, <2>2
<1>. QED
  BY <1>2, <1>3, <1>4, <1>7 DEF Quiet, Still

LEMMA NowAgrees == ASSUME Now \in Books, NEW c \in NavIds PROVE Agrees(Now, c)
BY DEF Agrees, Now

\* Whatever the phase of an unfinished context, flagging it canceled and
\* asking its goal to stop leaves nothing that could still execute.
LEMMA CancelContextSettles ==
  ASSUME Safe, TypeOK, NEW c \in NavIds, nav[c].phase # "completed",
         NEW m \in Books, m.nav = nav, m.active = active, m.handle = handle,
         m.timers = timers
  PROVE  LET k == CancelContext(m, c) IN
         /\ k \in Books
         /\ k.active = active /\ k.handle = handle
         /\ k.windowToken = m.windowToken /\ k.timers = timers
         /\ \A d \in NavIds : d # c => k.nav[d] = nav[d]
         /\ \/ k.nav[c].goal \in Ended \cup {"none", "canceling"}
            \/ k.nav[c].goal \in Unanswered /\ k.nav[c].canceled
<1>. DEFINE k == CancelContext(m, c)
<1>0. k \in Books
  BY CancelContextTyped
<1>1. active = c /\ (handle # None => handle = c)
  BY DEF Safe, BookInv, ContextInv, ActiveInv
<1>2. nav[c] \in ContextType /\ nav \in [NavIds -> ContextType]
  BY DEF TypeOK
<1>3. nav[c].phase = "executing" => handle = c
  BY DEF Safe, BookInv, ActiveInv
<1>4. nav[c].goal \in {"none", "executing"} \cup Unanswered \cup Ended
      /\ (nav[c].goal = "executing" => nav[c].phase = "executing")
  BY <1>2 DEF Safe, BookInv, ContextInv, ContextType, Phases, Unanswered, Ended
<1>5. c # None
  BY ConstantsAssumption
<1>6. CASE handle = c /\ nav[c].goal = "executing"
  <2>. DEFINE flagged == [m EXCEPT !.nav[c].canceled = TRUE]
  <2>1. k = [flagged EXCEPT !.nav[c].goal = "canceling"]
    BY <1>5, <1>6 DEF CancelContext
  <2>2. /\ flagged.active = active /\ flagged.handle = handle
        /\ flagged.windowToken = m.windowToken /\ flagged.timers = timers
        /\ \A d \in NavIds : d # c => flagged.nav[d] = nav[d]
    BY <1>2 DEF Books
  <2>3. flagged.nav \in [NavIds -> ContextType]
    <3>1. [nav[c] EXCEPT !.canceled = TRUE] \in ContextType
      BY <1>2, ContextExcept DEF Goals
    <3>. QED
      BY <3>1, <1>2 DEF Books
  <2>4. k.nav = [flagged.nav EXCEPT ![c] = [flagged.nav[c] EXCEPT !.goal = "canceling"]]
    BY <2>1 DEF Books
  <2>5. k.nav[c].goal = "canceling"
    BY <2>3, <2>4 DEF ContextType
  <2>6. /\ k.active = active /\ k.handle = handle
        /\ k.windowToken = m.windowToken /\ k.timers = timers
        /\ \A d \in NavIds : d # c => k.nav[d] = nav[d]
    BY <2>1, <2>2, <2>3, <2>4 DEF Books
  <2>. QED
    BY <2>5, <2>6, <1>0
<1>7. CASE ~(handle = c /\ nav[c].goal = "executing")
  <2>1. k = [m EXCEPT !.nav[c].canceled = TRUE]
    BY <1>1, <1>7 DEF CancelContext
  <2>2. nav[c].goal # "executing"
    BY <1>3, <1>4, <1>7
  <2>3. k.nav[c].goal = nav[c].goal /\ k.nav[c].canceled
    BY <2>1, <1>2 DEF Books, ContextType
  <2>. QED
    BY <2>1, <2>2, <2>3, <1>0, <1>2, <1>4 DEF Books
<1>. QED
  BY <1>6, <1>7

LEMMA CancelQuiet ==
  ASSUME Safe, TypeOK, NEW m \in Books, m.nav = nav, m.active = active,
         m.handle = handle, m.timers = timers
  PROVE  /\ Still(CancelNavigation(m))
         /\ CancelNavigation(m).windowToken = m.windowToken
<1>1. CASE active = None
  <2>1. \A d \in NavIds : Done(nav[d])
    BY <1>1, ConstantsAssumption DEF Safe, BookInv, ContextInv, Done
  <2>2. handle = None
    BY <1>1 DEF Safe, BookInv, ActiveInv
  <2>. QED
    BY <1>1, <2>1, <2>2 DEF CancelNavigation, Still, Safe, BookInv, WindowInv
<1>2. CASE active # None
  <2>. DEFINE k == CancelContext(m, active)
  <2>1. active \in NavIds /\ nav[active].phase # "completed" /\ windowToken = None
    BY <1>2 DEF TypeOK, Safe, BookInv, ActiveInv, WindowInv
  <2>2. /\ k \in Books
        /\ k.active = active /\ k.handle = handle
        /\ k.windowToken = m.windowToken /\ k.timers = timers
        /\ \A d \in NavIds : d # active => k.nav[d] = nav[d]
        /\ \/ k.nav[active].goal \in Ended \cup {"none", "canceling"}
           \/ k.nav[active].goal \in Unanswered /\ k.nav[active].canceled
    BY <2>1, CancelContextSettles
  <2>. DEFINE f == FinishNavigation(k, active)
  <2>3. CancelNavigation(m) = f
    BY <1>2 DEF CancelNavigation
  <2>4. f \in Books
    BY <2>1, <2>2, FinishTyped
  <2>5. /\ f.active = None /\ f.handle = None
        /\ f.windowToken = m.windowToken /\ f.timers = timers
        /\ f.nav = [k.nav EXCEPT ![active] = CompletionOf(k.nav[active])]
    BY <2>2 DEF FinishNavigation, Books
  <2>6. Done(CompletionOf(k.nav[active]))
    BY <2>2 DEF Done, CompletionOf, Ended, Unanswered
  <2>7. \A d \in NavIds : d # active => Done(nav[d])
    BY DEF Safe, BookInv, ContextInv, Done
  <2>8. ASSUME NEW d \in NavIds PROVE Done(f.nav[d])
    <3>1. k.nav \in [NavIds -> ContextType]
      BY <2>2 DEF Books
    <3>2. CASE d = active
      BY <3>1, <3>2, <2>5, <2>6, <2>1
    <3>3. CASE d # active
      <4>1. f.nav[d] = nav[d]
        BY <3>1, <3>3, <2>2, <2>5
      <4>. QED
        BY <4>1, <3>3, <2>7
    <3>. QED
      BY <3>2, <3>3
  <2>9. \A t \in TimerIds : timers[t] # "task"
    BY DEF Safe, BookInv, WindowInv
  <2>. QED
    BY <2>3, <2>4, <2>5, <2>8, <2>9 DEF Still
<1>. QED
  BY <1>1, <1>2

LEMMA QuietNow ==
  ASSUME Safe, TypeOK, state \notin MovingStates
  PROVE  Quiet(Now)
<1>1. Now \in Books
  BY TypeSplit DEF Flow
<1>2. active = None
  BY DEF TypeOK, Safe, BookInv, ContextInv, ActiveInv
<1>3. handle = None
  BY <1>2 DEF Safe, BookInv, ActiveInv
<1>4. windowToken = None
  BY DEF Safe, BookInv, WindowInv, MovingStates
<1>5. \A d \in NavIds : Done(nav[d])
  BY DEF Safe, BookInv, ContextInv, Done
<1>6. \A t \in TimerIds : timers[t] # "task"
  BY DEF Safe, BookInv, WindowInv
<1>. QED
  BY <1>1, <1>2, <1>3, <1>4, <1>5, <1>6 DEF Quiet, Still, Now

LEMMA InvalidatedQuiet ==
  ASSUME Safe, TypeOK
  PROVE  Quiet(CancelNavigation(Invalidated(Now)))
<1>1. Now \in Books
  BY TypeSplit DEF Flow
<1>. DEFINE m == Invalidated(Now)
<1>2. /\ m \in Books /\ m.windowToken = None
      /\ m.nav = nav /\ m.active = active /\ m.handle = handle /\ m.timers = timers
  BY <1>1 DEF Invalidated, Books, Now
<1>. QED
  BY <1>2, CancelQuiet DEF Quiet

-----------------------------------------------------------------------------
(* Every action preserves the invariant.                                   *)

LEMMA StartRouteSafe ==
  ASSUME Safe, TypeOK, NEW r, StartRoute(r)
  PROVE  Safe'
<1>. DEFINE m == [Now EXCEPT !.homeReason = FALSE, !.windowToken = None,
                             !.loopToken = None]
<1>1. Quiet(Now)
  BY QuietNow DEF StartRoute, ActiveStates
<1>2. Quiet(m)
  BY <1>1 DEF Quiet, Still, Books
<1>3. NavigateTarget(m, route', index')
  BY DEF StartRoute
<1>. QED
  BY <1>2, <1>3, NavigateTargetSafe

LEMMA FailToStartSafe ==
  ASSUME Safe, TypeOK, FailToStart
  PROVE  Safe'
<1>1. state' = "failed"
  BY DEF FailToStart, SetState
<1>2. BookInv'
  BY <1>1 DEF FailToStart, bookVars, Safe, BookInv, ContextInv, ActiveInv, WindowInv,
              ActiveStates, MovingStates
<1>. QED
  BY <1>1, <1>2 DEF Safe, StateInv, ActiveStates, MovingStates, HeldStates

\* A hold keeps the route, and what pausedFrom says of it.
LEMMA HoldSafe ==
  ASSUME NEW m, Quiet(m), Adopt(m), state' \in HeldStates, route' # None,
         pausedFrom' # "none", pausedFrom' = "running" => HasTarget(route', index')
  PROVE  Safe'
BY AdoptQuiet DEF Safe, StateInv, HeldStates

LEMMA PauseSafe ==
  ASSUME Safe, TypeOK, Pause
  PROVE  Safe'
<1>1. state' = "paused" /\ route' # None /\ pausedFrom' = state
  BY DEF Pause, SetState, Safe, StateInv, ActiveStates
<1>2. state' \in HeldStates
  BY <1>1 DEF HeldStates
<1>3. pausedFrom' # "none" /\ (pausedFrom' = "running" => HasTarget(route', index'))
  BY <1>1 DEF Pause, MovingStates, Safe, StateInv, HasTarget
<1>4. CASE state = "waiting_loop"
  <2>1. Quiet(Now)
    BY <1>4, QuietNow DEF MovingStates
  <2>2. Quiet(Invalidated(Now))
    BY <2>1 DEF Quiet, Still, Books, Invalidated
  <2>. QED
    BY <1>1, <1>2, <1>3, <1>4, <2>2, HoldSafe DEF Pause
<1>5. CASE state # "waiting_loop"
  BY <1>1, <1>2, <1>3, <1>5, InvalidatedQuiet, HoldSafe DEF Pause
<1>. QED
  BY <1>4, <1>5

LEMMA TakeoverSafe ==
  ASSUME Safe, TypeOK, Takeover
  PROVE  Safe'
<1>1. state' = "manual_takeover" /\ route' # None
  BY DEF Takeover, SetState, Safe, StateInv, ActiveStates, HeldStates
<1>2. state' \in HeldStates
  BY <1>1 DEF HeldStates
<1>3. pausedFrom' # "none" /\ (pausedFrom' = "running" => HasTarget(route', index'))
  BY DEF Takeover, MovingStates, HeldStates, Safe, StateInv, HasTarget
<1>. QED
  BY <1>1, <1>2, <1>3, InvalidatedQuiet, HoldSafe DEF Takeover

LEMMA CancelSafe ==
  ASSUME Safe, TypeOK, Cancel
  PROVE  Safe'
<1>1. state' \notin ActiveStates
  BY DEF Cancel, SetState, ActiveStates, MovingStates, HeldStates
<1>. QED
  BY <1>1, InvalidatedQuiet, StopSafe DEF Cancel

LEMMA FailSafe ==
  ASSUME Safe, TypeOK, Fail
  PROVE  Safe'
<1>. DEFINE m == [Now EXCEPT !.navToken = None]
<1>1. Now \in Books
  BY TypeSplit DEF Flow
<1>2. /\ m \in Books
      /\ m.nav = nav /\ m.active = active /\ m.handle = handle /\ m.timers = timers
  BY <1>1 DEF Books, Now
<1>3. Still(CancelNavigation(m))
  BY <1>2, CancelQuiet
<1>. QED
  BY <1>3, FinishFailureSafe DEF Fail

LEMMA ResumeSafe ==
  ASSUME Safe, TypeOK, Resume
  PROVE  Safe'
<1>1. Quiet(Now)
  BY QuietNow DEF Resume, HeldStates, MovingStates
<1>2. route' = route /\ index' = index /\ route # None
  BY DEF Resume, Safe, StateInv, ActiveStates
<1>3. homeReason \in BOOLEAN
  BY DEF TypeOK
<1>4. CASE pausedFrom = "waiting_loop"
  BY <1>1, <1>2, <1>4, StartLoopWaitSafe DEF Resume
<1>5. CASE pausedFrom = "returning_home"
  BY <1>1, <1>2, <1>3, <1>5, StartReturnHomeSafe DEF Resume
<1>6. CASE pausedFrom = "running"
  <2>1. HasTarget(route, index)
    BY <1>6 DEF Resume, Safe, StateInv
  <2>2. NavigateTarget(Now, route, index)
    BY <1>6, <2>1 DEF Resume, ResumeTarget
  <2>. QED
    BY <1>1, <1>2, <2>2, NavigateTargetSafe
<1>7. pausedFrom # "none"
  BY DEF Resume, Safe, StateInv
<1>. QED
  BY <1>4, <1>5, <1>6, <1>7 DEF TypeOK, MovingStates

LEMMA CommandSafe ==
  ASSUME Safe, TypeOK, Command
  PROVE  Safe'
BY StartRouteSafe, FailToStartSafe, PauseSafe, TakeoverSafe, CancelSafe, FailSafe, ResumeSafe
   DEF Command, StartRouteFromFile, GoToTarget

\* A timer whose token is not the current one, or has no state to act in.
LEMMA TimerIgnoredSafe ==
  ASSUME Safe, NEW t \in TimerIds, TimerIgnored(t), windowToken # t,
         state = "waiting_loop" => loopToken # t
  PROVE  Safe'
<1>1. /\ UNCHANGED <<state, route, index, pausedFrom, purpose, navToken, nav, active, handle>>
      /\ timers' = [timers EXCEPT ![t] = "none"]
      /\ windowToken' = windowToken
      /\ loopToken' = IF loopToken = t THEN None ELSE loopToken
  BY DEF TimerIgnored, Adopt, Fired, Now, missionVars
<1>2. t # None
  BY ConstantsAssumption
<1>3. ContextInv' /\ ActiveInv'
  BY <1>1 DEF Safe, BookInv, ContextInv, ActiveInv
<1>4. WindowInv'
  BY <1>1 DEF Safe, BookInv, WindowInv
<1>5. StateInv'
  BY <1>1 DEF Safe, StateInv, HasTarget
<1>. QED
  BY <1>3, <1>4, <1>5 DEF Safe, BookInv

LEMMA FiredQuiet ==
  ASSUME Safe, TypeOK, NEW t \in TimerIds,
         windowToken = t \/ state = "waiting_loop"
  PROVE  Quiet(Fired(t))
<1>1. Now \in Books
  BY TypeSplit DEF Flow
<1>2. Fired(t) \in Books
  BY <1>1, FiredTyped
<1>3. t # None
  BY ConstantsAssumption
<1>4. active = None
  BY <1>3 DEF TypeOK, Safe, BookInv, ContextInv, ActiveInv, WindowInv, MovingStates
<1>5. handle = None
  BY <1>4 DEF Safe, BookInv, ActiveInv
<1>6. \A d \in NavIds : Done(nav[d])
  BY <1>4, ConstantsAssumption DEF Safe, BookInv, ContextInv, Done
<1>7. Fired(t).windowToken = None
  BY DEF Fired, Now, Safe, BookInv, WindowInv
<1>8. \A u \in TimerIds : Fired(t).timers[u] # "task"
  BY DEF Fired, Now, Safe, BookInv, WindowInv, TypeOK
<1>. QED
  BY <1>2, <1>4, <1>5, <1>6, <1>7, <1>8 DEF Quiet, Still, Fired, Now

LEMMA InspectionWindowFinishedSafe ==
  ASSUME Safe, TypeOK, NEW t \in TimerIds, InspectionWindowFinished(t)
  PROVE  Safe'
<1>0. timers[t] = "window"
  BY DEF InspectionWindowFinished
<1>1. CASE ~InspectionWindowIsCurrent(t)
  <2>1. TimerIgnored(t)
    BY <1>1 DEF InspectionWindowFinished
  <2>2. windowToken # t
    BY <1>1, ConstantsAssumption
       DEF InspectionWindowIsCurrent, Safe, BookInv, WindowInv, StateInv
  <2>3. state = "waiting_loop" => loopToken # t
    BY <1>0 DEF Safe, StateInv
  <2>. QED
    BY <2>1, <2>2, <2>3, TimerIgnoredSafe
<1>2. CASE InspectionWindowIsCurrent(t)
  <2>1. Quiet(Fired(t))
    BY <1>2, FiredQuiet DEF InspectionWindowIsCurrent
  <2>2. Quiet([Fired(t) EXCEPT !.sampled = FALSE])
    BY <2>1 DEF Quiet, Still, Books
  <2>3. CASE TargetTaskDone([Fired(t) EXCEPT !.sampled = FALSE])
    BY <2>2, <2>3, NavigateTargetSafe DEF TargetTaskDone
  <2>4. CASE AbandonTarget(Fired(t)) /\ UNCHANGED <<missionVars, retry>>
    <3>1. route # None
      BY <1>2 DEF InspectionWindowIsCurrent, HasTarget
    <3>. QED
      BY <2>1, <2>4, <3>1, AbandonTargetSafe DEF missionVars
  <2>. QED
    BY <1>2, <2>3, <2>4 DEF InspectionWindowFinished
<1>. QED
  BY <1>1, <1>2

LEMMA LoopWaitFinishedSafe ==
  ASSUME Safe, TypeOK, NEW t \in TimerIds, LoopWaitFinished(t)
  PROVE  Safe'
<1>0. timers[t] = "loop"
  BY DEF LoopWaitFinished
<1>1. CASE loopToken = t /\ state = "waiting_loop"
  <2>1. Quiet(Fired(t))
    BY <1>1, FiredQuiet
  <2>2. NavigateTarget(Fired(t), route', index')
    BY <1>1 DEF LoopWaitFinished
  <2>. QED
    BY <2>1, <2>2, NavigateTargetSafe
<1>2. CASE ~(loopToken = t /\ state = "waiting_loop")
  <2>1. TimerIgnored(t)
    BY <1>2 DEF LoopWaitFinished
  <2>2. windowToken # t
    BY <1>0, ConstantsAssumption DEF Safe, BookInv, WindowInv
  <2>. QED
    BY <1>2, <2>1, <2>2, TimerIgnoredSafe
<1>. QED
  BY <1>1, <1>2

LEMMA TimerFiresSafe ==
  ASSUME Safe, TypeOK, NEW t \in TimerIds, TimerFires(t)
  PROVE  Safe'
<1>1. ~TargetTaskFinished(t)
  BY DEF TargetTaskFinished, Safe, BookInv, WindowInv
<1>. QED
  BY <1>1, InspectionWindowFinishedSafe, LoopWaitFinishedSafe DEF TimerFires

\* A step inside one context, which it neither completes nor revives.
LEMMA NavUpdateSafe ==
  ASSUME Safe, TypeOK, NEW c \in NavIds, NEW x,
         nav' = [nav EXCEPT ![c] = x], UNCHANGED LogicVars, active' = active,
         x.phase = "completed" <=> nav[c].phase = "completed",
         x.phase = "completed" => Done(x) /\ handle' = handle,
         x.phase \in {"waiting", "retrying"} => x.goal = "none",
         x.phase = "sending" => x.goal \in Unanswered,
         x.phase = "executing" => x.goal \in {"executing"} \cup Ended /\ handle' = c,
         handle' \in {handle, c}
  PROVE  Safe'
<1>1. nav'[c] = x /\ \A d \in NavIds : d # c => nav'[d] = nav[d]
  BY DEF TypeOK
<1>2. UNCHANGED <<state, navToken, windowToken, timers>>
  BY DEF LogicVars
<1>3. ContextInv'
  BY <1>1, <1>2 DEF Safe, BookInv, ContextInv, Done
<1>4. x.phase # "completed" => active = c
  BY DEF Safe, BookInv, ContextInv
<1>5. \A d \in NavIds : d # c /\ nav[d].phase = "executing" => x.phase = "completed"
  BY <1>4 DEF Safe, BookInv, ContextInv
<1>6. ActiveInv'
  <2>1. active \in NavIds \cup {None}
    BY DEF TypeOK
  <2>2. active' # None => nav'[active'].phase # "completed"
    BY <1>1, <2>1 DEF Safe, BookInv, ActiveInv
  <2>3. handle' # None => handle' = active'
    BY <1>4 DEF Safe, BookInv, ActiveInv
  <2>4. ASSUME NEW d \in NavIds, nav'[d].phase = "executing" PROVE handle' = d
    BY <1>1, <1>5, <2>4 DEF Safe, BookInv, ActiveInv
  <2>. QED
    BY <2>2, <2>3, <2>4 DEF ActiveInv
<1>7. WindowInv'
  BY <1>2 DEF Safe, BookInv, WindowInv
<1>8. StateInv'
  BY DEF LogicVars, missionVars, Safe, StateInv, HasTarget
<1>. QED
  BY <1>3, <1>6, <1>7, <1>8 DEF Safe, BookInv

LEMMA NavigationStepSafe ==
  ASSUME InspectionEnabled, Safe, TypeOK, NEW c \in NavIds, NavigationStep(c)
  PROVE  Safe'
<1>1. Now \in Books /\ Agrees(Now, c) /\ Now.nav = nav
  BY TypeSplit, NowAgrees DEF Flow, Now
<1>2. nav[c] \in ContextType
  BY DEF TypeOK
<1>3. /\ nav[c].phase \in {"waiting", "retrying"} => nav[c].goal = "none"
      /\ nav[c].phase = "sending" => nav[c].goal \in Unanswered
      /\ nav[c].phase = "executing" => nav[c].goal \in {"executing"} \cup Ended /\ handle = c
      /\ nav[c].phase = "completed" => Done(nav[c])
  BY DEF Safe, BookInv, ContextInv, ActiveInv, Done
<1>4. CASE CheckNav2Ready(c)
  BY <1>4, NavUpdateSafe DEF CheckNav2Ready, Sending, Unanswered
<1>5. CASE Nav2WaitTimeout(c)
  BY <1>1, <1>3, <1>5, FinishQuiet, NavigationFinishedSafe DEF Nav2WaitTimeout
<1>6. CASE ResendGoal(c)
  BY <1>6, NavUpdateSafe DEF ResendGoal, Sending, Unanswered
<1>7. CASE LateGoalResponse(c)
  <2>. DEFINE g == IF nav[c].goal # "accepted" THEN "none"
                   ELSE IF nav[c].canceled THEN "canceling" ELSE "executing"
              x == [Unused EXCEPT !.goal = g]
  <2>1. g \in {"none", "canceling"}
    BY <1>3, <1>7 DEF LateGoalResponse, Done, Unanswered
  <2>2. x.phase = "completed" /\ Done(x)
    BY <2>1 DEF Unused, Done
  <2>. QED
    BY <2>2, <1>7, NavUpdateSafe DEF LateGoalResponse
<1>8. CASE GoalAccepted(c)
  <2>. DEFINE x == [nav[c] EXCEPT !.phase = "executing", !.goal = "executing"]
  <2>1. x.phase = "executing" /\ x.goal = "executing"
    BY <1>2 DEF ContextType
  <2>. QED
    BY <2>1, <1>8, NavUpdateSafe DEF GoalAccepted
<1>9. CASE GoalRequestFailed(c)
  <2>. DEFINE m == [Now EXCEPT !.nav[c].goal = "none"]
  <2>1. [nav[c] EXCEPT !.goal = "none"] \in ContextType
    BY <1>2, ContextExcept DEF Goals
  <2>2. Agrees(m, c) /\ m.nav[c].goal = "none"
    BY <2>1, <1>1, <1>2 DEF Agrees, Books, Now, ContextType
  <2>3. nav[c].phase # "completed" /\ m \in Books
    BY <1>9, <2>2 DEF GoalRequestFailed, Agrees
  <2>4. Quiet(FinishNavigation(m, c))
    BY <2>2, <2>3, FinishQuiet
  <2>. QED
    BY <2>3, <2>4, <1>9, NavigationFinishedSafe DEF GoalRequestFailed
<1>10. CASE RetryRejectedGoal(c)
  BY <1>10, NavUpdateSafe DEF RetryRejectedGoal, Retrying
<1>11. CASE NavigationResult(c)
  BY <1>1, <1>11, FinishQuiet, NavigationFinishedSafe DEF NavigationResult
<1>12. CASE NavigationTimeout(c)
  <2>. DEFINE k == CancelContext(Now, c)
  <2>1. nav[c].phase # "completed"
    BY <1>12 DEF NavigationTimeout
  <2>2. Now.active = active /\ Now.handle = handle /\ Now.timers = timers
        /\ Now.windowToken = windowToken
    BY DEF Now
  <2>3. /\ Agrees(k, c)
        /\ \/ k.nav[c].goal \in Ended \cup {"none", "canceling"}
           \/ k.nav[c].goal \in Unanswered /\ k.nav[c].canceled
    BY <1>1, <2>1, <2>2, CancelContextSettles DEF Agrees
  <2>4. Quiet(FinishNavigation(k, c))
    BY <2>1, <2>3, FinishQuiet
  <2>. QED
    BY <2>1, <2>4, <1>12, NavigationFinishedSafe DEF NavigationTimeout
<1>13. CASE Nav2Answers(c)
  <2>1. PICK answer \in {"accepted", "refused", "error"} :
          nav' = [nav EXCEPT ![c] = [nav[c] EXCEPT !.goal = answer]]
    BY <1>13 DEF Nav2Answers
  <2>. DEFINE x == [nav[c] EXCEPT !.goal = answer]
  <2>2. x.goal = answer /\ x.phase = nav[c].phase /\ x.canceled = nav[c].canceled
    BY <1>2 DEF ContextType
  <2>3. nav[c].phase \in {"sending", "completed"} /\ answer \in Unanswered
    BY <1>2, <1>3, <1>13 DEF Nav2Answers, ContextType, Phases, Ended, Unanswered
  <2>4. x.phase = "completed" => Done(x)
    BY <1>3, <1>13, <2>2, <2>3 DEF Nav2Answers, Done
  <2>. QED
    BY <2>1, <2>2, <2>3, <2>4, <1>13, NavUpdateSafe DEF Nav2Answers
<1>14. CASE Nav2Ends(c)
  <2>1. PICK result \in Ended :
          nav' = [nav EXCEPT ![c] = [nav[c] EXCEPT !.goal =
                    IF nav[c].phase = "completed" THEN "none" ELSE result]]
    BY <1>14 DEF Nav2Ends
  <2>. DEFINE g == IF nav[c].phase = "completed" THEN "none" ELSE result
              x == [nav[c] EXCEPT !.goal = g]
  <2>2. x.goal = g /\ x.phase = nav[c].phase
    BY <1>2 DEF ContextType
  <2>3. nav[c].phase \in {"executing", "completed"}
    BY <1>2, <1>3, <1>14 DEF Nav2Ends, ContextType, Phases, Ended, Unanswered
  <2>4. x.phase = "completed" => Done(x)
    BY <2>2 DEF Done
  <2>5. x.phase = "executing" => x.goal \in Ended /\ handle' = c
    BY <1>3, <1>14, <2>2 DEF Nav2Ends
  <2>6. UNCHANGED <<LogicVars, active, handle>>
    BY <1>14 DEF Nav2Ends
  <2>7. nav' = [nav EXCEPT ![c] = x]
    BY <2>1
  <2>8. x.phase \in {"executing", "completed"}
    BY <2>2, <2>3
  <2>. HIDE DEF x
  <2>. QED
    BY <2>2, <2>4, <2>5, <2>6, <2>7, <2>8, NavUpdateSafe
<1>. QED
  BY <1>4, <1>5, <1>6, <1>7, <1>8, <1>9, <1>10, <1>11, <1>12, <1>13, <1>14
     DEF NavigationStep

LEMMA ResetSafe ==
  ASSUME Safe, TypeOK, ResetTerminalState
  PROVE  Safe'
<1>1. CASE state \in ActiveStates
  BY <1>1 DEF ResetTerminalState, missionVars, bookVars, Safe, BookInv, ContextInv,
              ActiveInv, WindowInv, StateInv, HasTarget
<1>2. CASE state \notin ActiveStates
  <2>1. state' \notin ActiveStates /\ UNCHANGED bookVars
    BY <1>2 DEF ResetTerminalState, ActiveStates, MovingStates, HeldStates
  <2>2. BookInv'
    BY <1>2, <2>1 DEF bookVars, Safe, BookInv, ContextInv, ActiveInv, WindowInv,
                      ActiveStates, MovingStates
  <2>. QED
    BY <2>1, <2>2 DEF Safe, StateInv, ActiveStates, MovingStates, HeldStates
<1>. QED
  BY <1>1, <1>2

LEMMA InitSafe == Init => Safe
<1>. SUFFICES ASSUME Init PROVE Safe
  OBVIOUS
<1>1. \A c \in NavIds : nav[c] = Unused
  BY DEF Init
<1>2. BookInv
  BY <1>1 DEF Init, Unused, BookInv, ContextInv, ActiveInv, WindowInv
<1>. QED
  BY <1>2 DEF Init, Safe, StateInv, ActiveStates, MovingStates, HeldStates

\* IInv is inductive when targets are dwelt at with an inspection window.
LEMMA SafeInvariant ==
  ASSUME InspectionEnabled
  PROVE  Spec => [](TypeOK /\ Safe)
<1>1. ASSUME TypeOK, Safe, [Next]_vars
      PROVE  Safe'
  <2>1. CASE LocalizedObjects
    BY <1>1, <2>1 DEF LocalizedObjects, missionVars, Safe, BookInv, ContextInv,
                      ActiveInv, WindowInv, StateInv, HasTarget
  <2>2. CASE UNCHANGED vars
    BY <1>1, <2>2 DEF vars, missionVars, bookVars, Safe, BookInv, ContextInv,
                      ActiveInv, WindowInv, StateInv, HasTarget
  <2>. QED
    BY <1>1, <2>1, <2>2, CommandSafe, TimerFiresSafe, NavigationStepSafe, ResetSafe DEF Next
<1>. QED
  BY <1>1, InitSafe, TypeCorrect, PTL DEF Spec

\* Nav2 never executes a goal that the executor has let go of: pause,
\* takeover, cancel, fail and every timeout reach the goal, also when its
\* acceptance is still to come.
THEOREM NoGoalOutlivesItsPatrol ==
  ASSUME InspectionEnabled
  PROVE  Spec => []NoGhostGoal
<1>1. TypeOK /\ Safe => NoGhostGoal
  <2>. SUFFICES ASSUME TypeOK, Safe, NEW c \in NavIds, nav[c].goal = "executing"
                PROVE  active = c /\ state \in MovingStates
    BY DEF NoGhostGoal
  <2>1. nav[c] \in ContextType
    BY DEF TypeOK
  <2>2. nav[c].phase # "completed"
    BY DEF Safe, BookInv, ContextInv, Unanswered
  <2>. QED
    BY <2>2 DEF Safe, BookInv, ContextInv
<1>. QED
  BY <1>1, SafeInvariant, PTL

\* An active patrol always has a live navigation, an open window or a loop
\* wait whose callback will be heard.
THEOREM PatrolIsNeverStranded ==
  ASSUME InspectionEnabled
  PROVE  Spec => []NeverStranded
<1>1. TypeOK /\ Safe => NeverStranded
  <2>. SUFFICES ASSUME TypeOK, Safe PROVE NeverStranded
    OBVIOUS
  <2>1. active # None => active \in NavIds /\ Driving(active)
    BY DEF TypeOK, Safe, BookInv, ContextInv, ActiveInv, Driving
  <2>2. windowToken # None => windowToken \in TimerIds /\ PendingDwell(windowToken)
    BY DEF TypeOK, Safe, BookInv, WindowInv, PendingDwell
  <2>3. loopToken # None => loopToken \in TimerIds
    BY DEF TypeOK
  <2>. QED
    BY <2>1, <2>2, <2>3 DEF NeverStranded, Safe, StateInv, MovingStates
<1>. QED
  BY <1>1, SafeInvariant, PTL

-----------------------------------------------------------------------------
(* What the parts of a callback make of the state and the navigation.      *)

LEMMA NavigationStarts ==
  ASSUME NEW m \in Books, NEW why, StartNavigation(m, why)
  PROVE  active' # None /\ homeReason' = m.homeReason
<1>1. PICK c \in NavIds, serverReady \in BOOLEAN :
        Adopt([m EXCEPT !.nav[c] = IF serverReady THEN Sending(0) ELSE Waiting,
                        !.active = c, !.handle = None, !.navToken = c,
                        !.purpose = why])
  BY DEF StartNavigation
<1>. QED
  BY <1>1, ConstantsAssumption DEF Adopt, Books

LEMMA GoesHome ==
  ASSUME NEW m \in Books, NEW b \in BOOLEAN, StartReturnHome(m, b)
  PROVE  state' = "returning_home" /\ homeReason' = b
<1>1. [m EXCEPT !.homeReason = b] \in Books /\ [m EXCEPT !.homeReason = b].homeReason = b
  BY DEF Books
<1>. QED
  BY <1>1, NavigationStarts DEF StartReturnHome, SetState

\* Where a patrol of route r goes when i of its targets are done.
SetOut(r, i) ==
  \/ i < r.targets /\ state' = "running" /\ active' # None
  \/ ~(i < r.targets) /\ r.returnToStart /\ state' = "returning_home" /\ homeReason' = FALSE
  \/ ~(i < r.targets) /\ ~r.returnToStart /\ state' = "succeeded"

LEMMA SetsOut ==
  ASSUME NEW m \in Books, NEW r, r # None, NEW i, NavigateTarget(m, r, i)
  PROVE  SetOut(r, i)
<1>1. CASE i < r.targets
  BY <1>1, NavigationStarts DEF NavigateTarget, HasTarget, SetState, SetOut
<1>2. CASE ~(i < r.targets)
  BY <1>2, GoesHome DEF NavigateTarget, HasTarget, CompleteTargets, CompleteSuccess, SetState,
                        SetOut
<1>. QED
  BY <1>1, <1>2

LEMMA GivesUp ==
  ASSUME NEW m \in Books, AbandonTarget(m)
  PROVE  \/ route.abortHome /\ state' = "returning_home" /\ homeReason' = TRUE
         \/ state' = "failed"
BY GoesHome DEF AbandonTarget, FinishFailure, SetState

LEMMA DwellBegins ==
  ASSUME NEW m \in Books, m.active = None, HasTarget(route, index), TargetReached(m)
  PROVE  state' = state /\ active' = None
<1>. DEFINE k == [m EXCEPT !.sampled = FALSE]
            kind == IF InspectionEnabled THEN "window" ELSE "task"
<1>1. k \in Books /\ k.active = None
  BY DEF Books
<1>2. PICK t \in TimerIds :
        Adopt([k EXCEPT !.timers[t] = kind,
                        !.windowToken = IF kind = "window" THEN t ELSE @,
                        !.loopToken = IF kind = "loop" THEN t ELSE @])
  BY DEF TargetReached, ScheduleOnce
<1>3. active' = None
  BY <1>1, <1>2 DEF Adopt, Books
<1>. QED
  BY <1>3 DEF TargetReached

\* A callback of a navigation that is not completed is the one the logic waits
\* for, and this is all it can make of it.
Ends(ok) ==
  /\ UNCHANGED <<route, index, cycle, pausedFrom>>
  /\ state \in MovingStates /\ active # None
  /\ state = "running" =>
       /\ purpose = "target"
       /\ \/ ok /\ state' = "running" /\ active' = None
          \/ state' = "running" /\ active' # None
          \/ route.abortHome /\ state' = "returning_home" /\ homeReason' = TRUE
          \/ state' = "failed"
  /\ state = "returning_home" =>
       /\ purpose = "home"
       /\ \/ ok /\ ~homeReason /\ state' = IF ShouldContinueLoop THEN "waiting_loop" ELSE "succeeded"
          \/ state' = "failed"

LEMMA NavigationEnds ==
  ASSUME TypeOK, Safe, NEW m, Quiet(m), NEW c \in NavIds,
         nav[c].phase # "completed", NEW ok \in BOOLEAN, NavigationFinished(m, c, ok)
  PROVE  Ends(ok) /\ Driving(c)
<1>. DEFINE live == [m EXCEPT !.navToken = None]
<1>1. live \in Books /\ live.active = None
  BY DEF Quiet, Still, Books
<1>2. active = c /\ navToken = c /\ state \in MovingStates
  BY DEF Safe, BookInv, ContextInv
<1>3. c # None
  BY ConstantsAssumption
<1>4. UNCHANGED <<route, index, cycle, pausedFrom>>
  BY DEF NavigationFinished, missionVars
<1>5. CASE state = "running"
  <2>1. purpose = "target" /\ HasTarget(route, index) /\ route # None
    BY <1>2, <1>3, <1>5 DEF Safe, StateInv, HasTarget
  <2>2. CASE ok /\ TargetReached(live)
    BY <1>1, <1>2, <1>3, <1>4, <1>5, <2>1, <2>2, DwellBegins DEF Ends, Driving, MovingStates
  <2>3. CASE TargetFailed(live)
    <3>1. NavigateTarget(live, route, index) \/ AbandonTarget(live)
      BY <2>1, <2>3 DEF TargetFailed
    <3>2. CASE NavigateTarget(live, route, index)
      <4>1. state' = "running" /\ active' # None
        BY <1>1, <2>1, <3>2, SetsOut DEF HasTarget, SetOut
      <4>. QED
        BY <1>2, <1>3, <1>4, <1>5, <2>1, <4>1 DEF Ends, Driving
    <3>3. CASE AbandonTarget(live)
      BY <1>1, <1>2, <1>3, <1>4, <1>5, <2>1, <3>3, GivesUp DEF Ends, Driving
    <3>. QED
      BY <3>1, <3>2, <3>3
  <2>. QED
    BY <1>2, <1>5, <2>1, <2>2, <2>3 DEF NavigationFinished
<1>6. CASE state = "returning_home"
  <2>1. purpose = "home"
    BY <1>6 DEF Safe, StateInv
  <2>2. HomeFinished(live, ok)
    BY <1>2, <1>6, <2>1 DEF NavigationFinished
  <2>3. \/ ok /\ ~homeReason /\ state' = IF ShouldContinueLoop THEN "waiting_loop" ELSE "succeeded"
        \/ state' = "failed"
    BY <2>2 DEF HomeFinished, CompleteCycleSuccess, StartLoopWait, CompleteSuccess,
                FinishFailure, SetState
  <2>. QED
    BY <1>2, <1>3, <1>4, <1>6, <2>1, <2>3 DEF Ends, Driving
<1>. QED
  BY <1>2, <1>5, <1>6 DEF MovingStates

\* A step of a context either ends its navigation or shows nothing of itself.
NothingShown == UNCHANGED <<state, route, index, cycle, pausedFrom, homeReason, active>>

LEMMA ContextSteps ==
  ASSUME TypeOK, Safe, NEW c \in NavIds, NavigationStep(c)
  PROVE  NothingShown \/ (Driving(c) /\ Ends(nav[c].phase = "executing" /\ nav[c].goal = "succeeded"))
<1>1. Now \in Books /\ Agrees(Now, c) /\ Now.nav = nav
  BY TypeSplit, NowAgrees DEF Flow, Now
<1>2. nav[c] \in ContextType
  BY DEF TypeOK
<1>3. /\ nav[c].phase = "waiting" => nav[c].goal = "none"
      /\ nav[c].phase = "executing" /\ nav[c].goal \in Ended => nav[c].goal \in Ended
  BY DEF Safe, BookInv, ContextInv
<1>4. \A ok \in BOOLEAN : Ends(FALSE) => Ends(ok)
  BY DEF Ends
<1>5. CASE Nav2WaitTimeout(c)
  <2>1. Quiet(FinishNavigation(Now, c)) /\ nav[c].phase # "completed"
    BY <1>1, <1>3, <1>5, FinishQuiet DEF Nav2WaitTimeout
  <2>2. Ends(FALSE) /\ Driving(c)
    BY <1>5, <2>1, NavigationEnds DEF Nav2WaitTimeout
  <2>. QED
    BY <1>4, <2>2
<1>6. CASE GoalRequestFailed(c)
  <2>. DEFINE m == [Now EXCEPT !.nav[c].goal = "none"]
  <2>1. [nav[c] EXCEPT !.goal = "none"] \in ContextType
    BY <1>2, ContextExcept DEF Goals
  <2>2. Agrees(m, c) /\ m.nav[c].goal = "none"
    <3>1. m = [Now EXCEPT !.nav = [nav EXCEPT ![c] = [nav[c] EXCEPT !.goal = "none"]]]
      BY DEF Now
    <3>2. nav \in [NavIds -> ContextType] /\ Now \in Books /\ Agrees(Now, c)
      BY <1>1 DEF Books
    <3>3. /\ m.nav \in [NavIds -> ContextType] /\ m.nav[c] = [nav[c] EXCEPT !.goal = "none"]
          /\ \A d \in NavIds : d # c => m.nav[d] = nav[d]
      <4>1. m.nav = [nav EXCEPT ![c] = [nav[c] EXCEPT !.goal = "none"]]
        BY <3>1 DEF Now
      <4>. HIDE DEF m
      <4>. QED
        BY <2>1, <3>2, <4>1
    <3>4. m \in Books
      <4>1. m.nav \in [NavIds -> ContextType]
        BY <3>3
      <4>. QED
        BY <3>1, <3>2, <4>1 DEF Books, Now
    <3>5. [nav[c] EXCEPT !.goal = "none"].goal = "none"
      BY <1>2 DEF ContextType
    <3>6. /\ m.active = active /\ m.handle = handle
          /\ m.windowToken = windowToken /\ m.timers = timers
      BY DEF Now
    <3>. HIDE DEF m
    <3>. QED
      BY <3>3, <3>4, <3>5, <3>6 DEF Agrees
  <2>3. nav[c].phase # "completed"
    BY <1>6 DEF GoalRequestFailed
  <2>4. Quiet(FinishNavigation(m, c))
    BY <2>2, <2>3, FinishQuiet
  <2>5. Ends(FALSE) /\ Driving(c)
    BY <1>6, <2>3, <2>4, NavigationEnds DEF GoalRequestFailed
  <2>. QED
    BY <1>4, <2>5
<1>7. CASE NavigationResult(c)
  <2>1. Quiet(FinishNavigation(Now, c)) /\ nav[c].phase = "executing"
    BY <1>1, <1>7, FinishQuiet DEF NavigationResult
  <2>2. Ends(nav[c].goal = "succeeded") /\ Driving(c)
    BY <1>7, <2>1, NavigationEnds DEF NavigationResult
  <2>3. (nav[c].goal = "succeeded") = (nav[c].phase = "executing" /\ nav[c].goal = "succeeded")
    BY <2>1
  <2>. QED
    BY <2>2, <2>3
<1>8. CASE NavigationTimeout(c)
  <2>. DEFINE k == CancelContext(Now, c)
  <2>1. nav[c].phase # "completed"
    BY <1>8 DEF NavigationTimeout
  <2>2. Now.active = active /\ Now.handle = handle /\ Now.timers = timers
        /\ Now.windowToken = windowToken
    BY DEF Now
  <2>3. /\ Agrees(k, c)
        /\ \/ k.nav[c].goal \in Ended \cup {"none", "canceling"}
           \/ k.nav[c].goal \in Unanswered /\ k.nav[c].canceled
    BY <1>1, <2>1, <2>2, CancelContextSettles DEF Agrees
  <2>4. Quiet(FinishNavigation(k, c))
    BY <2>1, <2>3, FinishQuiet
  <2>5. Ends(FALSE) /\ Driving(c)
    BY <1>8, <2>1, <2>4, NavigationEnds DEF NavigationTimeout
  <2>. QED
    BY <1>4, <2>5
<1>9. CASE \/ CheckNav2Ready(c) \/ ResendGoal(c) \/ LateGoalResponse(c) \/ GoalAccepted(c)
           \/ RetryRejectedGoal(c) \/ Nav2Answers(c) \/ Nav2Ends(c)
  <2>1. UNCHANGED <<LogicVars, active>>
    BY <1>9 DEF CheckNav2Ready, ResendGoal, LateGoalResponse, GoalAccepted,
                RetryRejectedGoal, Nav2Answers, Nav2Ends
  <2>. QED
    BY <2>1 DEF LogicVars, missionVars, NothingShown
<1>. QED
  BY <1>5, <1>6, <1>7, <1>8, <1>9 DEF NavigationStep

LEMMA CancelKeepsReason ==
  ASSUME NEW m \in Books PROVE CancelNavigation(m).homeReason = m.homeReason
<1>1. CASE m.active = None
  BY <1>1 DEF CancelNavigation
<1>2. CASE m.active # None
  <2>1. m.active \in NavIds
    BY <1>2 DEF Books
  <2>2. CancelContext(m, m.active) \in Books
    BY <2>1, CancelContextTyped
  <2>3. CancelContext(m, m.active).homeReason = m.homeReason
    BY DEF CancelContext, Books
  <2>4. \A k \in Books, c \in NavIds : FinishNavigation(k, c).homeReason = k.homeReason
    BY DEF FinishNavigation, Books
  <2>. QED
    BY <1>2, <2>1, <2>2, <2>3, <2>4 DEF CancelNavigation
<1>. QED
  BY <1>1, <1>2

-----------------------------------------------------------------------------
(* What every other step makes of the mission.                             *)

Departs ==
  /\ state \notin ActiveStates
  /\ route' \in Routes \cup {GoToRoute} /\ index' = 0 /\ cycle' = 1
  /\ SetOut(route', 0)

Refuses ==
  /\ state \notin ActiveStates /\ state' = "failed"
  /\ route' = None /\ UNCHANGED <<index, cycle>>

Holds ==
  /\ state \in MovingStates \cup {"waiting_loop", "paused"} /\ state' \in HeldStates
  /\ pausedFrom' = IF state = "paused" THEN pausedFrom ELSE state
  /\ UNCHANGED <<route, index, cycle, homeReason>>

Stops ==
  /\ state \in ActiveStates /\ state' \in {"canceled", "failed"}
  /\ UNCHANGED <<route, index, cycle>>

Releases ==
  /\ state \in HeldStates /\ UNCHANGED <<route, index, cycle>>
  /\ \/ pausedFrom = "waiting_loop" /\ state' = "waiting_loop"
     \/ pausedFrom = "returning_home" /\ state' = "returning_home" /\ homeReason' = homeReason
     \/ pausedFrom = "running" /\ state' = "running" /\ active' # None

TaskDone ==
  /\ state = "running" /\ active = None /\ route # None
  /\ index' = index + 1 /\ UNCHANGED <<route, cycle>>
  /\ SetOut(route, index + 1)

GivenUp ==
  /\ state = "running" /\ active = None /\ UNCHANGED <<route, index, cycle>>
  /\ \/ route.abortHome /\ state' = "returning_home" /\ homeReason' = TRUE
     \/ state' = "failed"

LapBegins ==
  /\ state = "waiting_loop" /\ route # None
  /\ cycle' = cycle + 1 /\ index' = 0 /\ UNCHANGED route
  /\ SetOut(route, 0)

Resets ==
  /\ state \notin ActiveStates /\ state' \in {"idle", "waiting_schedule"}
  /\ route' = None /\ index' = 0 /\ cycle' = 1

LEMMA StartShown ==
  ASSUME TypeOK, NEW r \in Routes \cup {GoToRoute}, StartRoute(r) PROVE Departs
<1>. DEFINE m == [Now EXCEPT !.homeReason = FALSE, !.windowToken = None,
                             !.loopToken = None]
<1>1. Now \in Books
  BY TypeSplit DEF Flow
<1>2. m \in Books
  BY <1>1 DEF Books
<1>3. r # None
  <2>1. GoToRoute \in RouteType
    <3>1. FALSE \in BOOLEAN /\ 0 \in Nat /\ 1 \in Nat
      OBVIOUS
    <3>. QED
      BY <3>1, Zenon DEF GoToRoute, RouteType
  <2>. QED
    BY <2>1, ConstantsAssumption
<1>4. SetOut(r, 0)
  BY <1>2, <1>3, SetsOut DEF StartRoute
<1>. QED
  BY <1>4 DEF StartRoute, Departs

LEMMA HoldShown ==
  ASSUME TypeOK, Pause \/ Takeover PROVE Holds
<1>1. Now \in Books /\ Now.homeReason = homeReason
  BY TypeSplit DEF Flow, Now
<1>2. Invalidated(Now) \in Books /\ Invalidated(Now).homeReason = homeReason
  BY <1>1 DEF Invalidated, Books
<1>3. CancelNavigation(Invalidated(Now)).homeReason = homeReason
  BY <1>2, CancelKeepsReason
<1>4. homeReason' = homeReason
  BY <1>2, <1>3 DEF Pause, Takeover, Adopt
<1>5. CASE Pause
  BY <1>4, <1>5 DEF Pause, Holds, SetState, HeldStates, MovingStates
<1>6. CASE Takeover
  BY <1>4, <1>6 DEF Takeover, Holds, SetState, HeldStates, MovingStates
<1>. QED
  BY <1>5, <1>6

LEMMA ResumeShown ==
  ASSUME TypeOK, Safe, Resume PROVE Releases
<1>1. Now \in Books /\ homeReason \in BOOLEAN
  BY TypeSplit DEF Flow, TypeOK
<1>2. pausedFrom \in {"waiting_loop", "returning_home", "running"}
  BY DEF Resume, Safe, StateInv, TypeOK, MovingStates
<1>3. CASE pausedFrom = "waiting_loop"
  BY <1>3 DEF Resume, StartLoopWait, SetState, Releases
<1>4. CASE pausedFrom = "returning_home"
  <2>1. StartReturnHome(Now, homeReason)
    BY <1>4 DEF Resume
  <2>. QED
    BY <1>1, <1>4, <2>1, GoesHome DEF Resume, Releases
<1>5. CASE pausedFrom = "running"
  <2>1. HasTarget(route, index)
    BY <1>5 DEF Resume, Safe, StateInv
  <2>2. NavigateTarget(Now, route, index) /\ route # None /\ index < route.targets
    BY <1>5, <2>1 DEF Resume, ResumeTarget, HasTarget
  <2>3. SetOut(route, index)
    BY <1>1, <2>2, SetsOut
  <2>. QED
    BY <1>5, <2>2, <2>3 DEF Resume, Releases, SetOut
<1>. QED
  BY <1>2, <1>3, <1>4, <1>5

LEMMA CommandShown ==
  ASSUME TypeOK, Safe, Command
  PROVE  Departs \/ Refuses \/ Holds \/ Stops \/ Releases
<1>1. CASE StartRouteFromFile \/ GoToTarget
  BY <1>1, StartShown DEF StartRouteFromFile, GoToTarget, FailToStart, SetState, Refuses
<1>2. CASE Cancel \/ Fail
  BY <1>2 DEF Cancel, Fail, FinishFailure, SetState, missionVars, Stops
<1>. QED
  BY <1>1, <1>2, HoldShown, ResumeShown DEF Command

LEMMA TimerShown ==
  ASSUME TypeOK, Safe, NEW t \in TimerIds, TimerFires(t)
  PROVE  NothingShown \/ TaskDone \/ GivenUp \/ LapBegins
<1>1. Fired(t) \in Books /\ Fired(t).active = active /\ Fired(t).homeReason = homeReason
  BY TypeSplit, FiredTyped DEF Flow, Fired, Now
<1>2. CASE TimerIgnored(t)
  BY <1>1, <1>2 DEF TimerIgnored, Adopt, missionVars, NothingShown
<1>3. ~TargetTaskFinished(t)
  BY DEF TargetTaskFinished, Safe, BookInv, WindowInv
<1>4. ASSUME InspectionWindowFinished(t), ~TimerIgnored(t) PROVE TaskDone \/ GivenUp
  <2>1. windowToken = t /\ state = "running" /\ route # None
    BY <1>4 DEF InspectionWindowFinished, InspectionWindowIsCurrent, HasTarget
  <2>2. active = None
    BY <2>1, ConstantsAssumption DEF Safe, BookInv, WindowInv
  <2>3. CASE TargetTaskDone([Fired(t) EXCEPT !.sampled = FALSE])
    <3>1. [Fired(t) EXCEPT !.sampled = FALSE] \in Books
      BY <1>1 DEF Books
    <3>2. SetOut(route, index + 1)
      BY <2>1, <2>3, <3>1, SetsOut DEF TargetTaskDone
    <3>. QED
      BY <2>1, <2>2, <2>3, <3>2 DEF TargetTaskDone, TaskDone
  <2>4. CASE AbandonTarget(Fired(t)) /\ UNCHANGED <<missionVars, retry>>
    BY <1>1, <2>1, <2>2, <2>4, GivesUp DEF missionVars, GivenUp
  <2>. QED
    BY <1>4, <2>3, <2>4 DEF InspectionWindowFinished
<1>5. ASSUME LoopWaitFinished(t), ~TimerIgnored(t) PROVE LapBegins
  <2>1. state = "waiting_loop" /\ NavigateTarget(Fired(t), route, 0)
    BY <1>5 DEF LoopWaitFinished
  <2>2. route # None
    BY <2>1 DEF Safe, StateInv, ActiveStates
  <2>3. SetOut(route, 0)
    BY <1>1, <2>1, <2>2, SetsOut
  <2>. QED
    BY <1>5, <2>1, <2>2, <2>3 DEF LoopWaitFinished, LapBegins
<1>. QED
  BY <1>2, <1>3, <1>4, <1>5 DEF TimerFires

\* All that a step can show of itself.
LEMMA StepShown ==
  ASSUME TypeOK, Safe, [Next]_vars
  PROVE  \/ NothingShown \/ Departs \/ Refuses \/ Holds \/ Stops \/ Releases
         \/ TaskDone \/ GivenUp \/ LapBegins \/ Resets
         \/ \E c \in NavIds :
              Driving(c) /\ Ends(nav[c].phase = "executing" /\ nav[c].goal = "succeeded")
<1>1. CASE Command
  BY <1>1, CommandShown
<1>2. CASE \E t \in TimerIds : TimerFires(t)
  BY <1>2, TimerShown
<1>3. CASE \E c \in NavIds : NavigationStep(c)
  BY <1>3, ContextSteps
<1>4. CASE LocalizedObjects
  BY <1>4 DEF LocalizedObjects, NothingShown, missionVars
<1>5. CASE ResetTerminalState
  BY <1>5 DEF ResetTerminalState, NothingShown, Resets, missionVars, bookVars
<1>6. CASE UNCHANGED vars
  BY <1>6 DEF vars, NothingShown, missionVars, bookVars
<1>. QED
  BY <1>1, <1>2, <1>3, <1>4, <1>5, <1>6 DEF Next

-----------------------------------------------------------------------------
(* The step properties.                                                    *)

\* A hold ends by an operator's word only: every late result, timeout and timer
\* finds the patrol held and leaves it so.
THEOREM HoldsAreKept ==
  ASSUME InspectionEnabled
  PROVE  Spec => HeldUntilReleased
<1>1. ASSUME TypeOK, Safe, [Next]_vars
      PROVE  [(state \in HeldStates /\ state' \notin HeldStates) => (Resume \/ Cancel \/ Fail)]_vars
  <2>. SUFFICES ASSUME Next, state \in HeldStates, state' \notin HeldStates
                PROVE  Resume \/ Cancel \/ Fail
    BY <1>1
  <2>0. state \in ActiveStates /\ state \notin MovingStates /\ state # "waiting_loop"
    BY DEF ActiveStates, HeldStates, MovingStates
  <2>1. CASE Command
    BY <2>0, <2>1 DEF Command, StartRouteFromFile, GoToTarget, StartRoute, FailToStart, Pause,
                      Takeover, SetState, HeldStates
  <2>2. ASSUME NEW t \in TimerIds, TimerFires(t) PROVE FALSE
    BY <1>1, <2>0, <2>2, TimerShown DEF NothingShown, TaskDone, GivenUp, LapBegins, MovingStates
  <2>3. ASSUME NEW c \in NavIds, NavigationStep(c) PROVE FALSE
    BY <1>1, <2>0, <2>3, ContextSteps DEF NothingShown, Ends
  <2>. QED
    BY <2>0, <2>1, <2>2, <2>3 DEF Next, LocalizedObjects, ResetTerminalState
<1>. QED
  BY <1>1, SafeInvariant, PTL DEF Spec, HeldUntilReleased

\* A target is reached, and the way home done, on Nav2's word for the navigation
\* the logic waits for, and on no other callback.
THEOREM ArrivalsAreNav2s ==
  ASSUME InspectionEnabled
  PROVE  Spec => ArrivalIsNav2Success
<1>. DEFINE byNav2(why) ==
              purpose = why /\ \E c \in NavIds : Driving(c) /\ nav[c].goal = "succeeded"
            Honest == /\ ~Dwelling /\ Dwelling' => byNav2("target")
                      /\ state = "returning_home" /\ state' \in {"waiting_loop", "succeeded"}
                           => byNav2("home")
<1>1. ASSUME TypeOK, Safe, [Next]_vars PROVE Honest
  <2>1. CASE NothingShown
    BY <2>1 DEF NothingShown, Dwelling
  <2>2. CASE Departs \/ TaskDone \/ LapBegins
    BY <2>2 DEF Departs, TaskDone, LapBegins, SetOut, Dwelling, ActiveStates, MovingStates
  <2>3. CASE Refuses \/ Holds \/ Stops \/ Resets \/ GivenUp
    BY <2>3 DEF Refuses, Holds, Stops, Resets, GivenUp, Dwelling, HeldStates
  <2>4. CASE Releases
    BY <2>4 DEF Releases, Dwelling, HeldStates
  <2>5. ASSUME NEW c \in NavIds, Driving(c),
               Ends(nav[c].phase = "executing" /\ nav[c].goal = "succeeded")
        PROVE  Honest
    BY <2>5 DEF Ends, Dwelling, MovingStates
  <2>. QED
    BY <1>1, <2>1, <2>2, <2>3, <2>4, <2>5, StepShown
<1>2. TypeOK /\ Safe /\ [Next]_vars => [Honest]_vars
  BY <1>1
<1>. QED
  BY <1>2, SafeInvariant, PTL DEF Spec, ArrivalIsNav2Success

-----------------------------------------------------------------------------
(* The refinement.  MissionMode is the mode of Mission.                    *)

MissionMode == IF Held THEN HeldMode ELSE ModeOf(state)

LEMMA ModeNow ==
  ASSUME TypeOK, Safe
  PROVE  /\ state \in MovingStates \cup {"waiting_loop"} => ~Held
         /\ state = "running" => MissionMode = IF active = None THEN "visiting" ELSE "driving"
         /\ state = "returning_home" => MissionMode = IF homeReason THEN "retreating" ELSE "homing"
         /\ state = "waiting_loop" => MissionMode = "resting"
         /\ state \notin ActiveStates => ~Held /\ MissionMode \in {"ready", "succeeded", "failed", "canceled"}
         /\ state \in HeldStates =>
              /\ Held
              /\ pausedFrom = "running" => MissionMode = "driving"
              /\ pausedFrom = "returning_home" =>
                   MissionMode = IF homeReason THEN "retreating" ELSE "homing"
              /\ pausedFrom = "waiting_loop" => MissionMode = "resting"
              /\ pausedFrom \in {"running", "returning_home", "waiting_loop"}
BY DEF TypeOK, Safe, StateInv, MissionMode, Held, HeldMode, ModeOf, States, ActiveStates,
       MovingStates, HeldStates, TerminalStates

LEMMA ModeNext ==
  /\ state' = "running" =>
       ~Held' /\ MissionMode' = IF active' = None THEN "visiting" ELSE "driving"
  /\ state' = "returning_home" =>
       ~Held' /\ MissionMode' = IF homeReason' THEN "retreating" ELSE "homing"
  /\ state' = "waiting_loop" => ~Held' /\ MissionMode' = "resting"
  /\ state' \in TerminalStates => ~Held' /\ MissionMode' = state'
  /\ state' \in {"idle", "waiting_schedule"} => ~Held' /\ MissionMode' = "ready"
  /\ state' \in HeldStates =>
       /\ Held'
       /\ pausedFrom' = "running" => MissionMode' = "driving"
       /\ pausedFrom' = "returning_home" =>
            MissionMode' = IF homeReason' THEN "retreating" ELSE "homing"
       /\ pausedFrom' = "waiting_loop" => MissionMode' = "resting"
BY DEF MissionMode, Held, HeldMode, ModeOf, HeldStates, TerminalStates

LEMMA AfterSetOut ==
  ASSUME NEW r, NEW i, SetOut(r, i)
  PROVE  ~Held' /\ MissionMode' = Mission!After(r, i)
BY ModeNext DEF SetOut, Mission!After, TerminalStates

LEMMA NothingMoves ==
  ASSUME NothingShown PROVE UNCHANGED Mission!vars
BY DEF NothingShown, Mission!vars, Held, HeldMode, ModeOf

LEMMA StaysFree == ASSUME ~Held, ~Held' PROVE UNCHANGED Held
BY DEF Held

OnTheWay == {"driving", "visiting", "homing", "retreating", "resting"}

LEMMA DepartsMission == ASSUME TypeOK, Safe, Departs PROVE Mission!Depart
<1>1. ~Held /\ MissionMode \notin OnTheWay
  BY ModeNow DEF Departs, OnTheWay
<1>2. ~Held' /\ MissionMode' = Mission!After(route', 0)
  BY AfterSetOut DEF Departs
<1>. QED
  BY <1>1, <1>2, StaysFree DEF Departs, Mission!Depart, Mission!OnTheWay, OnTheWay, MissionMode

LEMMA RefusesMission == ASSUME TypeOK, Safe, Refuses PROVE Mission!Refuse
<1>1. ~Held /\ MissionMode \notin OnTheWay
  BY ModeNow DEF Refuses, OnTheWay
<1>2. ~Held' /\ MissionMode' = "failed"
  BY ModeNext DEF Refuses, TerminalStates
<1>. QED
  BY <1>1, <1>2, StaysFree DEF Refuses, Mission!Refuse, Mission!OnTheWay, OnTheWay, MissionMode

LEMMA ResetsMission == ASSUME TypeOK, Safe, Resets PROVE Mission!Reset
<1>1. ~Held /\ MissionMode \notin OnTheWay
  BY ModeNow DEF Resets, OnTheWay
<1>2. ~Held' /\ MissionMode' = "ready"
  BY ModeNext DEF Resets
<1>. QED
  BY <1>1, <1>2, StaysFree DEF Resets, Mission!Reset, Mission!OnTheWay, OnTheWay, MissionMode

\* Paused first and taken over then is one hold for the mission.
LEMMA HoldsMission == ASSUME TypeOK, Safe, Holds PROVE Mission!Hold \/ UNCHANGED Mission!vars
<1>1. Held'
  BY ModeNext DEF Holds
<1>2. CASE state \in MovingStates \cup {"waiting_loop"}
  <2>1. ~Held /\ MissionMode \in OnTheWay
    BY <1>2, ModeNow DEF MovingStates, OnTheWay
  <2>2. MissionMode' = IF MissionMode = "visiting" THEN "driving" ELSE MissionMode
    BY <1>2, ModeNow, ModeNext DEF Holds, MovingStates
  <2>. QED
    BY <1>1, <2>1, <2>2 DEF Holds, Mission!Hold, Mission!OnTheWay, OnTheWay, MissionMode
<1>3. CASE state = "paused"
  <2>1. Held /\ MissionMode' = MissionMode
    BY <1>3, ModeNow, ModeNext DEF Holds, HeldStates
  <2>. QED
    BY <1>1, <2>1 DEF Holds, Mission!vars, MissionMode
<1>. QED
  BY <1>2, <1>3 DEF Holds

LEMMA StopsMission == ASSUME TypeOK, Safe, Stops PROVE Mission!Abandon
<1>1. MissionMode \in OnTheWay
  BY ModeNow DEF Stops, OnTheWay, ActiveStates, MovingStates
<1>2. ~Held' /\ MissionMode' \in {"failed", "canceled"}
  BY ModeNext DEF Stops, TerminalStates
<1>. QED
  BY <1>1, <1>2 DEF Stops, Mission!Abandon, Mission!OnTheWay, OnTheWay, MissionMode

LEMMA ReleasesMission == ASSUME TypeOK, Safe, Releases PROVE Mission!Release
<1>1. Held
  BY ModeNow DEF Releases
<1>2. ~Held' /\ MissionMode' = MissionMode
  BY ModeNow, ModeNext DEF Releases
<1>. QED
  BY <1>1, <1>2 DEF Releases, Mission!Release, MissionMode

LEMMA TaskDoneMission == ASSUME TypeOK, Safe, TaskDone PROVE Mission!FinishTask
<1>1. ~Held /\ MissionMode = "visiting"
  BY ModeNow DEF TaskDone, MovingStates
<1>2. ~Held' /\ MissionMode' = Mission!After(route, index + 1)
  BY AfterSetOut DEF TaskDone
<1>. QED
  BY <1>1, <1>2, StaysFree DEF TaskDone, Mission!FinishTask, MissionMode

LEMMA LapMission == ASSUME TypeOK, Safe, LapBegins PROVE Mission!NextLap
<1>1. ~Held /\ MissionMode = "resting"
  BY ModeNow DEF LapBegins
<1>2. ~Held' /\ MissionMode' = Mission!After(route, 0)
  BY AfterSetOut DEF LapBegins
<1>. QED
  BY <1>1, <1>2, StaysFree DEF LapBegins, Mission!NextLap, MissionMode

\* A running patrol goes home in failure or fails.
GivesUpHere ==
  \/ route.abortHome /\ state' = "returning_home" /\ homeReason' = TRUE
  \/ state' = "failed"

LEMMA GivenUpMission ==
  ASSUME TypeOK, Safe, state = "running", UNCHANGED <<route, index, cycle>>, GivesUpHere
  PROVE  Mission!Retreat \/ Mission!Abandon
<1>1. ~Held /\ MissionMode \in {"driving", "visiting"}
  BY ModeNow DEF MovingStates
<1>2. CASE route.abortHome /\ state' = "returning_home" /\ homeReason' = TRUE
  <2>1. ~Held' /\ MissionMode' = "retreating"
    BY <1>2, ModeNext
  <2>. QED
    BY <1>1, <1>2, <2>1, StaysFree DEF Mission!Retreat, MissionMode
<1>3. CASE state' = "failed"
  <2>1. ~Held' /\ MissionMode' = "failed"
    BY <1>3, ModeNext DEF TerminalStates
  <2>. QED
    BY <1>1, <2>1 DEF Mission!Abandon, Mission!OnTheWay, MissionMode
<1>. QED
  BY <1>2, <1>3 DEF GivesUpHere

LEMMA EndsMission ==
  ASSUME TypeOK, Safe, NEW ok \in BOOLEAN, Ends(ok)
  PROVE  [Mission!Next]_(Mission!vars)
<1>1. ~Held /\ UNCHANGED <<route, index, cycle>>
  BY ModeNow DEF Ends, MovingStates
<1>2. ASSUME state = "running", state' = "running", active' = None PROVE Mission!Arrive
  <2>1. MissionMode = "driving"
    BY <1>2, ModeNow DEF Ends
  <2>2. ~Held' /\ MissionMode' = "visiting"
    BY <1>2, ModeNext
  <2>. QED
    BY <1>1, <2>1, <2>2, StaysFree DEF Mission!Arrive, MissionMode
<1>3. ASSUME state = "running", state' = "running", active' # None PROVE UNCHANGED Mission!vars
  <2>1. MissionMode = "driving"
    BY <1>3, ModeNow DEF Ends
  <2>2. ~Held' /\ MissionMode' = "driving"
    BY <1>3, ModeNext
  <2>. QED
    BY <1>1, <2>1, <2>2, StaysFree DEF Mission!vars, MissionMode
<1>4. ASSUME state = "running", GivesUpHere PROVE Mission!Retreat \/ Mission!Abandon
  BY <1>1, <1>4, GivenUpMission
<1>5. ASSUME state = "returning_home", ~homeReason,
             state' = IF ShouldContinueLoop THEN "waiting_loop" ELSE "succeeded"
      PROVE  Mission!ReachHome
  <2>1. MissionMode = "homing"
    BY <1>5, ModeNow
  <2>2. ~Held' /\ MissionMode' = IF ShouldContinueLoop THEN "resting" ELSE "succeeded"
    BY <1>5, ModeNext DEF TerminalStates
  <2>3. route # None
    BY <1>5 DEF Safe, StateInv, ActiveStates, MovingStates
  <2>. QED
    BY <1>1, <2>1, <2>2, <2>3, StaysFree DEF Mission!ReachHome, ShouldContinueLoop, MissionMode
<1>6. ASSUME state = "returning_home", state' = "failed" PROVE Mission!Abandon
  <2>1. MissionMode \in OnTheWay
    BY <1>6, ModeNow DEF OnTheWay
  <2>2. ~Held' /\ MissionMode' = "failed"
    BY <1>6, ModeNext DEF TerminalStates
  <2>. QED
    BY <1>1, <2>1, <2>2 DEF Mission!Abandon, Mission!OnTheWay, OnTheWay, MissionMode
<1>. QED
  BY <1>2, <1>3, <1>4, <1>5, <1>6 DEF Ends, MovingStates, GivesUpHere, Mission!Next

\* Every step of the executor is a step of the mission or none.
LEMMA StepIsMissions ==
  ASSUME TypeOK, Safe, [Next]_vars PROVE [Mission!Next]_(Mission!vars)
<1>1. CASE NothingShown
  BY <1>1, NothingMoves
<1>2. CASE Departs \/ Refuses \/ Resets
  BY <1>2, DepartsMission, RefusesMission, ResetsMission DEF Mission!Next
<1>3. CASE Holds \/ Stops \/ Releases
  BY <1>3, HoldsMission, StopsMission, ReleasesMission DEF Mission!Next
<1>4. CASE TaskDone \/ LapBegins
  BY <1>4, TaskDoneMission, LapMission DEF Mission!Next
<1>5. CASE GivenUp
  BY <1>5, GivenUpMission DEF GivenUp, GivesUpHere, Mission!Next
<1>6. ASSUME NEW c \in NavIds, Ends(nav[c].phase = "executing" /\ nav[c].goal = "succeeded")
      PROVE  [Mission!Next]_(Mission!vars)
  BY <1>6, EndsMission
<1>. QED
  BY <1>1, <1>2, <1>3, <1>4, <1>5, <1>6, StepShown

LEMMA BothBegin == Init => Mission!Init
BY DEF Init, Mission!Init, Held, HeldMode, ModeOf, HeldStates

\* The executor keeps the promise of PatrolMission: targets in order, each done
\* only after it was driven to and stayed at, a hold that keeps the place, and
\* success only when every target of every lap and the way home are done.
THEOREM ExecutorKeepsItsPromise ==
  ASSUME InspectionEnabled
  PROVE  Spec => ImplementsMission
<1>1. TypeOK /\ Safe /\ [Next]_vars => [Mission!Next]_(Mission!vars)
  BY StepIsMissions
<1>. QED
  BY <1>1, BothBegin, SafeInvariant, PTL DEF Spec, ImplementsMission, Mission!Spec
=============================================================================
