--------------------------- MODULE OperatorPanel ---------------------------
(***************************************************************************)
(* The touch panel (ui_backend.py) and the ROS half beside it              *)
(* (ui_ros_bridge.py): the motion lock and its short nudges, requests to   *)
(* services whose answers come by callback, and the route preview that a   *)
(* worker thread draws.                                                    *)
(*                                                                         *)
(* The panel is one thread with timers; what the ROS thread receives       *)
(* reaches it through a queue.  Time goes in seconds: a Second runs the    *)
(* safety timer.                                                           *)
(***************************************************************************)
EXTENDS Naturals, FiniteSets, Sequences

CONSTANTS
  LockTimeout,     \* 10 s without motion lock the panel again
  RequestTimeout,  \* 5 s: the panel gives a request up
  MaxRequests,     \* bound: requests ever sent
  MaxRoutes,       \* bound: routes the executor goes through
  MaxChoices,      \* bound: times the operator asks for a drawing or a mode
  Modes            \* route_focus, full_map

VARIABLES
  unlocked, idle,      \* _control_unlocked, seconds since the last motion
  twist,               \* the last velocity published is not zero
  zeros,               \* a zero is scheduled for the end of a nudge
  pending, waited,     \* the switch request: its number or 0, its age
  sent,                \* requests ever sent
  calls,               \* the calls the ROS half has not heard of
  answers,             \* the answers in the panel's queue: number and success
  route,               \* route_path of the executor's status; 0: none yet, and the
                       \* default route is drawn
  chosen,              \* history: drawings asked for by the operator
  active, mode,        \* _active_route_preview_path, _route_preview_mode
  thread,              \* the preview thread: what it draws, or nothing
  loaded,              \* previews that are drawn and not yet taken by the panel
  shown,               \* the preview on the screen
  spoilt               \* history: the drawing begun last ended without its route

vars == <<unlocked, idle, twist, zeros, pending, waited, sent, calls, answers,
          route, chosen, active, mode, thread, loaded, shown,
          spoilt>>
motion == <<unlocked, idle, twist, zeros>>
requests == <<pending, waited, sent, calls, answers>>
preview == <<route, chosen, active, mode, thread, loaded, shown, spoilt>>

Previews == [route : 0 .. MaxRoutes, mode : Modes]
Nothing == MaxRoutes + 1   \* what a preview shows that says it failed
Pictures == [route : 0 .. Nothing, mode : Modes]
Numbers == 1 .. MaxRequests

TypeOK ==
  /\ unlocked \in BOOLEAN /\ idle \in 0 .. LockTimeout
  /\ twist \in BOOLEAN /\ zeros \in BOOLEAN
  /\ pending \in 0 .. MaxRequests /\ waited \in 0 .. RequestTimeout
  /\ sent \in 0 .. MaxRequests /\ calls \subseteq Numbers
  /\ answers \subseteq Numbers \X BOOLEAN
  /\ chosen \in 0 .. MaxChoices
  /\ route \in 0 .. MaxRoutes /\ active \in 0 .. MaxRoutes /\ mode \in Modes
  /\ thread \in {{}} \cup {{p} : p \in Previews} /\ shown \in Pictures
  /\ loaded \in Seq(Pictures) /\ spoilt \in BOOLEAN

Init ==
  /\ unlocked = FALSE /\ idle = 0 /\ twist = FALSE /\ zeros = FALSE
  /\ pending = 0 /\ waited = 0 /\ sent = 0 /\ calls = {} /\ answers = {}
  /\ route = 0 /\ chosen = 0 /\ active = 0 /\ mode \in Modes /\ thread = {}
  /\ loaded = <<>> /\ spoilt = FALSE
  /\ shown = [route |-> 0, mode |-> mode]

(***************************************************************************)
(* Motion                                                                  *)
(***************************************************************************)
SetControlUnlocked(to) ==
  /\ unlocked' = to /\ idle' = 0
  /\ UNCHANGED <<twist, zeros, requests, preview>>

\* A nudge: a velocity, and a zero 350 ms later.  The zero of an earlier
\* nudge is not taken back and may end this one.
Move ==
  /\ unlocked /\ idle' = 0 /\ twist' = TRUE /\ zeros' = TRUE
  /\ UNCHANGED <<unlocked, requests, preview>>

NudgeEnds ==
  /\ zeros /\ twist' = FALSE /\ zeros' \in BOOLEAN /\ (zeros' => twist)
  /\ UNCHANGED <<unlocked, idle, requests, preview>>

EmergencyStop ==
  /\ twist' = FALSE /\ unlocked' = FALSE /\ idle' = 0
  /\ UNCHANGED <<zeros, requests, preview>>

(***************************************************************************)
(* Requests.  The answer carries what was asked, and nobody looks at it: a *)
(* late failure ends whatever request is pending.                          *)
(***************************************************************************)
SetEnabled ==
  /\ pending = 0 /\ sent < MaxRequests
  /\ sent' = sent + 1 /\ pending' = sent + 1 /\ waited' = 0
  /\ \/ calls' = calls \cup {sent + 1} /\ UNCHANGED answers
     \/ answers' = answers \cup {<<sent + 1, FALSE>>} /\ UNCHANGED calls
  /\ UNCHANGED <<motion, preview>>

\* _watch_set_bool: the service answers, or its 5 s are up.
CallEnds(n) ==
  /\ n \in calls /\ calls' = calls \ {n}
  /\ \E success \in BOOLEAN : answers' = answers \cup {<<n, success>>}
  /\ UNCHANGED <<pending, waited, sent, motion, preview>>

\* update_cloud_control_result: a success waits for the status.
ControlResult(a) ==
  /\ a \in answers /\ answers' = answers \ {a}
  /\ pending' = IF a[2] THEN pending ELSE 0
  /\ waited' = IF a[2] THEN waited ELSE 0
  /\ UNCHANGED <<sent, calls, motion, preview>>

\* update_cloud_status: the status shows what was asked for.
StatusConfirms ==
  /\ pending # 0 /\ pending' = 0 /\ waited' = 0
  /\ UNCHANGED <<sent, calls, answers, motion, preview>>

\* checkSafetyTimeout.  Only clocks that run are counted.
Second ==
  /\ IF unlocked /\ idle + 1 >= LockTimeout
     THEN unlocked' = FALSE /\ idle' = 0
     ELSE /\ idle' = IF unlocked THEN idle + 1 ELSE 0
          /\ UNCHANGED unlocked
  /\ IF pending # 0 /\ waited + 1 >= RequestTimeout
     THEN pending' = 0 /\ waited' = 0
     ELSE /\ waited' = IF pending # 0 THEN waited + 1 ELSE 0
          /\ UNCHANGED pending
  /\ UNCHANGED <<twist, zeros, sent, calls, answers, preview>>

(***************************************************************************)
(* The preview                                                             *)
(***************************************************************************)
\* _start_route_preview_refresh: dropped while a thread is at work.
Refresh(r, m) ==
  IF thread = {} THEN thread' = {[route |-> r, mode |-> m]} /\ spoilt' = FALSE
                 ELSE UNCHANGED <<thread, spoilt>>

\* A mode chosen while a thread draws is remembered and not drawn.
SetMode(m) ==
  /\ chosen < MaxChoices /\ chosen' = chosen + 1
  /\ m # mode /\ mode' = m /\ Refresh(active, m)
  /\ UNCHANGED <<route, active, loaded, shown, motion, requests>>

\* refreshRoutePreview and, once, finishStartup.
RefreshRoutePreview ==
  /\ chosen < MaxChoices /\ chosen' = chosen + 1
  /\ Refresh(active, mode)
  /\ UNCHANGED <<route, active, mode, loaded, shown, motion, requests>>

RouteChanges ==
  /\ route < MaxRoutes /\ route' = route + 1
  /\ UNCHANGED <<chosen, active, mode, thread, loaded, shown, spoilt, motion, requests>>

\* Mutant of PatrolStatus: the new route is noted before the thread is
\* looked at.
PatrolStatusNotedFirst ==
  /\ active' = route
  /\ IF route # active THEN Refresh(route, mode) ELSE UNCHANGED <<thread, spoilt>>
  /\ UNCHANGED <<route, chosen, mode, loaded, shown, motion, requests>>

\* update_patrol_status: a route that could not be drawn now is not noted
\* either, so that the next status asks for it again.
PatrolStatus ==
  /\ IF route # active /\ thread = {}
     THEN active' = route /\ Refresh(route, mode)
     ELSE UNCHANGED <<active, thread, spoilt>>
  /\ UNCHANGED <<route, chosen, mode, loaded, shown, motion, requests>>

\* _refresh_route_preview_worker: the route that was asked for is drawn; or, after
\* a TypeError, the default route; or a preview says that it
\* failed; or the thread dies of its tasks and says nothing.  What it says is a
\* signal that the panel takes when it comes to it, and it may have started
\* another thread before.
PreviewDrawn ==
  /\ thread # {} /\ thread' = {}
  /\ \E p \in thread :
       \/ /\ \E m \in {p.mode, mode} : loaded' = Append(loaded, [p EXCEPT !.mode = m])
          /\ spoilt' = FALSE
       \/ \E r \in {0, Nothing} :
            /\ loaded' = Append(loaded, [p EXCEPT !.route = r])
            /\ spoilt' = (r # p.route)
       \/ UNCHANGED loaded /\ spoilt' = TRUE
  /\ UNCHANGED <<route, chosen, active, mode, shown, motion, requests>>

PreviewLoaded ==
  /\ loaded # <<>> /\ shown' = Head(loaded) /\ loaded' = Tail(loaded)
  /\ UNCHANGED <<route, chosen, active, mode, thread, spoilt, motion, requests>>

Next ==
  \/ \E to \in BOOLEAN : SetControlUnlocked(to)
  \/ Move \/ NudgeEnds \/ EmergencyStop
  \/ SetEnabled \/ StatusConfirms \/ Second
  \/ \E n \in Numbers : CallEnds(n)
  \/ \E a \in Numbers \X BOOLEAN : ControlResult(a)
  \/ \E m \in Modes : SetMode(m)
  \/ RefreshRoutePreview \/ RouteChanges \/ PatrolStatus \/ PreviewDrawn \/ PreviewLoaded

Spec == Init /\ [][Next]_vars

\* Timers and threads run; the executor goes on publishing its status.
Fairness ==
  /\ WF_vars(Second) /\ WF_vars(NudgeEnds)
  /\ WF_vars(PatrolStatus) /\ WF_vars(PreviewDrawn) /\ WF_vars(PreviewLoaded)
  /\ \A n \in Numbers : WF_vars(CallEnds(n))
FairSpec == Spec /\ Fairness

(***************************************************************************)
(* Properties                                                              *)
(***************************************************************************)
\* The route the panel has noted as shown is the one its thread draws or, when
\* no thread draws, the one that is on the screen once the previews under way are
\* taken, unless its drawing failed: neither a refresh that was dropped because a
\* thread was at work nor a preview that is taken late leaves a route noted that
\* was not drawn.
Latest == IF loaded = <<>> THEN shown ELSE loaded[Len(loaded)]
NotedIsDrawn ==
  /\ \A p \in thread : p.route = active
  /\ thread = {} => Latest.route = active \/ spoilt

\* The panel comes to rest: no request stays pending, and the route the robot is
\* on gets its drawing although refreshes are dropped while one runs.  One try
\* is all it gets, because it is noted by then: the screen shows it in the end,
\* unless just this drawing failed.
PanelSettles ==
  /\ [](pending # 0 => <>(pending = 0))
  /\ \A r \in 0 .. MaxRoutes :
       [](route = r => <>(\/ route # r
                          \/ active = r /\ (shown.route = r \/ (thread = {} /\ spoilt))))

\* The mode that was chosen is shown in the end; it is not when it was chosen
\* while the thread drew.
ModeIsShown ==
  \A m \in Modes : [](mode = m => <>(shown.mode = m \/ mode # m))

==============================================================================
