----------------------------- MODULE MCProgress -----------------------------
(* The parts that must get somewhere, on small instances: the connection with    *)
(* the platform, the sockets of the local app, the node that corrects the pose   *)
(* by the scan, the worker that holds the camera, and the operator's panel.      *)
(* They share no state: `under' names the one a behaviour is about, it is chosen *)
(* at the start and never changes, and the others stay as they begin.  Each      *)
(* part's fairness is asked of the behaviours that are about it.                 *)
EXTENDS PlatformConnection, FiniteSets

\* The constants of the parts, by the names they have there.
CONSTANTS
  Sockets, Poses, Refined, Lost, IgnoreTicks, MaxOutside, MinFrames, MaxFailures,
  MaxStarts, LockTimeout, RequestTimeout, MaxRequests, MaxRoutes, MaxChoices, Modes

ASSUME PartsAssumption ==
  /\ IsFiniteSet(Sockets)
  /\ Lost \notin Poses /\ Refined \in [Poses -> SUBSET Poses]
  /\ {IgnoreTicks, MaxOutside, MinFrames, MaxFailures, MaxStarts, LockTimeout,
      RequestTimeout, MaxRequests, MaxRoutes, MaxChoices} \subseteq Nat

\* Two poses match the map, each the best in its own surroundings; the third lies
\* between them, and which of the two is found from there is up to the scan.
TwoGoodMatches == <<{1}, {2}, {1, 2}>>

VARIABLES
  under,
  app_stored, app_enabled, app_setting, app_socket, app_clients, app_restarts, match_map,
  match_scan, match_last, match_age, match_initials, match_seeds, match_answer, match_outside,
  match_turn, camera_worker, camera_stop, camera_export, camera_asking, camera_camera,
  camera_mapping, camera_frames, camera_failures, camera_state, camera_starts, camera_fresh,
  panel_unlocked, panel_idle, panel_twist, panel_zeros, panel_pending, panel_waited,
  panel_sent, panel_calls, panel_answers, panel_route, panel_chosen, panel_active, panel_mode,
  panel_thread, panel_loaded, panel_shown, panel_spoilt

appVars == <<app_stored, app_enabled, app_setting, app_socket, app_clients, app_restarts>>
matchVars == <<match_map, match_scan, match_last, match_age, match_initials, match_seeds,
               match_answer, match_outside, match_turn>>
cameraVars == <<camera_worker, camera_stop, camera_export, camera_asking, camera_camera,
                camera_mapping, camera_frames, camera_failures, camera_state, camera_starts,
                camera_fresh>>
panelVars == <<panel_unlocked, panel_idle, panel_twist, panel_zeros, panel_pending,
               panel_waited, panel_sent, panel_calls, panel_answers, panel_route,
               panel_chosen, panel_active, panel_mode, panel_thread, panel_loaded, panel_shown,
               panel_spoilt>>
all == <<under, vars, appVars, matchVars, cameraVars, panelVars>>

App == INSTANCE LocalApp WITH
  stored <- app_stored, enabled <- app_enabled, setting <- app_setting,
  socket <- app_socket, clients <- app_clients, restarts <- app_restarts

Match == INSTANCE ScanMatch WITH
  map <- match_map, scan <- match_scan, last <- match_last, age <- match_age,
  initials <- match_initials, seeds <- match_seeds, answer <- match_answer,
  outside <- match_outside, turn <- match_turn

Camera == INSTANCE SpatialMapping WITH
  worker <- camera_worker, stop <- camera_stop, export <- camera_export,
  asking <- camera_asking, camera <- camera_camera, mapping <- camera_mapping,
  frames <- camera_frames, failures <- camera_failures, state <- camera_state,
  starts <- camera_starts, fresh <- camera_fresh

Panel == INSTANCE OperatorPanel WITH
  unlocked <- panel_unlocked, idle <- panel_idle, twist <- panel_twist,
  zeros <- panel_zeros, pending <- panel_pending, waited <- panel_waited,
  sent <- panel_sent, calls <- panel_calls, answers <- panel_answers,
  route <- panel_route, chosen <- panel_chosen, active <- panel_active, mode <- panel_mode,
  thread <- panel_thread, loaded <- panel_loaded, shown <- panel_shown, spoilt <- panel_spoilt

-----------------------------------------------------------------------------
ProgressInit ==
  /\ under \in {"connection", "local app", "scan match", "camera", "panel"}
  /\ Init /\ App!Init /\ Match!Init /\ Camera!Init /\ Panel!Init

ProgressNext ==
  /\ UNCHANGED under
  /\ \/ /\ under = "connection" /\ Next
        /\ UNCHANGED <<appVars, matchVars, cameraVars, panelVars>>
     \/ /\ under = "local app" /\ App!Next
        /\ UNCHANGED <<vars, matchVars, cameraVars, panelVars>>
     \/ /\ under = "scan match" /\ Match!Next
        /\ UNCHANGED <<vars, appVars, cameraVars, panelVars>>
     \/ /\ under = "camera" /\ Camera!Next
        /\ UNCHANGED <<vars, appVars, matchVars, panelVars>>
     \/ /\ under = "panel" /\ Panel!Next
        /\ UNCHANGED <<vars, appVars, matchVars, cameraVars>>

\* The fairness of each part, see there for what in the code justifies it.
ProgressFairness ==
  /\ WF_vars(under = "connection" /\ Thread)
  /\ \A c \in Callers : WF_vars(under = "connection" /\ (SetDesired(c) \/ Wake(c)))
  /\ \A s \in Sockets : WF_appVars(under = "local app" /\ App!Serve(s))
  /\ WF_cameraVars(under = "camera" /\ Camera!Worker)
  /\ WF_panelVars(under = "panel" /\ Panel!Second)
  /\ WF_panelVars(under = "panel" /\ Panel!NudgeEnds)
  /\ WF_panelVars(under = "panel" /\ Panel!PatrolStatus)
  /\ WF_panelVars(under = "panel" /\ Panel!PreviewDrawn)
  /\ WF_panelVars(under = "panel" /\ Panel!PreviewLoaded)
  /\ \A n \in Panel!Numbers : WF_panelVars(under = "panel" /\ Panel!CallEnds(n))

ProgressSpec == ProgressInit /\ [][ProgressNext]_all /\ ProgressFairness

-----------------------------------------------------------------------------
\* Every variable of every part keeps to its values.
ProgressTypeOK ==
  /\ TypeOK /\ App!TypeOK /\ Match!TypeOK /\ Camera!TypeOK /\ Panel!TypeOK

\* What is told is so: the platform is told of every event, none is passed over
\* for good; the clients the bridge reports are the sockets it serves, whichever
\* way each of them went; and the route the panel has noted is the one
\* its thread draws or the latest that was drawn, whatever was asked for meanwhile,
\* unless just its drawing failed.
ReportsAreTrue == NoEventPassedOver /\ App!ClientsCounted /\ Panel!NotedIsDrawn

\* A decision stands: the scan matcher does not correct its own latest correction
\* when that comes back to it within the ignored time, and its corrections do not
\* multiply; and a worker of the camera that has been told to stop is not sent on
\* by a later command.
DecisionsStand ==
  Match!EchoIsIgnored /\ []Match!EchoesDoNotMultiply /\ Camera!StopIsFinal

\* The last word of the operators settles: a connection that was switched on is
\* served and one that was switched off is shown as such, and the sockets of an
\* app that is switched off are closed.
SwitchesAreObeyed ==
  /\ EnabledIsServed /\ DisabledIsShown
  /\ App!OffClosesSockets

\* What a thread or a worker was given comes to its end: the camera is given
\* back, the panel's requests and nudges end, and the route the robot is on is
\* shown unless its drawing failed.
ThreadsSettle == Camera!CameraIsReleased /\ Panel!PanelSettles
=============================================================================
