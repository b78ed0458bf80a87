--------------------------- MODULE SpatialMapping ---------------------------
(***************************************************************************)
(* Building a 3D map while driving (zed_spatial_mapping_node.py): a        *)
(* command callback and a worker thread that share stop_requested,         *)
(* export_requested and the camera.  The callback takes the lock, the      *)
(* worker never does.                                                      *)
(***************************************************************************)
EXTENDS Naturals

CONSTANTS
  MinFrames,     \* min_success_frames_before_export
  MaxFailures,   \* max_consecutive_grab_failures
  MaxStarts      \* bound: workers ever started

VARIABLES
  worker,   \* where the worker is: "none", "opening", "grabbing", "exporting",
            \* "closing"
  stop,     \* stop_requested
  export,   \* export_requested
  asking,   \* the callback has set stop_requested and not yet the other
  camera,   \* self.camera is set
  mapping,  \* mapping_started
  frames,   \* success_frames, up to MinFrames
  failures, \* consecutive_failures, of the worker
  state,    \* the last published state
  starts,   \* history: workers started
  fresh     \* history: frames of this worker, up to MinFrames

vars == <<worker, stop, export, asking, camera, mapping, frames, failures, state,
          starts, fresh>>

TypeOK ==
  /\ worker \in {"none", "opening", "grabbing", "exporting", "closing"}
  /\ {stop, export, asking, camera, mapping} \subseteq BOOLEAN
  /\ frames \in 0 .. MinFrames /\ fresh \in 0 .. MinFrames
  /\ failures \in 0 .. MaxFailures /\ starts \in 0 .. MaxStarts
  /\ state \in {"idle", "opening_camera", "running", "exporting", "succeeded", "failed"}
  /\ camera => worker # "none"

Init ==
  /\ worker = "none" /\ stop = FALSE /\ export = FALSE /\ camera = FALSE
  /\ mapping = FALSE /\ asking = FALSE
  /\ frames = 0 /\ failures = 0 /\ state = "idle" /\ starts = 0 /\ fresh = 0

Alive == worker # "none"

(***************************************************************************)
(* Commands                                                                *)
(***************************************************************************)
\* Mutant of StartMapping: the flags are cleared before the worker is looked at.
StartMappingEager ==
  /\ stop' = FALSE /\ export' = FALSE
  /\ IF Alive
     THEN state' = "running" /\ UNCHANGED <<worker, failures, starts, fresh>>
     ELSE /\ starts < MaxStarts /\ starts' = starts + 1
          /\ worker' = "opening" /\ failures' = 0 /\ fresh' = 0 /\ UNCHANGED state
  /\ UNCHANGED <<camera, mapping, frames>>

\* A start that finds the worker alive is told "running", even while that
\* worker is on its way out.  The frames of an earlier worker still count.
StartMapping ==
  /\ IF Alive
     THEN state' = "running" /\ UNCHANGED <<worker, stop, export, failures, starts, fresh>>
     ELSE /\ starts < MaxStarts /\ starts' = starts + 1
          /\ stop' = FALSE /\ export' = FALSE
          /\ worker' = "opening" /\ failures' = 0 /\ fresh' = 0 /\ UNCHANGED state
  /\ UNCHANGED <<camera, mapping, frames>>

\* request_stop and, with an export, export_current_map.  The worker may look
\* at the flags between the two assignments, and it looks at export_requested
\* once: an export asked for later is lost.
RequestStop(exporting) ==
  /\ stop' = TRUE /\ asking' = exporting
  /\ state' = IF Alive THEN state ELSE IF exporting THEN "failed" ELSE "idle"
  /\ UNCHANGED <<worker, export, camera, mapping, frames, failures, starts, fresh>>

RequestExport ==
  /\ asking /\ asking' = FALSE /\ export' = TRUE
  /\ UNCHANGED <<worker, stop, camera, mapping, frames, failures, state, starts, fresh>>

Reset ==
  /\ stop' = TRUE
  /\ IF Alive THEN state' = "running" /\ UNCHANGED <<mapping, frames, camera>>
     ELSE state' = "idle" /\ mapping' = FALSE /\ frames' = 0 /\ camera' = FALSE
  /\ UNCHANGED <<worker, export, failures, starts, fresh>>

(***************************************************************************)
(* The worker                                                              *)
(***************************************************************************)
Broken == worker' = "closing" /\ state' = "failed"

OpenCamera ==
  /\ worker = "opening" /\ camera' = TRUE
  /\ \/ worker' = "grabbing" /\ mapping' = TRUE /\ state' = "running"
     \/ Broken /\ UNCHANGED mapping
  /\ UNCHANGED <<stop, export, frames, failures, starts, fresh>>

Up(n) == IF n < MinFrames THEN n + 1 ELSE n

\* One turn of the loop.  The worker's own limit asks for an export too.
Grab ==
  /\ worker = "grabbing" /\ ~ stop
  /\ \/ /\ frames' = Up(frames) /\ fresh' = Up(fresh) /\ failures' = 0
        /\ \/ UNCHANGED <<stop, export>>
           \/ stop' = TRUE /\ export' = TRUE             \* max_duration_sec
        /\ state' \in {state, "running"} /\ UNCHANGED worker
     \/ /\ UNCHANGED <<frames, fresh, stop, export>>
        /\ IF failures < MaxFailures
           THEN failures' = failures + 1 /\ UNCHANGED <<worker, state>>
           ELSE Broken /\ UNCHANGED failures
  /\ UNCHANGED <<camera, mapping, starts>>

\* The loop is over: export_requested is looked at once.
Leave ==
  /\ worker = "grabbing" /\ stop
  /\ IF export THEN worker' = "exporting" /\ UNCHANGED state
     ELSE worker' = "closing" /\ state' = "idle"
  /\ UNCHANGED <<stop, export, camera, mapping, frames, failures, starts, fresh>>

ExportMap ==
  /\ worker = "exporting" /\ worker' = "closing"
  /\ \/ camera /\ mapping /\ frames >= MinFrames /\ state' = "succeeded"
     \/ state' = "failed"
  /\ UNCHANGED <<stop, export, camera, mapping, frames, failures, starts, fresh>>

CloseCamera ==
  /\ worker = "closing" /\ worker' = "none" /\ camera' = FALSE
  /\ UNCHANGED <<stop, export, mapping, frames, failures, state, starts, fresh>>

Worker == /\ OpenCamera \/ Grab \/ Leave \/ ExportMap \/ CloseCamera
          /\ UNCHANGED asking

\* One callback at a time.
Commands ==
  \/ RequestExport
  \/ /\ ~ asking
     /\ \/ (StartMapping \/ Reset) /\ UNCHANGED asking
        \/ \E exporting \in BOOLEAN : RequestStop(exporting)

Next == Commands \/ Worker

Spec == Init /\ [][Next]_vars
Fairness == WF_vars(Worker)
FairSpec == Spec /\ Fairness

(***************************************************************************)
(* Properties                                                              *)
(***************************************************************************)
\* A running worker that has been asked to stop ends and gives the camera
\* back, whatever commands follow: no later start takes the request away.
CameraIsReleased == [](stop /\ Alive => <> ~ Alive)

\* A worker that has been told to stop is not told otherwise as long as it
\* lives, and goes only forward to its end: it neither opens the camera again
\* nor grabs once it exports, whatever starts, resets and exports are asked for
\* meanwhile.
StopIsFinal ==
  [][stop /\ Alive =>
       /\ Alive' => stop'
       /\ worker' = "opening" => worker = "opening"
       /\ worker' = "grabbing" => worker \in {"opening", "grabbing"}
       /\ worker' = "exporting" => worker \in {"grabbing", "exporting"} /\ export]_vars

\* The guard min_success_frames_before_export speaks of the map that is
\* exported.  It does not: success_frames outlives a worker unless reset.
ExportHasItsFrames ==
  [][worker = "exporting" /\ state' = "succeeded" => fresh >= MinFrames]_vars

==============================================================================
