----------------------------- MODULE Capture3D -----------------------------
(***************************************************************************)
(* Recording the site and building a model of it: the 3D operations of     *)
(* system_supervisor_node.py, the recording node (zed_svo_capture_node.py, *)
(* capture_svo), the off-line build (reconstruct_svo), and the asset       *)
(* directories with their latest.json (zed_3d_asset_manager.py).           *)
(*                                                                         *)
(* Each supervisor command runs in a thread of its own.  The recording     *)
(* node is a process that starts recording at once and exits when done.    *)
(* Its status messages are taken to arrive before the process is gone.     *)
(***************************************************************************)
EXTENDS Naturals

CONSTANTS
  Threads,      \* command threads of the supervisor
  MaxSessions   \* bound: recordings ever begun

VARIABLES
  ops,       \* what each thread does: operation, its argument, and its place
  lock,      \* the thread that holds mapping3d_operation_lock, or 0
  stopping,  \* mapping3d_stop_requested
  status,    \* state of latest_mapping3d_status: "none", "recording", "failed",
             \* "succeeded"
  capture,   \* the recording process: "off", "open", "record", "save", "exit"
  halt,      \* its stop_requested
  sessions,  \* the capture directories: "none", "recording", "partial",
             \* "complete", "trash" (moved away), "hollow" (moved away while
             \* recording, so that its metadata name a file that is not there)
  begun,     \* recordings begun; the last one is the running one
  latest,    \* the session latest.json names, or 0
  build,     \* the build process: "off", "resolve", "read"
  source,    \* the session it was told to read, 0 for latest, then its input
  busy,      \* patrol_resource_blocker, or zed or perception running
  answer     \* history: outcome of the last stop: "none", "saved", "killed", "failed"

vars == <<ops, lock, stopping, status, capture, halt, sessions, begun, latest,
          build, source, busy, answer>>
recorder == <<status, capture, halt, sessions, begun, latest>>
builder == <<build, source>>

Ids == 1 .. MaxSessions
Idle == [op |-> "none", arg |-> 0, at |-> "idle"]

TypeOK ==
  /\ ops \in [Threads -> [op : {"none", "start", "stop", "build"}, arg : 0 .. MaxSessions,
                          at : {"idle", "lock", "wait"}]]
  /\ lock \in Threads \cup {0} /\ stopping \in BOOLEAN
  /\ status \in {"none", "recording", "failed", "succeeded"}
  /\ capture \in {"off", "open", "record", "save", "exit"} /\ halt \in BOOLEAN
  /\ sessions \in [Ids -> {"none", "recording", "partial", "complete", "trash", "hollow"}]
  /\ begun \in 0 .. MaxSessions /\ latest \in 0 .. MaxSessions
  /\ build \in {"off", "resolve", "read"} /\ source \in 0 .. MaxSessions
  /\ busy \in BOOLEAN /\ answer \in {"none", "saved", "killed", "failed"}

Init ==
  /\ ops = [t \in Threads |-> Idle] /\ lock = 0 /\ stopping = FALSE
  /\ status = "none" /\ capture = "off" /\ halt = FALSE
  /\ sessions = [s \in Ids |-> "none"] /\ begun = 0 /\ latest = 0
  /\ build = "off" /\ source = 0 /\ busy = FALSE /\ answer = "none"

\* Under the lock a start and a build are done in one go; a stop waits there.
HasLock(t, op) == ops[t].op = op /\ ops[t].at = "lock" /\ lock = 0
Waits(t) == ops' = [ops EXCEPT ![t].at = "wait"] /\ lock' = t
Done(t) == ops' = [ops EXCEPT ![t] = Idle] /\ lock' = 0

(***************************************************************************)
(* The supervisor.  Stop raises its event before it asks for the lock, a   *)
(* build looks at it before and after, a start after.                      *)
(***************************************************************************)
Command(t) ==
  /\ ops[t] = Idle
  /\ \/ /\ ops' = [ops EXCEPT ![t] = [op |-> "start", arg |-> 0, at |-> "lock"]]
        /\ UNCHANGED stopping
     \/ /\ ops' = [ops EXCEPT ![t] = [op |-> "stop", arg |-> 0, at |-> "lock"]]
        /\ stopping' = TRUE
     \/ /\ ~ stopping /\ UNCHANGED stopping
        /\ \E s \in 0 .. begun :
             ops' = [ops EXCEPT ![t] = [op |-> "build", arg |-> s, at |-> "lock"]]
  /\ UNCHANGED <<lock, recorder, builder, busy, answer>>

\* start_3d_mapping, and the first steps of the process it starts.
Start3dMapping(t) ==
  /\ HasLock(t, "start") /\ Done(t)
  /\ IF capture = "off" /\ build = "off" /\ ~ busy /\ ~ stopping
        /\ begun < MaxSessions
     THEN /\ capture' = "open" /\ halt' = FALSE /\ begun' = begun + 1
          /\ sessions' = [sessions EXCEPT ![begun + 1] = "recording"]
          /\ status' = "recording" /\ UNCHANGED latest
     ELSE UNCHANGED recorder
  /\ UNCHANGED <<stopping, builder, busy, answer>>

\* stop_3d_mapping forgets the last status, asks the node, and waits under
\* the lock.
StopAsks(t) ==
  /\ HasLock(t, "stop") /\ capture # "off"
  /\ status' = "none" /\ halt' = TRUE /\ Waits(t)
  /\ UNCHANGED <<stopping, capture, sessions, begun, latest,
                 builder, busy, answer>>

StopFindsNothing(t) ==
  /\ HasLock(t, "stop") /\ capture = "off"
  /\ Done(t) /\ stopping' = FALSE
  /\ UNCHANGED <<recorder, builder, busy, answer>>

\* wait_for_mapping3d_terminal returns: a final status has come, or time is
\* up and the process is stopped.  The event is cleared, that of another
\* stop which waits for the lock with it.
StopAnswered(t) ==
  /\ ops[t].op = "stop" /\ ops[t].at = "wait"
  /\ Done(t) /\ stopping' = FALSE
  /\ \/ /\ status \in {"succeeded", "failed"}
        /\ answer' = IF status = "succeeded" THEN "saved" ELSE "failed"
        /\ UNCHANGED <<status, capture, halt, sessions, begun, latest>>
     \/ /\ status \in {"none", "recording"}
        /\ answer' = IF status = "none" THEN "killed" ELSE "failed"
        /\ capture' = "off"
        /\ sessions' = [sessions EXCEPT ![begun] =
             IF @ = "recording" THEN "partial" ELSE @]
        /\ UNCHANGED <<status, halt, begun, latest>>
  /\ UNCHANGED <<builder, busy>>

\* _reconstruct_3d_map_locked.  The process is given the session, or told to
\* take the latest, which it looks up again for itself.
Build3dMap(t) ==
  /\ HasLock(t, "build") /\ Done(t)
  /\ LET s == IF ops[t].arg = 0 THEN latest ELSE ops[t].arg
     IN IF /\ ~ stopping /\ ~ busy /\ capture = "off" /\ s # 0 /\ build = "off"
           /\ sessions[s] = "complete"
        THEN build' = "resolve" /\ source' = ops[t].arg
        ELSE UNCHANGED builder
  /\ UNCHANGED <<stopping, recorder, busy, answer>>

(***************************************************************************)
(* The recording process.                                                  *)
(***************************************************************************)
CameraOpens ==
  /\ capture = "open" /\ capture' = "record"
  /\ UNCHANGED <<ops, lock, stopping, status, halt, sessions, begun, latest,
                 builder, busy, answer>>

\* Once a second the recording reports, whatever was asked of it.
Reports ==
  /\ capture = "record" /\ status' = "recording"
  /\ UNCHANGED <<ops, lock, stopping, capture, halt, sessions, begun, latest,
                 builder, busy, answer>>

Breaks ==
  /\ capture \in {"open", "record"} /\ capture' = "exit" /\ status' = "failed"
  /\ sessions' = [sessions EXCEPT ![begun] =
                    IF @ = "recording" THEN "partial" ELSE @]
  /\ UNCHANGED <<ops, lock, stopping, halt, begun, latest, builder, busy, answer>>

\* Mutant of LeavesLoop: the result is told before the files are written.
LeavesLoopTelling ==
  /\ capture = "record" /\ halt /\ capture' = "save" /\ status' = "succeeded"
  /\ UNCHANGED <<ops, lock, stopping, halt, sessions, begun, latest,
                 builder, busy, answer>>

LeavesLoop ==
  /\ capture = "record" /\ halt /\ capture' = "save"
  /\ UNCHANGED <<ops, lock, stopping, status, halt, sessions, begun, latest,
                 builder, busy, answer>>

\* Metadata, index and latest.json are written, then the result is told.
Saves ==
  /\ capture = "save" /\ capture' = "exit" /\ status' = "succeeded"
  /\ sessions' = [sessions EXCEPT ![begun] =
                    IF @ = "recording" THEN "complete" ELSE "hollow"]
  /\ latest' = begun
  /\ UNCHANGED <<ops, lock, stopping, halt, begun, builder, busy, answer>>

Exits ==
  /\ capture = "exit" /\ capture' = "off"
  /\ UNCHANGED <<ops, lock, stopping, status, halt, sessions, begun, latest,
                 builder, busy, answer>>

(***************************************************************************)
(* The build process.                                                      *)
(***************************************************************************)
\* _resolve_capture: the file must open.
Resolve ==
  /\ build = "resolve"
  /\ LET s == IF source = 0 THEN latest ELSE source
     IN IF s # 0 /\ sessions[s] \in {"recording", "partial", "complete"}
        THEN build' = "read" /\ source' = s
        ELSE build' = "off" /\ source' = 0
  /\ UNCHANGED <<ops, lock, stopping, recorder, busy, answer>>

BuildEnds ==
  /\ build = "read" /\ build' = "off" /\ source' = 0
  /\ UNCHANGED <<ops, lock, stopping, recorder, busy, answer>>

(***************************************************************************)
(* The asset commands look at neither the lock nor the processes.          *)
(***************************************************************************)
\* _sync_latest: a latest.json whose file is there is kept, any other is
\* replaced by the newest session that has one, finished or not.
HasFile(ss) == {s \in Ids : ss[s] \in {"recording", "partial", "complete"}}
Newest(ss) == IF HasFile(ss) = {} THEN 0
              ELSE CHOOSE s \in HasFile(ss) : \A x \in HasFile(ss) : x <= s

DeleteAsset(s) ==
  /\ sessions[s] \in {"recording", "partial", "complete", "hollow"}
  /\ sessions' = [sessions EXCEPT ![s] = "trash"]
  /\ latest' = IF latest \in HasFile(sessions') THEN latest ELSE Newest(sessions')
  /\ UNCHANGED <<ops, lock, stopping, status, capture, halt, begun, builder,
                 busy, answer>>

SetLatest(s) ==
  /\ sessions[s] # "none" /\ latest' = s
  /\ UNCHANGED <<ops, lock, stopping, status, capture, halt, sessions, begun,
                 builder, busy, answer>>

\* External: patrols, the camera wrapper and perception come and go; a patrol
\* looks at neither process when it starts.
Others ==
  /\ busy' = ~ busy
  /\ UNCHANGED <<ops, lock, stopping, recorder, builder, answer>>

Next ==
  \/ \E t \in Threads :
       \/ Command(t) \/ Start3dMapping(t) \/ StopAsks(t)
       \/ StopFindsNothing(t) \/ StopAnswered(t) \/ Build3dMap(t)
  \/ CameraOpens \/ Reports \/ Breaks \/ LeavesLoop \/ Saves \/ Exits
  \/ Resolve \/ BuildEnds
  \/ \E s \in Ids : DeleteAsset(s) \/ SetLatest(s)
  \/ Others

Spec == Init /\ [][Next]_vars

(***************************************************************************)
(* Properties                                                              *)
(***************************************************************************)
\* A stop that reports a saved recording speaks of the recording it stopped:
\* that recording has left its loop with its files written, unless somebody
\* deleted them meanwhile.  And the camera is never shared with a build.
StopSpeaksOfItsCaptureStep ==
  /\ (answer' = "saved" /\ \E t \in Threads : ops[t].at = "wait" /\ ops'[t] = Idle)
       => /\ capture \in {"exit", "off"}
          /\ sessions[begun] \in {"complete", "trash", "hollow"}
  /\ ~ (capture' # "off" /\ build' # "off")

StopSpeaksOfItsCapture == [][StopSpeaksOfItsCaptureStep]_vars

==============================================================================
