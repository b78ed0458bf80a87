--------------------------- MODULE InspectionImages ---------------------------
(* Inspection images: the capture state machine of ros_bridge.py, which takes   *)
(* MOVING images while the robot is under way to a target and one ARRIVAL image  *)
(* after it has reached it, and the worker of inspection_image_upload.py that     *)
(* uploads them, over the table inspection_image_uploads of platform_store.py.    *)
(* The capture runs in callbacks of the bridge's one ROS thread, the worker in a  *)
(* thread of its own. A visit is one execution, cycle and target of a patrol.     *)
EXTENDS Integers, Sequences, FiniteSets

CONSTANTS Visits,     \* 1 .. n, in the order the patrol makes them
          DiskMax,    \* how many images the disk budget holds
          MaxSlot,    \* bound: intervals between two MOVING images
          MaxRows     \* bound: rows ever created

VARIABLES status,     \* the visit the last patrol status is about, 0 for none
          arrivals,   \* _inspection_arrival_keys
          lastSlot,   \* the visit and slot of the last MOVING request
          slot,       \* the current interval
          capture,    \* _inspection_capture
          rows,       \* the table, in the order of creation
          files,      \* rows whose image file exists
          leaked,     \* image files no row names
          worker      \* the worker thread

vars == <<status, arrivals, lastSlot, slot, capture, rows, files, leaked, worker>>

Kinds == {"MOVING", "ARRIVAL"}
Statuses == {"PENDING", "FAILED_RETRYABLE", "FAILED_FINAL", "CREDENTIAL_BLOCKED", "SUCCEEDED"}
NoCapture == [at |-> "none", visit |-> 0, kind |-> "MOVING", slot |-> 0]
NoTask == [at |-> "idle", row |-> 1, status |-> "PENDING"]

TypeOK ==
    /\ status \in Visits \cup {0}
    /\ arrivals \subseteq Visits
    /\ lastSlot \in [visit : Visits \cup {0}, slot : 0 .. MaxSlot]
    /\ slot \in 1 .. MaxSlot
    /\ capture \in [at : {"none", "delay", "subscribed", "writing"}, visit : Visits \cup {0},
                    kind : Kinds, slot : 0 .. MaxSlot]
    /\ rows \in Seq([visit : Visits, kind : Kinds, slot : 0 .. MaxSlot, status : Statuses,
                     accepted : BOOLEAN])
    /\ files \subseteq DOMAIN rows
    /\ leaked \in Nat
    /\ worker \in [at : {"idle", "taken", "answered", "unlink", "clear"}, row : 1 .. MaxRows,
                   status : Statuses]

Init == /\ status = 0 /\ arrivals = {} /\ lastSlot = [visit |-> 0, slot |-> 0] /\ slot = 1
        /\ capture = NoCapture
        /\ rows = <<>> /\ files = {} /\ leaked = 0
        /\ worker = NoTask

uploads == <<rows, files, leaked, worker>>
patrol == <<status, arrivals, lastSlot, slot>>

-----------------------------------------------------------------------------
\* capture_allowed: one image refused for its credentials stops every capture.
Allowed == \A r \in DOMAIN rows : rows[r].status # "CREDENTIAL_BLOCKED"

\* _request_inspection_capture: a MOVING request does not displace an ARRIVAL.
Request(v, kind, s, current) ==
    IF ~Allowed \/ (current.at # "none" /\ current.kind = "ARRIVAL" /\ kind = "MOVING")
    THEN current
    ELSE [at |-> IF kind = "ARRIVAL" THEN "delay" ELSE "subscribed",
          visit |-> v, kind |-> kind, slot |-> s]

\* Mutant of WithoutMoving: a new request is trusted to replace the old capture.
StillMoving(c) == c
WithoutMoving(c) == IF c.kind = "MOVING" THEN NoCapture ELSE c

(* _handle_inspection_patrol_status: no formal target ends a MOVING capture; a    *)
(* target under way is photographed once per interval until it is reached.        *)
OnStatus(v) ==
    /\ capture.at # "writing"
    /\ v = 0 \/ v >= lastSlot.visit
    /\ status' = v
    /\ IF v = 0
       THEN /\ lastSlot' = [lastSlot EXCEPT !.slot = 0]
            /\ capture' = WithoutMoving(capture)
       ELSE IF v \in arrivals \/ lastSlot = [visit |-> v, slot |-> slot]
       THEN UNCHANGED <<lastSlot, capture>>
       ELSE /\ lastSlot' = [visit |-> v, slot |-> slot]
            /\ capture' = Request(v, "MOVING", slot, capture)
    /\ UNCHANGED <<arrivals, slot, uploads>>

(* _handle_inspection_patrol_event, for target_reached: the event is taken for    *)
(* the visit of the last status, whose target it names.                           *)
OnTargetReached ==
    /\ capture.at # "writing"
    /\ status \in Visits \ arrivals
    /\ arrivals' = arrivals \cup {status}
    /\ capture' = Request(status, "ARRIVAL", 0, WithoutMoving(capture))
    /\ UNCHANGED <<status, lastSlot, slot, uploads>>

OnDelay == /\ capture.at = "delay"
           /\ capture' = [capture EXCEPT !.at = "subscribed"]
           /\ UNCHANGED <<patrol, uploads>>

OnTimeout == /\ capture.at = "subscribed"
             /\ capture' = NoCapture
             /\ UNCHANGED <<patrol, uploads>>

Interval == /\ slot < MaxSlot
            /\ slot' = slot + 1
            /\ UNCHANGED <<status, arrivals, lastSlot, capture, uploads>>

-----------------------------------------------------------------------------
Recorded(c) == \E r \in DOMAIN rows :
    rows[r].visit = c.visit /\ rows[r].kind = c.kind /\ rows[r].slot = c.slot

\* cleanup_snapshots: room is made at the cost of images that failed for good,
\* the oldest first.  Mutant of Reclaimable: of any failed image.
ReclaimableFailed ==
    {r \in files : rows[r].status \in {"FAILED_FINAL", "FAILED_RETRYABLE", "CREDENTIAL_BLOCKED"}}
Reclaimable == {r \in files : rows[r].status = "FAILED_FINAL"}
Cleaned == {r \in Reclaimable :
              Cardinality(files \ {q \in Reclaimable : q < r}) + leaked + 1 > DiskMax}

(* _on_inspection_image and enqueue up to the rename of the file: an image known   *)
(* already, a refusal and a full disk end the capture; an unreadable frame leaves  *)
(* it waiting for the next one.                                                    *)
OnImage ==
    /\ capture.at = "subscribed"
    /\ IF Recorded(capture) \/ ~Allowed
       THEN capture' = NoCapture /\ UNCHANGED files
       ELSE /\ files' = files \ Cleaned
            /\ capture' = IF Cardinality(files') + leaked + 1 > DiskMax
                          THEN NoCapture ELSE [capture EXCEPT !.at = "writing"]
    /\ UNCHANGED <<patrol, rows, leaked, worker>>

Insert == /\ capture.at = "writing" /\ Len(rows) < MaxRows
          /\ rows' = Append(rows, [visit |-> capture.visit, kind |-> capture.kind,
                                   slot |-> capture.slot, status |-> "PENDING", accepted |-> FALSE])
          /\ files' = files \cup {Len(rows) + 1}
          /\ capture' = NoCapture
          /\ UNCHANGED <<patrol, leaked, worker>>

InsertFails == /\ capture.at = "writing"
               /\ capture' = NoCapture
               /\ UNCHANGED <<patrol, uploads>>

-----------------------------------------------------------------------------
Take == /\ worker.at = "idle"
        /\ \E r \in DOMAIN rows :
             /\ rows[r].status \in {"PENDING", "FAILED_RETRYABLE"}
             /\ \A q \in 1 .. r - 1 : rows[q].status # "PENDING"
             /\ worker' = [at |-> "taken", row |-> r, status |-> "PENDING"]
        /\ UNCHANGED <<patrol, capture, rows, files, leaked>>

\* The platform may have stored the image although the reply is lost or unusable.
Upload == /\ worker.at = "taken"
          /\ IF worker.row \in files
             THEN \E stored \in BOOLEAN, outcome \in Statuses \ {"PENDING"} :
                    /\ outcome = "SUCCEEDED" => stored
                    /\ worker' = [worker EXCEPT !.at = "answered", !.status = outcome]
                    /\ rows' = [rows EXCEPT ![worker.row].accepted = @ \/ stored]
             ELSE /\ worker' = [worker EXCEPT !.at = "answered", !.status = "FAILED_FINAL"]
                  /\ UNCHANGED rows
          /\ UNCHANGED <<patrol, capture, files, leaked>>

Finish == /\ worker.at = "answered"
          /\ rows' = [rows EXCEPT ![worker.row].status = worker.status]
          /\ worker' = IF worker.status = "SUCCEEDED" THEN [worker EXCEPT !.at = "unlink"] ELSE NoTask
          /\ UNCHANGED <<patrol, capture, files, leaked>>

(* The file of an uploaded image is removed, then its path cleared; when either    *)
(* raises, the exception handler records a failure to retry over the success.      *)
Unlink == /\ worker.at = "unlink"
          /\ files' = files \ {worker.row}
          /\ worker' = [worker EXCEPT !.at = "clear"]
          /\ UNCHANGED <<patrol, capture, rows, leaked>>

Clear == /\ worker.at = "clear"
         /\ worker' = NoTask
         /\ UNCHANGED <<patrol, capture, rows, files, leaked>>

Fails == /\ worker.at \in {"unlink", "clear"}
         /\ rows' = [rows EXCEPT ![worker.row].status = "FAILED_RETRYABLE"]
         /\ worker' = NoTask
         /\ UNCHANGED <<patrol, capture, files, leaked>>

\* A restart forgets the capture and the arrivals, and leaks a file without a row.
Restart == /\ status' = 0 /\ arrivals' = {} /\ lastSlot' = [visit |-> 0, slot |-> 0]
           /\ capture' = NoCapture /\ worker' = NoTask
           /\ leaked' = IF capture.at = "writing" /\ leaked < DiskMax THEN leaked + 1 ELSE leaked
           /\ UNCHANGED <<slot, rows, files>>

Next == \/ \E v \in Visits \cup {0} : OnStatus(v)
        \/ OnTargetReached \/ OnDelay \/ OnTimeout \/ Interval
        \/ OnImage \/ Insert \/ InsertFails
        \/ Take \/ Upload \/ Finish \/ Unlink \/ Clear \/ Fails
        \/ Restart

Spec == Init /\ [][Next]_vars

-----------------------------------------------------------------------------
(* An image that is still to be uploaded has its file, whatever was cleaned to    *)
(* make room and wherever the process ended, unless the platform has it.           *)
ImageKept ==
    \A r \in DOMAIN rows : rows[r].status \in {"PENDING", "FAILED_RETRYABLE", "CREDENTIAL_BLOCKED"} =>
        r \in files \/ rows[r].accepted

(* No image of a target that was reached is taken for one of the way to it, even   *)
(* when the ARRIVAL capture that should replace the MOVING one is refused.          *)
MovingEndsAtArrival ==
    capture.at # "none" /\ capture.kind = "MOVING" => capture.visit \notin arrivals

=============================================================================
