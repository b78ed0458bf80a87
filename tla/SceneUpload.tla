----------------------------- MODULE SceneUpload -----------------------------
(* The upload of reconstructed scenes to the platform: scene_upload.py over   *)
(* the table scene_uploads of platform_store.py. A task is a row of the       *)
(* table, numbered in the order of creation, and a directory holding a copy   *)
(* of the model and its metadata. Callers (ROS callbacks and HTTP handlers)   *)
(* enqueue and retry under _enqueue_lock; one worker thread uploads and       *)
(* cleans; the process may be killed between any two steps of either.         *)
EXTENDS Integers, Sequences, FiniteSets

CONSTANTS Sessions, Hashes,  \* reconstruction sessions; contents of a model file
          KeepSucceeded,     \* snapshots of successful uploads that are kept
          DiskMax,           \* how many snapshots the disk budget holds
          MaxTasks           \* bound: rows ever created

VARIABLES rows,      \* the table, and per row whether its paths are set ("held")
          dirs,      \* tasks whose snapshot directory exists
          temp,      \* a ".scene-upload-" directory exists
          caller,    \* the holder of _enqueue_lock
          worker,    \* the worker thread
          config,    \* what _configuration_block finds, fixed while the process lives
          accepted   \* tasks whose model the platform has stored

vars == <<rows, dirs, temp, caller, worker, config, accepted>>

Tasks == 1 .. MaxTasks
Statuses == {"PENDING", "FAILED_RETRYABLE", "FAILED_FINAL", "CREDENTIAL_BLOCKED", "SUCCEEDED"}
Configurations == {"", "CREDENTIAL_BLOCKED", "FAILED_FINAL"}

NoJob == [at |-> "idle", session |-> CHOOSE s \in Sessions : TRUE,
          hash |-> CHOOSE h \in Hashes : TRUE, supersedes |-> 0]
NoTask == [at |-> "idle", task |-> 1, status |-> "PENDING"]

TypeOK ==
    /\ rows \in Seq([session : Sessions, hash : Hashes, intent : 0 .. MaxTasks,
                     status : Statuses, held : BOOLEAN])
    /\ Len(rows) <= MaxTasks
    /\ dirs \subseteq Tasks
    /\ temp \in BOOLEAN
    /\ caller \in [at : {"idle", "copied", "moved", "inserted", "requeue"},
                   session : Sessions, hash : Hashes, supersedes : 0 .. MaxTasks]
    /\ worker \in [at : {"idle", "taken", "answered", "clean"}, task : Tasks, status : Statuses]
    /\ config \in Configurations
    /\ accepted \subseteq Tasks

Init == /\ rows = <<>> /\ dirs = {} /\ temp = FALSE
        /\ caller = NoJob /\ worker = NoTask
        /\ config = "" /\ accepted = {}

-----------------------------------------------------------------------------
OfSession(s) == {t \in DOMAIN rows : rows[t].session = s}
Latest(T) == CHOOSE t \in T : \A u \in T : rows[u].intent <= rows[t].intent

\* finish_scene_upload and requeue_scene_upload overwrite whatever the row says.
Finished(t, status) == [rows EXCEPT ![t].status = status]

(* cleanup_snapshots: the successful uploads beyond the newest KeepSucceeded  *)
(* and those older than the retention (old) go; then, while `need` more does   *)
(* not fit on the disk, the oldest of the others.                              *)
\* Mutant of Cleanable: whatever has ended is cleaned.
CleanableEnded ==
    {t \in DOMAIN rows : rows[t].status \in {"SUCCEEDED", "FAILED_FINAL"} /\ rows[t].held}
Cleanable == {t \in DOMAIN rows : rows[t].status = "SUCCEEDED" /\ rows[t].held}
Surplus(old) ==
    old \cup {t \in Cleanable : Cardinality({u \in Cleanable : u > t}) >= KeepSucceeded}
Used(D) == Cardinality(D) + (IF temp THEN 1 ELSE 0)
Cleaned(old, need) ==
    LET rest == Cleanable \ Surplus(old)
    IN  Surplus(old) \cup
        {t \in rest : Used((dirs \ Surplus(old)) \ {u \in rest : u < t}) + need > DiskMax}
Unheld(R, gone) == [t \in DOMAIN R |-> [R[t] EXCEPT !.held = @ /\ t \notin gone]]
Cleanup == \E old \in SUBSET Cleanable :
    /\ dirs' = dirs \ Cleaned(old, 0)
    /\ rows' = Unheld(rows, Cleaned(old, 0))

-----------------------------------------------------------------------------
(* _create_snapshot_task, in the steps a crash can fall between: room is made *)
(* and the model copied; the copy becomes the task's directory; the row is     *)
(* inserted; a configuration that cannot upload is recorded at once.           *)
Copy(s, h, supersedes) == \E old \in SUBSET Cleanable :
    LET gone == Cleaned(old, 1)
    IN  /\ dirs' = dirs \ gone
        /\ rows' = Unheld(rows, gone)
        /\ IF Used(dirs') + 1 > DiskMax
           THEN UNCHANGED <<temp, caller>>
           ELSE /\ temp' = TRUE
                /\ caller' = [at |-> "copied", session |-> s, hash |-> h, supersedes |-> supersedes]

Enqueue(s, h) == /\ caller.at = "idle"
                 /\ Len(rows) < MaxTasks
                 /\ Copy(s, h, 0)
                 /\ UNCHANGED <<worker, config, accepted>>

\* A session known with another model, and a model that already has a task, are refused.
\* Mutant of Repeated: the models of a session are not compared.
RepeatedModel == /\ caller.supersedes = 0
                 /\ \E t \in OfSession(caller.session) : rows[t].hash = caller.hash
Repeated == LET known == OfSession(caller.session)
            IN  /\ known # {}
                /\ \/ rows[Latest(known)].hash # caller.hash
                   \/ caller.supersedes = 0

\* So is a model that changed while it was copied: nothing is left behind.
Drop == /\ caller.at = "copied"
        /\ temp' = FALSE
        /\ caller' = NoJob
        /\ UNCHANGED <<rows, dirs, worker, config, accepted>>

Move == /\ caller.at = "copied" /\ ~Repeated
        /\ temp' = FALSE
        /\ dirs' = dirs \cup {Len(rows) + 1}
        /\ caller' = [caller EXCEPT !.at = "moved"]
        /\ UNCHANGED <<rows, worker, config, accepted>>

Insert == /\ caller.at = "moved"
          /\ rows' = Append(rows,
                [session |-> caller.session, hash |-> caller.hash,
                 intent |-> IF caller.supersedes = 0 THEN 0 ELSE rows[caller.supersedes].intent + 1,
                 status |-> "PENDING", held |-> TRUE])
          /\ caller' = [caller EXCEPT !.at = "inserted"]
          /\ UNCHANGED <<dirs, temp, worker, config, accepted>>

\* The row could not be written: its directory is removed again.
InsertFails == /\ caller.at = "moved"
               /\ dirs' = dirs \ {Len(rows) + 1}
               /\ caller' = NoJob
               /\ UNCHANGED <<rows, temp, worker, config, accepted>>

Conclude == /\ caller.at = "inserted"
            /\ \E old \in SUBSET Cleanable :
                 /\ dirs' = dirs \ Cleaned(old, 0)
                 /\ rows' = Unheld(IF config = "" THEN rows ELSE Finished(Len(rows), config),
                                   Cleaned(old, 0))
            /\ caller' = NoJob
            /\ UNCHANGED <<temp, worker, config, accepted>>

(* retry: a task that waits is requeued, in a statement of its own after the   *)
(* status was read; one that failed for good is copied into a new task, if it  *)
(* is the latest of its model and its snapshot exists.                         *)
Retry(t) == /\ caller.at = "idle"
            /\ \/ /\ rows[t].status \in {"FAILED_RETRYABLE", "CREDENTIAL_BLOCKED"}
                  /\ caller' = [NoJob EXCEPT !.at = "requeue", !.supersedes = t]
                  /\ UNCHANGED <<rows, dirs, temp>>
               \/ /\ rows[t].status = "FAILED_FINAL"
                  /\ t = Latest(OfSession(rows[t].session))
                  /\ t \in dirs /\ Len(rows) < MaxTasks
                  /\ Copy(rows[t].session, rows[t].hash, t)
            /\ UNCHANGED <<worker, config, accepted>>

Requeue == /\ caller.at = "requeue"
           /\ rows' = Finished(caller.supersedes, "PENDING")
           /\ caller' = NoJob
           /\ UNCHANGED <<dirs, temp, worker, config, accepted>>

-----------------------------------------------------------------------------
(* The worker. A retryable failure is due again once its delay is over, which  *)
(* may be any time; the oldest due task is taken.                              *)
Take == /\ worker.at = "idle"
        /\ \E t \in DOMAIN rows :
             /\ rows[t].status \in {"PENDING", "FAILED_RETRYABLE"}
             /\ \A u \in 1 .. t - 1 : rows[u].status # "PENDING"
             /\ worker' = [at |-> "taken", task |-> t, status |-> "PENDING"]
        /\ UNCHANGED <<rows, dirs, temp, caller, config, accepted>>

Block == /\ worker.at = "taken" /\ config # ""
         /\ rows' = Finished(worker.task, config)
         /\ worker' = NoTask
         /\ UNCHANGED <<dirs, temp, caller, config, accepted>>

(* _upload and the checks of its reply. The platform may have stored the model *)
(* although the reply is lost, unusable or an error.                           *)
Upload == /\ worker.at = "taken" /\ config = ""
          /\ \/ /\ worker.task \notin dirs
                /\ worker' = [worker EXCEPT !.at = "answered", !.status = "FAILED_FINAL"]
                /\ UNCHANGED accepted
             \/ /\ worker.task \in dirs
                /\ \E stored \in BOOLEAN, outcome \in Statuses \ {"PENDING"} :
                     /\ outcome = "SUCCEEDED" => stored
                     /\ outcome = "CREDENTIAL_BLOCKED" => ~stored
                     /\ worker' = [worker EXCEPT !.at = "answered", !.status = outcome]
                     /\ accepted' = IF stored THEN accepted \cup {worker.task} ELSE accepted
          /\ UNCHANGED <<rows, dirs, temp, caller, config>>

Finish == /\ worker.at = "answered"
          /\ rows' = Finished(worker.task, worker.status)
          /\ worker' = [NoTask EXCEPT !.at = "clean"]
          /\ UNCHANGED <<dirs, temp, caller, config, accepted>>

Clean == /\ worker.at = "clean"
         /\ Cleanup
         /\ worker' = NoTask
         /\ UNCHANGED <<temp, caller, config, accepted>>

(* The process ends anywhere, in a cleanup with some directories removed whose *)
(* rows still name them, and starts again with the configuration of the day:   *)
(* _cleanup_startup_orphans.                                                   *)
Restart == /\ caller' = NoJob /\ worker' = NoTask
           /\ temp' = FALSE
           /\ \E torn \in SUBSET (IF worker.at = "clean" THEN Cleanable ELSE {}) :
                dirs' = (dirs \cap DOMAIN rows) \ torn
           /\ config' \in Configurations
           /\ UNCHANGED <<rows, accepted>>

Next == \/ \E s \in Sessions, h \in Hashes : Enqueue(s, h)
        \/ Drop \/ Move \/ Insert \/ InsertFails \/ Conclude
        \/ \E t \in DOMAIN rows : Retry(t)
        \/ Requeue
        \/ Take \/ Block \/ Upload \/ Finish \/ Clean
        \/ Restart

Spec == Init /\ [][Next]_vars

-----------------------------------------------------------------------------
(* No cleanup, retry, crash or disk shortage costs an upload its data: a task  *)
(* that has not succeeded keeps its snapshot, unless the platform holds the    *)
(* model already (a retry that read FAILED_RETRYABLE, raced by the worker's    *)
(* success and cleanup, requeues a task without one).                          *)
SceneSnapshotKept ==
    \A t \in DOMAIN rows : rows[t].status # "SUCCEEDED" => t \in dirs \cup accepted

(* A session is uploaded by one task at a time and never with two models: of   *)
(* two tasks of a session the older has failed for good, whatever retries,     *)
(* requeues and late results of the worker did in between.                     *)
OneSceneTaskOpen ==
    \A t, u \in DOMAIN rows : t < u /\ rows[t].session = rows[u].session =>
        /\ rows[t].status = "FAILED_FINAL"
        /\ rows[t].hash = rows[u].hash
        /\ rows[t].intent < rows[u].intent

=============================================================================
