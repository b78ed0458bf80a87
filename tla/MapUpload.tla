------------------------------ MODULE MapUpload ------------------------------
(* The upload of navigation maps to the platform: map_upload.py over the table *)
(* map_uploads of platform_store.py. There is one row per map content; a map    *)
(* confirmed again after its upload ended restarts the row under a new task     *)
(* and a new snapshot directory. enqueue runs in HTTP handlers that hold the    *)
(* lock on map changes; a worker thread uploads and cleans.                     *)
EXTENDS Integers, FiniteSets

CONSTANTS Contents,       \* map contents (content_identity_sha256)
          KeepSucceeded,  \* snapshots of successful uploads that are kept
          Budgets,        \* disk budgets the process may be started with, in snapshots
          MaxTasks        \* bound: task ids ever drawn

VARIABLES row,       \* the table, by content
          dirs,      \* tasks whose snapshot directory exists
          temps,     \* number of ".map-upload-" directories, those of dead processes included
          drawn,     \* task ids drawn so far
          caller,    \* the handler in enqueue
          worker,    \* the worker thread
          budget,    \* the disk budget of this process
          accepted   \* tasks whose map the platform has stored

vars == <<row, dirs, temps, drawn, caller, worker, budget, accepted>>

Tasks == 1 .. MaxTasks
Statuses == {"PENDING", "FAILED_RETRYABLE", "FAILED_FINAL", "SUCCEEDED"}
Absent == [task |-> 0, status |-> "PENDING", held |-> FALSE]
NoCall == [at |-> "idle", content |-> CHOOSE c \in Contents : TRUE, previous |-> 0]
NoTask == [at |-> "idle", content |-> CHOOSE c \in Contents : TRUE, task |-> 1, status |-> "PENDING"]

TypeOK ==
    /\ row \in [Contents -> [task : 0 .. MaxTasks, status : Statuses, held : BOOLEAN]]
    /\ dirs \subseteq Tasks
    /\ temps \in 0 .. MaxTasks
    /\ drawn \in 0 .. MaxTasks
    /\ caller \in [at : {"idle", "copied", "create", "restart", "requeue", "discard"},
                   content : Contents, previous : 0 .. MaxTasks]
    /\ worker \in [at : {"idle", "taken", "answered", "clean"}, content : Contents,
                   task : Tasks, status : Statuses]
    /\ budget \in Budgets
    /\ accepted \subseteq Tasks

Init == /\ row = [c \in Contents |-> Absent]
        /\ dirs = {} /\ temps = 0 /\ drawn = 0
        /\ caller = NoCall /\ worker = NoTask
        /\ budget \in Budgets /\ accepted = {}

-----------------------------------------------------------------------------
Used(D) == Cardinality(D) + temps
Ended(status) == {c \in Contents : row[c].task > 0 /\ row[c].status = status}

\* What a lack of space may cost: successful uploads first, then failed ones, oldest first.
\* Mutant of Reclaimable: a failure that will be retried counts as failed.
ReclaimableRetries == {c \in Contents : row[c].held /\ row[c].status # "PENDING"}
Reclaimable == {c \in Contents : row[c].held /\ row[c].status \in {"SUCCEEDED", "FAILED_FINAL"}}
GoesBefore(c, d) ==
    LET failed(x) == row[x].status # "SUCCEEDED"
    IN  IF failed(c) = failed(d) THEN row[c].task < row[d].task ELSE failed(d)

(* cleanup_snapshots: the successful uploads beyond the newest KeepSucceeded    *)
(* and those older than the retention (old), then as many others as space asks. *)
Surplus(old) ==
    old \cup {c \in Ended("SUCCEEDED") : row[c].held /\ KeepSucceeded <=
                Cardinality({d \in Ended("SUCCEEDED") : row[d].task > row[c].task})}
DirsOf(C) == {row[c].task : c \in C}
Cleaned(old) ==
    LET rest == Reclaimable \ Surplus(old)
        left == dirs \ DirsOf(Surplus(old))
    IN  Surplus(old) \cup
        {c \in rest : Used(left \ DirsOf({d \in rest : GoesBefore(d, c)})) > budget}
Cleanup == \E old \in SUBSET {c \in Ended("SUCCEEDED") : row[c].held} :
    /\ dirs' = dirs \ DirsOf(Cleaned(old))
    /\ row' = [c \in Contents |-> [row[c] EXCEPT !.held = @ /\ c \notin Cleaned(old)]]

-----------------------------------------------------------------------------
(* enqueue: make room, refuse a full disk, copy the files and hash them ...     *)
Enqueue(c) == /\ caller.at = "idle" /\ drawn < MaxTasks
              /\ Cleanup
              /\ IF Used(dirs') + 1 > budget
                 THEN UNCHANGED <<temps, drawn, caller>>
                 ELSE /\ temps' = temps + 1
                      /\ drawn' = drawn + 1
                      /\ caller' = [NoCall EXCEPT !.at = "copied", !.content = c]
              /\ UNCHANGED <<worker, budget, accepted>>

(* ... read the row of this content, and go on by its status. Moving the copy   *)
(* into place is part of the step that decides to; the row follows in another.  *)
Lookup == /\ caller.at = "copied"
          /\ LET r == row[caller.content]
                 moves == r.task = 0 \/ r.status \in {"FAILED_FINAL", "SUCCEEDED"}
             IN  /\ dirs' = IF moves THEN dirs \cup {drawn} ELSE dirs
                 /\ temps' = temps - 1
                 /\ caller' = [caller EXCEPT
                       !.at = IF r.task = 0 THEN "create"
                              ELSE IF moves THEN "restart"
                              ELSE IF r.status = "FAILED_RETRYABLE" THEN "requeue"
                              ELSE "discard",
                       !.previous = r.task]
          /\ UNCHANGED <<row, drawn, worker, budget, accepted>>

\* The image cannot be read, or the identity cannot be computed: the copy is removed.
Abandon == /\ caller.at = "copied"
           /\ temps' = temps - 1
           /\ caller' = NoCall
           /\ UNCHANGED <<row, dirs, drawn, worker, budget, accepted>>

NewRow == [task |-> drawn, status |-> "PENDING", held |-> TRUE]

\* create_map_upload or restart_map_upload; then the directory of the row's
\* previous task goes, and cleanup_snapshots runs as after every outcome.
Write == /\ caller.at \in {"create", "restart"}
         /\ row' = [row EXCEPT ![caller.content] = NewRow]
         /\ dirs' = dirs \ {caller.previous}
         /\ caller' = [caller EXCEPT !.at = "discard"]
         /\ UNCHANGED <<temps, drawn, worker, budget, accepted>>

WriteFails == /\ caller.at \in {"create", "restart"}
              /\ dirs' = dirs \ {drawn}
              /\ caller' = NoCall
              /\ UNCHANGED <<row, temps, drawn, worker, budget, accepted>>

Requeue == /\ caller.at = "requeue"
           /\ row' = [row EXCEPT ![caller.content].status = "PENDING"]
           /\ caller' = [caller EXCEPT !.at = "discard"]
           /\ UNCHANGED <<dirs, temps, drawn, worker, budget, accepted>>

Return == /\ caller.at = "discard"
          /\ Cleanup
          /\ caller' = NoCall
          /\ UNCHANGED <<temps, drawn, worker, budget, accepted>>

-----------------------------------------------------------------------------
\* The worker takes the oldest due row; a retry may have become due at any time.
Take == /\ worker.at = "idle"
        /\ \E c \in Ended("PENDING") \cup Ended("FAILED_RETRYABLE") :
             /\ \A d \in Ended("PENDING") : row[d].task >= row[c].task
             /\ worker' = [at |-> "taken", content |-> c, task |-> row[c].task, status |-> "PENDING"]
        /\ UNCHANGED <<row, dirs, temps, drawn, caller, budget, accepted>>

(* _upload and the checks of the reply; the platform may have stored the map   *)
(* although the reply is lost, unusable or an error.                            *)
Upload == /\ worker.at = "taken"
          /\ \/ /\ worker.task \notin dirs
                /\ worker' = [worker EXCEPT !.at = "answered", !.status = "FAILED_FINAL"]
                /\ UNCHANGED accepted
             \/ /\ worker.task \in dirs
                /\ \E stored \in BOOLEAN, outcome \in Statuses \ {"PENDING"} :
                     /\ outcome = "SUCCEEDED" => stored
                     /\ worker' = [worker EXCEPT !.at = "answered", !.status = outcome]
                     /\ accepted' = IF stored THEN accepted \cup {worker.task} ELSE accepted
          /\ UNCHANGED <<row, dirs, temps, drawn, caller, budget>>

\* finish_map_upload updates the row of this task id, if there is one still.
Finish == /\ worker.at = "answered"
          /\ row' = [c \in Contents |-> IF row[c].task = worker.task
                                        THEN [row[c] EXCEPT !.status = worker.status] ELSE row[c]]
          /\ worker' = [NoTask EXCEPT !.at = "clean"]
          /\ UNCHANGED <<dirs, temps, drawn, caller, budget, accepted>>

Clean == /\ worker.at = "clean"
         /\ Cleanup
         /\ worker' = NoTask
         /\ UNCHANGED <<temps, drawn, caller, budget, accepted>>

\* The process ends anywhere and starts again; nothing removes what no row names.
Restart == /\ caller' = NoCall /\ worker' = NoTask
           /\ budget' \in Budgets
           /\ UNCHANGED <<row, dirs, temps, drawn, accepted>>

Next == \/ \E c \in Contents : Enqueue(c)
        \/ Lookup \/ Abandon \/ Write \/ WriteFails \/ Requeue \/ Return
        \/ Take \/ Upload \/ Finish \/ Clean
        \/ Restart

Spec == Init /\ [][Next]_vars

-----------------------------------------------------------------------------
(* An upload that is still to be tried has its files: no cleanup, restart of    *)
(* the row, lack of space or crash takes them, unless the platform holds the    *)
(* map already.                                                                 *)
MapSnapshotKept ==
    \A c \in Contents : row[c].task > 0 /\ row[c].status \in {"PENDING", "FAILED_RETRYABLE"} =>
        row[c].task \in dirs \cup accepted

=============================================================================
