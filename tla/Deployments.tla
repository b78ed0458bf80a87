----------------------------- MODULE Deployments -----------------------------
(* DeploymentStore.install of platform_store.py: a deployment (route, map and    *)
(* manifest) downloaded by the cloud thread or uploaded over HTTP is moved into   *)
(* its directory, its route is published beside the local map under the next      *)
(* free number, and its row is inserted. Two installers may run at a time; the    *)
(* process may end between any two steps.                                          *)
EXTENDS Integers, FiniteSets, Functions

CONSTANTS Installers,   \* the cloud thread and the HTTP server
          Ids,          \* deployment ids
          Contents,     \* contents of a deployment that pass every check
          MaxRoutes     \* bound: numbers of local routes

VARIABLES row,        \* the table deployments: content by id
          directory,  \* content of the directory of an id
          routes,     \* local routes, by number
          staged,     \* staging directories, those of dead processes included
          job         \* what each installer does

vars == <<row, directory, routes, staged, job>>

None == "none"
Idle == [at |-> "idle", id |-> CHOOSE i \in Ids : TRUE, content |-> CHOOSE c \in Contents : TRUE,
         number |-> 0]
Numbers == 1 .. MaxRoutes
NextNumber == IF \A n \in Numbers : routes[n] = None THEN 1
              ELSE 1 + (CHOOSE n \in Numbers : routes[n] # None /\ \A m \in n + 1 .. MaxRoutes : routes[m] = None)

TypeOK ==
    /\ row \in [Ids -> Contents \cup {None}]
    /\ directory \in [Ids -> Contents \cup {None}]
    /\ routes \in [Numbers -> Ids \cup {None}]
    /\ staged \subseteq Installers
    /\ job \in [Installers -> [at : {"idle", "staged", "moved", "published", "undo"}, id : Ids,
                               content : Contents, number : 0 .. MaxRoutes]]

Init == /\ row = [i \in Ids |-> None] /\ directory = [i \in Ids |-> None]
        /\ routes = [n \in Numbers |-> None]
        /\ staged = {} /\ job = [p \in Installers |-> Idle]

-----------------------------------------------------------------------------
(* The row of this id decides at once when it exists: the same content is a       *)
(* success, another a conflict. Otherwise the files are written to a staging       *)
(* directory and the number of the local route is drawn.                           *)
Stage(p, i, c) == /\ job[p].at = "idle" /\ row[i] = None
                  /\ NextNumber \in Numbers
                  /\ job' = [job EXCEPT ![p] = [at |-> "staged", id |-> i, content |-> c,
                                                number |-> NextNumber]]
                  /\ staged' = staged \cup {p}
                  /\ UNCHANGED <<row, directory, routes>>

\* os.replace moves a directory only over nothing; the error is reported as INVALID_MAP.
\* Mutant of Moves: what stands in the way is removed.
MovesAnyway(i) == TRUE
Moves(i) == directory[i] = None
Move(p) == /\ job[p].at = "staged"
           /\ IF Moves(job[p].id)
              THEN /\ directory' = [directory EXCEPT ![job[p].id] = job[p].content]
                   /\ job' = [job EXCEPT ![p].at = "moved"]
              ELSE /\ job' = [job EXCEPT ![p] = Idle]
                   /\ UNCHANGED directory
           /\ staged' = staged \ {p}
           /\ UNCHANGED <<row, routes>>

\* The route takes the number drawn, which another may have taken since.
Publish(p) == /\ job[p].at = "moved"
              /\ routes' = [routes EXCEPT ![job[p].number] = job[p].id]
              /\ job' = [job EXCEPT ![p].at = "published"]
              /\ UNCHANGED <<row, directory, staged>>

\* The row cannot be inserted twice: deployment_id is the primary key.
Insert(p) == /\ job[p].at = "published"
             /\ IF row[job[p].id] = None
                THEN /\ row' = [row EXCEPT ![job[p].id] = job[p].content]
                     /\ job' = [job EXCEPT ![p] = Idle]
                ELSE /\ job' = [job EXCEPT ![p].at = "undo"]
                     /\ UNCHANGED row
             /\ UNCHANGED <<directory, routes, staged>>

\* A step after the move fails: the installer takes back what it put in place.
Fail(p) == /\ job[p].at \in {"moved", "published"}
           /\ job' = [job EXCEPT ![p] = [at |-> "undo", id |-> @.id, content |-> @.content,
                         number |-> IF @.at = "published" THEN @.number ELSE 0]]
           /\ UNCHANGED <<row, directory, routes, staged>>

Undo(p) == /\ job[p].at = "undo"
           /\ directory' = [directory EXCEPT ![job[p].id] = None]
           /\ routes' = [n \in Numbers |-> IF n = job[p].number THEN None ELSE routes[n]]
           /\ job' = [job EXCEPT ![p] = Idle]
           /\ UNCHANGED <<row, staged>>

\* The process ends anywhere; what is on the disk stays as it is.
Restart == /\ job' = [p \in Installers |-> Idle]
           /\ UNCHANGED <<row, directory, routes, staged>>

Next == \/ \E p \in Installers : \/ \E i \in Ids, c \in Contents : Stage(p, i, c)
                                 \/ Move(p) \/ Publish(p) \/ Insert(p) \/ Fail(p) \/ Undo(p)
        \/ Restart

Spec == Init /\ [][Next]_vars

-----------------------------------------------------------------------------
(* A deployment the store knows is complete on the disk, with the content it is   *)
(* known for, whatever two installers and crashes did: a START never runs on half *)
(* of one.                                                                         *)
InstalledIsComplete == \A i \in Ids : row[i] # None => directory[i] = row[i]

(* The protocol promises that a deployment may be sent again with the same content *)
(* (docs/protocol/robot-platform-v1.md:40, 406): an idle store that does not know a *)
(* deployment has room for it.                                                      *)
CanBeSentAgain ==
    (\A p \in Installers : job[p].at = "idle") =>
        \A i \in Ids : row[i] = None => directory[i] = None

=============================================================================
