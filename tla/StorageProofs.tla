---------------------------- MODULE StorageProofs -----------------------------
(***************************************************************************)
(* What is proved of the parts that keep the robot's data - deployments,   *)
(* maps, and the uploads of scenes, maps and images - for any values of    *)
(* their constants.  The parts share nothing: each has its own constants   *)
(* and variables, and a name that two of them use is told apart by a       *)
(* prefix.  Every section has the inductive invariant of its part, the     *)
(* steps that keep it, and a theorem; what a part's constants are taken to *)
(* be stands in its Assumptions, which PartsProofs shows of the instances  *)
(* that are model-checked.                                                 *)
(***************************************************************************)
EXTENDS Integers, Sequences, FiniteSets, FiniteSetTheorems, SequenceTheorems,
  WellFoundedInduction, TLAPS

CONSTANTS
  Installers, Ids, Contents, MaxRoutes, Names, Archives, MaxMaps, Sessions, Hashes,
  KeepScenes, SceneDisk, MaxSceneTasks, MapContents, KeepMaps, Budgets, MaxMapTasks,
  Visits, ImageDisk, MaxSlot, MaxRows

VARIABLES
  row, directory, routes, staged, job, yaml, pgm, active, op, saved, gone, broken,
  sceneRows, sceneDirs, temp, sceneCaller, sceneWorker, config, sceneAccepted, mapRow,
  mapDirs, temps, drawn, mapCaller, mapWorker, budget, mapAccepted, status, arrivals,
  lastSlot, slot, capture, imageRows, files, leaked, imageWorker

Deploy == INSTANCE Deployments
Files == INSTANCE MapFiles
Scenes == INSTANCE SceneUpload WITH
  KeepSucceeded <- KeepScenes, DiskMax <- SceneDisk, MaxTasks <- MaxSceneTasks,
  rows <- sceneRows, dirs <- sceneDirs, caller <- sceneCaller, worker <- sceneWorker,
  accepted <- sceneAccepted
MapTasks == INSTANCE MapUpload WITH
  Contents <- MapContents, KeepSucceeded <- KeepMaps, MaxTasks <- MaxMapTasks,
  row <- mapRow, dirs <- mapDirs, caller <- mapCaller, worker <- mapWorker,
  accepted <- mapAccepted
Images == INSTANCE InspectionImages WITH
  DiskMax <- ImageDisk, rows <- imageRows, worker <- imageWorker

-----------------------------------------------------------------------------
(* Deployments.  Only its own row is at stake in an installer's step: from the    *)
(* move of its directory to the entry of the row, the directory is the installer's *)
(* and nobody else's (Owns).                                                      *)

\* No content is mistaken for none, and there is something to install.
StoreAssumptions == Deploy!None \notin Contents /\ Ids # {} /\ Contents # {} /\ MaxRoutes \in Nat

Jobs == [at : {"idle", "staged", "moved", "published", "undo"}, id : Ids,
         content : Contents, number : 0 .. MaxRoutes]

\* An installer that has put a directory in place and not yet entered its row.
Owns(p, i) == job[p].at \in {"moved", "published", "undo"} /\ job[p].id = i

StoreInv ==
  /\ Deploy!TypeOK
  /\ Deploy!InstalledIsComplete
  /\ \A p \in Installers, i \in Ids : Owns(p, i) => row[i] = Deploy!None /\ directory[i] = job[p].content
  /\ \A p, q \in Installers, i \in Ids : Owns(p, i) /\ Owns(q, i) => p = q

LEMMA IdleIsAJob == ASSUME StoreAssumptions PROVE Deploy!Idle \in Jobs /\ Deploy!Idle.at = "idle"
BY DEF StoreAssumptions, Deploy!Idle, Jobs

LEMMA StoreInit == ASSUME StoreAssumptions, Deploy!Init PROVE StoreInv
BY IdleIsAJob DEF Deploy!Init, StoreInv, Deploy!TypeOK, Deploy!InstalledIsComplete, Owns,
   Jobs

\* An installer's step: what is left to show is about the row and the directory
\* of its own deployment.
LEMMA JobChanges ==
  ASSUME StoreInv, NEW p \in Installers, NEW r \in Jobs, job' = [job EXCEPT ![p] = r],
         row' \in [Ids -> Contents \cup {Deploy!None}], directory' \in [Ids -> Contents \cup {Deploy!None}],
         routes' \in [Deploy!Numbers -> Ids \cup {Deploy!None}], staged' \subseteq Installers,
         Deploy!InstalledIsComplete',
         \A i \in Ids \ {job[p].id} : row'[i] = row[i] /\ directory'[i] = directory[i],
         r.at \in {"moved", "published", "undo"} =>
           /\ r.id = job[p].id /\ row'[r.id] = Deploy!None /\ directory'[r.id] = r.content
           /\ \A q \in Installers \ {p} : ~Owns(q, r.id),
         r.at \notin {"moved", "published", "undo"} =>
           \/ job[p].at \in {"moved", "published", "undo"}
           \/ UNCHANGED <<row, directory>>
  PROVE  StoreInv'
<1>1. job \in [Installers -> Jobs] /\ job' \in [Installers -> Jobs]
  BY DEF StoreInv, Deploy!TypeOK, Jobs
<1>2. job'[p] = r /\ \A q \in Installers \ {p} : job'[q] = job[q]
  BY <1>1
<1>3. Deploy!TypeOK'
  BY <1>1 DEF Deploy!TypeOK, Jobs
<1>4. ASSUME NEW q \in Installers, NEW i \in Ids, Owns(q, i)'
      PROVE  row'[i] = Deploy!None /\ directory'[i] = job'[q].content
  <2>1. CASE q = p
    BY <1>2, <1>4, <2>1 DEF Owns
  <2>2. CASE q # p
    <3>1. Owns(q, i)
      BY <1>2, <1>4, <2>2 DEF Owns
    <3>2. i # job[p].id \/ UNCHANGED <<row, directory>>
      BY <2>2, <3>1 DEF StoreInv, Owns
    <3>. QED
      BY <1>2, <2>2, <3>1, <3>2 DEF StoreInv
  <2>. QED
    BY <2>1, <2>2
<1>5. ASSUME NEW q \in Installers, NEW s \in Installers, NEW i \in Ids, Owns(q, i)', Owns(s, i)'
      PROVE  q = s
  BY <1>2, <1>5 DEF StoreInv, Owns
<1>. QED
  BY <1>3, <1>4, <1>5 DEF StoreInv

LEMMA StoreNext == ASSUME StoreAssumptions, StoreInv, [Deploy!Next]_Deploy!vars PROVE StoreInv'
<1>1. Deploy!Idle \in Jobs /\ Deploy!Idle.at = "idle" /\ job \in [Installers -> Jobs]
  BY IdleIsAJob DEF StoreInv, Deploy!TypeOK, Jobs
<1>2. \A p \in Installers : /\ job[p].id \in Ids /\ job[p].content \in Contents
                            /\ job[p].number \in 0 .. MaxRoutes
  BY <1>1 DEF Jobs
<1>3. /\ row \in [Ids -> Contents \cup {Deploy!None}]
      /\ directory \in [Ids -> Contents \cup {Deploy!None}]
      /\ routes \in [Deploy!Numbers -> Ids \cup {Deploy!None}] /\ staged \subseteq Installers
      /\ Deploy!InstalledIsComplete
  BY DEF StoreInv, Deploy!TypeOK
<1>4. ASSUME NEW p \in Installers, NEW i \in Ids, Owns(p, i)
      PROVE  /\ i = job[p].id /\ row[i] = Deploy!None /\ directory[i] = job[p].content
             /\ \A q \in Installers \ {p} : ~Owns(q, i)
  BY <1>4 DEF StoreInv, Owns
<1>5. ASSUME NEW p \in Installers, NEW i \in Ids, NEW c \in Contents, Deploy!Stage(p, i, c) PROVE StoreInv'
  <2>. DEFINE r == [at |-> "staged", id |-> i, content |-> c, number |-> Deploy!NextNumber]
  <2>1. r \in Jobs /\ job' = [job EXCEPT ![p] = r] /\ r.at = "staged"
    BY <1>5 DEF Deploy!Stage, Jobs, Deploy!Numbers, StoreAssumptions
  <2>. HIDE DEF r
  <2>2. UNCHANGED <<row, directory, routes>> /\ staged' \subseteq Installers
    BY <1>3, <1>5 DEF Deploy!Stage
  <2>3. Deploy!InstalledIsComplete'
    BY <1>3, <2>2 DEF Deploy!InstalledIsComplete
  <2>. QED
    BY <1>3, <2>1, <2>2, <2>3, JobChanges
<1>6. ASSUME NEW p \in Installers, Deploy!Move(p) PROVE StoreInv'
  <2>1. CASE directory[job[p].id] = Deploy!None
    <3>. DEFINE r == [job[p] EXCEPT !.at = "moved"]
    <3>1. /\ r \in Jobs /\ job' = [job EXCEPT ![p] = r]
          /\ r.at = "moved" /\ r.id = job[p].id /\ r.content = job[p].content
      BY <1>1, <1>6, <2>1 DEF Deploy!Move, Deploy!Moves, Jobs
    <3>. HIDE DEF r
    <3>2. /\ directory' = [directory EXCEPT ![r.id] = r.content]
          /\ UNCHANGED <<row, routes>> /\ staged' = staged \ {p}
      BY <1>6, <2>1, <3>1 DEF Deploy!Move, Deploy!Moves
    <3>3. row[r.id] = Deploy!None
      BY <1>2, <1>3, <2>1, <3>1 DEF Deploy!InstalledIsComplete
    <3>4. \A q \in Installers \ {p} : ~Owns(q, r.id)
      BY <1>2, <1>4, <2>1, <3>1 DEF StoreAssumptions
    <3>5. r.id \in Ids /\ r.content \in Contents /\ r.id = job[p].id
      BY <1>2, <3>1
    <3>6. directory' \in [Ids -> Contents \cup {Deploy!None}] /\ directory'[r.id] = r.content
          /\ \A i \in Ids \ {r.id} : directory'[i] = directory[i]
      BY <1>3, <3>2, <3>5
    <3>7. Deploy!InstalledIsComplete'
      BY <1>3, <3>2, <3>3, <3>6 DEF Deploy!InstalledIsComplete
    <3>. QED
      BY <1>3, <3>1, <3>2, <3>3, <3>4, <3>5, <3>6, <3>7, JobChanges
  <2>2. CASE directory[job[p].id] # Deploy!None
    <3>1. /\ job' = [job EXCEPT ![p] = Deploy!Idle] /\ staged' = staged \ {p}
          /\ UNCHANGED <<row, directory, routes>>
      BY <1>6, <2>2 DEF Deploy!Move, Deploy!Moves
    <3>2. Deploy!InstalledIsComplete'
      BY <1>3, <3>1 DEF Deploy!InstalledIsComplete
    <3>. QED
      BY <1>1, <1>3, <3>1, <3>2, JobChanges
  <2>. QED
    BY <2>1, <2>2
<1>7. ASSUME NEW p \in Installers, Deploy!Publish(p) PROVE StoreInv'
  <2>. DEFINE r == [job[p] EXCEPT !.at = "published"]
  <2>1. /\ r \in Jobs /\ job' = [job EXCEPT ![p] = r]
        /\ r.at = "published" /\ r.id = job[p].id /\ r.content = job[p].content
    BY <1>1, <1>2, <1>7 DEF Deploy!Publish, Jobs
  <2>. HIDE DEF r
  <2>2. Owns(p, r.id) /\ r.id \in Ids
    BY <1>2, <1>7, <2>1 DEF Deploy!Publish, Owns
  <2>3. /\ UNCHANGED <<row, directory, staged>>
        /\ routes' \in [Deploy!Numbers -> Ids \cup {Deploy!None}]
    BY <1>2, <1>3, <1>7 DEF Deploy!Publish
  <2>4. Deploy!InstalledIsComplete'
    BY <1>3, <2>3 DEF Deploy!InstalledIsComplete
  <2>. QED
    BY <1>3, <1>4, <2>1, <2>2, <2>3, <2>4, JobChanges
<1>8. ASSUME NEW p \in Installers, Deploy!Insert(p) PROVE StoreInv'
  <2>1. Owns(p, job[p].id) /\ job[p].id \in Ids
    BY <1>2, <1>8 DEF Deploy!Insert, Owns
  <2>2. /\ job' = [job EXCEPT ![p] = Deploy!Idle]
        /\ row' = [row EXCEPT ![job[p].id] = job[p].content]
        /\ UNCHANGED <<directory, routes, staged>>
    BY <1>4, <1>8, <2>1 DEF Deploy!Insert
  <2>3. /\ row' \in [Ids -> Contents \cup {Deploy!None}] /\ row'[job[p].id] = job[p].content
        /\ \A i \in Ids \ {job[p].id} : row'[i] = row[i]
    BY <1>2, <1>3, <2>2
  <2>4. Deploy!InstalledIsComplete'
    BY <1>3, <1>4, <2>1, <2>2, <2>3 DEF Deploy!InstalledIsComplete
  <2>5. job[p].at \in {"moved", "published", "undo"}
    BY <2>1 DEF Owns
  <2>. QED
    BY <1>1, <1>3, <2>2, <2>3, <2>4, <2>5, JobChanges
<1>9. ASSUME NEW p \in Installers, Deploy!Fail(p) PROVE StoreInv'
  <2>. DEFINE r == [at |-> "undo", id |-> job[p].id, content |-> job[p].content,
                  number |-> IF job[p].at = "published" THEN job[p].number ELSE 0]
  <2>1. /\ r \in Jobs /\ job' = [job EXCEPT ![p] = r]
        /\ r.at = "undo" /\ r.id = job[p].id /\ r.content = job[p].content
    BY <1>1, <1>2, <1>9 DEF Deploy!Fail, Jobs, StoreAssumptions
  <2>. HIDE DEF r
  <2>2. Owns(p, r.id) /\ r.id \in Ids
    BY <1>2, <1>9, <2>1 DEF Deploy!Fail, Owns
  <2>3. UNCHANGED <<row, directory, routes, staged>>
    BY <1>9 DEF Deploy!Fail
  <2>4. Deploy!InstalledIsComplete'
    BY <1>3, <2>3 DEF Deploy!InstalledIsComplete
  <2>. QED
    BY <1>3, <1>4, <2>1, <2>2, <2>3, <2>4, JobChanges
<1>10. ASSUME NEW p \in Installers, Deploy!Undo(p) PROVE StoreInv'
  <2>1. Owns(p, job[p].id) /\ job[p].id \in Ids
    BY <1>2, <1>10 DEF Deploy!Undo, Owns
  <2>2. /\ job' = [job EXCEPT ![p] = Deploy!Idle]
        /\ directory' = [directory EXCEPT ![job[p].id] = Deploy!None]
        /\ UNCHANGED <<row, staged>> /\ routes' \in [Deploy!Numbers -> Ids \cup {Deploy!None}]
    BY <1>3, <1>10 DEF Deploy!Undo
  <2>3. /\ directory' \in [Ids -> Contents \cup {Deploy!None}]
        /\ \A i \in Ids \ {job[p].id} : directory'[i] = directory[i]
    BY <1>2, <1>3, <2>2
  <2>4. Deploy!InstalledIsComplete'
    BY <1>3, <1>4, <2>1, <2>2, <2>3 DEF Deploy!InstalledIsComplete
  <2>5. job[p].at \in {"moved", "published", "undo"}
    BY <2>1 DEF Owns
  <2>. QED
    BY <1>1, <1>3, <2>2, <2>3, <2>4, <2>5, JobChanges
<1>11. CASE Deploy!Restart
  <2>1. job' \in [Installers -> Jobs] /\ \A p \in Installers : job'[p].at = "idle"
    BY <1>1, <1>11 DEF Deploy!Restart
  <2>. QED
    BY <1>3, <1>11, <2>1 DEF Deploy!Restart, StoreInv, Deploy!TypeOK,
       Deploy!InstalledIsComplete, Owns, Jobs
<1>12. CASE UNCHANGED Deploy!vars
  BY <1>12 DEF Deploy!vars, StoreInv, Deploy!TypeOK, Deploy!InstalledIsComplete, Owns
<1>. QED
  BY <1>5, <1>6, <1>7, <1>8, <1>9, <1>10, <1>11, <1>12 DEF Deploy!Next

\* A deployment the store knows is complete on the disk, with the content it is known
\* for: two installers that interleave, fail or are killed at any step of install
\* leave no row without its directory, for any installers, deployments and contents.
THEOREM StoreIsSound == ASSUME StoreAssumptions PROVE Deploy!Spec => [](Deploy!TypeOK /\ Deploy!InstalledIsComplete)
<1>1. Deploy!Init => StoreInv
  BY StoreInit
<1>2. StoreInv /\ [Deploy!Next]_Deploy!vars => StoreInv'
  BY StoreNext
<1>3. StoreInv => Deploy!TypeOK /\ Deploy!InstalledIsComplete
  BY DEF StoreInv
<1> QED
  BY <1>1, <1>2, <1>3, PTL DEF Deploy!Spec

-----------------------------------------------------------------------------
(* The files of the maps.  An operation under way can be read back to the sound    *)
(* directory it began with (Renaming, Confirming), so that its end leaves the next  *)
(* sound directory and its rollback the first.                                      *)

\* No user names a map `default', no archive is named so, and the delivered map
\* is counted.
NamesAssumptions == "default" \notin Names \cup Archives /\ MaxMaps \in Nat \ {0}

Yamls == [Files!All -> [map : Files!Maps, image : Files!All]]
Ops == [kind : {"none", "rename", "confirm", "delete"}, name : Files!All, to : Files!All, steps : 0 .. 7]

\* The directory as it is between operations.
Sound(y, p) ==
  /\ y \in Yamls /\ p \in [Files!All -> Files!Maps]
  /\ \A n \in Files!All : y[n].map = 0 => y[n] = Files!NoYaml
  /\ y["default"].map # 0 /\ p["default"] # 0 /\ y["default"].image = "default"
  /\ \A m \in 1 .. saved : m \in gone \/ \E n \in Files!All : y[n].map = m /\ p[n] = m /\ y[n].image = n
  /\ active \subseteq gone \cup {p["default"]}

\* The directory y, p after the first k steps of a rename or of a confirmation.
RenamedYaml(n, to, y, k) ==
  [x \in Files!All |-> IF k = 0 THEN y[x]
                       ELSE IF x = to THEN [map |-> y[n].map, image |-> IF k = 3 THEN to ELSE n]
                       ELSE IF x = n THEN Files!NoYaml ELSE y[x]]
RenamedPgm(n, to, p, k) ==
  [x \in Files!All |-> IF k < 2 THEN p[x] ELSE IF x = to THEN p[n] ELSE IF x = n THEN 0 ELSE p[x]]
ConfirmedYaml(n, a, y, k) ==
  [x \in Files!All |-> IF x = a /\ k >= 1
                       THEN [map |-> y["default"].map, image |-> IF k >= 5 THEN a ELSE "default"]
                       ELSE IF x = "default" /\ k \in {1, 2} THEN Files!NoYaml
                       ELSE IF x = "default" /\ k >= 3
                       THEN [map |-> y[n].map, image |-> IF k >= 6 THEN "default" ELSE n]
                       ELSE IF x = n /\ k >= 3 THEN Files!NoYaml ELSE y[x]]
ConfirmedPgm(n, a, p, k) ==
  [x \in Files!All |-> IF x = a /\ k >= 2 THEN p["default"]
                       ELSE IF x = "default" /\ k \in {2, 3} THEN 0
                       ELSE IF x = "default" /\ k >= 4 THEN p[n]
                       ELSE IF x = n /\ k >= 4 THEN 0 ELSE p[x]]

\* An operation on its way, which began with the directory y, p.
Started(y, p) ==
  /\ Sound(y, p)
  /\ op.name \in Names
  /\ y[op.name].map # 0 /\ p[op.name] # 0 /\ y[op.name].image = op.name
  /\ y[op.to] = Files!NoYaml /\ p[op.to] = 0
Renaming(y, p) ==
  /\ Started(y, p) /\ op.to \in Names /\ op.steps \in 0 .. 3
  /\ yaml = RenamedYaml(op.name, op.to, y, op.steps)
  /\ pgm = RenamedPgm(op.name, op.to, p, op.steps)
Confirming(y, p) ==
  /\ Started(y, p) /\ op.to \in Archives /\ op.steps \in 0 .. 7 /\ (op.steps = 7 => active = {})
  /\ yaml = ConfirmedYaml(op.name, op.to, y, op.steps)
  /\ pgm = ConfirmedPgm(op.name, op.to, p, op.steps)

FilesInv ==
  ~broken =>
    /\ op.kind \in {"none", "delete"} => Sound(yaml, pgm)
    /\ op.kind = "delete" => op.name \in Names /\ yaml[op.name].map = 0
    /\ op.kind = "rename" => \E y, p : Renaming(y, p)
    /\ op.kind = "confirm" => \E y, p : Confirming(y, p)

-----------------------------------------------------------------------------
\* The step an operation is about to take is between names.
LEMMA NextStep ==
  ASSUME NamesAssumptions, op \in Ops, op.kind \in {"rename", "confirm"}, op.steps < Len(Files!StepsOf(op))
  PROVE  /\ op.steps \in 0 .. 6
         /\ Files!StepsOf(op)[op.steps + 1].from \in Files!All
         /\ Files!StepsOf(op)[op.steps + 1].to \in Files!All
<1>1. op.name \in Files!All /\ op.to \in Files!All /\ op.steps \in 0 .. 7 /\ "default" \in Files!All
  BY DEF Ops, Files!All
<1>2. CASE op.kind = "rename"
  <2>1. Files!StepsOf(op) = Files!Rename(op.name, op.to)
    BY <1>2 DEF Files!StepsOf
  <2>4. Len(Files!StepsOf(op)) = 3
    BY <2>1 DEF Files!Rename
  <2>2. op.steps \in 0 .. 2
    BY <1>1, <2>4
  <2>3. \A k \in 1 .. 3 : Files!Rename(op.name, op.to)[k].from \in Files!All /\ Files!Rename(op.name, op.to)[k].to \in Files!All
    BY <1>1 DEF Files!Rename
  <2>. QED
    BY <2>1, <2>2, <2>3
<1>3. CASE op.kind = "confirm"
  <2>1. Files!StepsOf(op) = Files!Confirm(op.name, op.to)
    BY <1>3 DEF Files!StepsOf
  <2>4. Len(Files!StepsOf(op)) = 7
    BY <2>1 DEF Files!Confirm
  <2>2. op.steps \in 0 .. 6
    BY <1>1, <2>4
  <2>5. op.name \in Files!All /\ op.to \in Files!All /\ "default" \in Files!All
    BY <1>1
  <2>6. ASSUME NEW k \in {1, 2, 5, 7}
        PROVE  Files!Confirm(op.name, op.to)[k].from = "default"
               /\ Files!Confirm(op.name, op.to)[k].to = op.to
    BY <2>6 DEF Files!Confirm
  <2>7. ASSUME NEW k \in {3, 4, 6}
        PROVE  Files!Confirm(op.name, op.to)[k].from = op.name
               /\ Files!Confirm(op.name, op.to)[k].to = "default"
    BY <2>7 DEF Files!Confirm
  <2>3. \A k \in 1 .. 7 : /\ Files!Confirm(op.name, op.to)[k].from \in Files!All
                          /\ Files!Confirm(op.name, op.to)[k].to \in Files!All
    <3>. DEFINE steps == Files!Confirm(op.name, op.to)
    <3>. SUFFICES ASSUME NEW k \in 1 .. 7
                  PROVE  steps[k].from \in Files!All /\ steps[k].to \in Files!All
      OBVIOUS
    <3>. HIDE DEF steps
    <3>1. CASE k \in {1, 2, 5, 7}
      <4>1. steps[k].from = "default" /\ steps[k].to = op.to
        BY <2>6, <3>1 DEF steps
      <4>. QED
        BY <2>5, <4>1
    <3>2. CASE k \in {3, 4, 6}
      <4>1. steps[k].from = op.name /\ steps[k].to = "default"
        BY <2>7, <3>2 DEF steps
      <4>. QED
        BY <2>5, <4>1
    <3>3. k = 1 \/ k = 2 \/ k = 3 \/ k = 4 \/ k = 5 \/ k = 6 \/ k = 7
      BY k \in 1 .. 7, SMTT(30)
    <3>4. k \in {1, 2, 5, 7} \/ k \in {3, 4, 6}
      BY <3>3
    <3>. QED
      BY <3>1, <3>2, <3>4
  <2>. QED
    BY <2>1, <2>2, <2>3
<1>. QED
  BY <1>2, <1>3

LEMMA MovedTyped ==
  ASSUME NEW S, NEW T, NEW f \in [S -> T], NEW x \in S, NEW y \in S, NEW nothing \in T
  PROVE  Files!Moved(f, x, y, nothing) \in [S -> T]
BY DEF Files!Moved

LEMMA MovedBackTyped ==
  ASSUME op \in Ops, NEW T, NEW f \in [Files!All -> T], NEW do, NEW nothing \in T
  PROVE  Files!MovedBack(f, do, nothing) \in [Files!All -> T]
<1>1. op.name \in Files!All /\ op.to \in Files!All /\ "default" \in Files!All
  BY DEF Ops, Files!All
<1>. QED
  BY <1>1, MovedTyped DEF Files!MovedBack

LEMMA FilesTyped == ASSUME NamesAssumptions, Files!TypeOK, [Files!Next]_Files!vars PROVE Files!TypeOK'
<1>1. yaml \in Yamls /\ pgm \in [Files!All -> Files!Maps] /\ op \in Ops /\ Files!NoYaml \in [map : Files!Maps, image : Files!All]
      /\ Files!NoOp \in Ops /\ 0 \in Files!Maps /\ "default" \in Files!All
      /\ Names \subseteq Files!All /\ Archives \subseteq Files!All
  BY DEF NamesAssumptions, Files!TypeOK, Yamls, Ops, Files!NoYaml, Files!NoOp, Files!All,
     Files!Maps
<1>2. ASSUME NEW kind \in {"rename", "confirm", "delete"}, NEW n \in Files!All, NEW to \in Files!All, Files!Begin(kind, n, to)
      PROVE  op' \in Ops
  BY <1>2 DEF Files!Begin, Ops
<1>3. ASSUME NEW n \in Names, NEW to \in Names, Files!BeginRename(n, to) PROVE Files!TypeOK'
  BY <1>1, <1>2, <1>3 DEF Files!BeginRename, Files!TypeOK, Ops
<1>4. ASSUME NEW n \in Names, NEW a \in Archives, Files!BeginConfirm(n, a) PROVE Files!TypeOK'
  BY <1>1, <1>2, <1>4 DEF Files!BeginConfirm, Files!TypeOK, Ops
<1>5. CASE Files!Step
  <2>. DEFINE s == Files!StepsOf(op)[op.steps + 1]
  <2>1. /\ op.steps \in 0 .. 6
        /\ s.from \in Files!All /\ s.to \in Files!All
    BY <1>1, <1>5, NextStep DEF Files!Step
  <2>2. op' = [op EXCEPT !.steps = @ + 1]
    BY <1>5 DEF Files!Step
  <2>3. op' \in Ops
    BY <1>1, <2>1, <2>2 DEF Ops
  <2>4. yaml' \in {Files!Moved(yaml, s.from, s.to, Files!NoYaml), [yaml EXCEPT ![s.to].image = s.to], yaml}
        /\ pgm' \in {Files!Moved(pgm, s.from, s.to, 0), pgm} /\ active' \in {{}, active}
    BY <1>5 DEF Files!Step
  <2>. HIDE DEF s
  <2>6. [yaml EXCEPT ![s.to].image = s.to] \in Yamls
    BY <1>1, <2>1 DEF Yamls
  <2>7. /\ Files!Moved(yaml, s.from, s.to, Files!NoYaml) \in Yamls
        /\ Files!Moved(pgm, s.from, s.to, 0) \in [Files!All -> Files!Maps]
    BY <1>1, <2>1, MovedTyped DEF Yamls
  <2>8. yaml' \in Yamls /\ pgm' \in [Files!All -> Files!Maps]
    BY <1>1, <2>4, <2>6, <2>7
  <2>. QED
    BY <1>5, <2>3, <2>4, <2>8 DEF Files!Step, Files!TypeOK, Yamls, Ops
<1>6. CASE Files!End
  BY <1>1, <1>6 DEF Files!End, Files!TypeOK, Ops
<1>7. CASE Files!Fail
  <2>1. /\ Files!MovedBack(yaml, "yaml", Files!NoYaml) \in Yamls
        /\ Files!MovedBack(pgm, "pgm", 0) \in [Files!All -> Files!Maps]
    BY <1>1, MovedBackTyped DEF Yamls
  <2>2. ASSUME NEW f \in Yamls PROVE Files!Restored(f) \in Yamls
    BY <2>2 DEF Files!Restored, Yamls
  <2>. QED
    BY <1>1, <1>7, <2>1, <2>2 DEF Files!Fail, Files!TypeOK, Yamls, Ops
<1>8. ASSUME NEW n \in Names, Files!Delete(n) PROVE Files!TypeOK'
  <2>1. {yaml[n].map, pgm[n]} \ {0} \subseteq 1 .. MaxMaps
    BY <1>1 DEF Yamls, Files!Maps, NamesAssumptions
  <2>. QED
    BY <1>1, <1>2, <1>8, <2>1 DEF Files!Delete, Files!TypeOK, Yamls, Ops
<1>9. CASE Files!DeleteImage
  BY <1>1, <1>9 DEF Files!DeleteImage, Files!TypeOK, Ops
<1>10. ASSUME NEW n \in Names \cup {"default"}, Files!SaveMap(n) PROVE Files!TypeOK'
  <2>1. {yaml[n].map, pgm[n]} \ {0} \subseteq 1 .. MaxMaps
    BY <1>1 DEF Yamls, Files!Maps, NamesAssumptions
  <2>2. saved + 1 \in Files!Maps
    BY <1>10 DEF Files!SaveMap, Files!TypeOK, Files!Maps, NamesAssumptions
  <2>. QED
    BY <1>1, <1>10, <2>1, <2>2 DEF Files!SaveMap, Files!TypeOK, Yamls, Ops
<1>11. CASE Files!SaveRoute
  <2>1. pgm["default"] \in 1 .. MaxMaps
    BY <1>1, <1>11 DEF Files!SaveRoute, Files!Valid, Files!Maps, NamesAssumptions
  <2>. QED
    BY <1>1, <1>11, <2>1 DEF Files!SaveRoute, Files!TypeOK
<1>12. CASE Files!Restart
  BY <1>1, <1>12 DEF Files!Restart, Files!TypeOK, Ops
<1>13. CASE UNCHANGED Files!vars
  BY <1>13 DEF Files!vars, Files!TypeOK
<1>. QED
  BY <1>3, <1>4, <1>5, <1>6, <1>7, <1>8, <1>9, <1>10, <1>11, <1>12, <1>13 DEF Files!Next

-----------------------------------------------------------------------------
\* The file operations one by one.
LEMMA StepIs ==
  ASSUME op \in Ops, Files!Step, NEW k \in 0 .. 6, op.steps = k,
         NEW do, NEW from, NEW to,
         Files!StepsOf(op)[k + 1].do = do, Files!StepsOf(op)[k + 1].from = from, Files!StepsOf(op)[k + 1].to = to
  PROVE  /\ do = "yaml" => yaml' = Files!Moved(yaml, from, to, Files!NoYaml) /\ UNCHANGED <<pgm, active>>
         /\ do = "pgm" => pgm' = Files!Moved(pgm, from, to, 0) /\ UNCHANGED <<yaml, active>>
         /\ do = "image" => yaml' = [yaml EXCEPT ![to].image = to] /\ UNCHANGED <<pgm, active>>
         /\ do = "routes" => active' = {} /\ UNCHANGED <<yaml, pgm>>
<1>. DEFINE s == Files!StepsOf(op)[op.steps + 1]
<1>1. s.do = do /\ s.from = from /\ s.to = to
  OBVIOUS
<1>2. /\ yaml' = CASE s.do = "yaml" -> Files!Moved(yaml, s.from, s.to, Files!NoYaml)
                   [] s.do = "image" -> [yaml EXCEPT ![s.to].image = s.to]
                   [] OTHER -> yaml
      /\ pgm' = IF s.do = "pgm" THEN Files!Moved(pgm, s.from, s.to, 0) ELSE pgm
      /\ active' = IF s.do = "routes" THEN {} ELSE active
  BY DEF Files!Step
<1>. HIDE DEF s
<1>. QED
  BY <1>1, <1>2

LEMMA RenameStep ==
  ASSUME op \in Ops, op.kind = "rename", Files!Step
  PROVE  /\ op.steps \in 0 .. 2 /\ op' = [op EXCEPT !.steps = @ + 1] /\ active' = active
         /\ op.steps = 0 => yaml' = Files!Moved(yaml, op.name, op.to, Files!NoYaml) /\ pgm' = pgm
         /\ op.steps = 1 => yaml' = yaml /\ pgm' = Files!Moved(pgm, op.name, op.to, 0)
         /\ op.steps = 2 => yaml' = [yaml EXCEPT ![op.to].image = op.to] /\ pgm' = pgm
<1>1. Files!StepsOf(op) = Files!Rename(op.name, op.to) /\ op.steps \in 0 .. 7
  BY DEF Files!StepsOf, Ops
<1>2. Len(Files!StepsOf(op)) = 3
  BY <1>1 DEF Files!Rename
<1>3. op.steps \in 0 .. 2 /\ op' = [op EXCEPT !.steps = @ + 1]
  BY <1>1, <1>2 DEF Files!Step
<1>4. CASE op.steps = 0
  <2>1. /\ Files!StepsOf(op)[0 + 1].do = "yaml" /\ Files!StepsOf(op)[0 + 1].from = op.name
        /\ Files!StepsOf(op)[0 + 1].to = op.to
    BY <1>1 DEF Files!Rename
  <2>. QED
    BY <1>3, <1>4, <2>1, StepIs
<1>5. CASE op.steps = 1
  <2>1. /\ Files!StepsOf(op)[1 + 1].do = "pgm" /\ Files!StepsOf(op)[1 + 1].from = op.name
        /\ Files!StepsOf(op)[1 + 1].to = op.to
    BY <1>1 DEF Files!Rename
  <2>. QED
    BY <1>3, <1>5, <2>1, StepIs
<1>6. CASE op.steps = 2
  <2>1. /\ Files!StepsOf(op)[2 + 1].do = "image" /\ Files!StepsOf(op)[2 + 1].from = op.name
        /\ Files!StepsOf(op)[2 + 1].to = op.to
    BY <1>1 DEF Files!Rename
  <2>. QED
    BY <1>3, <1>6, <2>1, StepIs
<1>. QED
  BY <1>3, <1>4, <1>5, <1>6

LEMMA ConfirmStep ==
  ASSUME op \in Ops, op.kind = "confirm", Files!Step
  PROVE  /\ op.steps \in 0 .. 6 /\ op' = [op EXCEPT !.steps = @ + 1]
         /\ op.steps = 0 => yaml' = Files!Moved(yaml, "default", op.to, Files!NoYaml) /\ UNCHANGED <<pgm, active>>
         /\ op.steps = 1 => pgm' = Files!Moved(pgm, "default", op.to, 0) /\ UNCHANGED <<yaml, active>>
         /\ op.steps = 2 => yaml' = Files!Moved(yaml, op.name, "default", Files!NoYaml) /\ UNCHANGED <<pgm, active>>
         /\ op.steps = 3 => pgm' = Files!Moved(pgm, op.name, "default", 0) /\ UNCHANGED <<yaml, active>>
         /\ op.steps = 4 => yaml' = [yaml EXCEPT ![op.to].image = op.to] /\ UNCHANGED <<pgm, active>>
         /\ op.steps = 5 => yaml' = [yaml EXCEPT !["default"].image = "default"] /\ UNCHANGED <<pgm, active>>
         /\ op.steps = 6 => active' = {} /\ UNCHANGED <<yaml, pgm>>
<1>1. Files!StepsOf(op) = Files!Confirm(op.name, op.to) /\ op.steps \in 0 .. 7
  BY DEF Files!StepsOf, Ops
<1>2. Len(Files!StepsOf(op)) = 7
  BY <1>1 DEF Files!Confirm
<1>3. op.steps \in 0 .. 6 /\ op' = [op EXCEPT !.steps = @ + 1]
  BY <1>1, <1>2 DEF Files!Step
<1>4. CASE op.steps = 0
  <2>1. /\ Files!StepsOf(op)[0 + 1].do = "yaml" /\ Files!StepsOf(op)[0 + 1].from = "default"
        /\ Files!StepsOf(op)[0 + 1].to = op.to
    BY <1>1 DEF Files!Confirm
  <2>. QED
    BY <1>3, <1>4, <2>1, StepIs
<1>5. CASE op.steps = 1
  <2>1. /\ Files!StepsOf(op)[1 + 1].do = "pgm" /\ Files!StepsOf(op)[1 + 1].from = "default"
        /\ Files!StepsOf(op)[1 + 1].to = op.to
    BY <1>1 DEF Files!Confirm
  <2>. QED
    BY <1>3, <1>5, <2>1, StepIs
<1>6. CASE op.steps = 2
  <2>1. /\ Files!StepsOf(op)[2 + 1].do = "yaml" /\ Files!StepsOf(op)[2 + 1].from = op.name
        /\ Files!StepsOf(op)[2 + 1].to = "default"
    BY <1>1 DEF Files!Confirm
  <2>. QED
    BY <1>3, <1>6, <2>1, StepIs
<1>7. CASE op.steps = 3
  <2>1. /\ Files!StepsOf(op)[3 + 1].do = "pgm" /\ Files!StepsOf(op)[3 + 1].from = op.name
        /\ Files!StepsOf(op)[3 + 1].to = "default"
    BY <1>1 DEF Files!Confirm
  <2>. QED
    BY <1>3, <1>7, <2>1, StepIs
<1>8. CASE op.steps = 4
  <2>1. /\ Files!StepsOf(op)[4 + 1].do = "image" /\ Files!StepsOf(op)[4 + 1].from = "default"
        /\ Files!StepsOf(op)[4 + 1].to = op.to
    BY <1>1 DEF Files!Confirm
  <2>. QED
    BY <1>3, <1>8, <2>1, StepIs
<1>9. CASE op.steps = 5
  <2>1. /\ Files!StepsOf(op)[5 + 1].do = "image" /\ Files!StepsOf(op)[5 + 1].from = op.name
        /\ Files!StepsOf(op)[5 + 1].to = "default"
    BY <1>1 DEF Files!Confirm
  <2>. QED
    BY <1>3, <1>9, <2>1, StepIs
<1>10. CASE op.steps = 6
  <2>1. /\ Files!StepsOf(op)[6 + 1].do = "routes" /\ Files!StepsOf(op)[6 + 1].from = "default"
        /\ Files!StepsOf(op)[6 + 1].to = op.to
    BY <1>1 DEF Files!Confirm
  <2>. QED
    BY <1>3, <1>10, <2>1, StepIs
<1>. QED
  BY <1>3, <1>4, <1>5, <1>6, <1>7, <1>8, <1>9, <1>10

\* What has been done, and so has to be taken back.
LEMMA RenameDone ==
  ASSUME op \in Ops, op.kind = "rename", op.steps \in 0 .. 2
  PROVE  /\ Files!Done("yaml", op.name, op.to) <=> op.steps >= 1
         /\ Files!Done("pgm", op.name, op.to) <=> op.steps >= 2
BY DEF Files!Done, Files!StepsOf, Files!Rename

LEMMA ConfirmDone ==
  ASSUME NamesAssumptions, op \in Ops, op.kind = "confirm", op.name \in Names, op.steps \in 0 .. 6
  PROVE  /\ Files!Done("yaml", "default", op.to) <=> op.steps >= 1
         /\ Files!Done("pgm", "default", op.to) <=> op.steps >= 2
         /\ Files!Done("yaml", op.name, "default") <=> op.steps >= 3
         /\ Files!Done("pgm", op.name, "default") <=> op.steps >= 4
BY DEF NamesAssumptions, Files!Done, Files!StepsOf, Files!Confirm

-----------------------------------------------------------------------------
\* What stays of an operation that takes its next step.
LEMMA SameOperation ==
  ASSUME op \in Ops, op' = [op EXCEPT !.steps = @ + 1]
  PROVE  op'.kind = op.kind /\ op'.name = op.name /\ op'.to = op.to /\ op'.steps = op.steps + 1
BY DEF Ops

LEMMA AllNames == Names \subseteq Files!All /\ Archives \subseteq Files!All /\ "default" \in Files!All
BY DEF Files!All

LEMMA RenameGoesOn ==
  ASSUME NamesAssumptions, op \in Ops, op.kind = "rename", Files!Step, NEW y, NEW p, Renaming(y, p)
  PROVE  Renaming(y, p)'
<1>1. /\ y \in Yamls /\ p \in [Files!All -> Files!Maps] /\ op.name \in Files!All
      /\ op.to \in Files!All /\ op.name # op.to
      /\ y[op.name].image = op.name /\ y[op.to] = Files!NoYaml /\ p[op.to] = 0
      /\ yaml = RenamedYaml(op.name, op.to, y, op.steps)
      /\ pgm = RenamedPgm(op.name, op.to, p, op.steps)
  BY AllNames DEF Renaming, Started, Sound
<1>2. y[op.name] = [map |-> y[op.name].map, image |-> op.name]
  BY <1>1 DEF Yamls
<1>3. /\ op.steps \in 0 .. 2 /\ op' = [op EXCEPT !.steps = @ + 1] /\ active' = active
      /\ op.steps = 0 => yaml' = Files!Moved(yaml, op.name, op.to, Files!NoYaml) /\ pgm' = pgm
      /\ op.steps = 1 => yaml' = yaml /\ pgm' = Files!Moved(pgm, op.name, op.to, 0)
      /\ op.steps = 2 => yaml' = [yaml EXCEPT ![op.to].image = op.to] /\ pgm' = pgm
  BY RenameStep
<1>4. yaml' = RenamedYaml(op.name, op.to, y, op.steps + 1)
  <2>1. CASE op.steps = 0
    BY <1>1, <1>2, <1>3, <2>1 DEF RenamedYaml, Files!Moved, Yamls
  <2>2. CASE op.steps = 1
    BY <1>1, <1>3, <2>2 DEF RenamedYaml
  <2>3. CASE op.steps = 2
    BY <1>1, <1>3, <2>3 DEF RenamedYaml
  <2>. QED
    BY <1>3, <2>1, <2>2, <2>3
<1>5. pgm' = RenamedPgm(op.name, op.to, p, op.steps + 1)
  <2>1. CASE op.steps = 0
    BY <1>1, <1>3, <2>1 DEF RenamedPgm
  <2>2. CASE op.steps = 1
    BY <1>1, <1>3, <2>2 DEF RenamedPgm, Files!Moved
  <2>3. CASE op.steps = 2
    BY <1>1, <1>3, <2>3 DEF RenamedPgm
  <2>. QED
    BY <1>3, <2>1, <2>2, <2>3
<1>6. op'.kind = op.kind /\ op'.name = op.name /\ op'.to = op.to /\ op'.steps = op.steps + 1
  BY <1>3, SameOperation
<1>7. Sound(y, p)'
  BY <1>3 DEF Files!Step, Renaming, Started, Sound
<1>. QED
  BY <1>3, <1>4, <1>5, <1>6, <1>7 DEF Renaming, Started

LEMMA RenameSucceeds ==
  ASSUME NamesAssumptions, op \in Ops, NEW y, NEW p, Renaming(y, p), op.steps = 3
  PROVE  Sound(yaml, pgm)
<1>1. /\ y \in Yamls /\ p \in [Files!All -> Files!Maps] /\ op.name \in Files!All
      /\ op.to \in Files!All /\ op.name # op.to
      /\ op.name # "default" /\ op.to # "default" /\ "default" \in Files!All
      /\ y[op.name].map # 0 /\ p[op.name] # 0
      /\ y[op.name].image = op.name /\ y[op.to] = Files!NoYaml /\ p[op.to] = 0
      /\ yaml = RenamedYaml(op.name, op.to, y, 3) /\ pgm = RenamedPgm(op.name, op.to, p, 3)
      /\ Sound(y, p)
  BY AllNames DEF Renaming, Started, Sound, NamesAssumptions, Files!NoYaml
<1>2. /\ yaml[op.to] = [map |-> y[op.name].map, image |-> op.to] /\ pgm[op.to] = p[op.name]
      /\ yaml[op.name] = Files!NoYaml /\ pgm[op.name] = 0
      /\ \A x \in Files!All \ {op.name, op.to} : yaml[x] = y[x] /\ pgm[x] = p[x]
  BY <1>1 DEF RenamedYaml, RenamedPgm
<1>3. yaml \in Yamls /\ pgm \in [Files!All -> Files!Maps]
  BY <1>1 DEF RenamedYaml, RenamedPgm, Yamls, Files!NoYaml, Files!Maps, NamesAssumptions
<1>4. ASSUME NEW m \in 1 .. saved, m \notin gone
      PROVE  \E n \in Files!All : yaml[n].map = m /\ pgm[n] = m /\ yaml[n].image = n
  <2>1. PICK n \in Files!All : y[n].map = m /\ p[n] = m /\ y[n].image = n
    BY <1>1, <1>4 DEF Sound
  <2>2. CASE n = op.name
    BY <1>1, <1>2, <2>1, <2>2
  <2>3. CASE n # op.name
    <3>1. n # op.to
      BY <1>1, <2>1 DEF Files!NoYaml
    <3>. QED
      BY <1>2, <2>1, <2>3, <3>1
  <2>. QED
    BY <2>2, <2>3
<1>. QED
  BY <1>1, <1>2, <1>3, <1>4 DEF Sound, Files!NoYaml

LEMMA RenameIsTakenBack ==
  ASSUME NamesAssumptions, op \in Ops, op.kind = "rename", Files!Fail, NEW y, NEW p, Renaming(y, p)
  PROVE  yaml' = y /\ pgm' = p
<1>1. /\ y \in Yamls /\ p \in [Files!All -> Files!Maps] /\ op.name \in Files!All
      /\ op.to \in Files!All /\ op.name # op.to
      /\ y[op.name].image = op.name /\ y[op.to] = Files!NoYaml /\ p[op.to] = 0
      /\ yaml = RenamedYaml(op.name, op.to, y, op.steps)
      /\ pgm = RenamedPgm(op.name, op.to, p, op.steps)
  BY AllNames DEF Renaming, Started, Sound
<1>2. y[op.name] = [map |-> y[op.name].map, image |-> op.name]
  BY <1>1 DEF Yamls
<1>3. op.steps \in 0 .. 2
  <2>1. Len(Files!StepsOf(op)) = 3
    BY DEF Files!StepsOf, Files!Rename
  <2>. QED
    BY <2>1 DEF Files!Fail, Renaming
<1>4. Files!MovedBack(yaml, "yaml", Files!NoYaml) = y
  <2>1. Files!MovedBack(yaml, "yaml", Files!NoYaml)
          = IF op.steps >= 1 THEN Files!Moved(yaml, op.to, op.name, Files!NoYaml) ELSE yaml
    BY <1>3, RenameDone DEF Files!MovedBack
  <2>. QED
    BY <1>1, <1>2, <1>3, <2>1 DEF Files!Moved, RenamedYaml, Yamls
<1>5. Files!MovedBack(pgm, "pgm", 0) = p
  <2>1. Files!MovedBack(pgm, "pgm", 0)
          = IF op.steps >= 2 THEN Files!Moved(pgm, op.to, op.name, 0) ELSE pgm
    BY <1>3, RenameDone DEF Files!MovedBack
  <2>. QED
    BY <1>1, <1>3, <2>1 DEF Files!Moved, RenamedPgm
<1>6. Files!Restored(y) = y
  BY <1>1, <1>2 DEF Files!Restored, Yamls
<1>. QED
  BY <1>4, <1>5, <1>6 DEF Files!Fail

-----------------------------------------------------------------------------
\* What is known of a confirmation on its way.
LEMMA ConfirmFacts ==
  ASSUME NamesAssumptions, op \in Ops, NEW y, NEW p, Confirming(y, p)
  PROVE  /\ y \in Yamls /\ p \in [Files!All -> Files!Maps] /\ op.name \in Files!All
         /\ op.to \in Files!All /\ "default" \in Files!All
         /\ op.name # "default" /\ op.to # "default" /\ op.name # op.to
         /\ y[op.name].map # 0 /\ p[op.name] # 0 /\ y["default"].map # 0
         /\ y[op.name] = [map |-> y[op.name].map, image |-> op.name]
         /\ y["default"] = [map |-> y["default"].map, image |-> "default"]
         /\ y[op.to] = Files!NoYaml /\ p[op.to] = 0
         /\ op.steps \in 0 .. 7
         /\ yaml = ConfirmedYaml(op.name, op.to, y, op.steps)
         /\ pgm = ConfirmedPgm(op.name, op.to, p, op.steps)
<1>1. /\ y \in Yamls /\ p \in [Files!All -> Files!Maps] /\ op.name \in Files!All
      /\ op.to \in Files!All /\ "default" \in Files!All
      /\ op.name # "default" /\ op.to # "default"
      /\ y[op.name].map # 0 /\ p[op.name] # 0 /\ y["default"].map # 0
      /\ y[op.name].image = op.name /\ y["default"].image = "default"
      /\ y[op.to] = Files!NoYaml /\ p[op.to] = 0
  BY AllNames DEF Confirming, Started, Sound, NamesAssumptions
<1>2. op.name # op.to
  BY <1>1
<1>. QED
  BY <1>1, <1>2 DEF Confirming, Yamls

LEMMA ConfirmGoesOn ==
  ASSUME NamesAssumptions, op \in Ops, op.kind = "confirm", Files!Step, NEW y, NEW p, Confirming(y, p)
  PROVE  Confirming(y, p)'
<1>1. /\ y \in Yamls /\ p \in [Files!All -> Files!Maps] /\ op.name \in Files!All
      /\ op.to \in Files!All /\ "default" \in Files!All
      /\ op.name # "default" /\ op.to # "default" /\ op.name # op.to
      /\ y[op.name] = [map |-> y[op.name].map, image |-> op.name]
      /\ y["default"] = [map |-> y["default"].map, image |-> "default"]
      /\ y[op.to] = Files!NoYaml /\ p[op.to] = 0
      /\ yaml = ConfirmedYaml(op.name, op.to, y, op.steps)
      /\ pgm = ConfirmedPgm(op.name, op.to, p, op.steps)
  BY ConfirmFacts
<1>2. /\ op.steps \in 0 .. 6 /\ op' = [op EXCEPT !.steps = @ + 1]
      /\ op.steps = 0 => yaml' = Files!Moved(yaml, "default", op.to, Files!NoYaml) /\ UNCHANGED <<pgm, active>>
      /\ op.steps = 1 => pgm' = Files!Moved(pgm, "default", op.to, 0) /\ UNCHANGED <<yaml, active>>
      /\ op.steps = 2 => yaml' = Files!Moved(yaml, op.name, "default", Files!NoYaml) /\ UNCHANGED <<pgm, active>>
      /\ op.steps = 3 => pgm' = Files!Moved(pgm, op.name, "default", 0) /\ UNCHANGED <<yaml, active>>
      /\ op.steps = 4 => yaml' = [yaml EXCEPT ![op.to].image = op.to] /\ UNCHANGED <<pgm, active>>
      /\ op.steps = 5 => yaml' = [yaml EXCEPT !["default"].image = "default"] /\ UNCHANGED <<pgm, active>>
      /\ op.steps = 6 => active' = {} /\ UNCHANGED <<yaml, pgm>>
  BY ConfirmStep
<1>3. yaml' = ConfirmedYaml(op.name, op.to, y, op.steps + 1)
  <2>1. CASE op.steps = 0
    BY <1>1, <1>2, <2>1 DEF ConfirmedYaml, Files!Moved, Yamls
  <2>2. CASE op.steps \in {1, 3, 6}
    BY <1>1, <1>2, <2>2 DEF ConfirmedYaml
  <2>3. CASE op.steps = 2
    BY <1>1, <1>2, <2>3 DEF ConfirmedYaml, Files!Moved, Yamls
  <2>4. CASE op.steps = 4
    BY <1>1, <1>2, <2>4 DEF ConfirmedYaml
  <2>5. CASE op.steps = 5
    BY <1>1, <1>2, <2>5 DEF ConfirmedYaml
  <2>. QED
    BY <1>2, <2>1, <2>2, <2>3, <2>4, <2>5
<1>4. pgm' = ConfirmedPgm(op.name, op.to, p, op.steps + 1)
  <2>1. CASE op.steps \in {0, 2, 4, 5, 6}
    BY <1>1, <1>2, <2>1 DEF ConfirmedPgm
  <2>2. CASE op.steps = 1
    BY <1>1, <1>2, <2>2 DEF ConfirmedPgm, Files!Moved
  <2>3. CASE op.steps = 3
    BY <1>1, <1>2, <2>3 DEF ConfirmedPgm, Files!Moved
  <2>. QED
    BY <1>2, <2>1, <2>2, <2>3
<1>5. op'.kind = op.kind /\ op'.name = op.name /\ op'.to = op.to /\ op'.steps = op.steps + 1
  BY <1>2, SameOperation
<1>6. active' \in {active, {}} /\ (op'.steps = 7 => active' = {})
  BY <1>2, <1>5
<1>7. Sound(y, p)'
  BY <1>6 DEF Files!Step, Confirming, Started, Sound
<1>. QED
  BY <1>2, <1>3, <1>4, <1>5, <1>6, <1>7 DEF Confirming, Started

LEMMA ConfirmSucceeds ==
  ASSUME NamesAssumptions, op \in Ops, NEW y, NEW p, Confirming(y, p), op.steps = 7, active = {}
  PROVE  Sound(yaml, pgm)
<1>1. /\ y \in Yamls /\ p \in [Files!All -> Files!Maps] /\ op.name \in Files!All
      /\ op.to \in Files!All /\ "default" \in Files!All
      /\ op.name # "default" /\ op.to # "default" /\ op.name # op.to
      /\ y[op.name].map # 0 /\ p[op.name] # 0
      /\ y[op.name] = [map |-> y[op.name].map, image |-> op.name]
      /\ y["default"] = [map |-> y["default"].map, image |-> "default"] /\ y["default"].map # 0
      /\ y[op.to] = Files!NoYaml /\ p[op.to] = 0
      /\ yaml = ConfirmedYaml(op.name, op.to, y, 7)
      /\ pgm = ConfirmedPgm(op.name, op.to, p, 7)
  BY ConfirmFacts
<1>2. /\ yaml[op.to] = [map |-> y["default"].map, image |-> op.to] /\ pgm[op.to] = p["default"]
      /\ yaml["default"] = [map |-> y[op.name].map, image |-> "default"]
      /\ pgm["default"] = p[op.name]
      /\ yaml[op.name] = Files!NoYaml /\ pgm[op.name] = 0
      /\ \A x \in Files!All \ {op.name, op.to, "default"} : yaml[x] = y[x] /\ pgm[x] = p[x]
  BY <1>1 DEF ConfirmedYaml, ConfirmedPgm
<1>3. yaml \in Yamls /\ pgm \in [Files!All -> Files!Maps]
  BY <1>1 DEF ConfirmedYaml, ConfirmedPgm, Yamls, Files!NoYaml, Files!Maps, NamesAssumptions
<1>4. ASSUME NEW m \in 1 .. saved, m \notin gone
      PROVE  \E n \in Files!All : yaml[n].map = m /\ pgm[n] = m /\ yaml[n].image = n
  <2>1. PICK n \in Files!All : y[n].map = m /\ p[n] = m /\ y[n].image = n
    BY <1>4 DEF Confirming, Started, Sound
  <2>2. CASE n = op.name
    BY <1>1, <1>2, <2>1, <2>2
  <2>3. CASE n = "default"
    <3>1. yaml[op.to].map = m /\ pgm[op.to] = m /\ yaml[op.to].image = op.to
      BY <1>1, <1>2, <2>1, <2>3
    <3>. QED
      BY <1>1, <3>1
  <2>4. CASE n \notin {op.name, "default"}
    <3>1. n # op.to
      BY <1>1, <2>1 DEF Files!NoYaml
    <3>. QED
      BY <1>2, <2>1, <2>4, <3>1
  <2>. QED
    BY <2>2, <2>3, <2>4
<1>5. \A n \in Files!All : y[n].map = 0 => y[n] = Files!NoYaml
  BY DEF Confirming, Started, Sound
<1>6. \A n \in Files!All : yaml[n].map = 0 => yaml[n] = Files!NoYaml
  BY <1>1, <1>2, <1>5
<1>. QED
  BY <1>1, <1>2, <1>3, <1>4, <1>6 DEF Sound

LEMMA ConfirmIsTakenBack ==
  ASSUME NamesAssumptions, op \in Ops, op.kind = "confirm", Files!Fail, NEW y, NEW p, Confirming(y, p)
  PROVE  yaml' = y /\ pgm' = p
<1>1. /\ y \in Yamls /\ p \in [Files!All -> Files!Maps] /\ op.name \in Files!All
      /\ op.to \in Files!All /\ "default" \in Files!All
      /\ op.name # "default" /\ op.to # "default" /\ op.name # op.to /\ op.name \in Names
      /\ y[op.name] = [map |-> y[op.name].map, image |-> op.name]
      /\ y["default"] = [map |-> y["default"].map, image |-> "default"]
      /\ y["default"].map # 0 /\ y[op.name].map # 0
      /\ y[op.to] = Files!NoYaml /\ p[op.to] = 0
      /\ yaml = ConfirmedYaml(op.name, op.to, y, op.steps)
      /\ pgm = ConfirmedPgm(op.name, op.to, p, op.steps)
  BY ConfirmFacts DEF Confirming, Started
<1>2. op.steps \in 0 .. 6
  <2>1. Len(Files!StepsOf(op)) = 7
    BY DEF Files!StepsOf, Files!Confirm
  <2>. QED
    BY <2>1 DEF Files!Fail, Confirming
<1>. DEFINE b == Files!MovedBack(yaml, "yaml", Files!NoYaml)
<1>3. /\ b \in Yamls
      /\ \A x \in Files!All \ {"default", op.name} : b[x] = y[x]
      /\ b["default"].map = y["default"].map /\ b[op.name].map = y[op.name].map
  <2>. DEFINE c == IF op.steps >= 3 THEN Files!Moved(yaml, "default", op.name, Files!NoYaml) ELSE yaml
  <2>1. b = IF op.steps >= 1 THEN Files!Moved(c, op.to, "default", Files!NoYaml) ELSE c
    BY <1>1, <1>2, ConfirmDone DEF Files!MovedBack
  <2>2. /\ yaml \in Yamls /\ Files!NoYaml \in [map : Files!Maps, image : Files!All]
        /\ \A x \in Files!All \ {"default", op.name, op.to} : yaml[x] = y[x]
        /\ op.steps >= 1 => yaml[op.to].map = y["default"].map
        /\ op.steps = 0 => yaml[op.to] = Files!NoYaml /\ yaml["default"].map = y["default"].map
        /\ op.steps < 3 => yaml[op.name].map = y[op.name].map
        /\ op.steps >= 3 => yaml["default"].map = y[op.name].map
    BY <1>1, <1>2 DEF ConfirmedYaml, Yamls, Files!NoYaml, Files!Maps, NamesAssumptions
  <2>. HIDE DEF b
  <2>3. /\ c \in Yamls
        /\ \A x \in Files!All \ {"default", op.name} : c[x] = yaml[x]
        /\ op.steps < 3 => c = yaml
        /\ op.steps >= 3 => c[op.name] = yaml["default"]
    <3>1. CASE op.steps >= 3
      <4>. DEFINE m == Files!Moved(yaml, "default", op.name, Files!NoYaml)
      <4>1. c = m
        BY <3>1
      <4>2. /\ m \in Yamls /\ m[op.name] = yaml["default"]
            /\ \A x \in Files!All \ {"default", op.name} : m[x] = yaml[x]
        BY <1>1, <2>2 DEF Files!Moved, Yamls
      <4>. HIDE DEF c, m
      <4>. QED
        BY <1>2, <3>1, <4>1, <4>2
    <3>2. CASE op.steps < 3
      BY <1>2, <2>2, <3>2
    <3>. QED
      BY <1>2, <3>1, <3>2
  <2>. HIDE DEF c
  <2>4. CASE op.steps = 0
    BY <1>1, <2>1, <2>2, <2>3, <2>4
  <2>5. CASE op.steps >= 1
    <3>1. b \in Yamls
      BY <1>1, <2>1, <2>2, <2>3, <2>5, MovedTyped DEF Yamls
    <3>2. /\ b["default"] = c[op.to] /\ b[op.to] = Files!NoYaml
          /\ \A x \in Files!All \ {"default", op.to} : b[x] = c[x]
      BY <1>1, <2>1, <2>3, <2>5 DEF Files!Moved, Yamls
    <3>. QED
      BY <1>1, <1>2, <2>2, <2>3, <2>5, <3>1, <3>2
  <2>. QED
    BY <1>2, <2>4, <2>5
<1>4. Files!MovedBack(pgm, "pgm", 0) = p
  <2>. DEFINE c == IF op.steps >= 4 THEN Files!Moved(pgm, "default", op.name, 0) ELSE pgm
  <2>1. Files!MovedBack(pgm, "pgm", 0) = IF op.steps >= 2 THEN Files!Moved(c, op.to, "default", 0) ELSE c
    BY <1>1, <1>2, ConfirmDone DEF Files!MovedBack
  <2>2. /\ pgm \in [Files!All -> Files!Maps] /\ 0 \in Files!Maps
        /\ \A x \in Files!All \ {"default", op.name, op.to} : pgm[x] = p[x]
        /\ op.steps < 2 => pgm = p
        /\ op.steps >= 2 => pgm[op.to] = p["default"]
        /\ op.steps < 4 => pgm[op.name] = p[op.name]
        /\ op.steps >= 4 => pgm["default"] = p[op.name]
    BY <1>1, <1>2 DEF ConfirmedPgm, Files!Maps, NamesAssumptions
  <2>3. CASE op.steps < 2
    BY <1>2, <2>1, <2>2, <2>3
  <2>4. CASE op.steps >= 2
    <3>1. /\ c \in [Files!All -> Files!Maps]
          /\ \A x \in Files!All \ {"default", op.name} : c[x] = pgm[x]
          /\ c[op.name] = p[op.name]
      <4>1. CASE op.steps >= 4
        <5>. DEFINE m == Files!Moved(pgm, "default", op.name, 0)
        <5>1. c = m
          BY <4>1
        <5>2. /\ m \in [Files!All -> Files!Maps] /\ m[op.name] = pgm["default"]
              /\ \A x \in Files!All \ {"default", op.name} : m[x] = pgm[x]
          BY <1>1, <2>2 DEF Files!Moved
        <5>. HIDE DEF c, m
        <5>. QED
          BY <1>2, <2>2, <4>1, <5>1, <5>2
      <4>2. CASE op.steps < 4
        BY <1>2, <2>2, <4>2
      <4>. QED
        BY <1>2, <4>1, <4>2
    <3>. HIDE DEF c
    <3>2. Files!MovedBack(pgm, "pgm", 0) = Files!Moved(c, op.to, "default", 0)
      BY <2>1, <2>4
    <3>. DEFINE m == Files!Moved(c, op.to, "default", 0)
    <3>3. /\ m \in [Files!All -> Files!Maps] /\ m["default"] = c[op.to] /\ m[op.to] = 0
          /\ \A x \in Files!All \ {op.to, "default"} : m[x] = c[x]
      BY <1>1, <2>2, <3>1 DEF Files!Moved
    <3>. HIDE DEF m
    <3>4. \A x \in Files!All : m[x] = p[x]
      BY <1>1, <2>2, <2>4, <3>1, <3>3
    <3>5. m = p
      BY <1>1, <3>3, <3>4
    <3>. QED
      BY <3>2, <3>5 DEF m
  <2>. QED
    BY <1>2, <2>3, <2>4
<1>5. Files!Restored(b) = y
  <2>. HIDE DEF b
  <2>. QED
    BY <1>1, <1>3 DEF Files!Restored, Yamls
<1>. QED
  BY <1>4, <1>5 DEF Files!Fail

-----------------------------------------------------------------------------
LEMMA FilesInit == ASSUME NamesAssumptions, Files!Init PROVE Files!TypeOK /\ FilesInv
<1>1. "default" \in Files!All /\ 1 \in Files!Maps /\ 0 \in Files!Maps /\ 1 \in 1 .. MaxMaps
  BY DEF Files!All, Files!Maps, NamesAssumptions
<1>2. Files!TypeOK
  <2>1. Files!NoYaml \in [map : Files!Maps, image : Files!All] /\ Files!NoOp \in Ops
    BY <1>1 DEF Files!NoYaml, Files!NoOp, Ops
  <2>2. /\ yaml \in [Files!All -> [map : Files!Maps, image : Files!All]]
        /\ pgm \in [Files!All -> Files!Maps]
    BY <1>1, <2>1 DEF Files!Init
  <2>. QED
    BY <1>1, <2>1, <2>2 DEF Files!Init, Files!TypeOK, Ops
<1>3. yaml["default"] = [map |-> 1, image |-> "default"] /\ pgm["default"] = 1
  BY <1>1 DEF Files!Init
<1>4. \A n \in Files!All : yaml[n].map = 0 => yaml[n] = Files!NoYaml
  BY DEF Files!Init, Files!NoYaml
<1>5. Sound(yaml, pgm)
  BY <1>1, <1>2, <1>3, <1>4 DEF Files!Init, Files!TypeOK, Sound, Yamls
<1>. QED
  BY <1>2, <1>5 DEF FilesInv, Files!Init, Files!NoOp

LEMMA FilesNext ==
  ASSUME NamesAssumptions, Files!TypeOK, FilesInv, [Files!Next]_Files!vars
  PROVE  FilesInv'
<1>1. yaml \in Yamls /\ pgm \in [Files!All -> Files!Maps] /\ op \in Ops /\ saved \in Files!Maps
      /\ Names \subseteq Files!All /\ Archives \subseteq Files!All /\ "default" \in Files!All
      /\ "default" \notin Names
      /\ Files!NoYaml \in [map : Files!Maps, image : Files!All] /\ Files!NoYaml.map = 0
      /\ 0 \in Files!Maps
  BY AllNames DEF Files!TypeOK, Yamls, Ops, NamesAssumptions, Files!NoYaml, Files!Maps
<1>2. SUFFICES ASSUME ~broken' PROVE FilesInv'
  BY DEF FilesInv
<1>3. ~broken
  BY <1>2 DEF Files!Next, Files!BeginRename, Files!BeginConfirm, Files!Step, Files!End,
     Files!Fail, Files!Delete, Files!DeleteImage, Files!SaveMap, Files!SaveRoute,
              Files!Restart, Files!vars
<1>4. ASSUME NEW kind, NEW n \in Files!All, NEW to \in Files!All, Files!Begin(kind, n, to)
      PROVE  op'.kind = kind /\ op'.name = n /\ op'.to = to /\ op'.steps = 0
  BY <1>4 DEF Files!Begin
<1>5. Files!NoOp.kind = "none"
  BY DEF Files!NoOp
<1>6. op = Files!NoOp => Sound(yaml, pgm)
  BY <1>3, <1>5 DEF FilesInv
<1>7. ASSUME op = Files!NoOp, NEW n \in Names, Files!Valid(n), NEW to \in Files!All, ~Files!Present(to), NEW kind, Files!Begin(kind, n, to),
             UNCHANGED <<yaml, pgm, active, saved, gone>>
      PROVE  Started(yaml, pgm)'
  <2>1. Sound(yaml, pgm)'
    BY <1>6, <1>7 DEF Sound
  <2>2. op'.name = n /\ op'.to = to
    BY <1>1, <1>4, <1>7
  <2>3. yaml[to] = Files!NoYaml
    BY <1>6, <1>7 DEF Sound, Files!Present
  <2>. QED
    BY <1>7, <2>1, <2>2, <2>3 DEF Started, Files!Valid, Files!Present
<1>8. ASSUME NEW n \in Names, NEW to \in Names, Files!BeginRename(n, to) PROVE FilesInv'
  <2>1. op'.kind = "rename" /\ op'.name = n /\ op'.to = to /\ op'.steps = 0
    BY <1>1, <1>4, <1>8 DEF Files!BeginRename
  <2>2. Started(yaml, pgm)'
    BY <1>1, <1>7, <1>8 DEF Files!BeginRename
  <2>3. yaml' = RenamedYaml(n, to, yaml', 0) /\ pgm' = RenamedPgm(n, to, pgm', 0)
    BY <1>1, <1>8 DEF Files!BeginRename, RenamedYaml, RenamedPgm, Yamls
  <2>4. Renaming(yaml, pgm)'
    BY <1>8, <2>1, <2>2, <2>3 DEF Renaming
  <2>5. \E y, p : Renaming(y, p)'
    BY <2>4
  <2>. QED
    BY <2>1, <2>5 DEF FilesInv
<1>9. ASSUME NEW n \in Names, NEW a \in Archives, Files!BeginConfirm(n, a) PROVE FilesInv'
  <2>1. op'.kind = "confirm" /\ op'.name = n /\ op'.to = a /\ op'.steps = 0
    BY <1>1, <1>4, <1>9 DEF Files!BeginConfirm
  <2>2. Started(yaml, pgm)'
    BY <1>1, <1>7, <1>9 DEF Files!BeginConfirm
  <2>3. yaml' = ConfirmedYaml(n, a, yaml', 0) /\ pgm' = ConfirmedPgm(n, a, pgm', 0)
    BY <1>1, <1>9 DEF Files!BeginConfirm, ConfirmedYaml, ConfirmedPgm, Yamls
  <2>4. Confirming(yaml, pgm)'
    BY <1>9, <2>1, <2>2, <2>3 DEF Confirming
  <2>5. \E y, p : Confirming(y, p)'
    BY <2>4
  <2>. QED
    BY <2>1, <2>5 DEF FilesInv
<1>10. CASE Files!Step
  <2>1. op'.kind = op.kind
    BY <1>1, <1>10, SameOperation DEF Files!Step
  <2>2. CASE op.kind = "rename"
    <3>1. PICK y, p : Renaming(y, p)
      BY <1>3, <2>2 DEF FilesInv
    <3>2. Renaming(y, p)'
      BY <1>1, <1>10, <2>2, <3>1, RenameGoesOn
    <3>. QED
      BY <2>1, <2>2, <3>2 DEF FilesInv
  <2>3. CASE op.kind = "confirm"
    <3>1. PICK y, p : Confirming(y, p)
      BY <1>3, <2>3 DEF FilesInv
    <3>2. Confirming(y, p)'
      BY <1>1, <1>10, <2>3, <3>1, ConfirmGoesOn
    <3>. QED
      BY <2>1, <2>3, <3>2 DEF FilesInv
  <2>. QED
    BY <1>10, <2>2, <2>3 DEF Files!Step
<1>11. CASE Files!End
  <2>1. Sound(yaml, pgm)
    <3>1. CASE op.kind = "rename"
      <4>1. PICK y, p : Renaming(y, p)
        BY <1>3, <3>1 DEF FilesInv
      <4>2. op.steps = 3
        <5>1. Len(Files!StepsOf(op)) = 3
          BY <3>1 DEF Files!StepsOf, Files!Rename
        <5>. QED
          BY <1>11, <5>1 DEF Files!End
      <4>. QED
        BY <1>1, <4>1, <4>2, RenameSucceeds
    <3>2. CASE op.kind = "confirm"
      <4>1. PICK y, p : Confirming(y, p)
        BY <1>3, <3>2 DEF FilesInv
      <4>2. op.steps = 7
        <5>1. Len(Files!StepsOf(op)) = 7
          BY <3>2 DEF Files!StepsOf, Files!Confirm
        <5>. QED
          BY <1>11, <5>1 DEF Files!End
      <4>3. active = {}
        BY <4>1, <4>2 DEF Confirming
      <4>. QED
        BY <1>1, <4>1, <4>2, <4>3, ConfirmSucceeds
    <3>. QED
      BY <1>11, <3>1, <3>2 DEF Files!End
  <2>2. Sound(yaml, pgm)'
    BY <1>11, <2>1 DEF Files!End, Sound
  <2>. QED
    BY <1>5, <1>11, <2>2 DEF Files!End, FilesInv
<1>12. CASE Files!Fail
  <2>1. PICK y, p : Sound(y, p) /\ yaml' = y /\ pgm' = p
    <3>1. CASE op.kind = "rename"
      <4>1. PICK y, p : Renaming(y, p)
        BY <1>3, <3>1 DEF FilesInv
      <4>2. yaml' = y /\ pgm' = p
        BY <1>1, <1>12, <3>1, <4>1, RenameIsTakenBack
      <4>3. Sound(y, p)
        BY <4>1 DEF Renaming, Started
      <4>. QED
        BY <4>2, <4>3
    <3>2. CASE op.kind = "confirm"
      <4>1. PICK y, p : Confirming(y, p)
        BY <1>3, <3>2 DEF FilesInv
      <4>2. yaml' = y /\ pgm' = p
        BY <1>1, <1>12, <3>2, <4>1, ConfirmIsTakenBack
      <4>3. Sound(y, p)
        BY <4>1 DEF Confirming, Started
      <4>. QED
        BY <4>2, <4>3
    <3>. QED
      BY <1>12, <3>1, <3>2 DEF Files!Fail
  <2>2. Sound(yaml, pgm)'
    BY <1>12, <2>1 DEF Files!Fail, Sound
  <2>. QED
    BY <1>5, <1>12, <2>2 DEF Files!Fail, FilesInv
<1>13. ASSUME NEW n \in Names, Files!Delete(n) PROVE FilesInv'
  <2>1. op'.kind = "delete" /\ op'.name = n /\ Sound(yaml, pgm) /\ n \in Files!All /\ n # "default"
    BY <1>1, <1>4, <1>6, <1>13 DEF Files!Delete
  <2>2. yaml' = [yaml EXCEPT ![n] = Files!NoYaml] /\ yaml' \in Yamls /\ UNCHANGED <<pgm, active, saved>>
        /\ gone' = gone \cup ({yaml[n].map, pgm[n]} \ {0})
    BY <1>1, <1>13, <2>1 DEF Files!Delete, Yamls
  <2>3. yaml'[n] = Files!NoYaml /\ \A x \in Files!All \ {n} : yaml'[x] = yaml[x]
    BY <1>1, <2>1, <2>2 DEF Yamls
  <2>4. ASSUME NEW m \in 1 .. saved, m \notin gone'
        PROVE  \E x \in Files!All : yaml'[x].map = m /\ pgm'[x] = m /\ yaml'[x].image = x
    <3>1. PICK x \in Files!All : yaml[x].map = m /\ pgm[x] = m /\ yaml[x].image = x
      BY <2>1, <2>2, <2>4 DEF Sound
    <3>2. x # n
      BY <1>1, <2>2, <2>4, <3>1
    <3>. QED
      BY <2>2, <2>3, <3>1, <3>2
  <2>5. Sound(yaml, pgm)'
    BY <1>1, <2>1, <2>2, <2>3, <2>4 DEF Sound
  <2>. QED
    BY <1>1, <1>13, <2>1, <2>3, <2>5 DEF FilesInv
<1>14. CASE Files!DeleteImage
  <2>1. /\ op.name \in Names /\ op.name \in Files!All /\ op.name # "default"
        /\ yaml[op.name].map = 0
        /\ Sound(yaml, pgm) /\ UNCHANGED <<yaml, active, saved, gone>>
        /\ pgm' \in {pgm, [pgm EXCEPT ![op.name] = 0]}
    BY <1>1, <1>3, <1>14 DEF Files!DeleteImage, FilesInv
  <2>2. pgm' \in [Files!All -> Files!Maps] /\ \A x \in Files!All \ {op.name} : pgm'[x] = pgm[x]
    BY <1>1, <2>1
  <2>3. ASSUME NEW m \in 1 .. saved, m \notin gone
        PROVE  \E x \in Files!All : yaml[x].map = m /\ pgm'[x] = m /\ yaml[x].image = x
    <3>1. PICK x \in Files!All : yaml[x].map = m /\ pgm[x] = m /\ yaml[x].image = x
      BY <2>1, <2>3 DEF Sound
    <3>2. x # op.name
      BY <1>1, <2>1, <3>1 DEF Files!Maps
    <3>. QED
      BY <2>2, <3>1, <3>2
  <2>4. Sound(yaml, pgm)'
    BY <1>1, <2>1, <2>2, <2>3 DEF Sound
  <2>. QED
    BY <1>5, <1>14, <2>4 DEF Files!DeleteImage, FilesInv
<1>15. ASSUME NEW n \in Names \cup {"default"}, Files!SaveMap(n) PROVE FilesInv'
  <2>1. /\ n \in Files!All /\ Sound(yaml, pgm) /\ op' = op /\ op.kind = "none"
        /\ saved' = saved + 1 /\ saved + 1 \in Files!Maps \ {0} /\ UNCHANGED active
        /\ yaml' = [yaml EXCEPT ![n] = [map |-> saved + 1, image |-> n]]
        /\ pgm' = [pgm EXCEPT ![n] = saved + 1]
        /\ gone' = gone \cup ({yaml[n].map, pgm[n]} \ {0})
    BY <1>1, <1>5, <1>6, <1>15 DEF Files!SaveMap, Files!Maps, NamesAssumptions
  <2>2. /\ yaml' \in Yamls /\ pgm' \in [Files!All -> Files!Maps]
        /\ yaml'[n].map = saved + 1 /\ yaml'[n].image = n /\ pgm'[n] = saved + 1
        /\ \A x \in Files!All \ {n} : yaml'[x] = yaml[x] /\ pgm'[x] = pgm[x]
    BY <1>1, <2>1 DEF Yamls
  <2>3. ASSUME NEW m \in 1 .. saved', m \notin gone'
        PROVE  \E x \in Files!All : yaml'[x].map = m /\ pgm'[x] = m /\ yaml'[x].image = x
    <3>1. CASE m = saved + 1
      BY <2>1, <2>2, <3>1
    <3>2. CASE m # saved + 1
      <4>1. m \in 1 .. saved
        BY <1>1, <2>1, <3>2 DEF Files!Maps, NamesAssumptions
      <4>2. PICK x \in Files!All : yaml[x].map = m /\ pgm[x] = m /\ yaml[x].image = x
        BY <2>1, <2>3, <4>1 DEF Sound
      <4>3. x # n
        BY <1>1, <2>1, <2>3, <4>1, <4>2
      <4>. QED
        BY <2>2, <4>2, <4>3
    <3>. QED
      BY <3>1, <3>2
  <2>4. \A x \in Files!All : yaml'[x].map = 0 => yaml'[x] = Files!NoYaml
    BY <2>1, <2>2 DEF Sound
  <2>5. yaml'["default"].map # 0 /\ pgm'["default"] # 0 /\ yaml'["default"].image = "default"
    BY <1>1, <2>1, <2>2 DEF Sound
  <2>6. active' \subseteq gone' \cup {pgm'["default"]}
    BY <1>1, <2>1, <2>2 DEF Sound
  <2>7. Sound(yaml, pgm)'
    BY <2>2, <2>3, <2>4, <2>5, <2>6 DEF Sound
  <2>. QED
    BY <2>1, <2>7 DEF FilesInv
<1>16. CASE Files!SaveRoute
  <2>1. Sound(yaml, pgm)'
    BY <1>6, <1>16 DEF Files!SaveRoute, Sound
  <2>. QED
    BY <1>5, <1>16, <2>1 DEF Files!SaveRoute, FilesInv
<1>17. CASE Files!Restart
  BY <1>2, <1>17 DEF Files!Restart
<1>18. CASE UNCHANGED Files!vars
  BY <1>18 DEF Files!vars, FilesInv, Sound, Renaming, Confirming, Started
<1>. QED
  BY <1>8, <1>9, <1>10, <1>11, <1>12, <1>13, <1>14, <1>15, <1>16, <1>17,
     <1>18 DEF Files!Next

\* Between operations navigation has a valid default map, every map that was saved
\* and neither deleted nor overwritten is a valid pair of yaml and image, and the
\* active routes were drawn on the default map, also after a rename or a confirmation
\* that failed at any file operation and was taken back (MapManager.rename_map,
\* confirm_default, _rollback_moves), for any names and any number of maps.
THEOREM MapsAreKept ==
  ASSUME NamesAssumptions
  PROVE  Files!Spec => [](Files!TypeOK /\ Files!MapsSurvive)
<1>1. ASSUME Files!TypeOK, FilesInv PROVE Files!TypeOK /\ Files!MapsSurvive
  BY <1>1 DEF FilesInv, Files!MapsSurvive, Sound, Files!Valid, Files!Whole, Files!NoOp
<1>2. Files!TypeOK /\ FilesInv /\ [Files!Next]_Files!vars => (Files!TypeOK /\ FilesInv)'
  BY FilesTyped, FilesNext
<1>. QED
  BY FilesInit, <1>1, <1>2, PTL DEF Files!Spec

-----------------------------------------------------------------------------
(* The uploads of scenes.  What a caller and the worker have read and not yet used *)
(* stays true until they write (SceneCallerKnows, SceneWorkerKnows).               *)

SceneAssumptions == Sessions # {} /\ Hashes # {} /\ MaxSceneTasks \in Nat \ {0}

SceneRows == [session : Sessions, hash : Hashes, intent : 0 .. MaxSceneTasks, status : Scenes!Statuses, held : BOOLEAN]
SceneCallers == [at : {"idle", "copied", "moved", "inserted", "requeue"},
                 session : Sessions, hash : Hashes, supersedes : 0 .. MaxSceneTasks]
SceneWorkers == [at : {"idle", "taken", "answered", "clean"}, task : Scenes!Tasks, status : Scenes!Statuses]

\* No later task of the session than t.
Newest(t) == \A u \in DOMAIN sceneRows : sceneRows[u].session = sceneRows[t].session => u <= t

\* What a retry read still holds when its task is written.
Superseding ==
  sceneCaller.supersedes # 0 =>
    /\ sceneCaller.supersedes \in DOMAIN sceneRows
    /\ sceneRows[sceneCaller.supersedes].status = "FAILED_FINAL"
    /\ sceneRows[sceneCaller.supersedes].session = sceneCaller.session
    /\ sceneRows[sceneCaller.supersedes].hash = sceneCaller.hash
    /\ Newest(sceneCaller.supersedes)
SceneCallerKnows ==
  /\ sceneCaller.at \in {"copied", "moved"} => Len(sceneRows) < MaxSceneTasks /\ Superseding
  /\ sceneCaller.at = "moved" => /\ Len(sceneRows) + 1 \in sceneDirs
                                 /\ sceneCaller.supersedes = 0 => Scenes!OfSession(sceneCaller.session) = {}
  /\ sceneCaller.at = "inserted" => Len(sceneRows) >= 1
  /\ sceneCaller.at = "requeue" => sceneCaller.supersedes \in DOMAIN sceneRows /\ Newest(sceneCaller.supersedes)

\* What the worker has taken is still to be tried, or is blocked by the configuration.
SceneWorkerKnows ==
  /\ sceneWorker.at \in {"taken", "answered"} =>
        sceneWorker.task \in DOMAIN sceneRows /\ sceneRows[sceneWorker.task].status # "SUCCEEDED"
  /\ sceneWorker.at = "taken" =>
        sceneRows[sceneWorker.task].status \in {"PENDING", "FAILED_RETRYABLE"} \/ (config # "" /\ sceneRows[sceneWorker.task].status = config)
  /\ sceneWorker.at = "answered" =>
        /\ config = "" /\ sceneRows[sceneWorker.task].status \in {"PENDING", "FAILED_RETRYABLE"}
        /\ sceneWorker.status = "SUCCEEDED" => sceneWorker.task \in sceneAccepted

SceneInv ==
  /\ Scenes!TypeOK
  /\ \A t \in DOMAIN sceneRows : sceneRows[t].status = "SUCCEEDED" => t \in sceneAccepted
  /\ \A t \in DOMAIN sceneRows : sceneRows[t].intent < t
  /\ SceneCallerKnows /\ SceneWorkerKnows
  /\ Scenes!SceneSnapshotKept /\ Scenes!OneSceneTaskOpen

-----------------------------------------------------------------------------
LEMMA SceneNothingIs ==
  ASSUME SceneAssumptions
  PROVE  /\ Scenes!NoJob \in SceneCallers /\ Scenes!NoJob.at = "idle"
         /\ Scenes!NoTask \in SceneWorkers /\ Scenes!NoTask.at = "idle"
BY DEF SceneAssumptions, Scenes!NoJob, Scenes!NoTask, SceneCallers, SceneWorkers,
   Scenes!Tasks, Scenes!Statuses

LEMMA SceneInit == ASSUME SceneAssumptions, Scenes!Init PROVE SceneInv
<1>1. sceneRows \in Seq(SceneRows) /\ Len(sceneRows) = 0
  BY EmptySeq DEF Scenes!Init
<1>2. Scenes!TypeOK
  <2>1. Len(sceneRows) <= MaxSceneTasks
    BY <1>1 DEF SceneAssumptions
  <2>2. sceneDirs = {} /\ temp = FALSE /\ sceneCaller \in SceneCallers /\ sceneWorker \in SceneWorkers /\ config \in Scenes!Configurations
        /\ sceneAccepted = {}
    BY SceneNothingIs DEF Scenes!Init, Scenes!Configurations
  <2>. QED
    BY <1>1, <2>1, <2>2 DEF Scenes!TypeOK, SceneRows, SceneCallers, SceneWorkers
<1>3. DOMAIN sceneRows = {}
  BY <1>1
<1>. QED
  BY <1>2, <1>3, SceneNothingIs DEF Scenes!Init, SceneInv, SceneCallerKnows,
     SceneWorkerKnows, Scenes!SceneSnapshotKept, Scenes!OneSceneTaskOpen

LEMMA SceneTypes ==
  ASSUME SceneAssumptions, SceneInv
  PROVE  /\ sceneRows \in Seq(SceneRows) /\ Len(sceneRows) \in Nat
         /\ Len(sceneRows) <= MaxSceneTasks /\ DOMAIN sceneRows = 1 .. Len(sceneRows)
         /\ \A t \in DOMAIN sceneRows : sceneRows[t] \in SceneRows /\ t \in Scenes!Tasks /\ sceneRows[t].intent \in 0 .. MaxSceneTasks
         /\ sceneDirs \subseteq Scenes!Tasks /\ temp \in BOOLEAN /\ sceneCaller \in SceneCallers
         /\ sceneWorker \in SceneWorkers
         /\ config \in Scenes!Configurations /\ sceneAccepted \subseteq Scenes!Tasks
         /\ MaxSceneTasks \in Nat
<1>1. sceneRows \in Seq(SceneRows) /\ Len(sceneRows) <= MaxSceneTasks /\ MaxSceneTasks \in Nat
  BY DEF SceneAssumptions, SceneInv, Scenes!TypeOK, SceneRows
<1>2. /\ Len(sceneRows) \in Nat /\ DOMAIN sceneRows = 1 .. Len(sceneRows)
      /\ \A t \in DOMAIN sceneRows : sceneRows[t] \in SceneRows
  BY <1>1
<1>3. \A t \in DOMAIN sceneRows : t \in Scenes!Tasks /\ sceneRows[t].intent \in 0 .. MaxSceneTasks
  BY <1>1, <1>2 DEF Scenes!Tasks, SceneRows
<1>. QED
  BY <1>1, <1>2, <1>3 DEF SceneInv, Scenes!TypeOK, SceneCallers, SceneWorkers

\* The latest task of a session is the last one.
LEMMA LatestIsNewest ==
  ASSUME SceneAssumptions, SceneInv, NEW s, NEW t0 \in Scenes!OfSession(s)
  PROVE  /\ Scenes!Latest(Scenes!OfSession(s)) \in Scenes!OfSession(s)
         /\ \A u \in Scenes!OfSession(s) : u <= Scenes!Latest(Scenes!OfSession(s))
<1>. DEFINE T == Scenes!OfSession(s)
            D == {Len(sceneRows) - t : t \in T}
<1>1. /\ T \subseteq 1 .. Len(sceneRows) /\ Len(sceneRows) \in Nat /\ t0 \in T
      /\ MaxSceneTasks \in Nat /\ \A t \in T : sceneRows[t].intent \in 0 .. MaxSceneTasks
  BY SceneTypes DEF Scenes!OfSession
<1>2. D \subseteq Nat /\ D # {}
  BY <1>1
<1>3. PICK d \in D : \A e \in D : ~(e < d)
  <2>. HIDE DEF D
  <2>1. \E d \in D : \A e \in D : ~(<<e, d>> \in OpToRel(<, Nat))
    BY <1>2, WFMin, NatLessThanWellFounded
  <2>. QED
    BY <1>2, <2>1 DEF OpToRel
<1>4. PICK m \in T : d = Len(sceneRows) - m
  BY <1>3
<1>5. \A u \in T : u <= m
  <2>1. ASSUME NEW u \in T PROVE u <= m
    <3>1. Len(sceneRows) - u \in D
      OBVIOUS
    <3>2. ~(Len(sceneRows) - u < Len(sceneRows) - m)
      BY <1>3, <1>4, <3>1
    <3>. QED
      BY <1>1, <3>2
  <2>. QED
    BY <2>1
<1>6. \A u \in T : u # m => sceneRows[u].intent < sceneRows[m].intent
  BY <1>1, <1>5 DEF SceneInv, Scenes!OneSceneTaskOpen, Scenes!OfSession
<1>. HIDE DEF T, D
<1>7. \E t \in T : \A u \in T : sceneRows[u].intent <= sceneRows[t].intent
  <2>1. \A u \in T : sceneRows[u].intent <= sceneRows[m].intent
    BY <1>1, <1>6
  <2>. QED
    BY <2>1
<1>8. /\ Scenes!Latest(T) \in T
      /\ \A u \in T : sceneRows[u].intent <= sceneRows[Scenes!Latest(T)].intent
  BY <1>7 DEF Scenes!Latest
<1>9. Scenes!Latest(T) = m
  <2>1. SUFFICES ASSUME Scenes!Latest(T) # m PROVE FALSE
    OBVIOUS
  <2>2. /\ sceneRows[Scenes!Latest(T)].intent < sceneRows[m].intent
        /\ sceneRows[m].intent <= sceneRows[Scenes!Latest(T)].intent
    BY <1>6, <1>8, <2>1
  <2>. QED
    BY <1>1, <1>8, <2>2
<1>. QED
  BY <1>5, <1>8, <1>9 DEF T

-----------------------------------------------------------------------------
\* Only directories of uploads that succeeded go.
LEMMA CleanableIs ==
  ASSUME SceneAssumptions, SceneInv, NEW old \in SUBSET Scenes!Cleanable, NEW need
  PROVE  /\ Scenes!Cleaned(old, need) \subseteq {t \in DOMAIN sceneRows : sceneRows[t].status = "SUCCEEDED"}
         /\ Scenes!Cleaned(old, need) \subseteq sceneAccepted
<1>1. Scenes!Cleaned(old, need) \subseteq Scenes!Cleanable
  BY DEF Scenes!Cleaned, Scenes!Surplus
<1>. QED
  BY <1>1 DEF Scenes!Cleanable, SceneInv

\* A row that gives up its paths stays as it is otherwise.
LEMMA UnheldIs ==
  ASSUME SceneAssumptions, NEW R \in Seq(SceneRows), NEW freed
  PROVE  /\ Scenes!Unheld(R, freed) \in Seq(SceneRows) /\ Len(Scenes!Unheld(R, freed)) = Len(R)
         /\ DOMAIN Scenes!Unheld(R, freed) = DOMAIN R /\ DOMAIN R = 1 .. Len(R) /\ Len(R) \in Nat
         /\ \A t \in DOMAIN R : /\ Scenes!Unheld(R, freed)[t].status = R[t].status
                                /\ Scenes!Unheld(R, freed)[t].session = R[t].session
                                /\ Scenes!Unheld(R, freed)[t].hash = R[t].hash
                                /\ Scenes!Unheld(R, freed)[t].intent = R[t].intent
<1>. DEFINE U == [t \in DOMAIN R |-> [R[t] EXCEPT !.held = R[t].held /\ t \notin freed]]
<1>1. DOMAIN R = 1 .. Len(R) /\ Len(R) \in Nat /\ \A t \in DOMAIN R : R[t] \in SceneRows
  OBVIOUS
<1>2. ASSUME NEW t \in DOMAIN R
      PROVE  /\ U[t] \in SceneRows /\ U[t].status = R[t].status /\ U[t].session = R[t].session
             /\ U[t].hash = R[t].hash /\ U[t].intent = R[t].intent
  <2>1. R[t] \in SceneRows
    BY <1>1
  <2>. DEFINE h == R[t].held /\ t \notin freed
  <2>2. h \in BOOLEAN
    OBVIOUS
  <2>3. U[t] = [R[t] EXCEPT !.held = h]
    OBVIOUS
  <2>. HIDE DEF h, U
  <2>. QED
    BY <2>1, <2>2, <2>3 DEF SceneRows
<1>3. U \in [1 .. Len(R) -> SceneRows] /\ DOMAIN U = 1 .. Len(R)
  BY <1>1, <1>2
<1>. HIDE DEF U
<1>4. U \in Seq(SceneRows) /\ Len(U) = Len(R)
  BY <1>1, <1>3
<1>5. Scenes!Unheld(R, freed) = U
  BY DEF Scenes!Unheld, U
<1>. QED
  BY <1>1, <1>2, <1>3, <1>4, <1>5

\* A row gets another status.
LEMMA FinishedIs ==
  ASSUME SceneAssumptions, sceneRows \in Seq(SceneRows), NEW t \in DOMAIN sceneRows, NEW outcome \in Scenes!Statuses
  PROVE  /\ Scenes!Finished(t, outcome) \in Seq(SceneRows)
         /\ Len(Scenes!Finished(t, outcome)) = Len(sceneRows)
         /\ DOMAIN Scenes!Finished(t, outcome) = DOMAIN sceneRows
         /\ Scenes!Finished(t, outcome)[t].status = outcome
         /\ \A u \in DOMAIN sceneRows : /\ u # t => Scenes!Finished(t, outcome)[u].status = sceneRows[u].status
                                        /\ Scenes!Finished(t, outcome)[u].session = sceneRows[u].session
                                        /\ Scenes!Finished(t, outcome)[u].hash = sceneRows[u].hash
                                        /\ Scenes!Finished(t, outcome)[u].intent = sceneRows[u].intent
<1>. DEFINE new == [sceneRows[t] EXCEPT !.status = outcome]
<1>1. sceneRows[t] \in SceneRows
  OBVIOUS
<1>2. /\ new \in SceneRows /\ new.status = outcome /\ new.session = sceneRows[t].session
      /\ new.hash = sceneRows[t].hash /\ new.intent = sceneRows[t].intent
  BY <1>1 DEF SceneRows
<1>3. Scenes!Finished(t, outcome) = [sceneRows EXCEPT ![t] = new]
  BY DEF Scenes!Finished
<1>. HIDE DEF new
<1>. QED
  BY <1>2, <1>3

-----------------------------------------------------------------------------
(* The rows keep their sessions, hashes and order of intent; one of them, the     *)
(* newest of its session, may get another status; directories of uploads that      *)
(* the platform holds may go.                                                      *)
SceneSame(R) ==
  /\ R \in Seq(SceneRows) /\ Len(R) = Len(sceneRows) /\ DOMAIN R = DOMAIN sceneRows
  /\ \A u \in DOMAIN sceneRows : /\ R[u].session = sceneRows[u].session /\ R[u].hash = sceneRows[u].hash
                                 /\ R[u].intent = sceneRows[u].intent

LEMMA TableKept ==
  ASSUME SceneAssumptions, SceneInv, SceneSame(sceneRows'), sceneAccepted \subseteq sceneAccepted',
         \A t \in sceneDirs \ sceneDirs' : t \in DOMAIN sceneRows => t \in sceneAccepted',
         \A u \in DOMAIN sceneRows :
            \/ sceneRows'[u].status = sceneRows[u].status
            \/ /\ Newest(u) \/ sceneRows'[u].status = "FAILED_FINAL"
               /\ sceneRows'[u].status = "SUCCEEDED" => u \in sceneAccepted'
               /\ sceneRows[u].status # "SUCCEEDED" \/ u \in sceneAccepted'
  PROVE  /\ Scenes!SceneSnapshotKept' /\ Scenes!OneSceneTaskOpen'
         /\ \A t \in DOMAIN sceneRows' : sceneRows'[t].status = "SUCCEEDED" => t \in sceneAccepted'
         /\ \A t \in DOMAIN sceneRows' : sceneRows'[t].intent < t
<1>1. /\ DOMAIN sceneRows' = DOMAIN sceneRows /\ DOMAIN sceneRows = 1 .. Len(sceneRows)
      /\ Len(sceneRows) \in Nat
  BY SceneTypes DEF SceneSame
<1>2. Scenes!SceneSnapshotKept'
  BY <1>1 DEF SceneInv, Scenes!SceneSnapshotKept
<1>3. Scenes!OneSceneTaskOpen'
  <2>1. ASSUME NEW t \in DOMAIN sceneRows, NEW u \in DOMAIN sceneRows, t < u, sceneRows'[t].session = sceneRows'[u].session
        PROVE  /\ sceneRows'[t].status = "FAILED_FINAL" /\ sceneRows'[t].hash = sceneRows'[u].hash
               /\ sceneRows'[t].intent < sceneRows'[u].intent
    <3>1. sceneRows[t].session = sceneRows[u].session
      BY <2>1 DEF SceneSame
    <3>2. /\ sceneRows[t].status = "FAILED_FINAL" /\ sceneRows[t].hash = sceneRows[u].hash
          /\ sceneRows[t].intent < sceneRows[u].intent
      BY <2>1, <3>1 DEF SceneInv, Scenes!OneSceneTaskOpen
    <3>3. ~Newest(t)
      BY <1>1, <2>1, <3>1 DEF Newest
    <3>. QED
      BY <3>2, <3>3 DEF SceneSame
  <2>. QED
    BY <1>1, <2>1 DEF Scenes!OneSceneTaskOpen
<1>4. \A t \in DOMAIN sceneRows' : sceneRows'[t].status = "SUCCEEDED" => t \in sceneAccepted'
  BY <1>1 DEF SceneInv
<1>5. \A t \in DOMAIN sceneRows' : sceneRows'[t].intent < t
  BY <1>1 DEF SceneInv, SceneSame
<1>. QED
  BY <1>2, <1>3, <1>4, <1>5

LEMMA TableUnchanged ==
  ASSUME SceneAssumptions, SceneInv, UNCHANGED sceneRows, sceneAccepted \subseteq sceneAccepted',
         \A t \in sceneDirs \ sceneDirs' : t \in DOMAIN sceneRows => t \in sceneAccepted'
  PROVE  /\ Scenes!SceneSnapshotKept' /\ Scenes!OneSceneTaskOpen'
         /\ \A t \in DOMAIN sceneRows' : sceneRows'[t].status = "SUCCEEDED" => t \in sceneAccepted'
         /\ \A t \in DOMAIN sceneRows' : sceneRows'[t].intent < t
<1>1. SceneSame(sceneRows')
  BY SceneTypes DEF SceneSame
<1>2. \A u \in DOMAIN sceneRows : sceneRows'[u].status = sceneRows[u].status
  OBVIOUS
<1>. QED
  BY <1>1, <1>2, TableKept

LEMMA TypesKept ==
  ASSUME SceneAssumptions, sceneRows' \in Seq(SceneRows), Len(sceneRows') <= MaxSceneTasks, sceneDirs' \subseteq Scenes!Tasks,
         temp' \in BOOLEAN, sceneCaller' \in SceneCallers, sceneWorker' \in SceneWorkers, config' \in Scenes!Configurations,
         sceneAccepted' \subseteq Scenes!Tasks
  PROVE  Scenes!TypeOK'
BY DEF Scenes!TypeOK, SceneRows, SceneCallers, SceneWorkers

LEMMA SameIsNewest ==
  ASSUME SceneSame(sceneRows'), NEW t \in DOMAIN sceneRows
  PROVE  Newest(t)' <=> Newest(t)
BY DEF SceneSame, Newest

LEMMA SameSession ==
  ASSUME SceneSame(sceneRows'), NEW s
  PROVE  Scenes!OfSession(s)' = Scenes!OfSession(s)
BY DEF SceneSame, Scenes!OfSession

\* A task that has not failed for good is the newest of its session.
LEMMA OpenIsNewest ==
  ASSUME SceneAssumptions, SceneInv, NEW t \in DOMAIN sceneRows, sceneRows[t].status # "FAILED_FINAL"
  PROVE  Newest(t)
<1>1. DOMAIN sceneRows = 1 .. Len(sceneRows) /\ Len(sceneRows) \in Nat
  BY SceneTypes
<1>. QED
  BY <1>1 DEF SceneInv, Scenes!OneSceneTaskOpen, Newest

(* The caller waits while the worker writes a row, or has cleaned: what the      *)
(* caller knows stays true.                                                       *)
LEMMA CallerWaits ==
  ASSUME SceneAssumptions, SceneInv, SceneSame(sceneRows'), UNCHANGED sceneCaller,
         Len(sceneRows) + 1 \in sceneDirs => Len(sceneRows) + 1 \in sceneDirs',
         \A u \in DOMAIN sceneRows : sceneRows[u].status = "FAILED_FINAL" => sceneRows'[u].status = "FAILED_FINAL"
  PROVE  SceneCallerKnows'
<1>1. Len(sceneRows') = Len(sceneRows) /\ DOMAIN sceneRows' = DOMAIN sceneRows
  BY DEF SceneSame
<1>2. SceneCallerKnows
  BY DEF SceneInv
<1>3. sceneCaller.at \in {"copied", "moved"} => Superseding'
  BY <1>1, <1>2, SameIsNewest DEF SceneCallerKnows, Superseding, SceneSame
<1>4. Scenes!OfSession(sceneCaller.session)' = Scenes!OfSession(sceneCaller.session)
  BY SameSession
<1>. QED
  BY <1>1, <1>2, <1>3, <1>4, SameIsNewest DEF SceneCallerKnows

(* The worker writes a row, or has cleaned: what it knows of the task it has      *)
(* taken stays true while the caller writes another row, or requeues it.           *)
LEMMA WorkerWaits ==
  ASSUME SceneAssumptions, SceneInv, UNCHANGED <<sceneWorker, config, sceneAccepted>>, DOMAIN sceneRows \subseteq DOMAIN sceneRows',
         \A u \in DOMAIN sceneRows :
            \/ sceneRows'[u].status = sceneRows[u].status
            \/ sceneRows'[u].status = "PENDING"
            \/ config # "" /\ sceneRows'[u].status = config
  PROVE  SceneWorkerKnows'
<1>1. SceneWorkerKnows /\ config \in Scenes!Configurations
  BY SceneTypes DEF SceneInv
<1>2. "PENDING" # "SUCCEEDED" /\ config # "SUCCEEDED"
  BY <1>1 DEF Scenes!Configurations
<1>. QED
  BY <1>1, <1>2 DEF SceneWorkerKnows

LEMMA SceneNext == ASSUME SceneAssumptions, SceneInv, [Scenes!Next]_Scenes!vars PROVE SceneInv'
<1>1. /\ sceneRows \in Seq(SceneRows) /\ Len(sceneRows) \in Nat
      /\ Len(sceneRows) <= MaxSceneTasks /\ DOMAIN sceneRows = 1 .. Len(sceneRows)
      /\ \A t \in DOMAIN sceneRows : sceneRows[t] \in SceneRows /\ t \in Scenes!Tasks /\ sceneRows[t].intent \in 0 .. MaxSceneTasks
      /\ sceneDirs \subseteq Scenes!Tasks /\ temp \in BOOLEAN /\ sceneCaller \in SceneCallers
      /\ sceneWorker \in SceneWorkers
      /\ config \in Scenes!Configurations /\ sceneAccepted \subseteq Scenes!Tasks
      /\ MaxSceneTasks \in Nat
  BY SceneTypes
<1>2. /\ Scenes!NoJob \in SceneCallers /\ Scenes!NoJob.at = "idle"
      /\ Scenes!NoTask \in SceneWorkers /\ Scenes!NoTask.at = "idle"
  BY SceneNothingIs
<1>3. /\ SceneCallerKnows /\ SceneWorkerKnows /\ Scenes!SceneSnapshotKept /\ Scenes!OneSceneTaskOpen
      /\ \A t \in DOMAIN sceneRows : sceneRows[t].status = "SUCCEEDED" => t \in sceneAccepted
      /\ \A t \in DOMAIN sceneRows : sceneRows[t].intent < t
  BY DEF SceneInv
<1>4. SceneSame(sceneRows)
  BY <1>1 DEF SceneSame
\* A copy makes room, and begins unless the disk is full.
<1>5. ASSUME NEW s \in Sessions, NEW h \in Hashes, NEW o \in 0 .. MaxSceneTasks, Scenes!Copy(s, h, o),
             sceneCaller.at = "idle", Len(sceneRows) < MaxSceneTasks, UNCHANGED <<sceneWorker, config, sceneAccepted>>,
             o # 0 => o \in DOMAIN sceneRows /\ sceneRows[o].status = "FAILED_FINAL" /\ sceneRows[o].session = s
                      /\ sceneRows[o].hash = h /\ Newest(o)
      PROVE  SceneInv'
  <2>1. PICK old \in SUBSET Scenes!Cleanable :
          /\ sceneDirs' = sceneDirs \ Scenes!Cleaned(old, 1)
          /\ sceneRows' = Scenes!Unheld(sceneRows, Scenes!Cleaned(old, 1))
          /\ \/ UNCHANGED <<temp, sceneCaller>>
             \/ /\ temp' = TRUE
                /\ sceneCaller' = [at |-> "copied", session |-> s, hash |-> h, supersedes |-> o]
    BY <1>5 DEF Scenes!Copy
  <2>2. Scenes!Cleaned(old, 1) \subseteq sceneAccepted
    BY CleanableIs
  <2>3. /\ SceneSame(sceneRows')
        /\ \A u \in DOMAIN sceneRows : sceneRows'[u].status = sceneRows[u].status
    BY <1>1, <2>1, UnheldIs DEF SceneSame
  <2>4. /\ Scenes!SceneSnapshotKept' /\ Scenes!OneSceneTaskOpen'
        /\ \A t \in DOMAIN sceneRows' : sceneRows'[t].status = "SUCCEEDED" => t \in sceneAccepted'
        /\ \A t \in DOMAIN sceneRows' : sceneRows'[t].intent < t
    BY <1>5, <2>1, <2>2, <2>3, TableKept
  <2>5. /\ sceneCaller' \in SceneCallers /\ temp' \in BOOLEAN
        /\ sceneCaller'.at \in {"idle", "copied"}
        /\ sceneCaller'.at = "copied" => sceneCaller'.supersedes = o /\ sceneCaller'.session = s /\ sceneCaller'.hash = h
    <3>. DEFINE new == [at |-> "copied", session |-> s, hash |-> h, supersedes |-> o]
    <3>1. /\ new \in SceneCallers /\ new.at = "copied" /\ new.supersedes = o /\ new.session = s
          /\ new.hash = h
      BY DEF SceneCallers
    <3>2. (sceneCaller' = sceneCaller /\ temp' = temp) \/ (sceneCaller' = new /\ temp' = TRUE)
      BY <2>1, Zenon
    <3>. HIDE DEF new
    <3>. QED
      BY <1>1, <1>5, <3>1, <3>2
  <2>6. Scenes!TypeOK'
    BY <1>1, <1>5, <2>1, <2>3, <2>5, TypesKept DEF SceneSame
  <2>7. SceneCallerKnows'
    BY <1>5, <2>3, <2>5, SameIsNewest DEF SceneCallerKnows, Superseding, SceneSame
  <2>8. SceneWorkerKnows'
    BY <1>5, <2>3, WorkerWaits DEF SceneSame
  <2>. QED
    BY <2>4, <2>6, <2>7, <2>8 DEF SceneInv
<1>6. ASSUME NEW s \in Sessions, NEW h \in Hashes, Scenes!Enqueue(s, h) PROVE SceneInv'
  BY <1>1, <1>5, <1>6 DEF Scenes!Enqueue
<1>7. CASE Scenes!Drop
  <2>1. Scenes!TypeOK'
    BY <1>1, <1>2, <1>7, TypesKept DEF Scenes!Drop
  <2>2. SceneCallerKnows' /\ SceneWorkerKnows'
    BY <1>2, <1>3, <1>7 DEF Scenes!Drop, SceneCallerKnows, SceneWorkerKnows
  <2>. QED
    BY <1>7, <2>1, <2>2, TableUnchanged DEF Scenes!Drop, SceneInv
<1>8. CASE Scenes!Move
  <2>1. /\ sceneCaller.at = "copied"
        /\ ~Scenes!Repeated /\ temp' = FALSE /\ sceneDirs' = sceneDirs \cup {Len(sceneRows) + 1}
        /\ sceneCaller' = [sceneCaller EXCEPT !.at = "moved"]
        /\ UNCHANGED <<sceneRows, sceneWorker, config, sceneAccepted>>
        /\ Len(sceneRows) < MaxSceneTasks /\ Superseding
    BY <1>3, <1>8 DEF Scenes!Move, SceneCallerKnows
  <2>2. /\ sceneCaller' \in SceneCallers /\ sceneCaller'.at = "moved"
        /\ sceneCaller'.session = sceneCaller.session
        /\ sceneCaller'.hash = sceneCaller.hash /\ sceneCaller'.supersedes = sceneCaller.supersedes
    BY <1>1, <2>1 DEF SceneCallers
  <2>3. Len(sceneRows) + 1 \in Scenes!Tasks
    BY <1>1, <2>1 DEF Scenes!Tasks
  <2>4. Scenes!TypeOK'
    BY <1>1, <2>1, <2>2, <2>3, TypesKept
  <2>5. sceneCaller.supersedes = 0 => Scenes!OfSession(sceneCaller.session) = {}
    BY <2>1 DEF Scenes!Repeated
  <2>6. SceneCallerKnows'
    BY <2>1, <2>2, <2>5 DEF SceneCallerKnows, Superseding, Newest, Scenes!OfSession
  <2>7. SceneWorkerKnows'
    BY <1>3, <2>1 DEF SceneWorkerKnows
  <2>. QED
    BY <2>1, <2>4, <2>6, <2>7, TableUnchanged DEF SceneInv
<1>9. CASE Scenes!Insert
  <2>. DEFINE n == Len(sceneRows) + 1
              i == IF sceneCaller.supersedes = 0 THEN 0 ELSE sceneRows[sceneCaller.supersedes].intent + 1
              new == [session |-> sceneCaller.session, hash |-> sceneCaller.hash, intent |-> i,
                      status |-> "PENDING", held |-> TRUE]
  <2>1. /\ sceneCaller.at = "moved" /\ sceneRows' = Append(sceneRows, new)
        /\ sceneCaller' = [sceneCaller EXCEPT !.at = "inserted"]
        /\ UNCHANGED <<sceneDirs, temp, sceneWorker, config, sceneAccepted>>
        /\ Len(sceneRows) < MaxSceneTasks /\ Superseding /\ n \in sceneDirs
        /\ sceneCaller.supersedes = 0 => Scenes!OfSession(sceneCaller.session) = {}
    BY <1>3, <1>9 DEF Scenes!Insert, SceneCallerKnows
  <2>2. i \in 0 .. MaxSceneTasks /\ i < n
    BY <1>1, <1>3, <2>1 DEF Superseding
  <2>3. new \in SceneRows
    BY <1>1, <2>2 DEF SceneRows, SceneCallers, Scenes!Statuses
  <2>. HIDE DEF new, i
  <2>4. /\ sceneRows' \in Seq(SceneRows) /\ Len(sceneRows') = n /\ DOMAIN sceneRows' = 1 .. n
        /\ sceneRows'[n] = new
        /\ \A t \in DOMAIN sceneRows : sceneRows'[t] = sceneRows[t]
    BY <1>1, <2>1, <2>3
  <2>5. /\ new.session = sceneCaller.session /\ new.hash = sceneCaller.hash /\ new.intent = i
        /\ new.status = "PENDING"
    BY DEF new
  <2>6. sceneCaller' \in SceneCallers /\ sceneCaller'.at = "inserted"
    BY <1>1, <2>1 DEF SceneCallers
  <2>7. Scenes!TypeOK'
    BY <1>1, <2>1, <2>4, <2>6, TypesKept
  <2>8. ASSUME NEW t \in DOMAIN sceneRows, sceneRows[t].session = sceneCaller.session
        PROVE  /\ sceneRows[t].status = "FAILED_FINAL" /\ sceneRows[t].hash = sceneCaller.hash
               /\ sceneRows[t].intent < i
    <3>1. /\ sceneCaller.supersedes # 0 /\ sceneCaller.supersedes \in DOMAIN sceneRows
          /\ sceneRows[sceneCaller.supersedes].status = "FAILED_FINAL"
          /\ sceneRows[sceneCaller.supersedes].session = sceneCaller.session
          /\ sceneRows[sceneCaller.supersedes].hash = sceneCaller.hash
          /\ t <= sceneCaller.supersedes
      BY <2>1, <2>8 DEF Scenes!OfSession, Superseding, Newest
    <3>2. i = sceneRows[sceneCaller.supersedes].intent + 1
      BY <3>1 DEF i
    <3>3. CASE t = sceneCaller.supersedes
      BY <1>1, <3>1, <3>2, <3>3
    <3>4. CASE t # sceneCaller.supersedes
      <4>1. t < sceneCaller.supersedes
        BY <1>1, <3>1, <3>4
      <4>2. sceneRows[t].status = "FAILED_FINAL" /\ sceneRows[t].hash = sceneRows[sceneCaller.supersedes].hash
            /\ sceneRows[t].intent < sceneRows[sceneCaller.supersedes].intent
        BY <1>3, <2>8, <3>1, <4>1 DEF Scenes!OneSceneTaskOpen
      <4>. QED
        BY <1>1, <3>1, <3>2, <4>2
    <3>. QED
      BY <3>3, <3>4
  <2>9. Scenes!OneSceneTaskOpen'
    <3>1. ASSUME NEW t \in DOMAIN sceneRows', NEW u \in DOMAIN sceneRows', t < u, sceneRows'[t].session = sceneRows'[u].session
          PROVE  /\ sceneRows'[t].status = "FAILED_FINAL" /\ sceneRows'[t].hash = sceneRows'[u].hash
                 /\ sceneRows'[t].intent < sceneRows'[u].intent
      <4>1. t \in DOMAIN sceneRows /\ sceneRows'[t] = sceneRows[t]
        BY <1>1, <2>4, <3>1
      <4>2. CASE u = n
        BY <2>4, <2>5, <2>8, <3>1, <4>1, <4>2
      <4>3. CASE u # n
        <5>1. u \in DOMAIN sceneRows /\ sceneRows'[u] = sceneRows[u]
          BY <1>1, <2>4, <4>3
        <5>. QED
          BY <1>3, <3>1, <4>1, <5>1 DEF Scenes!OneSceneTaskOpen
      <4>. QED
        BY <4>2, <4>3
    <3>. QED
      BY <3>1 DEF Scenes!OneSceneTaskOpen
  <2>10. Scenes!SceneSnapshotKept'
    <3>1. ASSUME NEW t \in DOMAIN sceneRows', sceneRows'[t].status # "SUCCEEDED" PROVE t \in sceneDirs' \cup sceneAccepted'
      <4>1. CASE t = n
        BY <2>1, <4>1
      <4>2. CASE t # n
        <5>1. t \in DOMAIN sceneRows /\ sceneRows'[t] = sceneRows[t]
          BY <1>1, <2>4, <4>2
        <5>. QED
          BY <1>3, <2>1, <3>1, <5>1 DEF Scenes!SceneSnapshotKept
      <4>. QED
        BY <4>1, <4>2
    <3>. QED
      BY <3>1 DEF Scenes!SceneSnapshotKept
  <2>11. /\ \A t \in DOMAIN sceneRows' : sceneRows'[t].status = "SUCCEEDED" => t \in sceneAccepted'
         /\ \A t \in DOMAIN sceneRows' : sceneRows'[t].intent < t
    <3>1. ASSUME NEW t \in DOMAIN sceneRows'
          PROVE /\ (sceneRows'[t].status = "SUCCEEDED" => t \in sceneAccepted')
                /\ sceneRows'[t].intent < t
      <4>1. CASE t = n
        BY <2>2, <2>4, <2>5, <4>1
      <4>2. CASE t # n
        <5>1. t \in DOMAIN sceneRows /\ sceneRows'[t] = sceneRows[t]
          BY <1>1, <2>4, <4>2
        <5>. QED
          BY <1>3, <2>1, <5>1
      <4>. QED
        BY <4>1, <4>2
    <3>. QED
      BY <3>1
  <2>12. SceneWorkerKnows'
    <3>1. DOMAIN sceneRows \subseteq DOMAIN sceneRows'
      BY <1>1, <2>4
    <3>. QED
      BY <2>1, <2>4, <3>1, WorkerWaits
  <2>13. SceneCallerKnows'
    BY <1>1, <2>4, <2>6 DEF SceneCallerKnows
  <2>. QED
    BY <2>7, <2>9, <2>10, <2>11, <2>12, <2>13 DEF SceneInv
<1>10. CASE Scenes!InsertFails
  <2>1. /\ sceneDirs' = sceneDirs \ {Len(sceneRows) + 1} /\ sceneCaller' = Scenes!NoJob
        /\ UNCHANGED <<sceneRows, temp, sceneWorker, config, sceneAccepted>>
    BY <1>10 DEF Scenes!InsertFails
  <2>2. Scenes!TypeOK'
    BY <1>1, <1>2, <2>1, TypesKept
  <2>3. SceneCallerKnows' /\ SceneWorkerKnows'
    BY <1>2, <1>3, <2>1 DEF SceneCallerKnows, SceneWorkerKnows
  <2>4. \A t \in sceneDirs \ sceneDirs' : t \notin DOMAIN sceneRows
    BY <1>1, <2>1
  <2>. QED
    BY <2>1, <2>2, <2>3, <2>4, TableUnchanged DEF SceneInv
<1>11. CASE Scenes!Conclude
  <2>. DEFINE n == Len(sceneRows)
              R == IF config = "" THEN sceneRows ELSE Scenes!Finished(n, config)
  <2>1. PICK old \in SUBSET Scenes!Cleanable :
          sceneDirs' = sceneDirs \ Scenes!Cleaned(old, 0) /\ sceneRows' = Scenes!Unheld(R, Scenes!Cleaned(old, 0))
    BY <1>11 DEF Scenes!Conclude
  <2>2. /\ sceneCaller.at = "inserted" /\ sceneCaller' = Scenes!NoJob
        /\ UNCHANGED <<temp, sceneWorker, config, sceneAccepted>>
        /\ n >= 1 /\ n \in DOMAIN sceneRows
    <3>1. /\ sceneCaller.at = "inserted" /\ sceneCaller' = Scenes!NoJob
          /\ UNCHANGED <<temp, sceneWorker, config, sceneAccepted>>
      BY <1>11 DEF Scenes!Conclude
    <3>2. n >= 1
      BY <1>3, <3>1 DEF SceneCallerKnows
    <3>. QED
      BY <1>1, <3>1, <3>2
  <2>3. Scenes!Cleaned(old, 0) \subseteq sceneAccepted
    BY CleanableIs
  <2>4. config # "" => config \in Scenes!Statuses
    BY <1>1 DEF Scenes!Configurations, Scenes!Statuses
  <2>5. /\ R \in Seq(SceneRows) /\ Len(R) = Len(sceneRows) /\ DOMAIN R = DOMAIN sceneRows
        /\ \A u \in DOMAIN sceneRows : /\ R[u].session = sceneRows[u].session /\ R[u].hash = sceneRows[u].hash
                                       /\ R[u].intent = sceneRows[u].intent
                                       /\ R[u].status = sceneRows[u].status \/ (u = n /\ config # "" /\ R[u].status = config)
    <3>1. CASE config = ""
      BY <1>1, <3>1
    <3>2. CASE config # ""
      <4>. DEFINE F == Scenes!Finished(n, config)
      <4>1. /\ F \in Seq(SceneRows) /\ Len(F) = Len(sceneRows) /\ DOMAIN F = DOMAIN sceneRows
            /\ F[n].status = config
            /\ \A u \in DOMAIN sceneRows : /\ u # n => F[u].status = sceneRows[u].status
                                           /\ F[u].session = sceneRows[u].session
                                           /\ F[u].hash = sceneRows[u].hash
                                           /\ F[u].intent = sceneRows[u].intent
        <5>1. n \in DOMAIN sceneRows /\ config \in Scenes!Statuses /\ sceneRows \in Seq(SceneRows)
          BY <1>1, <2>2, <2>4, <3>2
        <5>. HIDE DEF n
        <5>. QED
          BY <5>1, FinishedIs
      <4>2. R = F
        BY <3>2
      <4>. HIDE DEF F, R, n
      <4>. QED
        BY <3>2, <4>1, <4>2
    <3>. QED
      BY <3>1, <3>2
  <2>. HIDE DEF R
  <2>6. SceneSame(sceneRows') /\ \A u \in DOMAIN sceneRows : sceneRows'[u].status = R[u].status
    <3>. DEFINE freed == Scenes!Cleaned(old, 0)
    <3>1. sceneRows' = Scenes!Unheld(R, freed) /\ R \in Seq(SceneRows)
      BY <2>1, <2>5
    <3>. HIDE DEF freed
    <3>2. /\ sceneRows' \in Seq(SceneRows) /\ Len(sceneRows') = Len(R)
          /\ DOMAIN sceneRows' = DOMAIN R
          /\ \A t \in DOMAIN R : /\ sceneRows'[t].status = R[t].status /\ sceneRows'[t].session = R[t].session
                                 /\ sceneRows'[t].hash = R[t].hash
                                 /\ sceneRows'[t].intent = R[t].intent
      BY <3>1, UnheldIs
    <3>. QED
      BY <2>5, <3>2 DEF SceneSame
  <2>7. Newest(n)
    BY <1>1 DEF Newest
  <2>8. /\ config # "SUCCEEDED"
        /\ \A u \in DOMAIN sceneRows : sceneRows[u].status = "SUCCEEDED" => u \in sceneAccepted
    BY <1>1, <1>3 DEF Scenes!Configurations
  <2>9. /\ Scenes!SceneSnapshotKept' /\ Scenes!OneSceneTaskOpen'
        /\ \A t \in DOMAIN sceneRows' : sceneRows'[t].status = "SUCCEEDED" => t \in sceneAccepted'
        /\ \A t \in DOMAIN sceneRows' : sceneRows'[t].intent < t
    BY <2>1, <2>2, <2>3, <2>5, <2>6, <2>7, <2>8, TableKept
  <2>10. Scenes!TypeOK'
    BY <1>1, <1>2, <2>1, <2>2, <2>6, TypesKept DEF SceneSame
  <2>11. SceneWorkerKnows'
    BY <2>2, <2>5, <2>6, WorkerWaits DEF SceneSame
  <2>12. SceneCallerKnows'
    BY <1>2, <2>2 DEF SceneCallerKnows
  <2>. QED
    BY <2>9, <2>10, <2>11, <2>12 DEF SceneInv
<1>12. ASSUME NEW t \in DOMAIN sceneRows, Scenes!Retry(t) PROVE SceneInv'
  <2>1. sceneCaller.at = "idle" /\ UNCHANGED <<sceneWorker, config, sceneAccepted>>
    BY <1>12 DEF Scenes!Retry
  <2>2. CASE /\ sceneRows[t].status \in {"FAILED_RETRYABLE", "CREDENTIAL_BLOCKED"}
             /\ sceneCaller' = [Scenes!NoJob EXCEPT !.at = "requeue", !.supersedes = t]
             /\ UNCHANGED <<sceneRows, sceneDirs, temp>>
    <3>1. t \in 0 .. MaxSceneTasks
      BY <1>1
    <3>2. /\ sceneCaller' \in SceneCallers /\ sceneCaller'.at = "requeue"
          /\ sceneCaller'.supersedes = t
      BY <1>2, <2>2, <3>1 DEF SceneCallers
    <3>3. Newest(t)
      BY <2>2, OpenIsNewest
    <3>4. Scenes!TypeOK'
      BY <1>1, <2>1, <2>2, <3>2, TypesKept
    <3>5. SceneCallerKnows'
      BY <2>2, <3>2, <3>3 DEF SceneCallerKnows, Newest
    <3>6. SceneWorkerKnows'
      BY <1>3, <2>1, <2>2 DEF SceneWorkerKnows
    <3>. QED
      BY <2>1, <2>2, <3>4, <3>5, <3>6, TableUnchanged DEF SceneInv
  <2>3. CASE /\ sceneRows[t].status = "FAILED_FINAL" /\ t = Scenes!Latest(Scenes!OfSession(sceneRows[t].session))
             /\ Len(sceneRows) < MaxSceneTasks
             /\ Scenes!Copy(sceneRows[t].session, sceneRows[t].hash, t)
    <3>1. /\ t \in 0 .. MaxSceneTasks /\ sceneRows[t].session \in Sessions
          /\ sceneRows[t].hash \in Hashes
      BY <1>1 DEF SceneRows
    <3>2. t \in Scenes!OfSession(sceneRows[t].session)
      BY DEF Scenes!OfSession
    <3>3. \A u \in Scenes!OfSession(sceneRows[t].session) : u <= t
      BY <2>3, <3>2, LatestIsNewest
    <3>4. Newest(t)
      BY <3>3 DEF Newest, Scenes!OfSession
    <3>. QED
      BY <1>5, <2>1, <2>3, <3>1, <3>4
  <2>. QED
    BY <1>12, <2>2, <2>3 DEF Scenes!Retry
<1>13. CASE Scenes!Requeue
  <2>. DEFINE t == sceneCaller.supersedes
  <2>1. /\ t \in DOMAIN sceneRows /\ Newest(t) /\ sceneRows' = Scenes!Finished(t, "PENDING")
        /\ sceneCaller' = Scenes!NoJob
        /\ UNCHANGED <<sceneDirs, temp, sceneWorker, config, sceneAccepted>>
    BY <1>3, <1>13 DEF Scenes!Requeue, SceneCallerKnows
  <2>2. "PENDING" \in Scenes!Statuses
    BY DEF Scenes!Statuses
  <2>3. /\ SceneSame(sceneRows')
        /\ \A u \in DOMAIN sceneRows : sceneRows'[u].status = sceneRows[u].status \/ (u = t /\ sceneRows'[u].status = "PENDING")
    BY <1>1, <2>1, <2>2, FinishedIs DEF SceneSame
  <2>4. /\ Scenes!SceneSnapshotKept' /\ Scenes!OneSceneTaskOpen'
        /\ \A u \in DOMAIN sceneRows' : sceneRows'[u].status = "SUCCEEDED" => u \in sceneAccepted'
        /\ \A u \in DOMAIN sceneRows' : sceneRows'[u].intent < u
    BY <1>3, <2>1, <2>3, TableKept
  <2>5. Scenes!TypeOK'
    BY <1>1, <1>2, <2>1, <2>3, TypesKept DEF SceneSame
  <2>6. SceneWorkerKnows'
    BY <2>1, <2>3, WorkerWaits DEF SceneSame
  <2>7. SceneCallerKnows'
    BY <1>2, <2>1 DEF SceneCallerKnows
  <2>. QED
    BY <2>4, <2>5, <2>6, <2>7 DEF SceneInv
<1>14. CASE Scenes!Take
  <2>1. PICK t \in DOMAIN sceneRows :
          /\ sceneRows[t].status \in {"PENDING", "FAILED_RETRYABLE"}
          /\ sceneWorker' = [at |-> "taken", task |-> t, status |-> "PENDING"]
    BY <1>14 DEF Scenes!Take
  <2>2. UNCHANGED <<sceneRows, sceneDirs, temp, sceneCaller, config, sceneAccepted>>
    BY <1>14 DEF Scenes!Take
  <2>3. sceneWorker' \in SceneWorkers /\ sceneWorker'.at = "taken" /\ sceneWorker'.task = t
    BY <1>1, <2>1 DEF SceneWorkers, Scenes!Statuses
  <2>4. Scenes!TypeOK'
    BY <1>1, <2>2, <2>3, TypesKept
  <2>5. SceneWorkerKnows'
    BY <2>1, <2>2, <2>3 DEF SceneWorkerKnows
  <2>6. SceneCallerKnows'
    BY <1>3, <2>2 DEF SceneCallerKnows, Superseding, Newest, Scenes!OfSession
  <2>. QED
    BY <2>2, <2>4, <2>5, <2>6, TableUnchanged DEF SceneInv
<1>15. CASE Scenes!Block
  <2>. DEFINE t == sceneWorker.task
  <2>1. /\ t \in DOMAIN sceneRows /\ sceneRows[t].status # "SUCCEEDED" /\ config # ""
        /\ sceneRows' = Scenes!Finished(t, config)
        /\ sceneWorker' = Scenes!NoTask
        /\ UNCHANGED <<sceneDirs, temp, sceneCaller, config, sceneAccepted>>
        /\ sceneRows[t].status \in {"PENDING", "FAILED_RETRYABLE"} \/ sceneRows[t].status = config
    BY <1>3, <1>15 DEF Scenes!Block, SceneWorkerKnows
  <2>2. config \in Scenes!Statuses /\ config # "SUCCEEDED"
    BY <1>1, <2>1 DEF Scenes!Configurations, Scenes!Statuses
  <2>3. /\ SceneSame(sceneRows')
        /\ \A u \in DOMAIN sceneRows : u # t => sceneRows'[u].status = sceneRows[u].status
        /\ sceneRows'[t].status = config
    <3>1. /\ t \in DOMAIN sceneRows /\ config \in Scenes!Statuses
          /\ sceneRows \in Seq(SceneRows) /\ sceneRows' = Scenes!Finished(t, config)
      BY <1>1, <2>1, <2>2
    <3>. HIDE DEF t
    <3>. QED
      BY <3>1, FinishedIs DEF SceneSame
  <2>4. Newest(t) \/ sceneRows'[t].status = "FAILED_FINAL"
    BY <2>1, <2>3, OpenIsNewest
  <2>5. /\ Scenes!SceneSnapshotKept' /\ Scenes!OneSceneTaskOpen'
        /\ \A u \in DOMAIN sceneRows' : sceneRows'[u].status = "SUCCEEDED" => u \in sceneAccepted'
        /\ \A u \in DOMAIN sceneRows' : sceneRows'[u].intent < u
    BY <2>1, <2>2, <2>3, <2>4, TableKept
  <2>6. Scenes!TypeOK'
    BY <1>1, <1>2, <2>1, <2>3, TypesKept DEF SceneSame
  <2>7. SceneWorkerKnows'
    BY <1>2, <2>1 DEF SceneWorkerKnows
  <2>8. \A u \in DOMAIN sceneRows : sceneRows[u].status = "FAILED_FINAL" => sceneRows'[u].status = "FAILED_FINAL"
    BY <2>1, <2>3
  <2>9. SceneCallerKnows'
    BY <2>1, <2>3, <2>8, CallerWaits
  <2>. QED
    BY <2>5, <2>6, <2>7, <2>9 DEF SceneInv
<1>16. CASE Scenes!Upload
  <2>1. /\ sceneWorker.at = "taken" /\ config = ""
        /\ UNCHANGED <<sceneRows, sceneDirs, temp, sceneCaller, config>>
        /\ sceneAccepted' \in {sceneAccepted, sceneAccepted \cup {sceneWorker.task}}
        /\ \E outcome \in Scenes!Statuses : /\ sceneWorker' = [sceneWorker EXCEPT !.at = "answered", !.status = outcome]
                                            /\ outcome = "SUCCEEDED" => sceneWorker.task \in sceneAccepted'
    <3>1. CASE sceneWorker.task \notin sceneDirs
      BY <1>16, <3>1 DEF Scenes!Upload, Scenes!Statuses
    <3>2. CASE sceneWorker.task \in sceneDirs
      BY <1>16, <3>2 DEF Scenes!Upload
    <3>. QED
      BY <3>1, <3>2
  <2>2. /\ sceneWorker' \in SceneWorkers /\ sceneWorker'.at = "answered"
        /\ sceneWorker'.task = sceneWorker.task
        /\ sceneWorker'.status = "SUCCEEDED" => sceneWorker.task \in sceneAccepted'
    <3>1. PICK outcome \in Scenes!Statuses :
             /\ sceneWorker' = [sceneWorker EXCEPT !.at = "answered", !.status = outcome]
             /\ outcome = "SUCCEEDED" => sceneWorker.task \in sceneAccepted'
      BY <2>1
    <3>2. sceneWorker \in SceneWorkers
      BY <1>1
    <3>3. /\ sceneWorker' \in SceneWorkers /\ sceneWorker'.at = "answered"
          /\ sceneWorker'.task = sceneWorker.task
      BY <3>1, <3>2 DEF SceneWorkers
    <3>4. sceneWorker'.status = outcome
      BY <3>1, <3>2 DEF SceneWorkers
    <3>. QED
      BY <3>1, <3>3, <3>4
  <2>3. sceneAccepted' \subseteq Scenes!Tasks /\ sceneAccepted \subseteq sceneAccepted'
    BY <1>1, <2>1 DEF SceneWorkers
  <2>4. Scenes!TypeOK'
    BY <1>1, <2>1, <2>2, <2>3, TypesKept
  <2>5. SceneWorkerKnows'
    BY <1>3, <2>1, <2>2 DEF SceneWorkerKnows
  <2>6. SceneCallerKnows'
    BY <1>3, <2>1 DEF SceneCallerKnows, Superseding, Newest, Scenes!OfSession
  <2>. QED
    BY <2>1, <2>3, <2>4, <2>5, <2>6, TableUnchanged DEF SceneInv
<1>17. CASE Scenes!Finish
  <2>. DEFINE t == sceneWorker.task
  <2>1. /\ t \in DOMAIN sceneRows /\ sceneRows' = Scenes!Finished(t, sceneWorker.status)
        /\ sceneRows[t].status \in {"PENDING", "FAILED_RETRYABLE"}
        /\ sceneWorker.status = "SUCCEEDED" => t \in sceneAccepted
        /\ sceneWorker' = [Scenes!NoTask EXCEPT !.at = "clean"]
        /\ UNCHANGED <<sceneDirs, temp, sceneCaller, config, sceneAccepted>>
    BY <1>3, <1>17 DEF Scenes!Finish, SceneWorkerKnows
  <2>2. /\ sceneWorker.status \in Scenes!Statuses /\ sceneWorker' \in SceneWorkers
        /\ sceneWorker'.at = "clean"
    BY <1>1, <1>2, <2>1 DEF SceneWorkers
  <2>3. /\ SceneSame(sceneRows')
        /\ \A u \in DOMAIN sceneRows : u # t => sceneRows'[u].status = sceneRows[u].status
        /\ sceneRows'[t].status = sceneWorker.status
    BY <1>1, <2>1, <2>2, FinishedIs DEF SceneSame
  <2>4. Newest(t)
    BY <2>1, OpenIsNewest
  <2>5. /\ Scenes!SceneSnapshotKept' /\ Scenes!OneSceneTaskOpen'
        /\ \A u \in DOMAIN sceneRows' : sceneRows'[u].status = "SUCCEEDED" => u \in sceneAccepted'
        /\ \A u \in DOMAIN sceneRows' : sceneRows'[u].intent < u
    BY <2>1, <2>3, <2>4, TableKept
  <2>6. Scenes!TypeOK'
    BY <1>1, <2>1, <2>2, <2>3, TypesKept DEF SceneSame
  <2>7. SceneWorkerKnows'
    BY <2>2 DEF SceneWorkerKnows
  <2>8. \A u \in DOMAIN sceneRows : sceneRows[u].status = "FAILED_FINAL" => sceneRows'[u].status = "FAILED_FINAL"
    BY <2>1, <2>3
  <2>9. SceneCallerKnows'
    BY <2>1, <2>3, <2>8, CallerWaits
  <2>. QED
    BY <2>5, <2>6, <2>7, <2>9 DEF SceneInv
<1>18. CASE Scenes!Clean
  <2>1. PICK old \in SUBSET Scenes!Cleanable :
          sceneDirs' = sceneDirs \ Scenes!Cleaned(old, 0) /\ sceneRows' = Scenes!Unheld(sceneRows, Scenes!Cleaned(old, 0))
    BY <1>18 DEF Scenes!Clean, Scenes!Cleanup
  <2>2. sceneWorker' = Scenes!NoTask /\ UNCHANGED <<temp, sceneCaller, config, sceneAccepted>>
    BY <1>18 DEF Scenes!Clean
  <2>3. /\ Scenes!Cleaned(old, 0) \subseteq sceneAccepted
        /\ Scenes!Cleaned(old, 0) \subseteq DOMAIN sceneRows
    BY CleanableIs
  <2>4. /\ SceneSame(sceneRows')
        /\ \A u \in DOMAIN sceneRows : sceneRows'[u].status = sceneRows[u].status
    BY <1>1, <2>1, UnheldIs DEF SceneSame
  <2>5. /\ Scenes!SceneSnapshotKept' /\ Scenes!OneSceneTaskOpen'
        /\ \A t \in DOMAIN sceneRows' : sceneRows'[t].status = "SUCCEEDED" => t \in sceneAccepted'
        /\ \A t \in DOMAIN sceneRows' : sceneRows'[t].intent < t
    BY <2>1, <2>2, <2>3, <2>4, TableKept
  <2>6. Scenes!TypeOK'
    BY <1>1, <1>2, <2>1, <2>2, <2>4, TypesKept DEF SceneSame
  <2>7. Len(sceneRows) + 1 \in sceneDirs => Len(sceneRows) + 1 \in sceneDirs'
    BY <1>1, <2>1, <2>3
  <2>8. SceneCallerKnows'
    BY <2>2, <2>4, <2>7, CallerWaits
  <2>9. SceneWorkerKnows'
    BY <1>2, <2>2 DEF SceneWorkerKnows
  <2>. QED
    BY <2>5, <2>6, <2>8, <2>9 DEF SceneInv
<1>19. CASE Scenes!Restart
  <2>1. PICK torn \in SUBSET (IF sceneWorker.at = "clean" THEN Scenes!Cleanable ELSE {}) :
          sceneDirs' = (sceneDirs \cap DOMAIN sceneRows) \ torn
    BY <1>19 DEF Scenes!Restart
  <2>2. /\ sceneCaller' = Scenes!NoJob /\ sceneWorker' = Scenes!NoTask /\ temp' = FALSE
        /\ config' \in Scenes!Configurations
        /\ UNCHANGED <<sceneRows, sceneAccepted>>
    BY <1>19 DEF Scenes!Restart
  <2>3. torn \subseteq sceneAccepted
    BY <1>3 DEF Scenes!Cleanable
  <2>4. Scenes!TypeOK'
    BY <1>1, <1>2, <2>1, <2>2, TypesKept
  <2>5. SceneCallerKnows' /\ SceneWorkerKnows'
    BY <1>2, <2>2 DEF SceneCallerKnows, SceneWorkerKnows
  <2>. QED
    BY <2>1, <2>2, <2>3, <2>4, <2>5, TableUnchanged DEF SceneInv
<1>20. CASE UNCHANGED Scenes!vars
  <2>1. Scenes!TypeOK'
    BY <1>1, <1>20, TypesKept DEF Scenes!vars
  <2>2. SceneCallerKnows' /\ SceneWorkerKnows'
    BY <1>3, <1>20 DEF Scenes!vars, SceneCallerKnows, Superseding, Newest,
       Scenes!OfSession, SceneWorkerKnows
  <2>. QED
    BY <1>20, <2>1, <2>2, TableUnchanged DEF Scenes!vars, SceneInv
<1>. QED
  BY <1>6, <1>7, <1>8, <1>9, <1>10, <1>11, <1>12, <1>13, <1>14, <1>15, <1>16, <1>17, <1>18,
     <1>19, <1>20
     DEF Scenes!Next

\* A scene's task that has not succeeded keeps its snapshot unless the platform holds
\* the model, and of two tasks of a session the older has failed for good, whatever
\* retries, requeues, cleanups and late results come in between, for any sessions,
\* models, numbers of tasks and any room on the disk.
THEOREM ScenesAreKept ==
  ASSUME SceneAssumptions
  PROVE  Scenes!Spec => [](Scenes!TypeOK /\ Scenes!SceneSnapshotKept /\ Scenes!OneSceneTaskOpen)
<1>1. SceneInv => Scenes!TypeOK /\ Scenes!SceneSnapshotKept /\ Scenes!OneSceneTaskOpen
  BY DEF SceneInv
<1>2. SceneInv /\ [Scenes!Next]_Scenes!vars => SceneInv'
  BY SceneNext
<1>. QED
  BY SceneInit, <1>1, <1>2, PTL DEF Scenes!Spec

-----------------------------------------------------------------------------
(* The uploads of maps.  A row's task is its own; what the handler and the worker   *)
(* have read stays true until they write (MapCallerKnows, MapWorkerKnows).          *)

\* There is a map to upload and a task to give it, and a budget is a number of snapshots.
UploadAssumptions == MaxMapTasks \in Nat \ {0} /\ MapContents # {} /\ Budgets \subseteq Nat

Table == [MapContents -> [task : 0 .. MaxMapTasks, status : MapTasks!Statuses, held : BOOLEAN]]
Calls == [at : {"idle", "copied", "create", "restart", "requeue", "discard"},
          content : MapContents, previous : 0 .. MaxMapTasks]
MapWorkers == [at : {"idle", "taken", "answered", "clean"}, content : MapContents, task : MapTasks!Tasks, status : MapTasks!Statuses]

\* A task is of one row, and of one drawn before; what the table says is true.
TableIsSound ==
  /\ \A c, d \in MapContents : mapRow[c].task = mapRow[d].task /\ mapRow[c].task # 0 => c = d
  /\ \A c \in MapContents : /\ mapRow[c].task <= drawn
                            /\ mapRow[c].held => mapRow[c].task # 0
                            /\ mapRow[c].task # 0 /\ mapRow[c].status = "SUCCEEDED" => mapRow[c].task \in mapAccepted

\* What the handler found stays so until it writes: the task it drew is nobody else's,
\* and no lack of space takes what it is about to requeue.
MapCallerKnows ==
  /\ temps <= drawn
  /\ mapCaller.at = "copied" => temps >= 1
  /\ mapCaller.at \in {"copied", "create", "restart"} =>
        drawn >= 1 /\ \A c \in MapContents : mapRow[c].task # drawn
  /\ mapCaller.at \in {"create", "restart"} => drawn \in mapDirs /\ mapCaller.previous = mapRow[mapCaller.content].task
  /\ mapCaller.at = "restart" => mapRow[mapCaller.content].status \in {"FAILED_FINAL", "SUCCEEDED"}
  /\ mapCaller.at \in {"copied", "requeue"} => Cardinality(mapDirs) + temps <= budget
  /\ mapCaller.at = "requeue" =>
        mapRow[mapCaller.content].task # 0 /\ mapRow[mapCaller.content].task \in mapDirs \cup mapAccepted

\* What the worker has taken is still to be tried.
MapWorkerKnows ==
  /\ mapWorker.at \in {"taken", "answered"} =>
        \A c \in MapContents : mapRow[c].task = mapWorker.task => mapRow[c].status \in {"PENDING", "FAILED_RETRYABLE"}
  /\ mapWorker.at = "answered" /\ mapWorker.status = "SUCCEEDED" => mapWorker.task \in mapAccepted

UploadInv == MapTasks!TypeOK /\ TableIsSound /\ MapCallerKnows /\ MapWorkerKnows /\ MapTasks!MapSnapshotKept

-----------------------------------------------------------------------------
LEMMA MapNothingIs ==
  ASSUME UploadAssumptions
  PROVE  /\ MapTasks!NoCall \in Calls /\ MapTasks!NoCall.at = "idle"
         /\ MapTasks!NoTask \in MapWorkers /\ MapTasks!NoTask.at = "idle"
         /\ MapTasks!Absent \in [task : 0 .. MaxMapTasks, status : MapTasks!Statuses, held : BOOLEAN]
         /\ MapTasks!Absent.task = 0
         /\ ~MapTasks!Absent.held
BY DEF UploadAssumptions, MapTasks!NoCall, MapTasks!NoTask, MapTasks!Absent, Calls,
   MapWorkers, MapTasks!Tasks, MapTasks!Statuses

LEMMA UploadInit == ASSUME UploadAssumptions, MapTasks!Init PROVE UploadInv
<1>1. \A c \in MapContents : mapRow[c].task = 0 /\ ~mapRow[c].held
  BY MapNothingIs DEF MapTasks!Init
<1>2. MapTasks!TypeOK
  BY MapNothingIs DEF UploadAssumptions, MapTasks!Init, MapTasks!TypeOK, Calls, MapWorkers
<1>. QED
  BY <1>1, <1>2, MapNothingIs
     DEF UploadAssumptions, MapTasks!Init, UploadInv, TableIsSound, MapCallerKnows,
        MapWorkerKnows, MapTasks!MapSnapshotKept

LEMMA MapTypes ==
  ASSUME UploadAssumptions, UploadInv
  PROVE  /\ mapRow \in Table /\ mapCaller \in Calls /\ mapWorker \in MapWorkers
         /\ mapDirs \subseteq MapTasks!Tasks
         /\ mapAccepted \subseteq MapTasks!Tasks /\ temps \in 0 .. MaxMapTasks
         /\ drawn \in 0 .. MaxMapTasks
         /\ budget \in Nat /\ MapTasks!Tasks = 1 .. MaxMapTasks /\ MaxMapTasks \in Nat
         /\ \A c \in MapContents : mapRow[c].task \in 0 .. MaxMapTasks
BY DEF UploadAssumptions, UploadInv, MapTasks!TypeOK, Table, Calls, MapWorkers,
   MapTasks!Tasks

LEMMA UsedIs ==
  ASSUME NEW D
  PROVE  MapTasks!Used(D) = Cardinality(D) + temps
BY DEF MapTasks!Used, MapTasks!Cardinality, Cardinality

LEMMA SnapshotsAreCounted ==
  ASSUME UploadAssumptions, NEW D \in SUBSET MapTasks!Tasks
  PROVE  IsFiniteSet(D) /\ Cardinality(D) \in Nat
<1>1. 1 \in Int /\ MaxMapTasks \in Int
  BY DEF UploadAssumptions
<1>2. IsFiniteSet(MapTasks!Tasks)
  BY <1>1, FS_Interval DEF MapTasks!Tasks
<1>3. IsFiniteSet(D)
  BY <1>2, FS_Subset
<1>. QED
  BY <1>3, FS_CardinalityType

\* A cleanup takes the directories of rows that ended, and without a lack of space only
\* of rows that succeeded.
LEMMA CleanupKeeps ==
  ASSUME UploadAssumptions, UploadInv, MapTasks!Cleanup
  PROVE  /\ mapDirs' \subseteq mapDirs /\ mapRow' \in Table
         /\ \A c \in MapContents : /\ mapRow'[c].task = mapRow[c].task /\ mapRow'[c].status = mapRow[c].status
                                   /\ mapRow'[c].held => mapRow[c].held
         /\ \A t \in mapDirs \ mapDirs' : \E c \in MapContents :
               mapRow[c].task = t /\ mapRow[c].status \in {"SUCCEEDED", "FAILED_FINAL"}
         /\ Cardinality(mapDirs') <= Cardinality(mapDirs)
         /\ Cardinality(mapDirs) + temps <= budget => mapDirs \ mapDirs' \subseteq mapAccepted
<1>1. PICK old \in SUBSET {c \in MapTasks!Ended("SUCCEEDED") : mapRow[c].held} :
        /\ mapDirs' = mapDirs \ MapTasks!DirsOf(MapTasks!Cleaned(old))
        /\ mapRow' = [c \in MapContents |-> [mapRow[c] EXCEPT !.held = @ /\ c \notin MapTasks!Cleaned(old)]]
  BY DEF MapTasks!Cleanup
<1>2. mapDirs' \subseteq mapDirs
  BY <1>1
<1>3. /\ mapRow' \in Table
      /\ \A c \in MapContents : /\ mapRow'[c].task = mapRow[c].task /\ mapRow'[c].status = mapRow[c].status
                                /\ mapRow'[c].held => mapRow[c].held
  <2>. DEFINE C == MapTasks!Cleaned(old)
  <2>1. mapRow' = [c \in MapContents |-> [mapRow[c] EXCEPT !.held = mapRow[c].held /\ c \notin C]]
    BY <1>1
  <2>. HIDE DEF C
  <2>2. \A c \in MapContents : mapRow[c] \in [task : 0 .. MaxMapTasks, status : MapTasks!Statuses, held : BOOLEAN]
    BY MapTypes DEF Table
  <2>3. ASSUME NEW c \in MapContents
        PROVE  /\ [mapRow[c] EXCEPT !.held = mapRow[c].held /\ c \notin C]
                     \in [task : 0 .. MaxMapTasks, status : MapTasks!Statuses, held : BOOLEAN]
               /\ mapRow'[c].task = mapRow[c].task /\ mapRow'[c].status = mapRow[c].status
               /\ mapRow'[c].held = (mapRow[c].held /\ c \notin C)
    <3>1. /\ mapRow[c].task \in 0 .. MaxMapTasks /\ mapRow[c].status \in MapTasks!Statuses
          /\ mapRow[c].held \in BOOLEAN
          /\ mapRow[c] = [task |-> mapRow[c].task, status |-> mapRow[c].status, held |-> mapRow[c].held]
      BY <2>2
    <3>2. [mapRow[c] EXCEPT !.held = mapRow[c].held /\ c \notin C]
            = [task |-> mapRow[c].task, status |-> mapRow[c].status, held |-> mapRow[c].held /\ c \notin C]
      BY <3>1
    <3>3. (mapRow[c].held /\ c \notin C) \in BOOLEAN
      OBVIOUS
    <3>4. mapRow'[c] = [task |-> mapRow[c].task, status |-> mapRow[c].status, held |-> mapRow[c].held /\ c \notin C]
      BY <2>1, <3>2
    <3>. DEFINE entry == [task |-> mapRow[c].task, status |-> mapRow[c].status,
                          held |-> mapRow[c].held /\ c \notin C]
    <3>5. entry \in [task : 0 .. MaxMapTasks, status : MapTasks!Statuses, held : BOOLEAN]
      BY <3>1, <3>3
    <3>6. /\ entry.task = mapRow[c].task /\ entry.status = mapRow[c].status
          /\ entry.held = (mapRow[c].held /\ c \notin C)
      OBVIOUS
    <3>. HIDE DEF entry
    <3>7. [mapRow[c] EXCEPT !.held = mapRow[c].held /\ c \notin C] = entry /\ mapRow'[c] = entry
      BY <3>2, <3>4 DEF entry
    <3>. QED
      BY <3>5, <3>6, <3>7
  <2>. QED
    BY <2>1, <2>3 DEF Table
<1>4. MapTasks!Surplus(old) \subseteq {c \in MapTasks!Ended("SUCCEEDED") : mapRow[c].held}
  BY DEF MapTasks!Surplus
<1>5. MapTasks!Cleaned(old) \subseteq {c \in MapContents : mapRow[c].task # 0 /\ mapRow[c].status \in {"SUCCEEDED", "FAILED_FINAL"}}
  <2>1. MapTasks!Reclaimable \subseteq {c \in MapContents : mapRow[c].task # 0 /\ mapRow[c].status \in {"SUCCEEDED", "FAILED_FINAL"}}
    BY DEF MapTasks!Reclaimable, UploadInv, TableIsSound
  <2>2. MapTasks!Ended("SUCCEEDED")
          \subseteq {c \in MapContents : mapRow[c].task # 0 /\ mapRow[c].status \in {"SUCCEEDED", "FAILED_FINAL"}}
    BY DEF MapTasks!Ended
  <2>. QED
    BY <1>4, <2>1, <2>2 DEF MapTasks!Cleaned
<1>6. \A t \in mapDirs \ mapDirs' : \E c \in MapTasks!Cleaned(old) : mapRow[c].task = t
  BY <1>1 DEF MapTasks!DirsOf
<1>7. IsFiniteSet(mapDirs)
  BY MapTypes, SnapshotsAreCounted
<1>8. Cardinality(mapDirs') <= Cardinality(mapDirs)
  BY <1>2, <1>7, FS_Subset
<1>9. ASSUME Cardinality(mapDirs) + temps <= budget PROVE mapDirs \ mapDirs' \subseteq mapAccepted
  <2>1. MapTasks!Cleaned(old) = MapTasks!Surplus(old)
    <3>1. ASSUME NEW D \in SUBSET mapDirs PROVE ~(MapTasks!Used(D) > budget)
      <4>1. IsFiniteSet(D) /\ Cardinality(D) <= Cardinality(mapDirs)
        BY <1>7, FS_Subset
      <4>2. /\ Cardinality(D) \in Nat /\ Cardinality(mapDirs) \in Nat /\ temps \in Nat
            /\ budget \in Nat
        BY <4>1, SnapshotsAreCounted, MapTypes
      <4>. QED
        BY <1>9, <4>1, <4>2, UsedIs
    <3>. QED
      BY <3>1 DEF MapTasks!Cleaned
  <2>2. \A c \in MapTasks!Surplus(old) : mapRow[c].task \in mapAccepted
    BY <1>4 DEF MapTasks!Ended, UploadInv, TableIsSound
  <2>. QED
    BY <1>6, <2>1, <2>2
<1>. QED
  BY <1>2, <1>3, <1>5, <1>6, <1>8, <1>9

\* What stays true through a cleanup.
LEMMA CleanupStep ==
  ASSUME UploadAssumptions, UploadInv, MapTasks!Cleanup, UNCHANGED <<drawn, mapAccepted>>
  PROVE  /\ TableIsSound' /\ MapTasks!MapSnapshotKept'
         /\ drawn \in mapDirs /\ (\A c \in MapContents : mapRow[c].task # drawn) => drawn \in mapDirs'
<1>1. /\ mapDirs' \subseteq mapDirs
      /\ \A c \in MapContents : /\ mapRow'[c].task = mapRow[c].task /\ mapRow'[c].status = mapRow[c].status
                                /\ mapRow'[c].held => mapRow[c].held
      /\ \A t \in mapDirs \ mapDirs' : \E c \in MapContents :
               mapRow[c].task = t /\ mapRow[c].status \in {"SUCCEEDED", "FAILED_FINAL"}
  BY CleanupKeeps
<1>2. TableIsSound'
  BY <1>1 DEF UploadInv, TableIsSound
<1>3. ASSUME NEW c \in MapContents, mapRow'[c].task > 0, mapRow'[c].status \in {"PENDING", "FAILED_RETRYABLE"}
      PROVE  mapRow'[c].task \in mapDirs' \cup mapAccepted'
  <2>1. mapRow[c].task \in mapDirs \cup mapAccepted /\ mapRow[c].task # 0
    BY <1>1, <1>3, MapTypes DEF UploadInv, MapTasks!MapSnapshotKept
  <2>2. mapRow[c].task \notin mapDirs \ mapDirs'
    <3>1. SUFFICES ASSUME mapRow[c].task \in mapDirs \ mapDirs' PROVE FALSE
      OBVIOUS
    <3>2. PICK d \in MapContents : mapRow[d].task = mapRow[c].task /\ mapRow[d].status \in {"SUCCEEDED", "FAILED_FINAL"}
      BY <1>1, <3>1
    <3>3. d = c
      BY <2>1, <3>2 DEF UploadInv, TableIsSound
    <3>. QED
      BY <1>1, <1>3, <3>2, <3>3
  <2>. QED
    BY <1>1, <2>1, <2>2
<1>. QED
  BY <1>1, <1>2, <1>3 DEF MapTasks!MapSnapshotKept

\* One row is rewritten.
LEMMA RowIs ==
  ASSUME UploadAssumptions, UploadInv, NEW c \in MapContents,
         NEW new \in [task : 0 .. MaxMapTasks, status : MapTasks!Statuses, held : BOOLEAN],
         mapRow' = [mapRow EXCEPT ![c] = new]
  PROVE  /\ mapRow' \in Table /\ mapRow'[c] = new
         /\ \A d \in MapContents \ {c} : mapRow'[d] = mapRow[d]
BY MapTypes DEF Table

LEMMA UploadNext == ASSUME UploadAssumptions, UploadInv, [MapTasks!Next]_MapTasks!vars PROVE UploadInv'
<1>. DEFINE One == [task : 0 .. MaxMapTasks, status : MapTasks!Statuses, held : BOOLEAN]
<1>1. /\ mapRow \in Table /\ mapCaller \in Calls /\ mapWorker \in MapWorkers
      /\ mapDirs \subseteq MapTasks!Tasks
      /\ mapAccepted \subseteq MapTasks!Tasks /\ temps \in 0 .. MaxMapTasks
      /\ drawn \in 0 .. MaxMapTasks
      /\ budget \in Nat /\ MapTasks!Tasks = 1 .. MaxMapTasks /\ MaxMapTasks \in Nat
      /\ mapCaller.content \in MapContents /\ mapCaller.previous \in 0 .. MaxMapTasks
      /\ mapWorker.task \in MapTasks!Tasks
      /\ \A c \in MapContents : mapRow[c].task \in 0 .. MaxMapTasks
  BY MapTypes DEF Calls, MapWorkers
<1>2. /\ MapTasks!NoCall \in Calls /\ MapTasks!NoCall.at = "idle"
      /\ MapTasks!NoTask \in MapWorkers /\ MapTasks!NoTask.at = "idle"
  BY MapNothingIs
<1>3. ASSUME mapRow' \in Table, mapCaller' \in Calls, mapWorker' \in MapWorkers, mapDirs' \subseteq MapTasks!Tasks,
             mapAccepted' \subseteq MapTasks!Tasks, temps' \in 0 .. MaxMapTasks, drawn' \in 0 .. MaxMapTasks, budget' \in Budgets
      PROVE  MapTasks!TypeOK'
  BY <1>3 DEF MapTasks!TypeOK, Table, Calls, MapWorkers
<1>4. budget \in Budgets
  BY DEF UploadInv, MapTasks!TypeOK
<1>5. TableIsSound /\ MapCallerKnows /\ MapWorkerKnows /\ MapTasks!MapSnapshotKept
  BY DEF UploadInv
<1>6. ASSUME NEW c \in MapContents, MapTasks!Enqueue(c) PROVE UploadInv'
  <2>1. /\ MapTasks!Cleanup /\ UNCHANGED <<mapWorker, budget, mapAccepted>>
        /\ mapCaller.at = "idle" /\ drawn < MaxMapTasks
    BY <1>6 DEF MapTasks!Enqueue
  <2>2. /\ mapDirs' \subseteq mapDirs /\ mapRow' \in Table
        /\ \A d \in MapContents : /\ mapRow'[d].task = mapRow[d].task /\ mapRow'[d].status = mapRow[d].status
                                  /\ mapRow'[d].held => mapRow[d].held
        /\ \A t \in mapDirs \ mapDirs' : \E d \in MapContents :
               mapRow[d].task = t /\ mapRow[d].status \in {"SUCCEEDED", "FAILED_FINAL"}
    BY <2>1, CleanupKeeps
  <2>3. CASE UNCHANGED <<temps, drawn, mapCaller>>
    <3>1. TableIsSound' /\ MapTasks!MapSnapshotKept'
      BY <2>1, <2>3, CleanupStep
    <3>2. MapWorkerKnows'
      BY <1>5, <2>1, <2>2 DEF MapWorkerKnows
    <3>3. MapCallerKnows'
      BY <1>5, <2>1, <2>3 DEF MapCallerKnows
    <3>4. MapTasks!TypeOK'
      BY <1>1, <1>3, <1>4, <2>1, <2>2, <2>3
    <3>. QED
      BY <3>1, <3>2, <3>3, <3>4 DEF UploadInv
  <2>4. CASE /\ ~(MapTasks!Used(mapDirs') + 1 > budget) /\ temps' = temps + 1 /\ drawn' = drawn + 1
             /\ mapCaller' = [MapTasks!NoCall EXCEPT !.at = "copied", !.content = c]
    <3>1. mapCaller' \in Calls /\ mapCaller'.at = "copied"
      BY <1>2, <2>4 DEF Calls
    <3>2. MapTasks!MapSnapshotKept'
      <4>1. ASSUME NEW d \in MapContents, mapRow'[d].task > 0, mapRow'[d].status \in {"PENDING", "FAILED_RETRYABLE"}
            PROVE  mapRow'[d].task \in mapDirs' \cup mapAccepted'
        <5>1. mapRow[d].task \in mapDirs \cup mapAccepted /\ mapRow[d].task # 0
          BY <1>1, <1>5, <2>2, <4>1 DEF MapTasks!MapSnapshotKept
        <5>2. mapRow[d].task \notin mapDirs \ mapDirs'
          <6>1. SUFFICES ASSUME mapRow[d].task \in mapDirs \ mapDirs' PROVE FALSE
            OBVIOUS
          <6>2. PICK e \in MapContents :
                  mapRow[e].task = mapRow[d].task /\ mapRow[e].status \in {"SUCCEEDED", "FAILED_FINAL"}
            BY <2>2, <6>1
          <6>3. e = d
            BY <1>5, <5>1, <6>2 DEF TableIsSound
          <6>. QED
            BY <2>2, <4>1, <6>2, <6>3
        <5>. QED
          BY <2>1, <2>2, <5>1, <5>2
      <4>. QED
        BY <4>1 DEF MapTasks!MapSnapshotKept
    <3>3. TableIsSound'
      BY <1>1, <1>5, <2>1, <2>2, <2>4 DEF TableIsSound
    <3>4. MapWorkerKnows'
      BY <1>5, <2>1, <2>2 DEF MapWorkerKnows
    <3>5. Cardinality(mapDirs') \in Nat
      BY <1>1, <2>2, SnapshotsAreCounted
    <3>6. Cardinality(mapDirs') + temps' <= budget'
      BY <1>1, <2>1, <2>4, <3>5, UsedIs
    <3>7. \A d \in MapContents : mapRow'[d].task # drawn'
      BY <1>1, <1>5, <2>2, <2>4 DEF TableIsSound
    <3>8. MapCallerKnows'
      BY <1>1, <1>5, <2>4, <3>1, <3>6, <3>7 DEF MapCallerKnows
    <3>9. temps' \in 0 .. MaxMapTasks /\ drawn' \in 0 .. MaxMapTasks
      BY <1>1, <1>5, <2>1, <2>4 DEF MapCallerKnows
    <3>10. MapTasks!TypeOK'
      BY <1>1, <1>3, <1>4, <2>1, <2>2, <3>1, <3>9
    <3>. QED
      BY <3>2, <3>3, <3>4, <3>8, <3>10 DEF UploadInv
  <2>. QED
    BY <1>6, <2>3, <2>4 DEF MapTasks!Enqueue
<1>7. CASE MapTasks!Lookup
  <2>. DEFINE r == mapRow[mapCaller.content]
              moves == r.task = 0 \/ r.status \in {"FAILED_FINAL", "SUCCEEDED"}
              at == IF r.task = 0 THEN "create" ELSE IF moves THEN "restart"
                    ELSE IF r.status = "FAILED_RETRYABLE" THEN "requeue" ELSE "discard"
  <2>1. /\ mapCaller.at = "copied" /\ mapDirs' = IF moves THEN mapDirs \cup {drawn} ELSE mapDirs
        /\ temps' = temps - 1
        /\ mapCaller' = [mapCaller EXCEPT !.at = at, !.previous = r.task]
        /\ UNCHANGED <<mapRow, drawn, mapWorker, budget, mapAccepted>>
    BY <1>7 DEF MapTasks!Lookup
  <2>2. /\ mapCaller' \in Calls /\ mapCaller'.at = at /\ mapCaller'.previous = r.task
        /\ mapCaller'.content = mapCaller.content
    BY <1>1, <2>1 DEF Calls
  <2>3. /\ temps >= 1 /\ temps <= drawn /\ drawn >= 1 /\ Cardinality(mapDirs) + temps <= budget
        /\ \A c \in MapContents : mapRow[c].task # drawn
    BY <1>5, <2>1 DEF MapCallerKnows
  <2>4. temps' \in 0 .. MaxMapTasks /\ temps' <= drawn /\ temps' \in Int
    BY <1>1, <2>1, <2>3
  <2>5. mapDirs' \subseteq MapTasks!Tasks /\ mapDirs \subseteq mapDirs'
    BY <1>1, <2>1, <2>3
  <2>6. MapTasks!TypeOK'
    BY <1>1, <1>3, <1>4, <2>1, <2>2, <2>4, <2>5
  <2>7. TableIsSound' /\ MapWorkerKnows' /\ MapTasks!MapSnapshotKept'
    BY <1>5, <2>1, <2>5 DEF TableIsSound, MapWorkerKnows, MapTasks!MapSnapshotKept
  <2>8. mapCaller'.at \in {"create", "restart"} => drawn \in mapDirs'
    BY <2>1, <2>2
  <2>9. mapCaller'.at = "restart" => r.status \in {"FAILED_FINAL", "SUCCEEDED"}
    BY <2>2
  <2>10. ASSUME mapCaller'.at \in {"copied", "requeue"}
         PROVE  /\ Cardinality(mapDirs') + temps' <= budget /\ r.task # 0
                /\ r.task \in mapDirs' \cup mapAccepted
    <3>1. at = "requeue" /\ ~moves /\ r.task # 0 /\ r.status = "FAILED_RETRYABLE"
      BY <2>2, <2>10
    <3>2. mapDirs' = mapDirs
      BY <2>1, <3>1
    <3>3. Cardinality(mapDirs) \in Nat
      BY <1>1, SnapshotsAreCounted
    <3>4. r.task > 0
      BY <1>1, <3>1
    <3>. QED
      BY <1>1, <1>5, <2>1, <2>3, <3>1, <3>2, <3>3, <3>4 DEF MapTasks!MapSnapshotKept
  <2>. HIDE DEF at, moves
  <2>11. mapCaller'.at # "copied"
    BY <2>2 DEF at
  <2>12. MapCallerKnows'
    BY <2>1, <2>2, <2>3, <2>4, <2>8, <2>9, <2>10, <2>11 DEF MapCallerKnows
  <2>. QED
    BY <2>6, <2>7, <2>12 DEF UploadInv
<1>8. CASE MapTasks!Abandon
  <2>1. /\ temps' = temps - 1 /\ mapCaller' = MapTasks!NoCall /\ temps >= 1 /\ temps <= drawn
        /\ UNCHANGED <<mapRow, mapDirs, drawn, mapWorker, budget, mapAccepted>>
    BY <1>5, <1>8 DEF MapTasks!Abandon, MapCallerKnows
  <2>2. temps' \in 0 .. MaxMapTasks /\ temps' <= drawn
    BY <1>1, <2>1
  <2>3. MapTasks!TypeOK'
    BY <1>1, <1>2, <1>3, <1>4, <2>1, <2>2
  <2>. QED
    BY <1>2, <1>5, <2>1, <2>2, <2>3
       DEF UploadInv, TableIsSound, MapCallerKnows, MapWorkerKnows, MapTasks!MapSnapshotKept
<1>9. CASE MapTasks!Write
  <2>1. /\ mapCaller.at \in {"create", "restart"}
        /\ mapRow' = [mapRow EXCEPT ![mapCaller.content] = MapTasks!NewRow]
        /\ mapDirs' = mapDirs \ {mapCaller.previous}
        /\ mapCaller' = [mapCaller EXCEPT !.at = "discard"]
        /\ UNCHANGED <<temps, drawn, mapWorker, budget, mapAccepted>>
    BY <1>9 DEF MapTasks!Write
  <2>2. /\ drawn >= 1 /\ (\A c \in MapContents : mapRow[c].task # drawn) /\ drawn \in mapDirs
        /\ mapCaller.previous = mapRow[mapCaller.content].task
    BY <1>5, <2>1 DEF MapCallerKnows
  <2>3. /\ MapTasks!NewRow \in One /\ MapTasks!NewRow.task = drawn
        /\ MapTasks!NewRow.status = "PENDING"
    BY <1>1 DEF MapTasks!NewRow, MapTasks!Statuses
  <2>. HIDE DEF One
  <2>4. mapRow' \in Table /\ mapRow'[mapCaller.content] = MapTasks!NewRow
        /\ \A d \in MapContents \ {mapCaller.content} : mapRow'[d] = mapRow[d]
    BY <1>1, <2>1, <2>3, RowIs DEF One
  <2>5. mapCaller' \in Calls /\ mapCaller'.at = "discard"
    BY <1>1, <2>1 DEF Calls
  <2>6. MapTasks!TypeOK'
    BY <1>1, <1>3, <1>4, <2>1, <2>4, <2>5
  <2>7. TableIsSound'
    <3>1. \A c \in MapContents : mapRow'[c].task <= drawn /\ (mapRow'[c].held => mapRow'[c].task # 0)
                              /\ (mapRow'[c].task # 0 /\ mapRow'[c].status = "SUCCEEDED" => mapRow'[c].task \in mapAccepted)
      BY <1>1, <1>5, <2>2, <2>3, <2>4 DEF TableIsSound
    <3>2. \A c, d \in MapContents : mapRow'[c].task = mapRow'[d].task /\ mapRow'[c].task # 0 => c = d
      BY <1>5, <2>2, <2>3, <2>4 DEF TableIsSound
    <3>. QED
      BY <2>1, <3>1, <3>2 DEF TableIsSound
  <2>8. MapTasks!MapSnapshotKept'
    <3>1. ASSUME NEW c \in MapContents, mapRow'[c].task > 0, mapRow'[c].status \in {"PENDING", "FAILED_RETRYABLE"}
          PROVE  mapRow'[c].task \in mapDirs' \cup mapAccepted'
      <4>1. CASE c = mapCaller.content
        BY <1>1, <2>1, <2>2, <2>3, <2>4, <4>1
      <4>2. CASE c # mapCaller.content
        <5>1. mapRow[c].task \in mapDirs \cup mapAccepted /\ mapRow[c].task # 0
          BY <1>1, <1>5, <2>4, <3>1, <4>2 DEF MapTasks!MapSnapshotKept
        <5>2. mapRow[c].task # mapCaller.previous
          BY <1>1, <1>5, <2>2, <4>2, <5>1 DEF TableIsSound
        <5>. QED
          BY <2>1, <2>4, <4>2, <5>1, <5>2
      <4>. QED
        BY <4>1, <4>2
    <3>. QED
      BY <3>1 DEF MapTasks!MapSnapshotKept
  <2>9. MapWorkerKnows'
    BY <1>5, <2>1, <2>3, <2>4 DEF MapWorkerKnows
  <2>10. MapCallerKnows'
    BY <1>5, <2>1, <2>5 DEF MapCallerKnows
  <2>. QED
    BY <2>6, <2>7, <2>8, <2>9, <2>10 DEF UploadInv
<1>10. CASE MapTasks!WriteFails
  <2>1. /\ mapCaller.at \in {"create", "restart"} /\ mapDirs' = mapDirs \ {drawn}
        /\ mapCaller' = MapTasks!NoCall
        /\ UNCHANGED <<mapRow, temps, drawn, mapWorker, budget, mapAccepted>>
        /\ \A c \in MapContents : mapRow[c].task # drawn
    BY <1>5, <1>10 DEF MapTasks!WriteFails, MapCallerKnows
  <2>2. MapTasks!TypeOK'
    BY <1>1, <1>2, <1>3, <1>4, <2>1
  <2>. QED
    BY <1>2, <1>5, <2>1, <2>2
       DEF UploadInv, TableIsSound, MapCallerKnows, MapWorkerKnows, MapTasks!MapSnapshotKept
<1>11. CASE MapTasks!Requeue
  <2>1. /\ mapCaller.at = "requeue"
        /\ mapRow' = [mapRow EXCEPT ![mapCaller.content].status = "PENDING"]
        /\ mapCaller' = [mapCaller EXCEPT !.at = "discard"]
        /\ UNCHANGED <<mapDirs, temps, drawn, mapWorker, budget, mapAccepted>>
        /\ mapRow[mapCaller.content].task \in mapDirs \cup mapAccepted
    BY <1>5, <1>11 DEF MapTasks!Requeue, MapCallerKnows
  <2>. DEFINE new == [mapRow[mapCaller.content] EXCEPT !.status = "PENDING"]
  <2>2. mapRow[mapCaller.content] \in One
    BY <1>1 DEF Table
  <2>3. /\ new \in One /\ new.status = "PENDING" /\ new.task = mapRow[mapCaller.content].task
        /\ new.held = mapRow[mapCaller.content].held
    BY <2>2 DEF MapTasks!Statuses
  <2>4. mapRow' = [mapRow EXCEPT ![mapCaller.content] = new]
    BY <2>1
  <2>. HIDE DEF new, One
  <2>5. mapRow' \in Table /\ mapRow'[mapCaller.content] = new
        /\ \A d \in MapContents \ {mapCaller.content} : mapRow'[d] = mapRow[d]
    BY <1>1, <2>3, <2>4, RowIs DEF One
  <2>6. mapCaller' \in Calls /\ mapCaller'.at = "discard"
    BY <1>1, <2>1 DEF Calls
  <2>7. MapTasks!TypeOK'
    BY <1>1, <1>3, <1>4, <2>1, <2>5, <2>6
  <2>8. \A c \in MapContents : /\ mapRow'[c].task = mapRow[c].task /\ mapRow'[c].held = mapRow[c].held
                               /\ mapRow'[c].status \in {mapRow[c].status, "PENDING"}
                               /\ c # mapCaller.content => mapRow'[c].status = mapRow[c].status
    BY <2>3, <2>5
  <2>9. TableIsSound'
    BY <1>5, <2>1, <2>8 DEF TableIsSound
  <2>10. MapTasks!MapSnapshotKept'
    BY <1>5, <2>1, <2>8 DEF MapTasks!MapSnapshotKept
  <2>11. MapWorkerKnows'
    BY <1>5, <2>1, <2>8 DEF MapWorkerKnows
  <2>12. MapCallerKnows'
    BY <1>5, <2>1, <2>6 DEF MapCallerKnows
  <2>. QED
    BY <2>7, <2>9, <2>10, <2>11, <2>12 DEF UploadInv
<1>12. CASE MapTasks!Return
  <2>1. /\ MapTasks!Cleanup /\ mapCaller' = MapTasks!NoCall
        /\ UNCHANGED <<temps, drawn, mapWorker, budget, mapAccepted>>
    BY <1>12 DEF MapTasks!Return
  <2>2. /\ mapDirs' \subseteq mapDirs /\ mapRow' \in Table
        /\ \A d \in MapContents : mapRow'[d].task = mapRow[d].task /\ mapRow'[d].status = mapRow[d].status
    BY <2>1, CleanupKeeps
  <2>3. MapTasks!TypeOK'
    BY <1>1, <1>2, <1>3, <1>4, <2>1, <2>2
  <2>4. TableIsSound' /\ MapTasks!MapSnapshotKept'
    BY <2>1, CleanupStep
  <2>5. MapWorkerKnows' /\ MapCallerKnows'
    BY <1>2, <1>5, <2>1, <2>2 DEF MapWorkerKnows, MapCallerKnows
  <2>. QED
    BY <2>3, <2>4, <2>5 DEF UploadInv
<1>13. CASE MapTasks!Take
  <2>1. PICK c \in MapTasks!Ended("PENDING") \cup MapTasks!Ended("FAILED_RETRYABLE") :
           mapWorker' = [at |-> "taken", content |-> c, task |-> mapRow[c].task, status |-> "PENDING"]
    BY <1>13 DEF MapTasks!Take
  <2>2. /\ c \in MapContents /\ mapRow[c].task \in MapTasks!Tasks /\ mapRow[c].task # 0
        /\ mapRow[c].status \in {"PENDING", "FAILED_RETRYABLE"}
    BY <1>1, <2>1 DEF MapTasks!Ended
  <2>3. mapWorker' \in MapWorkers /\ mapWorker'.at = "taken" /\ mapWorker'.task = mapRow[c].task
    BY <2>1, <2>2 DEF MapWorkers, MapTasks!Statuses
  <2>4. UNCHANGED <<mapRow, mapDirs, temps, drawn, mapCaller, budget, mapAccepted>>
    BY <1>13 DEF MapTasks!Take
  <2>5. MapWorkerKnows'
    BY <1>5, <2>2, <2>3, <2>4 DEF MapWorkerKnows, TableIsSound
  <2>6. MapTasks!TypeOK'
    BY <1>1, <1>3, <1>4, <2>3, <2>4
  <2>. QED
    BY <1>5, <2>4, <2>5, <2>6 DEF UploadInv, TableIsSound, MapCallerKnows,
       MapTasks!MapSnapshotKept
<1>14. CASE MapTasks!Upload
  <2>1. /\ mapWorker.at = "taken" /\ UNCHANGED <<mapRow, mapDirs, temps, drawn, mapCaller, budget>>
        /\ mapAccepted' \in {mapAccepted, mapAccepted \cup {mapWorker.task}}
        /\ \E outcome \in MapTasks!Statuses : /\ mapWorker' = [mapWorker EXCEPT !.at = "answered", !.status = outcome]
                                              /\ outcome = "SUCCEEDED" => mapWorker.task \in mapAccepted'
    <3>1. CASE mapWorker.task \notin mapDirs
      BY <1>14, <3>1 DEF MapTasks!Upload, MapTasks!Statuses
    <3>2. CASE mapWorker.task \in mapDirs
      BY <1>14, <3>2 DEF MapTasks!Upload
    <3>. QED
      BY <3>1, <3>2
  <2>2. /\ mapWorker' \in MapWorkers /\ mapWorker'.at = "answered"
        /\ mapWorker'.task = mapWorker.task
        /\ mapWorker'.status = "SUCCEEDED" => mapWorker.task \in mapAccepted'
    <3>1. PICK outcome \in MapTasks!Statuses :
             /\ mapWorker' = [mapWorker EXCEPT !.at = "answered", !.status = outcome]
             /\ outcome = "SUCCEEDED" => mapWorker.task \in mapAccepted'
      BY <2>1
    <3>2. mapWorker \in MapWorkers
      BY <1>1
    <3>3. /\ mapWorker' \in MapWorkers /\ mapWorker'.at = "answered"
          /\ mapWorker'.task = mapWorker.task
      BY <3>1, <3>2 DEF MapWorkers
    <3>4. mapWorker'.status = outcome
      BY <3>1, <3>2 DEF MapWorkers
    <3>. QED
      BY <3>1, <3>3, <3>4
  <2>3. mapAccepted' \subseteq MapTasks!Tasks /\ mapAccepted \subseteq mapAccepted'
    BY <1>1, <2>1
  <2>4. MapTasks!TypeOK'
    BY <1>1, <1>3, <1>4, <2>1, <2>2, <2>3
  <2>5. MapWorkerKnows'
    BY <1>5, <2>1, <2>2 DEF MapWorkerKnows
  <2>6. TableIsSound' /\ MapCallerKnows' /\ MapTasks!MapSnapshotKept'
    BY <1>5, <2>1, <2>3 DEF TableIsSound, MapCallerKnows, MapTasks!MapSnapshotKept
  <2>. QED
    BY <2>4, <2>5, <2>6 DEF UploadInv
<1>15. CASE MapTasks!Finish
  <2>1. /\ mapWorker.at = "answered"
        /\ UNCHANGED <<mapDirs, temps, drawn, mapCaller, budget, mapAccepted>>
        /\ mapRow' = [c \in MapContents |-> IF mapRow[c].task = mapWorker.task
                                            THEN [mapRow[c] EXCEPT !.status = mapWorker.status] ELSE mapRow[c]]
        /\ mapWorker' = [MapTasks!NoTask EXCEPT !.at = "clean"]
    BY <1>15 DEF MapTasks!Finish
  <2>2. /\ mapWorker' \in MapWorkers /\ mapWorker'.at = "clean"
        /\ mapWorker.status \in MapTasks!Statuses
    BY <1>1, <1>2, <2>1 DEF MapWorkers
  <2>3. /\ mapRow' \in Table
        /\ \A c \in MapContents : /\ mapRow'[c].task = mapRow[c].task /\ mapRow'[c].held = mapRow[c].held
                                  /\ mapRow[c].task # mapWorker.task => mapRow'[c].status = mapRow[c].status
                                  /\ mapRow[c].task = mapWorker.task => mapRow'[c].status = mapWorker.status
    BY <1>1, <2>1, <2>2 DEF Table
  <2>4. \A c \in MapContents : mapRow[c].task = mapWorker.task =>
           mapRow[c].task # 0 /\ mapRow[c].status \in {"PENDING", "FAILED_RETRYABLE"} /\ mapRow[c].task \in mapDirs \cup mapAccepted
    BY <1>1, <1>5, <2>1 DEF MapWorkerKnows, MapTasks!MapSnapshotKept
  <2>5. mapWorker.status = "SUCCEEDED" => mapWorker.task \in mapAccepted
    BY <1>5, <2>1 DEF MapWorkerKnows
  <2>6. MapTasks!TypeOK'
    BY <1>1, <1>3, <1>4, <2>1, <2>2, <2>3
  <2>7. TableIsSound'
    BY <1>5, <2>1, <2>3, <2>5 DEF TableIsSound
  <2>8. MapTasks!MapSnapshotKept'
    <3>1. ASSUME NEW c \in MapContents, mapRow'[c].task > 0, mapRow'[c].status \in {"PENDING", "FAILED_RETRYABLE"}
          PROVE  mapRow'[c].task \in mapDirs' \cup mapAccepted'
      <4>1. CASE mapRow[c].task = mapWorker.task
        BY <2>1, <2>3, <2>4, <4>1
      <4>2. CASE mapRow[c].task # mapWorker.task
        BY <1>5, <2>1, <2>3, <3>1, <4>2 DEF MapTasks!MapSnapshotKept
      <4>. QED
        BY <4>1, <4>2
    <3>. QED
      BY <3>1 DEF MapTasks!MapSnapshotKept
  <2>9. MapCallerKnows'
    <3>1. mapCaller.at = "restart" => mapRow'[mapCaller.content].status \in {"FAILED_FINAL", "SUCCEEDED"}
      BY <1>1, <1>5, <2>3, <2>4 DEF MapCallerKnows
    <3>. QED
      BY <1>1, <1>5, <2>1, <2>3, <3>1 DEF MapCallerKnows
  <2>10. MapWorkerKnows'
    BY <2>2 DEF MapWorkerKnows
  <2>. QED
    BY <2>6, <2>7, <2>8, <2>9, <2>10 DEF UploadInv
<1>16. CASE MapTasks!Clean
  <2>1. /\ MapTasks!Cleanup /\ mapWorker' = MapTasks!NoTask
        /\ UNCHANGED <<temps, drawn, mapCaller, budget, mapAccepted>>
    BY <1>16 DEF MapTasks!Clean
  <2>2. /\ mapDirs' \subseteq mapDirs /\ mapRow' \in Table
        /\ \A d \in MapContents : mapRow'[d].task = mapRow[d].task /\ mapRow'[d].status = mapRow[d].status
        /\ Cardinality(mapDirs') <= Cardinality(mapDirs)
        /\ Cardinality(mapDirs) + temps <= budget => mapDirs \ mapDirs' \subseteq mapAccepted
    BY <2>1, CleanupKeeps
  <2>3. MapTasks!TypeOK'
    BY <1>1, <1>2, <1>3, <1>4, <2>1, <2>2
  <2>4. /\ TableIsSound' /\ MapTasks!MapSnapshotKept'
        /\ drawn \in mapDirs /\ (\A c \in MapContents : mapRow[c].task # drawn) => drawn \in mapDirs'
    BY <2>1, CleanupStep
  <2>5. MapWorkerKnows'
    BY <1>2, <2>1 DEF MapWorkerKnows
  <2>6. mapCaller.at = "requeue" => mapRow'[mapCaller.content].task # 0 /\ mapRow'[mapCaller.content].task \in mapDirs' \cup mapAccepted
    BY <1>1, <1>5, <2>2 DEF MapCallerKnows
  <2>7. Cardinality(mapDirs') \in Nat /\ Cardinality(mapDirs) \in Nat
    BY <1>1, <2>2, SnapshotsAreCounted
  <2>8. mapCaller.at \in {"copied", "requeue"} => Cardinality(mapDirs') + temps <= budget
    BY <1>1, <1>5, <2>2, <2>7 DEF MapCallerKnows
  <2>9. MapCallerKnows'
    BY <1>1, <1>5, <2>1, <2>2, <2>4, <2>6, <2>8 DEF MapCallerKnows
  <2>. QED
    BY <2>3, <2>4, <2>5, <2>9 DEF UploadInv
<1>17. CASE MapTasks!Restart
  <2>1. /\ mapCaller' = MapTasks!NoCall /\ mapWorker' = MapTasks!NoTask /\ budget' \in Budgets
        /\ UNCHANGED <<mapRow, mapDirs, temps, drawn, mapAccepted>>
    BY <1>17 DEF MapTasks!Restart
  <2>2. MapTasks!TypeOK'
    BY <1>1, <1>2, <1>3, <2>1
  <2>. QED
    BY <1>2, <1>5, <2>1, <2>2 DEF UploadInv, TableIsSound, MapCallerKnows, MapWorkerKnows,
       MapTasks!MapSnapshotKept
<1>18. CASE UNCHANGED MapTasks!vars
  BY <1>18 DEF MapTasks!vars, UploadInv, MapTasks!TypeOK, TableIsSound, MapCallerKnows,
     MapWorkerKnows, MapTasks!MapSnapshotKept
<1>. QED
  BY <1>6, <1>7, <1>8, <1>9, <1>10, <1>11, <1>12, <1>13, <1>14, <1>15, <1>16, <1>17,
     <1>18 DEF MapTasks!Next

\* An upload of a map that is still to be tried has its files unless the platform
\* holds the map, whatever cleanup, restart of the row or lack of space comes in
\* between, for any maps, numbers of tasks and any room on the disk.
THEOREM MapSnapshotsAreKept ==
  ASSUME UploadAssumptions
  PROVE  MapTasks!Spec => [](MapTasks!TypeOK /\ MapTasks!MapSnapshotKept)
<1>1. UploadInv => MapTasks!TypeOK /\ MapTasks!MapSnapshotKept
  BY DEF UploadInv
<1>2. UploadInv /\ [MapTasks!Next]_MapTasks!vars => UploadInv'
  BY UploadNext
<1>. QED
  BY UploadInit, <1>1, <1>2, PTL DEF MapTasks!Spec

-----------------------------------------------------------------------------
(* The inspection images.  What the worker has taken is still to be tried, and     *)
(* what it has uploaded is stored (ImageWorkerKnows).                               *)

\* There is an interval to photograph in and a row to write.
ImagesAssumptions == MaxSlot \in Nat \ {0} /\ MaxRows \in Nat \ {0}

ImageRows == [visit : Visits, kind : Images!Kinds, slot : 0 .. MaxSlot, status : Images!Statuses, accepted : BOOLEAN]
Captures == [at : {"none", "delay", "subscribed", "writing"}, visit : Visits \cup {0},
             kind : Images!Kinds, slot : 0 .. MaxSlot]
ImageWorkers == [at : {"idle", "taken", "answered", "unlink", "clear"}, row : 1 .. MaxRows, status : Images!Statuses]

\* What the worker has taken is still to be tried; what it has uploaded is stored.
ImageWorkerKnows ==
  /\ imageWorker.at # "idle" => imageWorker.row \in DOMAIN imageRows
  /\ imageWorker.at \in {"taken", "answered"} => imageRows[imageWorker.row].status \in {"PENDING", "FAILED_RETRYABLE"}
  /\ imageWorker.at = "answered" /\ imageWorker.status = "SUCCEEDED" => imageRows[imageWorker.row].accepted
  /\ imageWorker.at \in {"unlink", "clear"} =>
        imageRows[imageWorker.row].accepted /\ imageRows[imageWorker.row].status = "SUCCEEDED"

ImagesInv ==
  /\ Images!TypeOK
  /\ Len(imageRows) <= MaxRows
  /\ capture.at # "none" => capture.visit \in Visits
  /\ ImageWorkerKnows
  /\ Images!ImageKept
  /\ Images!MovingEndsAtArrival

-----------------------------------------------------------------------------
LEMMA ImageNothingIs ==
  ASSUME ImagesAssumptions
  PROVE  /\ Images!NoCapture \in Captures /\ Images!NoCapture.at = "none"
         /\ Images!NoTask \in ImageWorkers /\ Images!NoTask.at = "idle"
BY DEF ImagesAssumptions, Images!NoCapture, Images!NoTask, Captures, ImageWorkers,
   Images!Kinds, Images!Statuses

LEMMA ImagesInit == ASSUME ImagesAssumptions, Images!Init PROVE ImagesInv
BY ImageNothingIs DEF ImagesAssumptions, Images!Init, ImagesInv, Images!TypeOK,
   ImageWorkerKnows, Images!ImageKept, Images!MovingEndsAtArrival,
   Captures, ImageWorkers

\* A request is for the visit it names, and takes the place of what it displaces.
LEMMA RequestIs ==
  ASSUME NEW v \in Visits, NEW kind \in Images!Kinds, NEW s \in 0 .. MaxSlot, NEW c \in Captures
  PROVE  /\ Images!Request(v, kind, s, c) \in Captures
         /\ \/ Images!Request(v, kind, s, c) = c
            \/ /\ Images!Request(v, kind, s, c).visit = v /\ Images!Request(v, kind, s, c).kind = kind
               /\ Images!Request(v, kind, s, c).at # "none"
BY DEF Images!Request, Captures

\* The capture changes, and the rows, their files and the worker do not.
LEMMA CaptureChanges ==
  ASSUME ImagesAssumptions, ImagesInv, UNCHANGED Images!uploads,
         status' \in Visits \cup {0}, arrivals' \subseteq Visits,
         lastSlot' \in [visit : Visits \cup {0}, slot : 0 .. MaxSlot],
         slot' \in 1 .. MaxSlot, capture' \in Captures,
         capture'.at # "none" =>
            capture'.visit \in Visits /\ (capture'.kind = "MOVING" => capture'.visit \notin arrivals')
  PROVE  ImagesInv'
BY DEF ImagesInv, Images!TypeOK, ImageWorkerKnows, Images!ImageKept,
   Images!MovingEndsAtArrival, Images!uploads, Captures

\* The worker goes on, and the capture does not.
LEMMA WorkerChanges ==
  ASSUME ImagesAssumptions, ImagesInv, UNCHANGED <<Images!patrol, capture, leaked>>,
         imageWorker' \in ImageWorkers, imageRows' \in Seq(ImageRows), Len(imageRows') = Len(imageRows), DOMAIN imageRows' = DOMAIN imageRows,
         files' \subseteq files, ImageWorkerKnows', Images!ImageKept'
  PROVE  ImagesInv'
BY DEF ImagesInv, Images!TypeOK, Images!MovingEndsAtArrival, Images!patrol, ImageWorkers,
   ImageRows

\* One row gets another status, or becomes known to be stored.
LEMMA RowChanges ==
  ASSUME ImagesInv, NEW r \in DOMAIN imageRows, NEW new \in ImageRows, imageRows' = [imageRows EXCEPT ![r] = new]
  PROVE  /\ imageRows' \in Seq(ImageRows) /\ Len(imageRows') = Len(imageRows)
         /\ DOMAIN imageRows' = DOMAIN imageRows
         /\ imageRows'[r] = new /\ \A q \in DOMAIN imageRows \ {r} : imageRows'[q] = imageRows[q]
BY DEF ImagesInv, Images!TypeOK, ImageRows

LEMMA ImagesNext == ASSUME ImagesAssumptions, ImagesInv, [Images!Next]_Images!vars PROVE ImagesInv'
<1>1. /\ capture \in Captures /\ imageWorker \in ImageWorkers /\ imageRows \in Seq(ImageRows)
      /\ files \subseteq DOMAIN imageRows
      /\ arrivals \subseteq Visits /\ status \in Visits \cup {0} /\ slot \in 1 .. MaxSlot
      /\ lastSlot \in [visit : Visits \cup {0}, slot : 0 .. MaxSlot] /\ leaked \in Nat
      /\ Len(imageRows) <= MaxRows
  BY DEF ImagesInv, Images!TypeOK, Captures, ImageWorkers, ImageRows
<1>2. /\ Images!NoCapture \in Captures /\ Images!NoCapture.at = "none"
      /\ Images!NoTask \in ImageWorkers /\ Images!NoTask.at = "idle"
      /\ "MOVING" \in Images!Kinds /\ "ARRIVAL" \in Images!Kinds /\ slot \in 0 .. MaxSlot
      /\ 0 \in 0 .. MaxSlot
      /\ MaxSlot \in Nat
  BY <1>1, ImageNothingIs DEF Images!Kinds, ImagesAssumptions
<1>3. ASSUME NEW v \in Visits \cup {0}, Images!OnStatus(v) PROVE ImagesInv'
  <2>1. CASE v = 0
    <3>1. /\ status' = 0 /\ lastSlot' = [lastSlot EXCEPT !.slot = 0]
          /\ capture' = Images!WithoutMoving(capture)
          /\ UNCHANGED <<arrivals, slot, Images!uploads>>
      BY <1>3, <2>1 DEF Images!OnStatus
    <3>2. capture' \in Captures /\ capture' \in {capture, Images!NoCapture}
      BY <1>1, <1>2, <3>1 DEF Images!WithoutMoving
    <3>3. lastSlot' \in [visit : Visits \cup {0}, slot : 0 .. MaxSlot]
      BY <1>1, <1>2, <3>1
    <3>4. capture'.at # "none" =>
            capture'.visit \in Visits /\ (capture'.kind = "MOVING" => capture'.visit \notin arrivals')
      BY <1>2, <3>1, <3>2 DEF ImagesInv, Images!MovingEndsAtArrival
    <3>. QED
      BY <1>1, <3>1, <3>2, <3>3, <3>4, CaptureChanges
  <2>2. CASE v # 0 /\ (v \in arrivals \/ lastSlot = [visit |-> v, slot |-> slot])
    <3>1. status' = v /\ UNCHANGED <<arrivals, slot, Images!uploads, lastSlot, capture>>
      BY <1>3, <2>2 DEF Images!OnStatus
    <3>. QED
      BY <1>1, <3>1, CaptureChanges DEF ImagesInv, Images!MovingEndsAtArrival
  <2>3. CASE v # 0 /\ ~(v \in arrivals \/ lastSlot = [visit |-> v, slot |-> slot])
    <3>1. /\ status' = v /\ lastSlot' = [visit |-> v, slot |-> slot]
          /\ capture' = Images!Request(v, "MOVING", slot, capture)
          /\ UNCHANGED <<arrivals, slot, Images!uploads>>
      BY <1>3, <2>3 DEF Images!OnStatus
    <3>2. v \in Visits /\ v \notin arrivals
      BY <2>3
    <3>3. capture' \in Captures /\ (capture' = capture \/ capture'.visit = v)
      BY <1>1, <1>2, <3>1, <3>2, RequestIs
    <3>4. capture'.at # "none" =>
            capture'.visit \in Visits /\ (capture'.kind = "MOVING" => capture'.visit \notin arrivals')
      BY <3>1, <3>2, <3>3 DEF ImagesInv, Images!MovingEndsAtArrival
    <3>5. lastSlot' \in [visit : Visits \cup {0}, slot : 0 .. MaxSlot]
      BY <1>2, <3>1
    <3>. QED
      BY <1>1, <3>1, <3>3, <3>4, <3>5, CaptureChanges
  <2>. QED
    BY <2>1, <2>2, <2>3
<1>4. CASE Images!OnTargetReached
  <2>1. /\ status \in Visits \ arrivals /\ arrivals' = arrivals \cup {status}
        /\ capture' = Images!Request(status, "ARRIVAL", 0, Images!WithoutMoving(capture))
        /\ UNCHANGED <<status, lastSlot, slot, Images!uploads>>
    BY <1>4 DEF Images!OnTargetReached
  <2>2. /\ Images!WithoutMoving(capture) \in Captures
        /\ Images!WithoutMoving(capture).at # "none" =>
              Images!WithoutMoving(capture).visit \in Visits /\ Images!WithoutMoving(capture).kind # "MOVING"
    BY <1>1, <1>2 DEF Images!WithoutMoving, ImagesInv
  <2>. DEFINE w == Images!WithoutMoving(capture)
  <2>. HIDE DEF w
  <2>3. /\ w \in Captures
        /\ w.at # "none" => w.visit \in Visits /\ w.kind # "MOVING"
        /\ capture' = Images!Request(status, "ARRIVAL", 0, w)
    BY <2>1, <2>2 DEF w
  <2>4. /\ capture' \in Captures
        /\ capture' = w \/ (capture'.visit = status /\ capture'.kind = "ARRIVAL")
    BY <1>2, <2>1, <2>3, RequestIs
  <2>5. capture'.at # "none" => capture'.visit \in Visits /\ capture'.kind # "MOVING"
    BY <2>1, <2>3, <2>4
  <2>. QED
    BY <1>1, <2>1, <2>4, <2>5, CaptureChanges
<1>5. CASE Images!OnDelay
  <2>1. /\ capture' \in Captures /\ capture'.visit = capture.visit /\ capture'.kind = capture.kind
        /\ capture.at # "none" /\ UNCHANGED <<Images!patrol, Images!uploads>>
    BY <1>1, <1>5 DEF Images!OnDelay, Captures
  <2>. QED
    BY <1>1, <2>1, CaptureChanges DEF Images!patrol, ImagesInv, Images!MovingEndsAtArrival
<1>6. CASE Images!OnTimeout
  BY <1>1, <1>2, <1>6, CaptureChanges DEF Images!OnTimeout, Images!patrol
<1>7. CASE Images!Interval
  <2>1. slot' \in 1 .. MaxSlot /\ UNCHANGED <<status, arrivals, lastSlot, capture, Images!uploads>>
    BY <1>1, <1>2, <1>7 DEF Images!Interval
  <2>. QED
    BY <1>1, <2>1, CaptureChanges DEF ImagesInv, Images!MovingEndsAtArrival
<1>8. CASE Images!OnImage
  <2>1. /\ UNCHANGED <<Images!patrol, imageRows, leaked, imageWorker>>
        /\ capture' \in Captures
        /\ capture'.at # "none" => capture'.visit = capture.visit /\ capture.at # "none"
                                   /\ capture'.kind = capture.kind
        /\ files' \in {files, files \ Images!Cleaned}
    <3>1. [capture EXCEPT !.at = "writing"] \in Captures
      BY <1>1 DEF Captures
    <3>. QED
      BY <1>1, <1>2, <1>8, <3>1 DEF Images!OnImage, Captures
  <2>2. \A r \in Images!Cleaned : imageRows[r].status = "FAILED_FINAL"
    BY DEF Images!Cleaned, Images!Reclaimable
  <2>3. Images!ImageKept'
    BY <2>1, <2>2 DEF ImagesInv, Images!ImageKept
  <2>. QED
    BY <1>1, <2>1, <2>3 DEF ImagesInv, Images!TypeOK, ImageWorkerKnows,
       Images!MovingEndsAtArrival, Images!patrol, Captures
<1>9. CASE Images!Insert
  <2>. DEFINE new == [visit |-> capture.visit, kind |-> capture.kind, slot |-> capture.slot,
                      status |-> "PENDING", accepted |-> FALSE]
  <2>1. /\ capture.visit \in Visits /\ imageRows' = Append(imageRows, new)
        /\ files' = files \cup {Len(imageRows) + 1}
        /\ capture' = Images!NoCapture /\ Len(imageRows) < MaxRows
        /\ UNCHANGED <<Images!patrol, leaked, imageWorker>>
    BY <1>9 DEF Images!Insert, ImagesInv
  <2>2. new \in ImageRows
    BY <1>1, <2>1 DEF ImageRows, Captures, Images!Statuses
  <2>. HIDE DEF new
  <2>3. /\ imageRows' \in Seq(ImageRows) /\ Len(imageRows') = Len(imageRows) + 1
        /\ DOMAIN imageRows' = 1 .. Len(imageRows) + 1 /\ DOMAIN imageRows = 1 .. Len(imageRows)
        /\ Len(imageRows) \in Nat
        /\ \A r \in DOMAIN imageRows : imageRows'[r] = imageRows[r]
    BY <1>1, <2>1, <2>2
  <2>4. files' \subseteq DOMAIN imageRows'
    BY <1>1, <2>1, <2>3
  <2>5. Images!ImageKept'
    BY <2>1, <2>3 DEF ImagesInv, Images!ImageKept
  <2>6. ImageWorkerKnows'
    BY <2>1, <2>3 DEF ImagesInv, ImageWorkerKnows
  <2>7. Images!TypeOK'
    BY <1>1, <1>2, <2>1, <2>3, <2>4 DEF Images!TypeOK, Images!patrol, Captures,
       ImageWorkers, ImageRows
  <2>8. Len(imageRows') <= MaxRows
    BY <1>1, <2>1, <2>3 DEF ImagesAssumptions
  <2>. QED
    BY <1>2, <2>1, <2>5, <2>6, <2>7, <2>8 DEF ImagesInv, Images!MovingEndsAtArrival
<1>10. CASE Images!InsertFails
  BY <1>1, <1>2, <1>10, CaptureChanges DEF Images!InsertFails, Images!patrol
<1>11. CASE Images!Take
  <2>1. PICK r \in DOMAIN imageRows : /\ imageRows[r].status \in {"PENDING", "FAILED_RETRYABLE"}
                                      /\ imageWorker' = [at |-> "taken", row |-> r, status |-> "PENDING"]
    BY <1>11 DEF Images!Take
  <2>2. r \in 1 .. MaxRows
    BY <1>1 DEF ImagesAssumptions
  <2>3. imageWorker' \in ImageWorkers
    BY <2>1, <2>2 DEF ImageWorkers, Images!Statuses
  <2>4. UNCHANGED <<Images!patrol, capture, imageRows, files, leaked>>
    BY <1>11 DEF Images!Take
  <2>5. ImageWorkerKnows'
    BY <2>1, <2>4 DEF ImageWorkerKnows
  <2>6. Images!ImageKept'
    BY <2>4 DEF ImagesInv, Images!ImageKept
  <2>. QED
    BY <1>1, <2>3, <2>4, <2>5, <2>6, WorkerChanges
<1>12. CASE Images!Upload
  <2>1. imageWorker.row \in DOMAIN imageRows /\ imageRows[imageWorker.row].status \in {"PENDING", "FAILED_RETRYABLE"}
        /\ imageWorker.at = "taken" /\ UNCHANGED <<Images!patrol, capture, files, leaked>>
    BY <1>12 DEF Images!Upload, ImagesInv, ImageWorkerKnows
  <2>2. CASE imageWorker.row \in files
    <3>1. PICK stored \in BOOLEAN, outcome \in Images!Statuses \ {"PENDING"} :
             /\ outcome = "SUCCEEDED" => stored
             /\ imageWorker' = [imageWorker EXCEPT !.at = "answered", !.status = outcome]
             /\ imageRows' = [imageRows EXCEPT ![imageWorker.row].accepted = @ \/ stored]
      BY <1>12, <2>2 DEF Images!Upload
    <3>. DEFINE new == [imageRows[imageWorker.row] EXCEPT !.accepted = imageRows[imageWorker.row].accepted \/ stored]
    <3>2. imageRows[imageWorker.row] \in ImageRows
      BY <1>1, <2>1
    <3>3. /\ new \in ImageRows /\ new.status = imageRows[imageWorker.row].status
          /\ (stored => new.accepted) /\ (imageRows[imageWorker.row].accepted => new.accepted)
      BY <3>2 DEF ImageRows
    <3>4. imageRows' = [imageRows EXCEPT ![imageWorker.row] = new]
      BY <3>1
    <3>. HIDE DEF new
    <3>5. /\ imageRows' \in Seq(ImageRows) /\ Len(imageRows') = Len(imageRows)
          /\ DOMAIN imageRows' = DOMAIN imageRows
          /\ imageRows'[imageWorker.row] = new
          /\ \A q \in DOMAIN imageRows \ {imageWorker.row} : imageRows'[q] = imageRows[q]
      BY <2>1, <3>3, <3>4, RowChanges
    <3>6. imageWorker' \in ImageWorkers /\ imageWorker'.row = imageWorker.row /\ imageWorker'.at = "answered"
          /\ (imageWorker'.status = "SUCCEEDED" => stored)
      BY <1>1, <3>1 DEF ImageWorkers
    <3>7. ImageWorkerKnows'
      BY <2>1, <3>3, <3>5, <3>6 DEF ImageWorkerKnows
    <3>8. Images!ImageKept'
      BY <2>1, <3>3, <3>5 DEF ImagesInv, Images!ImageKept
    <3>. QED
      BY <2>1, <3>5, <3>6, <3>7, <3>8, WorkerChanges
  <2>3. CASE imageWorker.row \notin files
    <3>1. /\ imageWorker' = [imageWorker EXCEPT !.at = "answered", !.status = "FAILED_FINAL"]
          /\ UNCHANGED imageRows
      BY <1>12, <2>3 DEF Images!Upload
    <3>2. imageWorker' \in ImageWorkers /\ imageWorker'.row = imageWorker.row /\ imageWorker'.at = "answered"
          /\ imageWorker'.status = "FAILED_FINAL"
      BY <1>1, <3>1 DEF ImageWorkers, Images!Statuses
    <3>3. ImageWorkerKnows'
      BY <2>1, <3>1, <3>2 DEF ImageWorkerKnows
    <3>4. Images!ImageKept'
      BY <2>1, <3>1 DEF ImagesInv, Images!ImageKept
    <3>. QED
      BY <1>1, <2>1, <3>1, <3>2, <3>3, <3>4, WorkerChanges
  <2>. QED
    BY <2>2, <2>3
<1>13. CASE Images!Finish
  <2>1. /\ imageWorker.row \in DOMAIN imageRows
        /\ imageRows[imageWorker.row].status \in {"PENDING", "FAILED_RETRYABLE"}
        /\ (imageWorker.status = "SUCCEEDED" => imageRows[imageWorker.row].accepted)
        /\ imageWorker.at = "answered" /\ UNCHANGED <<Images!patrol, capture, files, leaked>>
        /\ imageRows' = [imageRows EXCEPT ![imageWorker.row].status = imageWorker.status]
        /\ imageWorker' = IF imageWorker.status = "SUCCEEDED" THEN [imageWorker EXCEPT !.at = "unlink"] ELSE Images!NoTask
    BY <1>13 DEF Images!Finish, ImagesInv, ImageWorkerKnows
  <2>. DEFINE new == [imageRows[imageWorker.row] EXCEPT !.status = imageWorker.status]
  <2>2. imageRows[imageWorker.row] \in ImageRows
    BY <1>1, <2>1
  <2>3. /\ new \in ImageRows /\ new.status = imageWorker.status
        /\ new.accepted = imageRows[imageWorker.row].accepted
    BY <1>1, <2>2 DEF ImageRows, ImageWorkers
  <2>4. imageRows' = [imageRows EXCEPT ![imageWorker.row] = new]
    BY <2>1
  <2>. HIDE DEF new
  <2>5. /\ imageRows' \in Seq(ImageRows) /\ Len(imageRows') = Len(imageRows)
        /\ DOMAIN imageRows' = DOMAIN imageRows
        /\ imageRows'[imageWorker.row] = new
        /\ \A q \in DOMAIN imageRows \ {imageWorker.row} : imageRows'[q] = imageRows[q]
    BY <2>1, <2>3, <2>4, RowChanges
  <2>6. /\ imageWorker' \in ImageWorkers
        /\ imageWorker'.at \in {"idle", "unlink"}
        /\ imageWorker'.at = "unlink" => imageWorker'.row = imageWorker.row /\ imageWorker.status = "SUCCEEDED"
    BY <1>1, <1>2, <2>1 DEF ImageWorkers
  <2>7. ImageWorkerKnows'
    BY <2>1, <2>3, <2>5, <2>6 DEF ImageWorkerKnows
  <2>8. Images!ImageKept'
    BY <2>1, <2>3, <2>5 DEF ImagesInv, Images!ImageKept
  <2>. QED
    BY <2>1, <2>5, <2>6, <2>7, <2>8, WorkerChanges
<1>14. CASE Images!Unlink
  <2>1. /\ imageWorker.row \in DOMAIN imageRows /\ imageRows[imageWorker.row].accepted
        /\ imageRows[imageWorker.row].status = "SUCCEEDED"
        /\ files' = files \ {imageWorker.row} /\ imageWorker' = [imageWorker EXCEPT !.at = "clear"]
        /\ UNCHANGED <<Images!patrol, capture, imageRows, leaked>>
    BY <1>14 DEF Images!Unlink, ImagesInv, ImageWorkerKnows
  <2>2. /\ imageWorker' \in ImageWorkers /\ imageWorker'.row = imageWorker.row
        /\ imageWorker'.at = "clear"
    BY <1>1, <2>1 DEF ImageWorkers
  <2>3. ImageWorkerKnows'
    BY <2>1, <2>2 DEF ImageWorkerKnows
  <2>4. Images!ImageKept'
    BY <2>1 DEF ImagesInv, Images!ImageKept
  <2>. QED
    BY <1>1, <2>1, <2>2, <2>3, <2>4, WorkerChanges
<1>15. CASE Images!Clear
  <2>1. /\ imageWorker' = Images!NoTask
        /\ UNCHANGED <<Images!patrol, capture, imageRows, files, leaked>>
    BY <1>15 DEF Images!Clear
  <2>2. ImageWorkerKnows' /\ Images!ImageKept'
    BY <1>2, <2>1 DEF ImagesInv, Images!ImageKept, ImageWorkerKnows
  <2>. QED
    BY <1>1, <1>2, <2>1, <2>2, WorkerChanges
<1>16. CASE Images!Fails
  <2>1. /\ imageWorker.row \in DOMAIN imageRows /\ imageRows[imageWorker.row].accepted
        /\ imageWorker' = Images!NoTask
        /\ imageRows' = [imageRows EXCEPT ![imageWorker.row].status = "FAILED_RETRYABLE"]
        /\ UNCHANGED <<Images!patrol, capture, files, leaked>>
    BY <1>16 DEF Images!Fails, ImagesInv, ImageWorkerKnows
  <2>. DEFINE new == [imageRows[imageWorker.row] EXCEPT !.status = "FAILED_RETRYABLE"]
  <2>2. imageRows[imageWorker.row] \in ImageRows
    BY <1>1, <2>1
  <2>3. new \in ImageRows /\ new.accepted
    BY <2>1, <2>2 DEF ImageRows, Images!Statuses
  <2>4. imageRows' = [imageRows EXCEPT ![imageWorker.row] = new]
    BY <2>1
  <2>. HIDE DEF new
  <2>5. /\ imageRows' \in Seq(ImageRows) /\ Len(imageRows') = Len(imageRows)
        /\ DOMAIN imageRows' = DOMAIN imageRows
        /\ imageRows'[imageWorker.row] = new
        /\ \A q \in DOMAIN imageRows \ {imageWorker.row} : imageRows'[q] = imageRows[q]
    BY <2>1, <2>3, <2>4, RowChanges
  <2>6. ImageWorkerKnows'
    BY <1>2, <2>1 DEF ImageWorkerKnows
  <2>7. Images!ImageKept'
    BY <2>1, <2>3, <2>5 DEF ImagesInv, Images!ImageKept
  <2>. QED
    BY <1>2, <2>1, <2>5, <2>6, <2>7, WorkerChanges
<1>17. CASE Images!Restart
  <2>1. leaked' \in Nat
    BY <1>1, <1>17 DEF Images!Restart
  <2>2. [visit |-> 0, slot |-> 0] \in [visit : Visits \cup {0}, slot : 0 .. MaxSlot]
    BY <1>2
  <2>3. Images!TypeOK'
    BY <1>1, <1>2, <1>17, <2>1, <2>2 DEF Images!Restart, Images!TypeOK, Captures,
       ImageWorkers, ImageRows
  <2>. QED
    BY <1>1, <1>2, <1>17, <2>3
       DEF Images!Restart, ImagesInv, ImageWorkerKnows, Images!ImageKept,
          Images!MovingEndsAtArrival
<1>18. CASE UNCHANGED Images!vars
  BY <1>18 DEF Images!vars, ImagesInv, Images!TypeOK, ImageWorkerKnows, Images!ImageKept,
     Images!MovingEndsAtArrival
<1>. QED
  BY <1>3, <1>4, <1>5, <1>6, <1>7, <1>8, <1>9, <1>10, <1>11, <1>12, <1>13, <1>14, <1>15,
     <1>16, <1>17, <1>18
     DEF Images!Next

\* An image that is still to be uploaded has its file unless the platform has it, and
\* no image of a target that was reached is taken for one of the way to it, for any
\* number of visits, rows and images the disk takes.
THEOREM ImagesAreKept ==
  ASSUME ImagesAssumptions
  PROVE  Images!Spec => [](Images!TypeOK /\ Images!ImageKept /\ Images!MovingEndsAtArrival)
<1>1. ImagesInv => Images!TypeOK /\ Images!ImageKept /\ Images!MovingEndsAtArrival
  BY DEF ImagesInv
<1>2. ImagesInv /\ [Images!Next]_Images!vars => ImagesInv'
  BY ImagesNext
<1>. QED
  BY ImagesInit, <1>1, <1>2, PTL DEF Images!Spec
===============================================================================
