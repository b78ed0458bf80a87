------------------------------- MODULE MapFiles -------------------------------
(* map_manager.py and save_map of process_manager.py: the maps directory of the   *)
(* bridge. A map is a YAML file that names its image and a PGM file of the same    *)
(* name; one name is the default, which navigation loads. Rename, delete and       *)
(* confirmation as default are sequences of file operations under one lock; each   *)
(* may fail in the middle and roll back, and the process may end anywhere.          *)
EXTENDS Integers, Sequences

CONSTANTS Names,      \* names a user gives to maps
          Archives,   \* names an archived default map may get
          MaxMaps     \* bound: maps ever saved

VARIABLES yaml,     \* by name: no file (0), or the map and the image it names
          pgm,      \* by name: no file (0), or the map
          active,   \* maps the active routes of the directory belong to
          op,       \* the operation that holds map_mutation_lock
          saved,    \* maps saved so far
          gone,     \* maps a user deleted or overwrote
          broken    \* a process died within an operation

vars == <<yaml, pgm, active, op, saved, gone, broken>>

All == Names \cup Archives \cup {"default"}
Maps == 0 .. MaxMaps
NoYaml == [map |-> 0, image |-> "default"]
NoOp == [kind |-> "none", name |-> "default", to |-> "default", steps |-> 0]

TypeOK ==
    /\ yaml \in [All -> [map : Maps, image : All]]
    /\ pgm \in [All -> Maps]
    /\ active \subseteq 1 .. MaxMaps
    /\ op \in [kind : {"none", "rename", "confirm", "delete"}, name : All, to : All, steps : 0 .. 7]
    /\ saved \in Maps /\ gone \subseteq 1 .. MaxMaps
    /\ broken \in BOOLEAN

\* The robot is delivered with a default map.
Init == /\ yaml = [n \in All |-> IF n = "default" THEN [map |-> 1, image |-> n] ELSE NoYaml]
        /\ pgm = [n \in All |-> IF n = "default" THEN 1 ELSE 0]
        /\ active = {} /\ op = NoOp
        /\ saved = 1 /\ gone = {} /\ broken = FALSE

-----------------------------------------------------------------------------
Present(n) == yaml[n].map # 0 \/ pgm[n] # 0

\* _inspect: both files are there and the YAML names the image beside it.
Valid(n) == yaml[n].map # 0 /\ pgm[n] # 0 /\ yaml[n].image = n

(* The file operations of a rename and of a confirmation, in their order. A step   *)
(* moves a YAML or a PGM file, or rewrites the image reference of a moved YAML.     *)
Rename(n, to) == <<[do |-> "yaml", from |-> n, to |-> to],
                   [do |-> "pgm", from |-> n, to |-> to],
                   [do |-> "image", from |-> n, to |-> to]>>
Confirm(n, a) == <<[do |-> "yaml", from |-> "default", to |-> a],
                   [do |-> "pgm", from |-> "default", to |-> a],
                   [do |-> "yaml", from |-> n, to |-> "default"],
                   [do |-> "pgm", from |-> n, to |-> "default"],
                   [do |-> "image", from |-> "default", to |-> a],
                   [do |-> "image", from |-> n, to |-> "default"],
                   [do |-> "routes", from |-> "default", to |-> a]>>
StepsOf(o) == IF o.kind = "rename" THEN Rename(o.name, o.to) ELSE Confirm(o.name, o.to)

Moved(f, from, to, nothing) == [f EXCEPT ![to] = f[from], ![from] = nothing]

Begin(kind, n, to) == op' = [kind |-> kind, name |-> n, to |-> to, steps |-> 0]

\* rename_map: the default is protected; the source must be a valid pair, the target free.
BeginRename(n, to) == /\ op = NoOp /\ n # to
                      /\ Valid(n) /\ ~Present(to)
                      /\ Begin("rename", n, to)
                      /\ UNCHANGED <<yaml, pgm, active, saved, gone, broken>>

\* confirm_default: both pairs must be valid; the old default gets a free archive name.
BeginConfirm(n, a) == /\ op = NoOp
                      /\ Valid(n) /\ Valid("default") /\ ~Present(a)
                      /\ Begin("confirm", n, a)
                      /\ UNCHANGED <<yaml, pgm, active, saved, gone, broken>>

Step == /\ op.kind \in {"rename", "confirm"}
        /\ op.steps < Len(StepsOf(op))
        /\ LET s == StepsOf(op)[op.steps + 1]
           IN  /\ yaml' = CASE s.do = "yaml" -> Moved(yaml, s.from, s.to, NoYaml)
                            [] s.do = "image" -> [yaml EXCEPT ![s.to].image = s.to]
                            [] OTHER -> yaml
               /\ pgm' = IF s.do = "pgm" THEN Moved(pgm, s.from, s.to, 0) ELSE pgm
               /\ active' = IF s.do = "routes" THEN {} ELSE active
        /\ op' = [op EXCEPT !.steps = @ + 1]
        /\ UNCHANGED <<saved, gone, broken>>

End == /\ op.kind \in {"rename", "confirm"}
       /\ op.steps = Len(StepsOf(op))
       /\ op' = NoOp
       /\ UNCHANGED <<yaml, pgm, active, saved, gone, broken>>

(* A step fails: the moves made are taken back in reverse, and the YAML files that *)
(* may have been rewritten get their old bytes. (A rollback that fails in turn is   *)
(* not modelled.)                                                                    *)
Done(do, from, to) == \E k \in 1 .. op.steps : StepsOf(op)[k] = [do |-> do, from |-> from, to |-> to]
MovedBack(f, do, nothing) ==
    LET back(g, from, to) == IF Done(do, from, to) THEN Moved(g, to, from, nothing) ELSE g
    IN  IF op.kind = "rename" THEN back(f, op.name, op.to)
        ELSE back(back(f, op.name, "default"), "default", op.to)
\* Mutant of Restored: the bytes are not written back.
RestoredRewritten(f) == f
Restored(f) == [n \in All |-> IF f[n].map # 0 /\ (n = op.name \/ (op.kind = "confirm" /\ n = "default"))
                              THEN [f[n] EXCEPT !.image = n] ELSE f[n]]
Fail == /\ op.kind \in {"rename", "confirm"}
        /\ op.steps < Len(StepsOf(op))
        /\ yaml' = Restored(MovedBack(yaml, "yaml", NoYaml))
        /\ pgm' = MovedBack(pgm, "pgm", 0)
        /\ op' = NoOp
        /\ UNCHANGED <<active, saved, gone, broken>>

\* delete_map: two unlinks, in an order nothing takes back.
Delete(n) == /\ op = NoOp /\ Present(n)
             /\ yaml' = [yaml EXCEPT ![n] = NoYaml]
             /\ gone' = gone \cup ({yaml[n].map, pgm[n]} \ {0})
             /\ Begin("delete", n, n)
             /\ UNCHANGED <<pgm, active, saved, broken>>

DeleteImage == /\ op.kind = "delete"
               /\ pgm' \in {pgm, [pgm EXCEPT ![op.name] = 0]}
               /\ op' = NoOp
               /\ UNCHANGED <<yaml, active, saved, gone, broken>>

(* save_map: the map saver writes both files of a new or an existing name. Mapping   *)
(* is running then, which keeps the operations above from starting.                  *)
SaveMap(n) == /\ op = NoOp /\ saved < MaxMaps
              /\ saved' = saved + 1
              /\ yaml' = [yaml EXCEPT ![n] = [map |-> saved + 1, image |-> n]]
              /\ pgm' = [pgm EXCEPT ![n] = saved + 1]
              /\ gone' = gone \cup ({yaml[n].map, pgm[n]} \ {0})
              /\ UNCHANGED <<active, op, broken>>

\* A patrol route is saved; it is bound to the default map of that moment.
SaveRoute == /\ op = NoOp /\ Valid("default")
             /\ active' = active \cup {pgm["default"]}
             /\ UNCHANGED <<yaml, pgm, op, saved, gone, broken>>

Restart == /\ op # NoOp
           /\ op' = NoOp
           /\ broken' = TRUE
           /\ UNCHANGED <<yaml, pgm, active, saved, gone>>

Next == \/ \E n, to \in Names : BeginRename(n, to)
        \/ \E n \in Names, a \in Archives : BeginConfirm(n, a)
        \/ Step \/ End \/ Fail
        \/ \E n \in Names : Delete(n)
        \/ DeleteImage
        \/ \E n \in Names \cup {"default"} : SaveMap(n)
        \/ SaveRoute \/ Restart

Spec == Init /\ [][Next]_vars

-----------------------------------------------------------------------------
(* Between operations, and as long as none was cut short by the end of the         *)
(* process: navigation has a valid default map; no map is lost or mixed up (each    *)
(* one that was saved and neither deleted nor overwritten is a valid pair), also    *)
(* after an operation that failed in the middle; and the active routes were drawn   *)
(* on the default map, or on one that was overwritten since.                         *)
Whole(m) == \E n \in All : Valid(n) /\ yaml[n].map = m /\ pgm[n] = m
MapsSurvive == op = NoOp /\ ~broken =>
    /\ Valid("default")
    /\ \A m \in 1 .. saved : m \in gone \/ Whole(m)
    /\ active \subseteq gone \cup {pgm["default"]}

=============================================================================
