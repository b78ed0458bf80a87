---------------------------- MODULE KeepoutWalls ----------------------------
(***************************************************************************)
(* Before navigation starts the supervisor prepares what it is started     *)
(* with (prepare_patrol_navigation_assets): the route is held against the  *)
(* map, its poses against the keepout zones, and the zones are drawn as    *)
(* virtual walls into two masks, unless those on disk pass for the route's *)
(* (check_keepout_setup.py).  generate_keepout_mask.py replaces the masks  *)
(* and, last of all, the metadata that says what they were drawn from; it  *)
(* may be killed between two of them.  The route and the map are files     *)
(* that others replace meanwhile.                                          *)
(*                                                                         *)
(* A mask is known by the route and the map it was drawn from, its yaml    *)
(* goes with its image, and no two maps have the same size, resolution and *)
(* origin.  Whether Nav2's parameters are those the check wants is left to *)
(* chance.                                                                 *)
(*                                                                         *)
(* The check counts the cells of the masks and compares the counts with    *)
(* the metadata's, and nothing makes two routes differ in how many cells   *)
(* their walls cover (see CheckerTellsTheRoutes).                          *)
(***************************************************************************)
EXTENDS Naturals

CONSTANTS
  Routes, Maps,
  Fits,            \* the pairs of a route and a map it is bound to
  HardCells        \* of a route's mask: how many cells its walls cover

\* An instance for TLC: all routes suit all maps, and their walls cover as many cells.
AnyPair == Routes \X Maps
SameCells == [r \in Routes |-> 1]

VARIABLES
  profile,         \* patrol_navigation_profile
  route, map,      \* what is in the two files
  global, local,   \* the masks on disk
  metadata,        \* keepout_masks.metadata.json
  step,            \* where prepare_patrol_navigation_assets is
  mode,            \* active_patrol_navigation_mode
  drawing,         \* what the generator read, and what it has yet to replace
  answer,          \* of the last preparation
  torn             \* history: the last drawing that changed a file was killed
                   \* before the metadata

files == <<global, local, metadata>>
vars == <<profile, route, map, files, step, mode, drawing, answer, torn>>

Nothing == [route |-> "none", map |-> "none"]
Sources == [route : Routes, map : Maps]
Here == [route |-> route, map |-> map]
Cells(mask) == IF mask = Nothing THEN 0 ELSE HardCells[mask.route]
Bound(s) == <<s.route, s.map>> \in Fits
Order == <<"global", "local", "metadata">>

TypeOK ==
  /\ profile \in {"auto", "normal", "keepout"} /\ Here \in Sources
  /\ {global, local} \subseteq Sources \cup {Nothing}
  /\ metadata.drawn_from \in Sources \cup {Nothing}
  /\ step \in {"idle", "safety", "check", "draw", "replace", "checkAgain"}
  /\ mode \in {"normal", "keepout"} /\ answer \in {"none", "ready", "refused"}
  /\ drawing.source \in Sources \cup {Nothing} /\ drawing.next \in 1 .. 4
  /\ torn \in BOOLEAN

Init ==
  /\ profile \in {"auto", "normal", "keepout"} /\ route \in Routes /\ map \in Maps
  /\ global = Nothing /\ local = Nothing
  /\ metadata = [drawn_from |-> Nothing, global_cells |-> 0, local_cells |-> 0]
  /\ step = "idle" /\ mode = "normal" /\ answer = "none" /\ torn = FALSE
  /\ drawing = [source |-> Nothing, next |-> 1]

\* External: another route file, another map under the same name.
Replaced ==
  /\ route' \in Routes /\ map' \in Maps
  /\ UNCHANGED <<profile, files, step, mode, drawing, answer, torn>>

Answers(a) == step' = "idle" /\ answer' = a

\* resolve_patrol_navigation_mode: zones cannot be ignored.
ModeFor(p, zones) ==
  CASE p = "auto" -> IF zones THEN {"keepout"} ELSE {"normal"}
    [] p = "normal" -> IF zones THEN {} ELSE {"normal"}
    [] p = "keepout" -> {"keepout"}

\* prepare_patrol_navigation_assets begins: load_route_file, the map binding
\* and the mode.  A file that is refused leaves the last mode.
Prepare ==
  /\ step = "idle"
  /\ \/ /\ ~ Bound(Here) \/ ModeFor(profile, HardCells[route] > 0) = {}
        /\ Answers("refused") /\ UNCHANGED mode
     \/ /\ Bound(Here) /\ mode' \in ModeFor(profile, HardCells[route] > 0)
        /\ step' = "safety" /\ answer' = "none"
  /\ UNCHANGED <<profile, route, map, files, drawing, torn>>

\* run_route_safety_check: the files are read again; a warning is no refusal.
RouteSafety ==
  /\ step = "safety"
  /\ \/ Answers("refused")
     \/ /\ Bound(Here)
        /\ IF mode = "normal" THEN Answers("ready") ELSE step' = "check" /\ UNCHANGED answer
  /\ UNCHANGED <<profile, route, map, files, mode, drawing, torn>>

\* Mutant of SetupOK: the hashes in the metadata are enough.
SetupOKByHash == metadata.drawn_from = Here /\ Bound(Here)

\* check_keepout_setup.py: the metadata names the route and the map that are
\* there, and it counts as many cells as the masks have, which are alike and as
\* large as the map.
SetupOK ==
  /\ Bound(Here)
  /\ global.map = map /\ local.map = map
  /\ metadata.drawn_from = Here
  /\ metadata.global_cells = Cells(global) /\ metadata.local_cells = Cells(local)
  /\ HardCells[route] > 0 => Cells(global) > 0 /\ global = local
  /\ HardCells[route] = 0 => Cells(global) = 0 /\ Cells(local) = 0

\* Masks that pass are kept.  Others are drawn anew, unless it is Nav2's
\* parameters that are wrong.
CheckSetup ==
  /\ step = "check"
  /\ \/ SetupOK /\ Answers("ready")
     \/ ~ SetupOK /\ step' = "draw" /\ UNCHANGED answer
     \/ Answers("refused")
  /\ UNCHANGED <<profile, route, map, files, mode, drawing, torn>>

\* generate_keepout_mask.py: everything is read and drawn, and staged.
Draw ==
  /\ step = "draw"
  /\ \/ /\ Bound(Here) /\ drawing' = [source |-> Here, next |-> 1]
        /\ step' = "replace" /\ UNCHANGED answer
     \/ Answers("refused") /\ UNCHANGED drawing
  /\ UNCHANGED <<profile, route, map, files, mode, torn>>

\* One os.replace after the other.
Replace ==
  /\ step = "replace" /\ drawing.next <= 3
  /\ drawing' = [drawing EXCEPT !.next = @ + 1]
  /\ LET f == Order[drawing.next]
         s == drawing.source
     IN /\ global' = IF f = "global" THEN s ELSE global
        /\ local' = IF f = "local" THEN s ELSE local
        /\ metadata' = IF f # "metadata" THEN metadata
                       ELSE [drawn_from |-> s, global_cells |-> HardCells[s.route],
                             local_cells |-> HardCells[s.route]]
        /\ torn' = (f # "metadata" /\ torn)
  /\ UNCHANGED <<profile, route, map, step, mode, answer>>

\* The generator's end, and one that is killed on the way: the answer is no.
Drawn ==
  /\ step = "replace"
  /\ \/ drawing.next > 3 /\ step' = "checkAgain" /\ UNCHANGED answer
     \/ Answers("refused")
  /\ drawing' = [source |-> Nothing, next |-> 1]
  /\ torn' = (torn \/ drawing.next \in 2 .. 3)
  /\ UNCHANGED <<profile, route, map, files, mode>>

\* The second check has the last word.
CheckAgain ==
  /\ step = "checkAgain"
  /\ \/ SetupOK /\ Answers("ready")
     \/ Answers("refused")
  /\ UNCHANGED <<profile, route, map, files, mode, drawing, torn>>

Next ==
  \/ Replaced \/ Prepare \/ RouteSafety \/ CheckSetup
  \/ Draw \/ Replace \/ Drawn \/ CheckAgain

Spec == Init /\ [][Next]_vars

\* When navigation is to be started with virtual walls, whatever generators were
\* killed and whatever routes came and went before, both masks are alike, as
\* large as the map's and of as many cells as the route's walls cover, and the
\* metadata is of this route and map; and the masks are the route's own unless
\* the last drawing was torn (prepare_patrol_navigation_assets).
WallsAreTheRoutesStep ==
  (step # "idle" /\ answer' = "ready" /\ mode = "keepout" /\ HardCells[route] > 0)
    => /\ global = local /\ global.map = map /\ Cells(global) = HardCells[route]
       /\ metadata.drawn_from = Here
       /\ torn \/ global = Here

WallsAreTheRoutes == [][WallsAreTheRoutesStep]_vars

\* What the manual promises of the checker, that it fails on masks which are not
\* the route's.  It does not hold of two routes r, s with HardCells[r] = HardCells[s]:
\* a generator for s is killed between masks and metadata, and r comes back.
CheckerTellsTheRoutes ==
  [][(step \in {"check", "checkAgain"} /\ answer' = "ready" /\ HardCells[route] > 0)
       => (global = Here /\ local = Here)]_vars
=============================================================================
