----------------------------- MODULE ScanMatch -----------------------------
(***************************************************************************)
(* Matching a scan with the map near a given pose                          *)
(* (scan_map_relocalization_node.py).  A pose comes from a person or from  *)
(* the start of a patrol on /initialpose, or from the relocalization on    *)
(* the seed topic.  What the node makes of it goes out on /initialpose     *)
(* too, so that the node hears itself: it forgets a pose that looks like   *)
(* the one it sent last, for a second after it sent it.                    *)
(***************************************************************************)
EXTENDS Naturals, Sequences

CONSTANTS
  Poses,          \* poses that can be told apart (2 cm, 2 degrees)
  Refined,        \* near each pose: the poses that may match best, the scan
                  \* being what it is; any number of them, or none
  Lost,           \* no pose
  IgnoreTicks,    \* self_publish_ignore_seconds
  MaxOutside      \* bound: poses given from outside

VARIABLES
  map, scan,   \* a map and a scan have been received
  last, age,   \* _last_published_pose, or nothing, and its age
  initials,    \* /initialpose, not yet handled
  seeds,       \* the seed topic, not yet handled
  answer,      \* the match quality last published: "none", "accepted", "rejected"
  outside,     \* poses given from outside
  turn         \* history: changes with every correction sent

vars == <<map, scan, last, age, initials, seeds, answer, outside, turn>>

TypeOK ==
  /\ map \in BOOLEAN /\ scan \in BOOLEAN
  /\ last \in Poses \cup {Lost} /\ age \in 0 .. IgnoreTicks + 1
  /\ initials \in Seq([pose : Poses, own : BOOLEAN]) /\ seeds \in Seq(Poses)
  /\ answer \in {"none", "accepted", "rejected"} /\ outside \in 0 .. MaxOutside
  /\ turn \in BOOLEAN

Init ==
  /\ map = FALSE /\ scan = FALSE /\ last = Lost /\ age = 0
  /\ initials = <<>> /\ seeds = <<>> /\ answer = "none" /\ outside = 0
  /\ turn = FALSE

OnMap == /\ map' = TRUE
         /\ UNCHANGED <<scan, last, age, initials, seeds, answer, outside, turn>>
OnScan == /\ scan' = TRUE
          /\ UNCHANGED <<map, last, age, initials, seeds, answer, outside, turn>>

GivePose(p) ==
  /\ outside < MaxOutside /\ outside' = outside + 1
  /\ \/ initials' = Append(initials, [pose |-> p, own |-> FALSE]) /\ UNCHANGED seeds
     \/ seeds' = Append(seeds, p) /\ UNCHANGED initials
  /\ UNCHANGED <<map, scan, last, age, answer, turn>>

\* Mutant of PublishResult: the seed is remembered in place of its correction.
PublishResultRemembersSeed(seed, result, rest) ==
  /\ last' = seed /\ age' = 0 /\ answer' = "accepted"
  /\ initials' = Append(rest, [pose |-> result, own |-> TRUE])
  /\ turn' = ~ turn

PublishResult(seed, result, rest) ==
  /\ last' = result /\ age' = 0 /\ answer' = "accepted"
  /\ initials' = Append(rest, [pose |-> result, own |-> TRUE])
  /\ turn' = ~ turn

IsOwnCorrection(p) == last = p /\ age <= IgnoreTicks

\* _process_seed.  Only a seed is told of a failure; one that looks like the
\* last correction is told nothing.  refine_pose_near_seed takes the best pose of
\* the window, if it is good enough; a scan without usable points fails too.
ProcessSeed(p, automatic, rest) ==
  \/ /\ ~ IsOwnCorrection(p) /\ map /\ scan
     /\ \E result \in Refined[p] : PublishResult(p, result, rest)
  \/ /\ answer' = IF automatic /\ ~ IsOwnCorrection(p) THEN "rejected" ELSE answer
     /\ initials' = rest /\ UNCHANGED <<last, age, turn>>

OnInitialPose ==
  /\ initials # <<>>
  /\ ProcessSeed(Head(initials).pose, FALSE, Tail(initials))
  /\ UNCHANGED <<map, scan, seeds, outside>>

OnSeed ==
  /\ seeds # <<>> /\ seeds' = Tail(seeds)
  /\ ProcessSeed(Head(seeds), TRUE, initials)
  /\ UNCHANGED <<map, scan, outside>>

\* Time passes, whatever waits to be handled: the search for another pose, on
\* the thread that handles them all, may take longer than the ignored second.
Time ==
  /\ last # Lost /\ age <= IgnoreTicks
  /\ age' = age + 1
  /\ UNCHANGED <<map, scan, last, initials, seeds, answer, outside, turn>>

Callback == OnInitialPose \/ OnSeed
Next == OnMap \/ OnScan \/ (\E p \in Poses : GivePose(p)) \/ Callback \/ Time

Spec == Init /\ [][Next]_vars
Fairness == WF_vars(Callback)
FairSpec == Spec /\ Fairness

(***************************************************************************)
(* Properties                                                              *)
(***************************************************************************)
\* A correction the node has sent, and that comes back to it on the topic it
\* listens to, is corrected again only when the node has sent another one after
\* it, or when it comes back too late: within the ignored time the latest is
\* recognized, in whatever order poses of others come between.
EchoIsIgnored ==
  [][turn' # turn /\ seeds' = seeds
       => \/ ~ Head(initials).own
          \/ \E k \in 2 .. Len(initials) : initials[k].own
          \/ age > IgnoreTicks]_vars

\* Corrections do not multiply: of what waits to be handled, the corrections
\* included, there is never more than was given from outside.  They may go on
\* for ever, though: two on their way at once, of places that both match, call
\* each other forth, and so does one that always comes back too late.
EchoesDoNotMultiply == Len(initials) + Len(seeds) <= outside

\* The node comes to rest.  TLC refutes it as soon as two poses match.
CorrectionsSettle == <>[](initials = <<>> /\ seeds = <<>>)

==============================================================================
