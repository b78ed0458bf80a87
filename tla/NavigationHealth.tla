-------------------------- MODULE NavigationHealth --------------------------
(***************************************************************************)
(* The health of navigation (navigation_health_core.py and its node): the  *)
(* last message of every source and when it came, and a timer that sums    *)
(* them up.  A source never heard of has no age and gives no reason.       *)
(***************************************************************************)
EXTENDS Naturals

CONSTANTS
  Quality,       \* sources with a diagnostic: gnss, lidar, scan_match
  Plain,         \* sources whose arrival is all that counts: odom, scan
  Required,      \* required_signals
  Timeout        \* freshness_timeout, in ticks of the timer

VARIABLES
  quality,   \* normalised state of each source
  amcl,      \* the covariance of the last pose: "none", "GOOD", "REJECTED"
  reloc,     \* state of the relocalization, as normalised
  age,       \* ticks since each source was heard, up to Silent, or Never
  overall    \* the overall state last published

vars == <<quality, amcl, reloc, age, overall>>

Sources == Quality \cup Plain \cup {"amcl", "relocalization"}
Silent == Timeout + 2
Never == Timeout + 3

Overalls == {"NOMINAL", "DEGRADED", "LOCALIZATION_SUSPECT", "RECOVERING",
             "RECOVERED", "FAILED", "MANUAL_REQUIRED"}
Relocalizations == {"NOMINAL", "LOCALIZATION_SUSPECT", "RECOVERING", "RECOVERED",
                    "FAILED", "MANUAL_REQUIRED"}

TypeOK ==
  /\ quality \in [Quality -> {"GOOD", "DEGRADED", "REJECTED", "UNKNOWN"}]
  /\ amcl \in {"none", "GOOD", "REJECTED"} /\ reloc \in Relocalizations
  /\ age \in [Sources -> 0 .. Never]
  /\ overall \in Overalls \cup {"none"}

Init ==
  /\ quality = [s \in Quality |-> "UNKNOWN"] /\ amcl = "none" /\ reloc = "NOMINAL"
  /\ age = [s \in Sources |-> Never] /\ overall = "none"

Heard(s) == age' = [age EXCEPT ![s] = 0]

\* _on_quality: the state normalised from the words of the publisher and the
\* level of its diagnostic.
OnQuality(s, state) ==
  /\ quality' = [quality EXCEPT ![s] = state] /\ Heard(s)
  /\ UNCHANGED <<amcl, reloc, overall>>

OnRelocalization(state) ==
  /\ reloc' = state /\ Heard("relocalization")
  /\ UNCHANGED <<quality, amcl, overall>>

\* A pose without a usable covariance counts as one without an opinion.
OnAmcl(state) ==
  /\ amcl' = state /\ Heard("amcl")
  /\ UNCHANGED <<quality, reloc, overall>>

OnPlain(s) == Heard(s) /\ UNCHANGED <<quality, amcl, reloc, overall>>

\* Mutant of Stale: what has been silent for long counts as never heard of.
StaleOnce(s) == age[s] = Timeout + 1

Stale(s) == Timeout < age[s] /\ age[s] < Never

\* The states the sources are in at a tick, silence included.
Shown(s) == IF Stale(s) THEN "STALE" ELSE quality[s]
Reasons ==
  {s \in Quality : Shown(s) \in {"DEGRADED", "REJECTED", "STALE"}}
    \cup {s \in Sources \ Quality : Stale(s)}
    \cup (IF amcl = "REJECTED" THEN {"amcl"} ELSE {})

\* evaluate.  The state of the relocalization comes before the sources do,
\* RECOVERED before their weakness.
Overall ==
  IF ~ Stale("relocalization") /\ reloc \in {"MANUAL_REQUIRED", "FAILED", "RECOVERING"}
  THEN reloc
  ELSE IF \/ Stale("relocalization") \/ reloc = "LOCALIZATION_SUSPECT"
          \/ Stale("amcl") \/ amcl = "REJECTED"
          \/ \E s \in Required : Stale(s)
  THEN "LOCALIZATION_SUSPECT"
  ELSE IF reloc = "RECOVERED" THEN "RECOVERED"
  ELSE IF Reasons # {} THEN "DEGRADED" ELSE "NOMINAL"

\* _tick.  Then time goes on by one period.
Tick ==
  /\ overall' = Overall
  /\ age' = [s \in Sources |-> IF age[s] < Silent THEN age[s] + 1 ELSE age[s]]
  /\ UNCHANGED <<quality, amcl, reloc>>

Next ==
  \/ \E s \in Quality, state \in {"GOOD", "DEGRADED", "REJECTED", "UNKNOWN"} :
       OnQuality(s, state)
  \/ \E state \in Relocalizations : OnRelocalization(state)
  \/ \E state \in {"none", "GOOD", "REJECTED"} : OnAmcl(state)
  \/ \E s \in Plain : OnPlain(s)
  \/ Tick

Spec == Init /\ [][Next]_vars

(***************************************************************************)
(* Properties                                                              *)
(***************************************************************************)
\* Silence is noticed: the state last published calls nothing nominal that
\* was heard once and has been silent for longer than the timeout and a
\* period, and nothing recovered while the pose or the relocalization is.
SilenceIsNoticed ==
  /\ overall = "NOMINAL" => \A s \in Sources : age[s] # Silent
  /\ overall = "RECOVERED" => \A s \in Required \cup {"amcl", "relocalization"} :
                                age[s] # Silent

==============================================================================
