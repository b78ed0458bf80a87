------------------------------ MODULE GnssGate ------------------------------
(***************************************************************************)
(* The quality gate of the GNSS receiver (gnss_quality_gate.py and the     *)
(* node around it).  A fix is judged with the last status the receiver     *)
(* sent and against the last fix the gate trusts.  After a rejection some  *)
(* good fixes in a row have to come before one is passed on again.         *)
(*                                                                         *)
(* Positions are places on a line, time goes in ticks.                     *)
(***************************************************************************)
EXTENDS Integers

CONSTANTS
  Span,                  \* bound: places are 0 .. Span
  MaxJump,               \* max_jump_distance
  MaxSpeed,              \* max_implied_speed, in places per tick
  StatusTimeout,         \* status_timeout
  RecoveryGoodSamples    \* recovery_good_samples

VARIABLES
  state,           \* "INITIAL", "GOOD", "DEGRADED", "REJECTED", "RECOVERING"
  recovery_count,
  trusted, gap,    \* previous_observation, or nothing, and how old it is
  status, age,     \* the receiver's last status, and how old it is
  passed,          \* history: the last fix was passed on
  streak           \* history: good fixes in a row

vars == <<state, recovery_count, trusted, gap, status, age, passed, streak>>

MaxGap == (MaxJump \div MaxSpeed) + 1     \* beyond it only the jump counts

TypeOK ==
  /\ state \in {"INITIAL", "GOOD", "DEGRADED", "REJECTED", "RECOVERING"}
  /\ recovery_count \in 0 .. RecoveryGoodSamples
  /\ trusted \in {{}} \cup {{p} : p \in 0 .. Span} /\ gap \in 0 .. MaxGap
  /\ status \in {"none", "good", "weak", "bad"} /\ age \in 0 .. StatusTimeout + 1
  /\ passed \in BOOLEAN /\ streak \in 0 .. RecoveryGoodSamples

Init ==
  /\ state = "INITIAL" /\ recovery_count = 0 /\ trusted = {} /\ gap = 0
  /\ status = "none" /\ age = 0 /\ passed = FALSE /\ streak = 0

\* _on_status: satellites, precision and the age of the corrections, summed
\* up.  A message without any status forgets the last one.
OnStatus ==
  /\ status' \in {"none", "good", "weak", "bad"} /\ age' = 0
  /\ UNCHANGED <<state, recovery_count, trusted, gap, passed, streak>>

Distance(p, q) == IF p < q THEN q - p ELSE p - q

\* _motion_reasons: only against a trusted fix.
MovedTooFar(p) ==
  \E q \in trusted : \/ gap = 0
                     \/ Distance(p, q) > MaxJump
                     \/ Distance(p, q) > MaxSpeed * gap

\* The reasons that reject a fix, and those that only weaken it.
Hard(p, fixed) ==
  \/ ~ fixed \/ status \in {"none", "bad"} \/ age > StatusTimeout
  \/ MovedTooFar(p)
Grade(p, fixed) == IF Hard(p, fixed) THEN "hard"
                   ELSE IF status = "weak" THEN "degraded" ELSE "good"

CountUp(n) == IF n < RecoveryGoodSamples THEN n + 1 ELSE n

\* Mutant of Recover: a weak fix does not start the count again.
RecoverThroughWeak(grade) ==
  LET count == CASE grade = "hard" -> 0
                 [] grade = "degraded" -> recovery_count
                 [] OTHER -> IF state = "REJECTED" THEN 1 ELSE CountUp(recovery_count)
  IN /\ recovery_count' = count
     /\ state' = IF grade = "hard" THEN "REJECTED"
                 ELSE IF count >= RecoveryGoodSamples THEN "GOOD" ELSE "RECOVERING"

\* Mutant of Recover: one good fix too many is asked for.
RecoverLate(grade) ==
  LET count == CASE grade # "good" -> 0
                 [] grade = "good" /\ state = "REJECTED" -> 1
                 [] OTHER -> recovery_count + 1
  IN /\ recovery_count' = count
     /\ state' = IF grade = "hard" THEN "REJECTED"
                 ELSE IF count > RecoveryGoodSamples THEN "GOOD" ELSE "RECOVERING"

\* From REJECTED and RECOVERING.
Recover(grade) ==
  LET count == CASE grade # "good" -> 0
                 [] grade = "good" /\ state = "REJECTED" -> 1
                 [] OTHER -> CountUp(recovery_count)
  IN /\ recovery_count' = count
     /\ state' = IF grade = "hard" THEN "REJECTED"
                 ELSE IF count >= RecoveryGoodSamples THEN "GOOD" ELSE "RECOVERING"

\* From INITIAL, GOOD and DEGRADED.
Judge(grade) ==
  /\ recovery_count' = IF state = "INITIAL" \/ grade = "hard" THEN 0 ELSE recovery_count
  /\ state' = CASE grade = "hard" -> "REJECTED" [] grade = "degraded" -> "DEGRADED"
                [] OTHER -> "GOOD"

\* _on_fix and evaluate.  A fix that is held becomes the trusted one, a
\* rejected one does not.
OnFix(p, fixed) ==
  LET grade == Grade(p, fixed)
  IN /\ IF state \in {"REJECTED", "RECOVERING"} THEN Recover(grade) ELSE Judge(grade)
     /\ passed' = (state' \in {"GOOD", "DEGRADED"})
     /\ IF grade = "hard" THEN UNCHANGED <<trusted, gap>>
        ELSE trusted' = {p} /\ gap' = 0
     /\ streak' = IF grade = "good" THEN CountUp(streak) ELSE 0
     /\ UNCHANGED <<status, age>>

Time ==
  /\ gap' = IF trusted # {} /\ gap < MaxGap THEN gap + 1 ELSE gap
  /\ age' = IF status # "none" /\ age <= StatusTimeout THEN age + 1 ELSE age
  /\ UNCHANGED <<state, recovery_count, trusted, status, passed, streak>>

Next ==
  \/ OnStatus \/ Time
  \/ \E p \in 0 .. Span, fixed \in BOOLEAN : OnFix(p, fixed)

Spec == Init /\ [][Next]_vars

(***************************************************************************)
(* Properties                                                              *)
(***************************************************************************)
\* The receiver that was rejected has to win its trust back: no fix after a
\* rejection is passed on before recovery_good_samples good ones in a row,
\* each within reach of the one before it.
TrustIsWonBackStep ==
  (state \in {"REJECTED", "RECOVERING"} /\ passed')
    => streak' >= RecoveryGoodSamples

TrustIsWonBack == [][TrustIsWonBackStep]_vars

==============================================================================
