------------------------- MODULE VelocityPathProofs -------------------------
(***************************************************************************)
(* Proofs about the arbiter and the wheels behind it, for every choice of  *)
(* the timeouts, guard and timer period: first the arbiter alone,          *)
(* then the end-to-end bound, for which the arbiter's invariant holds as   *)
(* long as its process lives and the base's watchdog covers what comes     *)
(* after.                                                                  *)
(***************************************************************************)
EXTENDS VelocityPath, Integers, TLAPS

-----------------------------------------------------------------------------
(* The arbiter.                                                            *)

\* What was forwarded was fresh at the last tick: since then its age and the
\* status's have grown at most as much as the timer's.
FreshInv ==
  Owned =>
    /\ ~manual
    /\ source = out.owner
    /\ age[out.owner] <= SourceTimeout + timerAge
    /\ statusAge <= StatusTimeout + timerAge

\* A source that is selected and not yet forwarded has been at rest for what
\* of its guard has passed.
GuardInv == source # "NONE" /\ ~Owned => rest + guardLeft >= SwitchGuard

\* An owner's command is forwarded with no guard left.
NoGuardInv == Owned => guardLeft = 0

IInv == TypeOK /\ FreshInv /\ GuardInv /\ NoGuardInv

LEMMA OlderBounded ==
  ASSUME NEW a \in Ages
  PROVE  Older(a) \in Ages /\ Older(a) <= a + 1 /\ (a < AgeCap => Older(a) = a + 1)
BY TimesAssumption DEF Older, Ages

\* What process publishes.
LEMMA ProcessPublishes ==
  ASSUME IInv, NEW m \in BOOLEAN, Process(m)
  PROVE  /\ source' \in Sources \cup {"NONE"}
         /\ guardLeft' \in 0 .. SwitchGuard
         /\ rest' \in Ages
         /\ out' \in [owner : Sources \cup {"NONE"}, command : {"drive", "zero"}]
         /\ \/ out' = Zero /\ rest' = rest
               /\ (source' # "NONE" => rest' + guardLeft' >= SwitchGuard)
            \/ /\ out'.owner \in Sources /\ source' = out'.owner
               /\ source' = source /\ guardLeft' = 0
               /\ ~m /\ statusAge <= StatusTimeout
               /\ age[out'.owner] <= SourceTimeout
<1>. DEFINE selected == Selected(m)
<1>0. TypeOK
  BY DEF IInv
<1>1. selected \in Sources \cup {"NONE"}
  BY DEF Selected, Owner, Sources
<1>2. selected # "NONE" =>
        /\ ~m /\ statusAge <= StatusTimeout
        /\ age[selected] <= SourceTimeout /\ command[selected] # "nonfinite"
  BY DEF Selected, Usable
<1>3. Zero \in [owner : Sources \cup {"NONE"}, command : {"drive", "zero"}]
  BY DEF Zero
<1>4. CASE selected = "NONE" /\ source' = "NONE" /\ Publish(Zero) /\ UNCHANGED guardLeft
  BY <1>0, <1>3, <1>4 DEF Publish, TypeOK
<1>5. CASE /\ selected \notin {"NONE", source} /\ source' = selected
           /\ guardLeft' = SwitchGuard /\ Publish(Zero)
  <2>1. guardLeft' \in 0 .. SwitchGuard
    BY <1>5, TimesAssumption
  <2>2. rest \in Nat
    BY <1>0, TimesAssumption DEF TypeOK, Ages
  <2>3. rest' + guardLeft' >= SwitchGuard
    BY <1>5, <2>2, TimesAssumption DEF Publish
  <2>. QED
    BY <1>0, <1>1, <1>3, <1>5, <2>1, <2>3 DEF Publish, TypeOK
<1>6. CASE /\ selected # "NONE" /\ selected = source
           /\ Publish(IF guardLeft > 0 THEN Zero ELSE Forwarded(selected))
           /\ UNCHANGED <<source, guardLeft>>
  <2>1. CASE guardLeft > 0
    <3>1. ~Owned /\ rest + guardLeft >= SwitchGuard
      BY <1>0, <1>6, <2>1, TimesAssumption DEF IInv, NoGuardInv, GuardInv, TypeOK
    <3>. QED
      BY <1>0, <1>3, <1>6, <2>1, <3>1 DEF Publish, TypeOK
  <2>2. CASE ~(guardLeft > 0)
    <3>1. guardLeft = 0
      BY <1>0, <2>2, TimesAssumption DEF TypeOK
    <3>2. selected \in Sources
      BY <1>1, <1>6
    <3>3. command[selected] \in {"drive", "zero"}
      BY <1>0, <1>2, <1>6, <3>2 DEF TypeOK, Commands
    <3>4. Forwarded(selected) # Zero
      BY <3>2 DEF Forwarded, Zero, Sources
    <3>5. out' = Forwarded(selected) /\ rest' = 0
      BY <1>6, <2>2, <3>4 DEF Publish
    <3>. QED
      BY <1>0, <1>2, <1>6, <3>1, <3>2, <3>3, <3>5, TimesAssumption
         DEF Forwarded, TypeOK, Ages
  <2>. QED
    BY <2>1, <2>2
<1>. QED
  BY <1>4, <1>5, <1>6 DEF Process

\* Time moves from what is left of the guard to the rest.
LEMMA GuardElapses ==
  ASSUME NEW r \in Nat, NEW g \in Nat, NEW r1 \in Nat, NEW g1 \in Nat,
         r + g >= SwitchGuard, g1 + 1 >= g, r1 = r + 1 \/ r1 >= AgeCap
  PROVE  r1 + g1 >= SwitchGuard
BY TimesAssumption

LEMMA InitInv == Init => IInv
<1>. SUFFICES ASSUME Init PROVE IInv
  OBVIOUS
<1>1. AgeCap \in Ages /\ 0 \in 0 .. SwitchGuard /\ 0 \in 0 .. TimerPeriod
  BY TimesAssumption DEF Ages
<1>2. TypeOK
  BY <1>1 DEF Init, TypeOK, Zero, Commands, HealthStates, NavigationStates
<1>3. ~Owned /\ source = "NONE"
  BY DEF Init, Owned, Zero
<1>. QED
  BY <1>2, <1>3 DEF IInv, FreshInv, GuardInv, NoGuardInv

LEMMA StepInv ==
  ASSUME IInv, [Next]_vars
  PROVE  IInv'
<1>0. /\ TypeOK
      /\ timerAge \in Nat /\ guardLeft \in Nat /\ rest \in Nat /\ statusAge \in Nat
      /\ \A s \in Sources : age[s] \in Nat
  BY TimesAssumption DEF IInv, TypeOK, Ages
<1>1. ASSUME NEW s \in Sources, OnCommand(s)
      PROVE  IInv'
  <2>1. \A u \in Sources : age'[u] = 0 \/ age'[u] = age[u]
    BY <1>0, <1>1 DEF OnCommand, TypeOK
  <2>2. TypeOK'
    BY <1>0, <1>1, TimesAssumption DEF OnCommand, TypeOK, Ages
  <2>3. FreshInv'
    BY <1>0, <1>1, <2>1, TimesAssumption DEF OnCommand, IInv, FreshInv, Owned, TypeOK
  <2>. QED
    BY <1>1, <2>2, <2>3 DEF OnCommand, IInv, GuardInv, NoGuardInv, Owned
<1>2. CASE OnNavigationStatus
  BY <1>0, <1>2, TimesAssumption
     DEF OnNavigationStatus, IInv, TypeOK, FreshInv, GuardInv, NoGuardInv, Owned, Ages
<1>3. CASE Tick
  <2>1. TypeOK'
    BY <1>0, <1>3, ProcessPublishes, TimesAssumption DEF Tick, TypeOK, inputs
  <2>2. CASE out' = Zero /\ (source' # "NONE" => rest' + guardLeft' >= SwitchGuard)
    BY <2>1, <2>2 DEF IInv, FreshInv, GuardInv, NoGuardInv, Owned, Zero
  <2>3. CASE /\ out'.owner \in Sources /\ source' = out'.owner /\ guardLeft' = 0
             /\ ~manual /\ statusAge <= StatusTimeout
             /\ age[out'.owner] <= SourceTimeout
    <3>1. timerAge' = 0 /\ age' = age /\ statusAge' = statusAge /\ manual' = manual
      BY <1>3 DEF Tick, inputs
    <3>2. FreshInv'
      BY <1>0, <2>3, <3>1, TimesAssumption DEF FreshInv, Owned
    <3>3. Owned'
      BY <2>3 DEF Owned, Sources
    <3>. QED
      BY <2>1, <2>3, <3>2, <3>3 DEF IInv, GuardInv, NoGuardInv
  <2>4. manual \in BOOLEAN
    BY <1>0 DEF TypeOK
  <2>. QED
    BY <1>3, <2>2, <2>3, <2>4, ProcessPublishes DEF Tick
<1>4. CASE OnManual
  <2>1. PICK data \in BOOLEAN :
          /\ manual' = data
          /\ IF data THEN Process(TRUE) ELSE UNCHANGED <<source, guardLeft, out, rest>>
          /\ UNCHANGED <<inputs, timerAge>>
    BY <1>4 DEF OnManual
  <2>2. CASE data
    <3>1. Process(TRUE)
      BY <2>1, <2>2
    <3>2. /\ out' = Zero /\ (source' # "NONE" => rest' + guardLeft' >= SwitchGuard)
          /\ source' \in Sources \cup {"NONE"} /\ guardLeft' \in 0 .. SwitchGuard
          /\ rest' \in Ages
          /\ out' \in [owner : Sources \cup {"NONE"}, command : {"drive", "zero"}]
      BY <3>1, ProcessPublishes
    <3>3. TypeOK'
      BY <1>0, <2>1, <3>2 DEF TypeOK, inputs
    <3>. QED
      BY <3>2, <3>3 DEF IInv, FreshInv, GuardInv, NoGuardInv, Owned, Zero
  <2>3. CASE ~data
    <3>1. ~manual' /\ UNCHANGED <<inputs, source, guardLeft, timerAge, out, rest>>
      BY <2>1, <2>3
    <3>2. TypeOK'
      BY <1>0, <3>1, <2>1 DEF TypeOK, inputs
    <3>3. FreshInv'
      BY <3>1 DEF inputs, IInv, FreshInv, Owned
    <3>. QED
      BY <3>1, <3>2, <3>3 DEF IInv, GuardInv, NoGuardInv, Owned
  <2>. QED
    BY <2>2, <2>3
<1>5. CASE Elapse
  <2>1. \A s \in Sources : age'[s] = Older(age[s])
    BY <1>5 DEF Elapse
  <2>2. \A s \in Sources : age'[s] \in Ages /\ age'[s] <= age[s] + 1
    BY <1>0, <2>1, OlderBounded DEF TypeOK
  <2>3. /\ statusAge' \in Ages /\ statusAge' <= statusAge + 1
        /\ rest' \in Ages /\ (rest < AgeCap => rest' = rest + 1)
        /\ (rest >= AgeCap => rest' >= AgeCap)
    <3>1. statusAge \in Ages /\ rest \in Ages
      BY <1>0 DEF TypeOK
    <3>2. statusAge' = Older(statusAge) /\ rest' = Older(rest)
      BY <1>5 DEF Elapse
    <3>3. rest >= AgeCap => Older(rest) = rest
      BY <3>1, TimesAssumption DEF Older, Ages
    <3>. QED
      BY <3>1, <3>2, <3>3, OlderBounded
  <2>4. /\ guardLeft' \in 0 .. SwitchGuard /\ guardLeft' + 1 >= guardLeft
        /\ (guardLeft = 0 => guardLeft' = 0)
    BY <1>0, <1>5, TimesAssumption DEF TypeOK, Elapse
  <2>5. TypeOK'
    BY <1>0, <1>5, <2>2, <2>3, <2>4, TimesAssumption DEF TypeOK, Elapse
  <2>6. FreshInv'
    <3>. SUFFICES ASSUME Owned'
                  PROVE  /\ ~manual' /\ source' = out'.owner
                         /\ age'[out'.owner] <= SourceTimeout + timerAge'
                         /\ statusAge' <= StatusTimeout + timerAge'
      BY DEF FreshInv
    <3>1. Owned /\ out' = out /\ out.owner \in Sources
      BY <1>0, <1>5 DEF Elapse, Owned, TypeOK
    <3>2. ~manual /\ source = out.owner
          /\ age[out.owner] <= SourceTimeout + timerAge
          /\ statusAge <= StatusTimeout + timerAge
      BY <3>1 DEF IInv, FreshInv
    <3>3. age'[out.owner] \in Nat /\ statusAge' \in Nat
      BY <2>2, <2>3, <3>1, TimesAssumption DEF Ages
    <3>4. timerAge' = timerAge + 1 /\ UNCHANGED <<manual, source>>
      BY <1>5 DEF Elapse
    <3>5. age[out.owner] \in Nat /\ age'[out.owner] <= age[out.owner] + 1
      BY <1>0, <2>2, <3>1
    <3>6. age'[out.owner] <= SourceTimeout + timerAge'
      <4>1. age[out.owner] <= SourceTimeout + timerAge
        BY <3>2
      <4>2. age'[out.owner] \in Nat
        BY <3>3
      <4>. QED
        BY <1>0, <3>4, <3>5, <4>1, <4>2, TimesAssumption
    <3>7. statusAge' <= StatusTimeout + timerAge'
      BY <1>0, <2>3, <3>2, <3>3, <3>4, TimesAssumption
    <3>. QED
      BY <3>1, <3>2, <3>4, <3>6, <3>7
  <2>7. GuardInv'
    <3>. SUFFICES ASSUME source' # "NONE", ~Owned'
                  PROVE  rest' + guardLeft' >= SwitchGuard
      BY DEF GuardInv
    <3>1. rest + guardLeft >= SwitchGuard
      BY <1>5 DEF Elapse, IInv, GuardInv, Owned
    <3>2. rest' \in Nat /\ guardLeft' \in Nat
      BY <2>3, <2>4, TimesAssumption DEF Ages
    <3>3. guardLeft' + 1 >= guardLeft
      BY <2>4
    <3>4. rest' = rest + 1 \/ rest' >= AgeCap
      BY <1>0, <2>3, TimesAssumption
    <3>. QED
      BY <1>0, <3>1, <3>2, <3>3, <3>4, GuardElapses
  <2>8. NoGuardInv'
    BY <1>5, <2>4 DEF Elapse, IInv, NoGuardInv, Owned
  <2>. QED
    BY <2>5, <2>6, <2>7, <2>8 DEF IInv
<1>6. CASE UNCHANGED vars
  BY <1>6 DEF vars, inputs, IInv, TypeOK, FreshInv, GuardInv, NoGuardInv, Owned
<1>. QED
  BY <1>1, <1>2, <1>3, <1>4, <1>5, <1>6 DEF Next

LEMMA Inductive == Spec => []IInv
BY InitInv, StepInv, PTL DEF Spec

\* Every variable keeps its type, for all timeouts.
THEOREM ArbiterTyped == Spec => []TypeOK
<1>1. IInv => TypeOK
  BY DEF IInv
<1>. QED
  BY <1>1, Inductive, PTL

\* The age of the command the robot executes, and of the health it was
\* forwarded under, is bounded by the timeouts and one period of the timer,
\* and a takeover leaves no command at all.
THEOREM CommandsAreBounded == Spec => []StopBound
<1>1. IInv => StopBound
  <2>. SUFFICES ASSUME IInv, Owned
                PROVE  /\ ~manual
                       /\ age[out.owner] <= SourceTimeout + TimerPeriod
                       /\ statusAge <= StatusTimeout + TimerPeriod
    BY DEF StopBound
  <2>1. out.owner \in Sources
    BY DEF IInv, TypeOK, Owned
  <2>2. age[out.owner] \in Nat /\ statusAge \in Nat /\ timerAge \in 0 .. TimerPeriod
    BY <2>1, TimesAssumption DEF IInv, TypeOK, Ages
  <2>. QED
    BY <2>2, TimesAssumption DEF IInv, FreshInv
<1>. QED
  BY <1>1, Inductive, PTL

\* The wheels change owner only from zero, after the whole guard.
THEOREM HandoverIsGuarded == Spec => GuardedHandover
<1>1. ASSUME IInv, [Next]_vars
      PROVE  [out'.owner \notin {"NONE", out.owner} => ~Owned /\ rest >= SwitchGuard]_vars
  <2>. SUFFICES ASSUME Next, out'.owner \notin {"NONE", out.owner}
                PROVE  ~Owned /\ rest >= SwitchGuard
    BY <1>1 DEF vars
  <2>1. PICK m \in BOOLEAN : Process(m)
    BY <1>1 DEF Next, OnCommand, OnNavigationStatus, OnManual, Tick, Elapse, IInv, TypeOK
  <2>2. out'.owner \in Sources /\ source = out'.owner /\ guardLeft' = 0 /\ UNCHANGED guardLeft
    BY <1>1, <2>1, ProcessPublishes DEF Process, Zero, Publish, Forwarded
  <2>3. ~Owned
    BY <1>1, <2>2 DEF IInv, FreshInv
  <2>4. rest \in Nat /\ source # "NONE"
    BY <1>1, <2>2, TimesAssumption DEF IInv, TypeOK, Ages, Sources
  <2>. QED
    BY <1>1, <2>2, <2>3, <2>4, TimesAssumption DEF IInv, GuardInv
<1>. QED
  BY <1>1, Inductive, PTL DEF Spec, GuardedHandover

-----------------------------------------------------------------------------
(* The arbiter with the wheels behind it.                                  *)

\* What the two programs' parameters must be: the base counts beyond its own
\* timeout.
BaseTimes == CmdTimeout \in Nat /\ AgeCap > CmdTimeout

\* Wheels that turn do so on the command published last, which has aged since
\* then with the base's own stamp of it at most.
DrivenInv ==
  wheels = "moving" =>
    /\ Owned /\ out.owner \in Sources
    /\ age[out.owner] <= SourceTimeout + baseAge.command

\* The watchdog of the period stops wheels whose command is too old.
WatchdogInv ==
  wheels = "moving" =>
    /\ ~ timedOut
    /\ baseAge.command <= CmdTimeout + (IF due THEN 1 ELSE 0)

PathInv ==
  /\ TypeOK /\ alive \in BOOLEAN /\ drive = "serial"
  /\ baseAge \in [{"command", "scan", "feedback"} -> Ages]
  /\ wheels \in {"still", "moving"}
  /\ alive => IInv
  /\ DrivenInv /\ WatchdogInv

LEMMA PathInitInv == ASSUME BaseTimes, PathInit PROVE PathInv
<1>1. IInv
  BY InitInv DEF PathInit
<1>2. 0 \in Ages
  BY TimesAssumption DEF Ages
<1>. QED
  BY <1>1, <1>2 DEF PathInit, PathInv, IInv, DrivenInv, WatchdogInv

\* What the base makes of a Twist.
LEMMA TwistReceived ==
  ASSUME PathInv, Base!OnCommand(Told)
  PROVE  /\ wheels' \in {"still", "moving"} /\ (wheels' = "moving" => out'.command = "drive")
         /\ baseAge' \in [{"command", "scan", "feedback"} -> Ages] /\ baseAge'.command = 0
         /\ ~ timedOut' /\ UNCHANGED <<drive, due>>
<1>1. 0 \in Ages
  BY TimesAssumption DEF Ages
<1>2. baseAge' = [baseAge EXCEPT !.command = 0] /\ timedOut' = FALSE /\ UNCHANGED <<drive, due>>
  BY DEF Base!OnCommand
<1>3. wheels' \in {Told, "still"}
  BY DEF Base!OnCommand, Base!Write
<1>. QED
  BY <1>1, <1>2, <1>3 DEF PathInv, Told

\* A step of the arbiter that publishes.
LEMMA PublishedKeeps ==
  ASSUME BaseTimes, PathInv, alive, alive' = alive, Base!OnCommand(Told),
         [Next]_vars, NEW m \in BOOLEAN, Process(m), UNCHANGED age
  PROVE  PathInv'
<1>1. IInv /\ IInv'
  BY StepInv DEF PathInv
<1>2. out' = Zero \/ /\ out'.owner \in Sources
                     /\ age[out'.owner] <= SourceTimeout
  BY <1>1, ProcessPublishes
<1>3. ASSUME wheels' = "moving"
      PROVE  Owned' /\ out'.owner \in Sources /\ age'[out'.owner] <= SourceTimeout
  <2>1. out' # Zero
    BY <1>3, TwistReceived DEF Zero
  <2>. QED
    BY <1>2, <2>1 DEF Owned, Sources
<1>4. DrivenInv'
  BY <1>3, TwistReceived, TimesAssumption DEF DrivenInv
<1>5. WatchdogInv'
  BY TwistReceived DEF WatchdogInv, BaseTimes
<1>. QED
  BY <1>1, <1>4, <1>5, TwistReceived DEF PathInv, IInv

LEMMA TickKeeps ==
  ASSUME BaseTimes, PathInv, Publishes(Tick) PROVE PathInv'
<1>1. manual \in BOOLEAN /\ Process(manual) /\ UNCHANGED age
  BY DEF Publishes, Tick, inputs, PathInv, TypeOK
<1>2. [Next]_vars
  BY DEF Publishes, Next
<1>. QED
  BY <1>1, <1>2, PublishedKeeps DEF Publishes

LEMMA TakeoverKeeps ==
  ASSUME BaseTimes, PathInv, Publishes(OnManual /\ manual') PROVE PathInv'
<1>1. Process(TRUE) /\ UNCHANGED age
  BY DEF Publishes, OnManual, inputs
<1>2. [Next]_vars
  BY DEF Publishes, Next
<1>. QED
  BY <1>1, <1>2, PublishedKeeps DEF Publishes

LEMMA ReceivesKeeps ==
  ASSUME PathInv, Receives PROVE PathInv'
<1>1. IInv'
  <2>1. IInv /\ [Next]_vars
    BY DEF PathInv, Receives, Next
  <2>. QED
    BY <2>1, StepInv
<1>2. out' = out /\ \A s \in Sources : age'[s] = 0 \/ age'[s] = age[s]
  <2>1. ASSUME NEW r \in Sources, OnCommand(r)
        PROVE  out' = out /\ \A s \in Sources : age'[s] = 0 \/ age'[s] = age[s]
    BY <2>1 DEF OnCommand, PathInv, TypeOK
  <2>2. CASE OnNavigationStatus
    BY <2>2 DEF OnNavigationStatus
  <2>3. ASSUME OnManual, ~manual' PROVE out' = out /\ age' = age
    BY <2>3 DEF OnManual, inputs
  <2>. QED
    BY <2>1, <2>2, <2>3 DEF Receives
<1>3. \A s \in Sources : age[s] \in Nat
  BY TimesAssumption DEF PathInv, TypeOK, Ages
<1>4. baseAge.command \in Nat
  BY TimesAssumption DEF PathInv, Ages
<1>5. UNCHANGED <<wheels, baseAge, drive, timedOut, due, alive>>
  BY DEF Receives, baseVars
<1>6. DrivenInv'
  BY <1>2, <1>3, <1>4, <1>5, TimesAssumption DEF DrivenInv, PathInv, Owned
<1>7. WatchdogInv'
  BY <1>5 DEF WatchdogInv, PathInv
<1>. QED
  BY <1>1, <1>5, <1>6, <1>7 DEF PathInv, IInv

LEMMA WatchdogKeeps ==
  ASSUME BaseTimes, PathInv, Base!Watchdog, UNCHANGED <<vars, alive>> PROVE PathInv'
<1>1. UNCHANGED <<baseAge, drive>> /\ ~ due'
  BY DEF Base!Watchdog
<1>2. \/ wheels' = "still"
      \/ wheels' = wheels /\ UNCHANGED timedOut /\ baseAge.command <= CmdTimeout
      \/ wheels' = wheels /\ timedOut
  BY DEF Base!Watchdog, Base!Write
<1>3. UNCHANGED <<age, out, command, health, statusAge, manual, source, guardLeft, timerAge, rest>>
  BY DEF vars, inputs
<1>4. TypeOK' /\ (IInv => IInv')
  BY <1>3 DEF PathInv, TypeOK, IInv, FreshInv, GuardInv, NoGuardInv, Owned
<1>5. DrivenInv'
  BY <1>1, <1>2, <1>3 DEF PathInv, DrivenInv, WatchdogInv, Owned
<1>6. WatchdogInv'
  BY <1>1, <1>2, TimesAssumption DEF PathInv, WatchdogInv, BaseTimes, Ages
<1>. QED
  BY <1>1, <1>2, <1>4, <1>5, <1>6 DEF PathInv

LEMMA OverTimeKeeps ==
  ASSUME BaseTimes, PathInv, OverTime PROVE PathInv'
<1>1. /\ ~ due /\ due' /\ UNCHANGED <<drive, wheels, timedOut, alive, out>>
      /\ baseAge' = [command |-> Base!Older(baseAge.command), scan |-> 0, feedback |-> 0]
      /\ age' = [s \in Sources |-> Older(age[s])]
  BY DEF OverTime, BaseElapse, Elapse
<1>2. Base!Older(baseAge.command) = Older(baseAge.command)
  BY DEF Base!Older, Older
<1>3. baseAge.command \in Ages
  BY DEF PathInv
<1>4. baseAge' \in [{"command", "scan", "feedback"} -> Ages]
  BY <1>1, <1>2, <1>3, OlderBounded, TimesAssumption DEF Ages
<1>5. TypeOK' /\ (alive => IInv')
  <2>1. CASE alive
    <3>1. [Next]_vars
      BY <2>1 DEF OverTime, Next
    <3>. QED
      BY <2>1, <3>1, StepInv DEF PathInv, IInv
  <2>2. CASE ~ alive
    <3>1. age' \in [Sources -> Ages]
      BY <1>1, OlderBounded DEF PathInv, TypeOK
    <3>. QED
      BY <2>2, <3>1 DEF OverTime, PathInv, TypeOK
  <2>. QED
    BY <2>1, <2>2
<1>6. ASSUME wheels' = "moving"
      PROVE  /\ Owned' /\ out'.owner \in Sources
             /\ age'[out'.owner] <= SourceTimeout + baseAge'.command
             /\ ~ timedOut' /\ baseAge'.command <= CmdTimeout + 1
  <2>1. /\ Owned /\ out.owner \in Sources /\ ~ timedOut
        /\ age[out.owner] <= SourceTimeout + baseAge.command
        /\ baseAge.command <= CmdTimeout
    BY <1>1, <1>3, <1>6, TimesAssumption DEF PathInv, DrivenInv, WatchdogInv, BaseTimes, Ages
  <2>2. baseAge'.command = baseAge.command + 1
    BY <1>1, <1>2, <1>3, <2>1, TimesAssumption DEF Older, Ages, BaseTimes
  <2>3. age[out.owner] \in Ages
    BY <2>1 DEF PathInv, TypeOK
  <2>4. age'[out.owner] \in Nat /\ age'[out.owner] <= age[out.owner] + 1
    BY <1>1, <2>1, <2>3, OlderBounded, TimesAssumption DEF Ages
  <2>5. age'[out.owner] <= SourceTimeout + (baseAge.command + 1)
    BY <1>3, <2>1, <2>3, <2>4, TimesAssumption DEF Ages
  <2>. QED
    BY <1>1, <1>3, <2>1, <2>2, <2>5, TimesAssumption DEF Owned, BaseTimes, Ages
<1>. QED
  BY <1>1, <1>4, <1>5, <1>6 DEF PathInv, DrivenInv, WatchdogInv

LEMMA OthersKeepPath ==
  ASSUME PathInv, Dies \/ UNCHANGED pathVars PROVE PathInv'
<1>1. UNCHANGED <<vars, baseVars>>
  BY DEF Dies, pathVars
<1>2. UNCHANGED <<age, out, command, health, statusAge, manual, source, guardLeft, timerAge, rest>>
  BY <1>1 DEF vars, inputs
<1>3. UNCHANGED <<wheels, baseAge, drive, timedOut, due>>
  BY <1>1 DEF baseVars
<1>4. TypeOK' /\ (IInv => IInv') /\ DrivenInv' /\ WatchdogInv'
  BY <1>2, <1>3 DEF PathInv, TypeOK, IInv, FreshInv, GuardInv, NoGuardInv, Owned,
                    DrivenInv, WatchdogInv
<1>5. CASE Dies
  <2>1. alive' = FALSE
    BY <1>5 DEF Dies
  <2>. QED
    BY <1>3, <1>4, <2>1 DEF PathInv
<1>6. CASE UNCHANGED pathVars
  <2>1. alive' = alive
    BY <1>6 DEF pathVars
  <2>. QED
    BY <1>3, <1>4, <2>1 DEF PathInv
<1>. QED
  BY <1>5, <1>6

LEMMA PathStepInv ==
  ASSUME BaseTimes, PathInv, [PathNext]_pathVars PROVE PathInv'
<1>1. CASE Publishes(Tick)
  BY <1>1, TickKeeps
<1>2. CASE Publishes(OnManual /\ manual')
  BY <1>2, TakeoverKeeps
<1>3. CASE Base!Watchdog /\ UNCHANGED <<vars, alive>>
  BY <1>3, WatchdogKeeps
<1>4. CASE Receives
  BY <1>4, ReceivesKeeps
<1>5. CASE OverTime
  BY <1>5, OverTimeKeeps
<1>6. CASE Dies \/ UNCHANGED pathVars
  BY <1>6, OthersKeepPath
<1>. QED
  BY <1>1, <1>2, <1>3, <1>4, <1>5, <1>6 DEF PathNext

\* What else the base keeps, in any step.
BaseInv == stampAge \in -1 .. AgeCap /\ {timedOut, fault, due} \subseteq BOOLEAN

LEMMA BaseKeeps == ASSUME PathInv, BaseInv, [PathNext]_pathVars PROVE BaseInv'
<1>1. ASSUME Publishes(Tick) \/ Publishes(OnManual /\ manual') PROVE BaseInv'
  BY <1>1 DEF BaseInv, Publishes, Base!OnCommand
<1>2. ASSUME Base!Watchdog PROVE BaseInv'
  BY <1>2 DEF BaseInv, Base!Watchdog
<1>3. ASSUME OverTime PROVE BaseInv'
  BY <1>3 DEF BaseInv, OverTime, BaseElapse
<1>4. ASSUME Receives \/ Dies \/ UNCHANGED pathVars PROVE BaseInv'
  BY <1>4 DEF BaseInv, Receives, Dies, pathVars, baseVars
<1>. QED
  BY <1>1, <1>2, <1>3, <1>4 DEF PathNext

LEMMA PathTyped == ASSUME PathInv, BaseInv PROVE PathTypeOK
BY DEF PathInv, BaseInv, PathTypeOK, Base!TypeOK, Base!Ages, Ages

\* From the publishers to the wheels: a command that no one renews, whether its
\* publisher or the arbiter died, is not driven on beyond the sum of the
\* timeouts on its way, for all timeouts (WheelsOutliveNobody is the part of
\* WheelsStop about the arbiter and the base).
THEOREM NobodyIsOutlived ==
  ASSUME BaseTimes PROVE PathSpec => [](PathTypeOK /\ WheelsOutliveNobody)
<1>1. PathInv => WheelsOutliveNobody
  <2>. SUFFICES ASSUME PathInv, wheels = "moving"
                PROVE  /\ Owned
                       /\ age[out.owner] <= SourceTimeout + (IF alive THEN TimerPeriod ELSE CmdTimeout + 1)
                       /\ alive => ~manual
    BY DEF WheelsOutliveNobody
  <2>1. /\ Owned /\ out.owner \in Sources
        /\ age[out.owner] <= SourceTimeout + baseAge.command
        /\ baseAge.command \in Nat /\ age[out.owner] \in Nat
        /\ baseAge.command <= CmdTimeout + 1
    BY TimesAssumption DEF PathInv, DrivenInv, WatchdogInv, TypeOK, Ages, BaseTimes
  <2>2. ASSUME alive PROVE ~manual /\ age[out.owner] <= SourceTimeout + TimerPeriod
    <3>1. timerAge \in 0 .. TimerPeriod
      BY DEF PathInv, TypeOK
    <3>. QED
      BY <2>1, <2>2, <3>1, TimesAssumption DEF PathInv, IInv, FreshInv
  <2>3. age[out.owner] <= SourceTimeout + (CmdTimeout + 1)
    BY <2>1, TimesAssumption DEF BaseTimes
  <2>. QED
    BY <2>1, <2>2, <2>3
<1>2. PathInit => BaseInv
  <2>1. 0 \in -1 .. AgeCap
    BY TimesAssumption
  <2>. QED
    BY <2>1 DEF PathInit, BaseInv
<1>. QED
  BY <1>1, <1>2, PathInitInv, PathStepInv, BaseKeeps, PathTyped, PTL DEF PathSpec
=============================================================================
