---------------------------- MODULE ProgressProofs ----------------------------
(***************************************************************************)
(* What is proved of the parts of MCProgress, for any sockets, maps, poses,*)
(* routes, times and counts.  The connection with the platform: its types, *)
(* and that the cursor of the events never passes an event the platform    *)
(* has not stored, which is inductive together with what the thread has    *)
(* read before it posts (OutboxInv).  The local app, the scan matcher, the *)
(* camera's worker and the panel: their types, that what they report is so *)
(* and that what they have decided stands.                                 *)
(***************************************************************************)
EXTENDS MCProgress, Sequences, FiniteSetTheorems, TLAPS

-----------------------------------------------------------------------------
(* Typing *)

LEMMA IdleTyped ==
    [c \in Callers |-> [step |-> "idle", value |-> FALSE]]
      \in [Callers -> [step : {"idle", "set", "wake"}, value : BOOLEAN]]
<1> DEFINE idle == [step |-> "idle", value |-> FALSE]
           Steps == [step : {"idle", "set", "wake"}, value : BOOLEAN]
<1>1. idle \in Steps
    OBVIOUS
<1> HIDE DEF idle, Steps
<1>2. [c \in Callers |-> idle] \in [Callers -> Steps]
    BY <1>1
<1> QED
    BY <1>2 DEF idle, Steps

LEMMA InitTyped == Init => TypeOK
<1> SUFFICES ASSUME Init PROVE TypeOK
    OBVIOUS
<1>1. caller \in [Callers -> [step : {"idle", "set", "wake"}, value : BOOLEAN]]
    BY IdleTyped DEF Init
<1>2. 0 \in 0 .. MaxEvents /\ 0 \in 0 .. MaxRestarts
    BY BoundsAssumption
<1> QED
    BY <1>1, <1>2 DEF Init, TypeOK

\* The steps of set_enabled.
LEMMA CallerTyped ==
    ASSUME TypeOK, NEW c \in Callers, StoreOverride(c) \/ SetDesired(c) \/ Wake(c)
    PROVE  TypeOK'
<1>1. CASE StoreOverride(c)
    BY <1>1 DEF TypeOK, StoreOverride, outbox
<1>2. CASE SetDesired(c)
    BY <1>2 DEF TypeOK, SetDesired, outbox
<1>3. CASE Wake(c)
    BY <1>3 DEF TypeOK, Wake, outbox
<1> QED
    BY <1>1, <1>2, <1>3

-----------------------------------------------------------------------------
(* The events *)

\* The event about to be posted exists, and so does the one the platform
\* refused.
OutboxInv ==
    /\ TypeOK
    /\ NoEventPassedOver
    /\ at = "post" => cursor < events
    /\ blocked <= events

\* The steps that change neither the events nor the cursor; whichever of them
\* leads to "post" is UploadEvents, which is none of these.
LEMMA Elsewhere ==
    ASSUME OutboxInv, TypeOK', UNCHANGED outbox, at' = at \/ at' # "post"
    PROVE  OutboxInv'
BY DEF OutboxInv, NoEventPassedOver, outbox

LEMMA ThreadKeeps ==
    ASSUME OutboxInv, Thread
    PROVE  OutboxInv'
<1> USE BoundsAssumption
<1>1. CASE ReadSwitch \/ Park \/ Woken \/ Clear \/ Elapse
    <2>1. TypeOK' /\ UNCHANGED outbox /\ at' # "post"
        BY <1>1 DEF OutboxInv, TypeOK, ReadSwitch, Park, Woken, Clear, Elapse, Go, switch, outbox
    <2> QED
        BY <2>1, Elsewhere
<1>2. CASE Check \/ Attempt \/ Fails \/ Done
    <2>1. TypeOK' /\ UNCHANGED outbox /\ at' # "post"
        BY <1>2 DEF OutboxInv, TypeOK, Check, Attempt, Fails, Done, Go, switch, outbox
    <2> QED
        BY <2>1, Elsewhere
<1>3. CASE Heartbeat
    <2>1. TypeOK' /\ at' = "events"
        BY <1>3 DEF OutboxInv, TypeOK, Heartbeat, Go, switch
    <2> QED
        BY <1>3, <2>1 DEF OutboxInv, TypeOK, NoEventPassedOver, Heartbeat
<1>4. CASE UploadEvents
    <2>1. TypeOK' /\ (at' = "post" => cursor < events)
        BY <1>4 DEF OutboxInv, TypeOK, UploadEvents, Go, switch
    <2> QED
        BY <1>4, <2>1 DEF OutboxInv, TypeOK, NoEventPassedOver, UploadEvents
<1>5. CASE PostEvent
    <2>1. /\ at = "post" /\ at' = "done" /\ cursor < events
          /\ UNCHANGED <<switch, shown, recovered, events, restarts>>
        BY <1>5 DEF OutboxInv, PostEvent, Go
    <2>2. /\ cursor' <= stored' /\ stored' <= events /\ blocked' <= events
          /\ cursor' \in 0 .. MaxEvents /\ stored' \in 0 .. MaxEvents /\ blocked' \in 0 .. MaxEvents
        <3>1. CASE /\ stored' = IF cursor + 1 > stored THEN cursor + 1 ELSE stored
                   /\ cursor' \in {cursor, stored'}
                   /\ UNCHANGED blocked
            BY <2>1, <3>1 DEF OutboxInv, TypeOK, NoEventPassedOver
        <3>2. CASE Refused
            BY <2>1, <3>2 DEF OutboxInv, TypeOK, NoEventPassedOver, Refused
        <3>3. CASE UNCHANGED <<cursor, blocked, stored>>
            BY <3>3 DEF OutboxInv, TypeOK, NoEventPassedOver
        <3> QED
            BY <1>5, <3>1, <3>2, <3>3 DEF PostEvent
    <2>3. TypeOK'
        BY <2>1, <2>2 DEF OutboxInv, TypeOK, switch
    <2> QED
        BY <2>1, <2>2, <2>3 DEF OutboxInv, NoEventPassedOver
<1> QED
    BY <1>1, <1>2, <1>3, <1>4, <1>5 DEF Thread

LEMMA StepKeeps ==
    ASSUME OutboxInv, [Next]_vars
    PROVE  OutboxInv'
<1>1. CASE Thread
    BY <1>1, ThreadKeeps
<1>2. ASSUME NEW c \in Callers, StoreOverride(c) \/ SetDesired(c) \/ Wake(c)
      PROVE  OutboxInv'
    <2>1. TypeOK'
        BY <1>2, CallerTyped DEF OutboxInv
    <2>2. UNCHANGED <<at, outbox>>
        BY <1>2 DEF StoreOverride, SetDesired, Wake
    <2> QED
        BY <2>1, <2>2, Elsewhere
<1>3. CASE RecordEvent
    BY <1>3, BoundsAssumption DEF OutboxInv, TypeOK, NoEventPassedOver, RecordEvent, switch
<1>4. CASE Resolve
    BY <1>4 DEF OutboxInv, TypeOK, NoEventPassedOver, Resolve, switch
<1>5. CASE Restart
    <2>1. caller' \in [Callers -> [step : {"idle", "set", "wake"}, value : BOOLEAN]]
        BY <1>5, IdleTyped DEF Restart
    <2>2. restarts' \in 0 .. MaxRestarts
        BY <1>5, BoundsAssumption DEF OutboxInv, TypeOK, Restart
    <2>3. UNCHANGED outbox /\ at' = "top"
        BY <1>5 DEF Restart
    <2>4. TypeOK'
        BY <1>5, <2>1, <2>2, <2>3 DEF OutboxInv, TypeOK, Restart, outbox
    <2> QED
        BY <2>3, <2>4, Elsewhere
<1>6. CASE UNCHANGED vars
    BY <1>6 DEF OutboxInv, TypeOK, NoEventPassedOver, vars, switch, outbox
<1> QED
    BY <1>1, <1>2, <1>3, <1>4, <1>5, <1>6 DEF Next

\* The switch, the thread, its callers and the events keep to their values, for
\* any number of callers, events and restarts (platform_cloud_client.py, _run and
\* set_enabled).
THEOREM ConnectionTyped == Spec => []TypeOK
<1>1. Init => OutboxInv
    BY InitTyped DEF Init, OutboxInv, NoEventPassedOver
<1>2. OutboxInv => TypeOK
    BY DEF OutboxInv
<1> QED
    BY <1>1, <1>2, StepKeeps, PTL DEF Spec

\* The cursor never leaves behind an event the platform has not stored, whatever
\* replies are lost, refused or repeated (_upload_events).
THEOREM EventsAreNotPassedOver == Spec => []NoEventPassedOver
<1>1. Init => OutboxInv
    BY InitTyped DEF Init, OutboxInv, NoEventPassedOver
<1>2. OutboxInv => NoEventPassedOver
    BY DEF OutboxInv
<1> QED
    BY <1>1, <1>2, StepKeeps, PTL DEF Spec

-----------------------------------------------------------------------------
(* The local app *)

\* The sockets that are counted: accepted, and the peer told so.
Served == {s \in Sockets : app_socket[s] \in {"waiting", "sending", "closing"}}

AppInv == App!TypeOK /\ app_clients = Cardinality(Served)

LEMMA ServedFinite == IsFiniteSet(Served) /\ Cardinality(Served) \in 0 .. Cardinality(Sockets)
<1>1. IsFiniteSet(Sockets) /\ Served \subseteq Sockets
  BY PartsAssumption DEF Served
<1>2. IsFiniteSet(Served) /\ Cardinality(Served) <= Cardinality(Sockets)
  BY <1>1, FS_Subset
<1>3. Cardinality(Served) \in Nat /\ Cardinality(Sockets) \in Nat
  BY <1>1, <1>2, FS_CardinalityType
<1>. QED
  BY <1>2, <1>3

LEMMA AppCountIsCardinality ==
  /\ App!Cardinality(Served) = Cardinality(Served)
  /\ App!Cardinality(Sockets) = Cardinality(Sockets)
BY DEF App!Cardinality, Cardinality

\* A step that moves one socket within the counted, or within the others.
LEMMA ServedAlike ==
  ASSUME NEW s \in Sockets, NEW place, NEW T, app_socket \in [Sockets -> T],
         app_socket' = [app_socket EXCEPT ![s] = place],
         s \in Served <=> place \in {"waiting", "sending", "closing"}
  PROVE  Served' = Served
BY DEF Served

LEMMA AppInits == App!Init => AppInv
<1>. SUFFICES ASSUME App!Init PROVE AppInv
  OBVIOUS
<1>1. Served = {}
  BY DEF App!Init, Served
<1>2. Cardinality(Served) = 0
  BY <1>1, FS_EmptySet
<1>3. 0 \in 0 .. Cardinality(Sockets) /\ 0 \in 0 .. MaxRestarts
  BY ServedFinite, <1>2, BoundsAssumption
<1>4. app_socket \in [Sockets -> {"none", "accepted", "waiting", "sending", "closing"}]
  BY DEF App!Init
<1>. QED
  BY <1>2, <1>3, <1>4, AppCountIsCardinality DEF App!Init, App!TypeOK, AppInv

LEMMA AppKeeps ==
  ASSUME AppInv, [App!Next]_App!vars
  PROVE  AppInv'
<1>. DEFINE Places == {"none", "accepted", "waiting", "sending", "closing"}
<1>1. app_socket \in [Sockets -> Places] /\ app_clients = Cardinality(Served)
  BY DEF AppInv, App!TypeOK
\* It remains to see that the sockets keep their places and the count its meaning.
<1>3. ASSUME app_socket' \in [Sockets -> Places], app_clients' = Cardinality(Served'),
             app_stored' \in BOOLEAN, app_enabled' \in BOOLEAN,
             app_setting' \subseteq BOOLEAN, app_restarts' \in 0 .. MaxRestarts
      PROVE  AppInv'
  <2>1. /\ IsFiniteSet(Sockets) /\ Served' \subseteq Sockets
    BY PartsAssumption DEF Served
  <2>2. Cardinality(Served') <= Cardinality(Sockets) /\ IsFiniteSet(Served')
    BY <2>1, FS_Subset
  <2>3. Cardinality(Served') \in Nat /\ Cardinality(Sockets) \in Nat
    BY <2>1, <2>2, FS_CardinalityType
  <2>4. app_clients' \in 0 .. App!Cardinality(Sockets)
    BY <1>3, <2>2, <2>3, AppCountIsCardinality
  <2>. QED
    BY <1>3, <2>4 DEF AppInv, App!TypeOK
<1>4. CASE App!StoreSwitch \/ App!TurnSwitch
  <2>1. Served' = Served
    BY <1>4 DEF App!StoreSwitch, App!TurnSwitch, Served
  <2>. QED
    BY <1>1, <1>3, <1>4, <2>1 DEF App!StoreSwitch, App!TurnSwitch, AppInv, App!TypeOK
<1>5. ASSUME NEW s \in Sockets, App!Accept(s) \/ App!Look(s) \/ App!Send(s)
      PROVE  AppInv'
  <2>1. /\ app_socket[s] \in {"none", "waiting", "sending"}
        /\ app_socket[s] = "none" <=> app_socket'[s] = "accepted"
        /\ app_socket'[s] \in {"accepted", "waiting", "sending", "closing"}
        /\ app_socket' = [app_socket EXCEPT ![s] = app_socket'[s]]
    <3>1. CASE App!Accept(s)
      BY <1>1, <3>1 DEF App!Accept
    <3>2. CASE App!Look(s)
      BY <1>1, <3>2 DEF App!Look
    <3>3. CASE App!Send(s)
      <4>1. PICK next \in {"waiting", "closing"} :
                   app_socket' = [app_socket EXCEPT ![s] = next]
        BY <3>3 DEF App!Send
      <4>. QED
        BY <1>1, <3>3, <4>1 DEF App!Send
    <3>. QED
      BY <1>5, <3>1, <3>2, <3>3
  <2>2. Served' = Served
    <3>1. s \in Served <=> app_socket'[s] \in {"waiting", "sending", "closing"}
      BY <2>1 DEF Served
    <3>. QED
      BY <1>1, <2>1, <3>1, ServedAlike
  <2>3. app_socket' \in [Sockets -> Places]
    BY <1>1, <2>1
  <2>. QED
    BY <1>1, <1>3, <1>5, <2>2, <2>3
       DEF App!Accept, App!Look, App!Send, AppInv, App!TypeOK
<1>6. ASSUME NEW s \in Sockets, App!Connected(s)
      PROVE  AppInv'
  <2>1. s \notin Served /\ Served' = Served \cup {s}
    BY <1>1, <1>6 DEF App!Connected, Served
  <2>2. Cardinality(Served') = Cardinality(Served) + 1
    BY <2>1, ServedFinite, FS_AddElement
  <2>3. app_socket' \in [Sockets -> Places]
    BY <1>1, <1>6 DEF App!Connected
  <2>. QED
    BY <1>1, <1>3, <1>6, <2>2, <2>3 DEF App!Connected, AppInv, App!TypeOK
<1>7. ASSUME NEW s \in Sockets, App!Disconnected(s)
      PROVE  AppInv'
  <2>1. s \in Served /\ Served' = Served \ {s}
    BY <1>1, <1>7 DEF App!Disconnected, Served
  <2>2. Cardinality(Served') = Cardinality(Served) - 1
    BY <2>1, ServedFinite, FS_RemoveElement
  <2>3. Cardinality(Served') \in Nat /\ Cardinality(Served) \in Nat
    BY <2>1, ServedFinite, FS_RemoveElement, FS_CardinalityType
  <2>4. app_clients > 0
    BY <1>1, <2>2, <2>3
  <2>5. app_clients' = Cardinality(Served')
    BY <1>1, <1>7, <2>2, <2>4 DEF App!Disconnected
  <2>6. app_socket' \in [Sockets -> Places]
    BY <1>1, <1>7 DEF App!Disconnected
  <2>. QED
    BY <1>3, <1>7, <2>5, <2>6 DEF App!Disconnected, AppInv, App!TypeOK
<1>8. CASE App!Restart
  <2>1. Served' = {}
    BY <1>8 DEF App!Restart, Served
  <2>2. app_clients' = Cardinality(Served')
    BY <1>8, <2>1, FS_EmptySet DEF App!Restart
  <2>3. app_restarts' \in 0 .. MaxRestarts
    BY <1>8, BoundsAssumption DEF App!Restart, AppInv, App!TypeOK
  <2>4. app_socket' \in [Sockets -> Places]
    BY <1>8 DEF App!Restart
  <2>. QED
    BY <1>3, <1>8, <2>2, <2>3, <2>4 DEF App!Restart, AppInv, App!TypeOK
<1>9. CASE UNCHANGED App!vars
  <2>1. Served' = Served
    BY <1>9 DEF App!vars, Served
  <2>. QED
    BY <1>1, <1>3, <1>9, <2>1 DEF App!vars, AppInv, App!TypeOK
<1>. QED
  BY <1>4, <1>5, <1>6, <1>7, <1>8, <1>9 DEF App!Next, App!Serve

LEMMA AppSaysSo == AppInv => App!TypeOK /\ App!ClientsCounted
<1>1. ASSUME AppInv PROVE App!ClientsCounted
  BY <1>1, AppCountIsCardinality DEF AppInv, App!ClientsCounted, Served
<1>. QED
  BY <1>1 DEF AppInv

-----------------------------------------------------------------------------
(* The scan matcher *)

Given == [pose : Poses, own : BOOLEAN]

\* The latest of the node's own corrections in a queue is the pose l.
LatestIs(q, l) ==
  \A k \in 1 .. Len(q) :
    q[k].own /\ (\A j \in k + 1 .. Len(q) : ~ q[j].own) => q[k].pose = l

MatchInv ==
  /\ Match!TypeOK
  /\ LatestIs(match_initials, match_last)
  /\ Match!EchoesDoNotMultiply

LEMMA AppendedGiven ==
  ASSUME NEW q \in Seq(Given), NEW e \in Given
  PROVE  /\ Append(q, e) \in Seq(Given)
         /\ Len(q) \in Nat /\ Len(Append(q, e)) = Len(q) + 1
         /\ Append(q, e)[Len(q) + 1] = e
         /\ \A k \in 1 .. Len(q) : Append(q, e)[k] = q[k]
<1>. HIDE DEF Given
<1>. QED
  OBVIOUS

LEMMA TailOfGiven ==
  ASSUME NEW q \in Seq(Given), q # <<>>
  PROVE  /\ Tail(q) \in Seq(Given) /\ Head(q) \in Given /\ Head(q) = q[1]
         /\ Len(q) \in Nat /\ Len(q) >= 1 /\ Len(Tail(q)) = Len(q) - 1
         /\ \A k \in 1 .. Len(q) - 1 : Tail(q)[k] = q[k + 1]
<1>. HIDE DEF Given
<1>. QED
  OBVIOUS

LEMMA HandledKeepsLatest ==
  ASSUME NEW q \in Seq(Given), NEW l, q # <<>>, LatestIs(q, l)
  PROVE  LatestIs(Tail(q), l)
<1>. DEFINE n == Len(q)
<1>1. /\ n \in Nat /\ n >= 1 /\ Len(Tail(q)) = n - 1
      /\ \A k \in 1 .. n - 1 : Tail(q)[k] = q[k + 1]
  BY TailOfGiven
<1>. HIDE DEF n
<1>2. \A k \in 1 .. n :
        q[k].own /\ (\A j \in k + 1 .. n : ~ q[j].own) => q[k].pose = l
  BY DEF LatestIs, n
<1>3. ASSUME NEW k \in 1 .. n - 1, Tail(q)[k].own,
             \A j \in k + 1 .. n - 1 : ~ Tail(q)[j].own
      PROVE  Tail(q)[k].pose = l
  <2>1. k + 1 \in 1 .. n /\ q[k + 1].own
    BY <1>1, <1>3
  <2>2. ASSUME NEW j \in (k + 1) + 1 .. n PROVE ~ q[j].own
    <3>1. j - 1 \in k + 1 .. n - 1 /\ j - 1 \in 1 .. n - 1 /\ (j - 1) + 1 = j
      BY <1>1
    <3>. QED
      BY <1>1, <1>3, <3>1
  <2>3. q[k + 1].pose = l
    BY <1>2, <2>1, <2>2
  <2>. QED
    BY <1>1, <2>3
<1>4. LatestIs(Tail(q), l)
  BY <1>1, <1>3 DEF LatestIs
<1>. QED
  BY <1>4 DEF n

LEMMA OthersKeepLatest ==
  ASSUME NEW q \in Seq(Given), NEW l, NEW e \in Given, ~ e.own, LatestIs(q, l)
  PROVE  LatestIs(Append(q, e), l)
<1>. DEFINE n == Len(q)
            more == Append(q, e)
<1>1. /\ n \in Nat /\ Len(more) = n + 1 /\ more[n + 1] = e
      /\ \A k \in 1 .. n : more[k] = q[k]
  BY AppendedGiven
<1>2. \A k \in 1 .. n :
        q[k].own /\ (\A j \in k + 1 .. n : ~ q[j].own) => q[k].pose = l
  BY DEF LatestIs
<1>. HIDE DEF n, more
<1>3. ASSUME NEW k \in 1 .. n + 1, more[k].own PROVE k \in 1 .. n /\ q[k].own
  <2>1. k # n + 1
    BY <1>1, <1>3
  <2>2. k \in 1 .. n
    BY <1>1, <2>1
  <2>. QED
    BY <1>1, <1>3, <2>2
<1>4. ASSUME NEW k \in 1 .. n + 1, more[k].own,
             \A j \in k + 1 .. n + 1 : ~ more[j].own
      PROVE  more[k].pose = l
  <2>1. k \in 1 .. n /\ q[k].own /\ more[k] = q[k]
    BY <1>1, <1>3, <1>4
  <2>2. ASSUME NEW j \in k + 1 .. n PROVE ~ q[j].own
    <3>1. j \in 1 .. n /\ j \in k + 1 .. n + 1
      BY <1>1
    <3>. QED
      BY <1>1, <1>4, <3>1
  <2>. QED
    BY <1>2, <2>1, <2>2
<1>5. LatestIs(more, l)
  BY <1>1, <1>4 DEF LatestIs
<1>. QED
  BY <1>5 DEF more

LEMMA OwnIsLatest ==
  ASSUME NEW q \in Seq(Given), NEW e \in Given, e.own
  PROVE  LatestIs(Append(q, e), e.pose)
<1>. DEFINE n == Len(q)
            more == Append(q, e)
<1>1. n \in Nat /\ Len(more) = n + 1 /\ more[n + 1] = e
  BY AppendedGiven
<1>. HIDE DEF n, more
<1>2. ASSUME NEW k \in 1 .. n + 1, \A j \in k + 1 .. n + 1 : ~ more[j].own
      PROVE  more[k].pose = e.pose
  <2>1. k = n + 1
    <3>1. ~ (n + 1 \in k + 1 .. n + 1)
      BY <1>1, <1>2
    <3>. QED
      BY <1>1, <3>1
  <2>. QED
    BY <1>1, <2>1
<1>3. LatestIs(more, e.pose)
  BY <1>1, <1>2 DEF LatestIs
<1>. QED
  BY <1>3 DEF more

LEMMA MatchInits == Match!Init => MatchInv
<1>. SUFFICES ASSUME Match!Init PROVE MatchInv
  OBVIOUS
<1>1. match_initials = <<>> /\ match_seeds = <<>> /\ match_last = Lost /\ match_age = 0
  BY DEF Match!Init
<1>2. Len(<<>>) = 0 /\ <<>> \in Seq(Given) /\ <<>> \in Seq(Poses)
  OBVIOUS
<1>3. 0 \in 0 .. IgnoreTicks + 1 /\ 0 \in 0 .. MaxOutside
  BY PartsAssumption
<1>4. Match!TypeOK
  BY <1>1, <1>2, <1>3 DEF Match!Init, Match!TypeOK, Given
<1>5. LatestIs(match_initials, match_last)
  BY <1>1, <1>2 DEF LatestIs
<1>6. Match!EchoesDoNotMultiply
  BY <1>1, <1>2 DEF Match!Init, Match!EchoesDoNotMultiply
<1>. QED
  BY <1>4, <1>5, <1>6 DEF MatchInv

\* What is published is a pose at which a scan may match.
LEMMA Published ==
  ASSUME NEW p \in Poses, NEW result \in Refined[p], NEW rest \in Seq(Given),
         Match!PublishResult(p, result, rest)
  PROVE  /\ match_last' \in Poses /\ match_age' = 0
         /\ match_answer' = "accepted" /\ match_turn' = ~ match_turn
         /\ match_initials' \in Seq(Given)
         /\ LatestIs(match_initials', match_last')
         /\ Len(match_initials') = Len(rest) + 1
<1>. DEFINE e == [pose |-> result, own |-> TRUE]
<1>1. result \in Poses
  BY PartsAssumption
<1>2. e \in Given /\ e.own /\ e.pose = result
  BY <1>1 DEF Given
<1>3. match_initials' = Append(rest, e) /\ match_last' = result
  BY DEF Match!PublishResult
<1>. HIDE DEF e
<1>4. /\ LatestIs(Append(rest, e), e.pose) /\ Append(rest, e) \in Seq(Given)
      /\ Len(Append(rest, e)) = Len(rest) + 1
  BY <1>2, OwnIsLatest, AppendedGiven
<1>. QED
  BY <1>1, <1>2, <1>3, <1>4 DEF Match!PublishResult

\* A pose that is processed, rest being the poses that are left.
LEMMA Processed ==
  ASSUME MatchInv, NEW p \in Poses, NEW automatic \in BOOLEAN, NEW rest \in Seq(Given),
         LatestIs(rest, match_last), Match!ProcessSeed(p, automatic, rest)
  PROVE  /\ match_last' \in Poses \cup {Lost} /\ match_age' \in 0 .. IgnoreTicks + 1
         /\ match_answer' \in {"none", "accepted", "rejected"} /\ match_turn' \in BOOLEAN
         /\ match_initials' \in Seq(Given)
         /\ LatestIs(match_initials', match_last')
         /\ Len(match_initials') <= Len(rest) + 1
         /\ match_turn' # match_turn => ~ Match!IsOwnCorrection(p)
<1>1. /\ Match!TypeOK /\ IgnoreTicks \in Nat /\ match_turn \in BOOLEAN
      /\ match_answer \in {"none", "accepted", "rejected"}
      /\ match_last \in Poses \cup {Lost} /\ match_age \in 0 .. IgnoreTicks + 1
      /\ Len(rest) \in Nat
  BY PartsAssumption DEF MatchInv, Match!TypeOK
<1>2. ASSUME ~ Match!IsOwnCorrection(p), NEW result \in Refined[p],
             Match!PublishResult(p, result, rest)
      PROVE  /\ match_last' \in Poses \cup {Lost} /\ match_age' \in 0 .. IgnoreTicks + 1
             /\ match_answer' \in {"none", "accepted", "rejected"} /\ match_turn' \in BOOLEAN
             /\ match_initials' \in Seq(Given)
             /\ LatestIs(match_initials', match_last')
             /\ Len(match_initials') <= Len(rest) + 1
  <2>1. 0 \in 0 .. IgnoreTicks + 1
    BY <1>1
  <2>2. /\ match_last' \in Poses /\ match_age' = 0
        /\ match_answer' = "accepted" /\ match_turn' = ~ match_turn
        /\ match_initials' \in Seq(Given)
        /\ LatestIs(match_initials', match_last')
        /\ Len(match_initials') = Len(rest) + 1
    BY <1>2, Published
  <2>3. Len(match_initials') <= Len(rest) + 1
    BY <1>1, <2>2
  <2>. QED
    BY <1>1, <2>1, <2>2, <2>3
<1>3. CASE /\ match_answer' \in {match_answer, "rejected"}
           /\ match_initials' = rest /\ UNCHANGED <<match_last, match_age, match_turn>>
  <2>1. Len(match_initials') <= Len(rest) + 1
    BY <1>1, <1>3
  <2>. QED
    BY <1>1, <1>3, <2>1
<1>. QED
  BY <1>2, <1>3 DEF Match!ProcessSeed

LEMMA MatchKeeps ==
  ASSUME MatchInv, [Match!Next]_Match!vars
  PROVE  MatchInv'
<1>1. /\ match_map \in BOOLEAN /\ match_scan \in BOOLEAN /\ match_turn \in BOOLEAN
      /\ match_last \in Poses \cup {Lost} /\ match_age \in 0 .. IgnoreTicks + 1
      /\ match_initials \in Seq(Given) /\ match_seeds \in Seq(Poses)
      /\ match_answer \in {"none", "accepted", "rejected"}
      /\ match_outside \in 0 .. MaxOutside
      /\ IgnoreTicks \in Nat /\ MaxOutside \in Nat
  BY PartsAssumption DEF MatchInv, Match!TypeOK, Given
<1>2. /\ LatestIs(match_initials, match_last)
      /\ Len(match_initials) + Len(match_seeds) <= match_outside
      /\ Len(match_initials) \in Nat /\ Len(match_seeds) \in Nat /\ match_outside \in Nat
  BY <1>1 DEF MatchInv, Match!EchoesDoNotMultiply
<1>3. CASE Match!OnMap \/ Match!OnScan \/ UNCHANGED Match!vars
  BY <1>1, <1>2, <1>3 DEF Match!OnMap, Match!OnScan, Match!vars, MatchInv, Match!TypeOK,
                          Match!EchoesDoNotMultiply, Given
<1>4. ASSUME NEW p \in Poses, Match!GivePose(p) PROVE MatchInv'
  <2>1. match_outside' \in 0 .. MaxOutside /\ match_outside' = match_outside + 1
    BY <1>1, <1>4 DEF Match!GivePose
  <2>2. /\ UNCHANGED <<match_map, match_scan, match_last, match_age, match_answer,
                       match_turn>>
    BY <1>4 DEF Match!GivePose
  <2>3. CASE /\ match_initials' = Append(match_initials, [pose |-> p, own |-> FALSE])
             /\ UNCHANGED match_seeds
    <3>. DEFINE e == [pose |-> p, own |-> FALSE]
    <3>1. e \in Given /\ ~ e.own
      BY DEF Given
    <3>. HIDE DEF e
    <3>2. match_initials' = Append(match_initials, e)
      BY <2>3 DEF e
    <3>3. /\ match_initials' \in Seq(Given)
          /\ LatestIs(match_initials', match_last)
          /\ Len(match_initials') = Len(match_initials) + 1
      BY <1>1, <1>2, <3>1, <3>2, OthersKeepLatest, AppendedGiven
    <3>4. Len(match_initials') + Len(match_seeds) <= match_outside'
      BY <1>2, <2>1, <3>3
    <3>. QED
      BY <1>1, <2>1, <2>2, <2>3, <3>3, <3>4
         DEF MatchInv, Match!TypeOK, Match!EchoesDoNotMultiply, Given
  <2>4. CASE match_seeds' = Append(match_seeds, p) /\ UNCHANGED match_initials
    <3>1. match_seeds' \in Seq(Poses) /\ Len(match_seeds') = Len(match_seeds) + 1
      BY <1>1, <2>4
    <3>2. Len(match_initials) + Len(match_seeds') <= match_outside'
      BY <1>2, <2>1, <3>1
    <3>. QED
      BY <1>1, <1>2, <2>1, <2>2, <2>4, <3>1, <3>2
         DEF MatchInv, Match!TypeOK, Match!EchoesDoNotMultiply, Given
  <2>. QED
    BY <1>4, <2>3, <2>4 DEF Match!GivePose
<1>5. CASE Match!OnInitialPose
  <2>1. match_initials # <<>>
    BY <1>5 DEF Match!OnInitialPose
  <2>2. /\ Tail(match_initials) \in Seq(Given) /\ Head(match_initials).pose \in Poses
        /\ Len(Tail(match_initials)) + 1 = Len(match_initials)
    <3>1. /\ Tail(match_initials) \in Seq(Given) /\ Head(match_initials) \in Given
          /\ Len(match_initials) \in Nat
          /\ Len(Tail(match_initials)) = Len(match_initials) - 1
      BY <1>1, <2>1, TailOfGiven
    <3>2. Head(match_initials).pose \in Poses
      BY <3>1 DEF Given
    <3>3. Len(Tail(match_initials)) + 1 = Len(match_initials)
      BY <3>1
    <3>. QED
      BY <3>1, <3>2, <3>3
  <2>3. LatestIs(Tail(match_initials), match_last)
    BY <1>1, <1>2, <2>1, HandledKeepsLatest
  <2>4. /\ match_last' \in Poses \cup {Lost} /\ match_age' \in 0 .. IgnoreTicks + 1
        /\ match_answer' \in {"none", "accepted", "rejected"} /\ match_turn' \in BOOLEAN
        /\ match_initials' \in Seq(Given)
        /\ LatestIs(match_initials', match_last')
        /\ Len(match_initials') <= Len(Tail(match_initials)) + 1
    BY <1>5, <2>2, <2>3, Processed DEF Match!OnInitialPose
  <2>5. UNCHANGED <<match_map, match_scan, match_seeds, match_outside>>
    BY <1>5 DEF Match!OnInitialPose
  <2>6. Len(match_initials') \in Nat /\ Len(Tail(match_initials)) \in Nat
    BY <2>2, <2>4
  <2>7. Len(match_initials') + Len(match_seeds) <= match_outside
    BY <1>2, <2>2, <2>4, <2>6
  <2>. QED
    BY <1>1, <2>4, <2>5, <2>7 DEF MatchInv, Match!TypeOK, Match!EchoesDoNotMultiply, Given
<1>6. CASE Match!OnSeed
  <2>1. match_seeds # <<>> /\ match_seeds' = Tail(match_seeds)
    BY <1>6 DEF Match!OnSeed
  <2>2. /\ Tail(match_seeds) \in Seq(Poses) /\ Head(match_seeds) \in Poses
        /\ Len(Tail(match_seeds)) + 1 = Len(match_seeds)
    BY <1>1, <2>1
  <2>3. /\ match_last' \in Poses \cup {Lost} /\ match_age' \in 0 .. IgnoreTicks + 1
        /\ match_answer' \in {"none", "accepted", "rejected"} /\ match_turn' \in BOOLEAN
        /\ match_initials' \in Seq(Given)
        /\ LatestIs(match_initials', match_last')
        /\ Len(match_initials') <= Len(match_initials) + 1
    BY <1>1, <1>2, <1>6, <2>2, Processed DEF Match!OnSeed
  <2>4. UNCHANGED <<match_map, match_scan, match_outside>>
    BY <1>6 DEF Match!OnSeed
  <2>5. Len(match_initials') \in Nat /\ Len(Tail(match_seeds)) \in Nat
    BY <2>2, <2>3
  <2>6. Len(match_initials') + Len(match_seeds') <= match_outside
    BY <1>2, <2>1, <2>2, <2>3, <2>5
  <2>. QED
    BY <1>1, <2>1, <2>2, <2>3, <2>4, <2>6
       DEF MatchInv, Match!TypeOK, Match!EchoesDoNotMultiply, Given
<1>7. CASE Match!Time
  <2>1. match_age' \in 0 .. IgnoreTicks + 1
    BY <1>1, <1>7 DEF Match!Time
  <2>. QED
    BY <1>1, <1>2, <1>7, <2>1
       DEF Match!Time, MatchInv, Match!TypeOK, Match!EchoesDoNotMultiply, Given
<1>. QED
  BY <1>3, <1>4, <1>5, <1>6, <1>7 DEF Match!Next, Match!Callback

\* The pose that calls for a correction without a seed is the first of /initialpose.
LEMMA CorrectedIsGiven ==
  ASSUME MatchInv, [Match!Next]_Match!vars, match_turn' # match_turn,
         match_seeds' = match_seeds
  PROVE  /\ match_initials # <<>>
         /\ ~ Match!IsOwnCorrection(Head(match_initials).pose)
<1>1. /\ match_initials \in Seq(Given) /\ match_seeds \in Seq(Poses)
  BY DEF MatchInv, Match!TypeOK, Given
<1>2. ~ Match!OnSeed
  <2>1. match_seeds # <<>> => Tail(match_seeds) # match_seeds
    <3>1. match_seeds # <<>> => Len(Tail(match_seeds)) # Len(match_seeds)
      BY <1>1
    <3>. QED
      BY <3>1
  <2>. QED
    BY <2>1 DEF Match!OnSeed
<1>3. Match!OnInitialPose
  BY <1>2 DEF Match!Next, Match!Callback, Match!OnMap, Match!OnScan, Match!GivePose,
              Match!Time, Match!vars
<1>. QED
  BY <1>3 DEF Match!OnInitialPose, Match!ProcessSeed

LEMMA EchoStep ==
  ASSUME MatchInv, [Match!Next]_Match!vars, match_turn' # match_turn,
         match_seeds' = match_seeds
  PROVE  \/ ~ Head(match_initials).own
         \/ \E k \in 2 .. Len(match_initials) : match_initials[k].own
         \/ match_age > IgnoreTicks
<1>. SUFFICES ASSUME Head(match_initials).own,
                     \A k \in 2 .. Len(match_initials) : ~ match_initials[k].own
              PROVE  match_age > IgnoreTicks
  OBVIOUS
<1>1. match_initials # <<>> /\ ~ Match!IsOwnCorrection(Head(match_initials).pose)
  BY CorrectedIsGiven
<1>2. match_initials \in Seq(Given)
  BY DEF MatchInv, Match!TypeOK, Given
<1>3. /\ Head(match_initials) = match_initials[1] /\ 1 \in 1 .. Len(match_initials)
  BY <1>1, <1>2, TailOfGiven
<1>4. match_initials[1].pose = match_last
  <2>1. 1 + 1 = 2
    OBVIOUS
  <2>. QED
    BY <1>3, <2>1 DEF MatchInv, LatestIs
<1>5. ~ (match_age <= IgnoreTicks)
  BY <1>1, <1>3, <1>4 DEF Match!IsOwnCorrection
<1>6. match_age \in 0 .. IgnoreTicks + 1 /\ IgnoreTicks \in Nat
  BY PartsAssumption DEF MatchInv, Match!TypeOK
<1>. QED
  BY <1>5, <1>6

-----------------------------------------------------------------------------
(* The worker that holds the camera *)

\* A worker exports when it was told to stop and an export was asked for.
CameraInv ==
  /\ Camera!TypeOK
  /\ camera_worker = "exporting" => camera_stop /\ camera_export

LEMMA CameraInits == Camera!Init => CameraInv
<1>1. 0 \in 0 .. MinFrames /\ 0 \in 0 .. MaxFailures /\ 0 \in 0 .. MaxStarts
  BY PartsAssumption
<1>. QED
  BY <1>1 DEF Camera!Init, Camera!TypeOK, CameraInv

\* What every step has to keep, written out.
LEMMA CameraRanges ==
  ASSUME CameraInv
  PROVE  /\ camera_worker \in {"none", "opening", "grabbing", "exporting", "closing"}
         /\ camera_stop \in BOOLEAN /\ camera_export \in BOOLEAN
         /\ camera_asking \in BOOLEAN /\ camera_camera \in BOOLEAN
         /\ camera_mapping \in BOOLEAN
         /\ camera_frames \in 0 .. MinFrames /\ camera_fresh \in 0 .. MinFrames
         /\ camera_failures \in 0 .. MaxFailures /\ camera_starts \in 0 .. MaxStarts
         /\ MinFrames \in Nat /\ MaxFailures \in Nat /\ MaxStarts \in Nat
BY PartsAssumption DEF CameraInv, Camera!TypeOK

LEMMA CommandsKeep ==
  ASSUME CameraInv, Camera!Commands
  PROVE  CameraInv'
<1>1. CASE Camera!RequestExport
  BY <1>1 DEF Camera!RequestExport, Camera!TypeOK, CameraInv
<1>2. CASE Camera!StartMapping /\ UNCHANGED camera_asking
  <2>1. CASE Camera!Alive
    BY <1>2, <2>1 DEF Camera!StartMapping, Camera!TypeOK, CameraInv
  <2>2. CASE ~ Camera!Alive
    <3>1. camera_starts' \in 0 .. MaxStarts
      BY <1>2, <2>2, CameraRanges DEF Camera!StartMapping
    <3>2. 0 \in 0 .. MaxFailures /\ 0 \in 0 .. MinFrames
      BY CameraRanges
    <3>. QED
      BY <1>2, <2>2, <3>1, <3>2 DEF Camera!StartMapping, Camera!TypeOK, CameraInv
  <2>. QED
    BY <2>1, <2>2
<1>3. CASE Camera!Reset /\ UNCHANGED camera_asking
  <2>1. 0 \in 0 .. MinFrames
    BY CameraRanges
  <2>. QED
    BY <1>3, <2>1 DEF Camera!Reset, Camera!TypeOK, CameraInv, Camera!Alive
<1>4. ASSUME NEW exporting \in BOOLEAN, Camera!RequestStop(exporting) PROVE CameraInv'
  BY <1>4 DEF Camera!RequestStop, Camera!TypeOK, CameraInv
<1>. QED
  BY <1>1, <1>2, <1>3, <1>4 DEF Camera!Commands

LEMMA WorkerKeeps ==
  ASSUME CameraInv, Camera!Worker
  PROVE  CameraInv'
<1>1. camera_asking' = camera_asking
  BY DEF Camera!Worker
<1>2. CASE Camera!OpenCamera
  BY <1>1, <1>2 DEF Camera!OpenCamera, Camera!Broken, Camera!TypeOK, CameraInv
<1>3. CASE Camera!Grab
  <2>1. /\ camera_frames' \in 0 .. MinFrames /\ camera_fresh' \in 0 .. MinFrames
        /\ camera_failures' \in 0 .. MaxFailures
    BY <1>3, CameraRanges DEF Camera!Grab, Camera!Up, Camera!Broken
  <2>2. /\ camera_worker' \in {"grabbing", "closing"} /\ camera_worker = "grabbing"
        /\ camera_stop' \in BOOLEAN /\ camera_export' \in BOOLEAN
        /\ camera_state' \in {camera_state, "running", "failed"}
        /\ UNCHANGED <<camera_camera, camera_mapping, camera_starts>>
    BY <1>3, CameraRanges DEF Camera!Grab, Camera!Broken
  <2>. QED
    BY <1>1, <2>1, <2>2 DEF Camera!TypeOK, CameraInv
<1>4. CASE Camera!Leave
  BY <1>1, <1>4 DEF Camera!Leave, Camera!TypeOK, CameraInv
<1>5. CASE Camera!ExportMap
  BY <1>1, <1>5 DEF Camera!ExportMap, Camera!TypeOK, CameraInv
<1>6. CASE Camera!CloseCamera
  BY <1>1, <1>6 DEF Camera!CloseCamera, Camera!TypeOK, CameraInv
<1>. QED
  BY <1>2, <1>3, <1>4, <1>5, <1>6 DEF Camera!Worker

LEMMA CameraKeeps ==
  ASSUME CameraInv, [Camera!Next]_Camera!vars
  PROVE  CameraInv'
<1>1. CASE UNCHANGED Camera!vars
  BY <1>1 DEF Camera!vars, Camera!TypeOK, CameraInv
<1>. QED
  BY <1>1, CommandsKeep, WorkerKeeps DEF Camera!Next

LEMMA StopStep ==
  ASSUME CameraInv, [Camera!Next]_Camera!vars, camera_stop, Camera!Alive
  PROVE  /\ Camera!Alive' => camera_stop'
         /\ camera_worker' = "opening" => camera_worker = "opening"
         /\ camera_worker' = "grabbing" => camera_worker \in {"opening", "grabbing"}
         /\ camera_worker' = "exporting" =>
              camera_worker \in {"grabbing", "exporting"} /\ camera_export
<1>1. camera_worker = "exporting" => camera_export
  BY DEF CameraInv
<1>2. CASE Camera!Commands
  <2>1. camera_worker' = camera_worker /\ camera_stop'
    BY <1>2 DEF Camera!Commands, Camera!StartMapping, Camera!RequestStop,
                Camera!RequestExport, Camera!Reset
  <2>. QED
    BY <1>1, <2>1
<1>3. CASE Camera!Worker
  BY <1>1, <1>3 DEF Camera!Worker, Camera!OpenCamera, Camera!Broken, Camera!Grab,
                    Camera!Leave, Camera!ExportMap, Camera!CloseCamera
<1>4. CASE UNCHANGED Camera!vars
  BY <1>1, <1>4 DEF Camera!vars
<1>. QED
  BY <1>2, <1>3, <1>4 DEF Camera!Next

-----------------------------------------------------------------------------
(* The operator's panel *)

PanelInv == Panel!TypeOK /\ Panel!NotedIsDrawn

LEMMA PanelInits == Panel!Init => PanelInv
<1>. SUFFICES ASSUME Panel!Init PROVE PanelInv
  OBVIOUS
<1>1. /\ 0 \in 0 .. LockTimeout /\ 0 \in 0 .. MaxRequests /\ 0 \in 0 .. RequestTimeout
      /\ 0 \in 0 .. MaxChoices /\ 0 \in 0 .. MaxRoutes
  BY PartsAssumption
<1>2. panel_shown \in Panel!Pictures /\ panel_shown.route = 0
  <2>1. 0 \in 0 .. Panel!Nothing
    BY <1>1, PartsAssumption DEF Panel!Nothing
  <2>. QED
    BY <2>1 DEF Panel!Init, Panel!Pictures
<1>3. panel_loaded = <<>> /\ <<>> \in Seq(Panel!Pictures)
  BY DEF Panel!Init
<1>4. Panel!Latest = panel_shown
  BY <1>3 DEF Panel!Latest
<1>5. Panel!TypeOK
  BY <1>1, <1>2, <1>3 DEF Panel!Init, Panel!TypeOK
<1>. QED
  BY <1>2, <1>4, <1>5 DEF Panel!Init, Panel!NotedIsDrawn, PanelInv

\* The buttons and the timer of the motion, and the requests: the preview stays.
LEMMA ElsewhereOnThePanel ==
  ASSUME PanelInv, UNCHANGED Panel!preview,
         /\ panel_unlocked' \in BOOLEAN /\ panel_idle' \in 0 .. LockTimeout
         /\ panel_twist' \in BOOLEAN /\ panel_zeros' \in BOOLEAN
         /\ panel_pending' \in 0 .. MaxRequests /\ panel_waited' \in 0 .. RequestTimeout
         /\ panel_sent' \in 0 .. MaxRequests /\ panel_calls' \subseteq Panel!Numbers
         /\ panel_answers' \subseteq Panel!Numbers \X BOOLEAN
  PROVE  PanelInv'
<1>1. UNCHANGED <<panel_route, panel_chosen, panel_active, panel_mode, panel_thread,
                  panel_loaded, panel_shown, panel_spoilt>>
  BY DEF Panel!preview
<1>. QED
  BY <1>1 DEF PanelInv, Panel!TypeOK, Panel!NotedIsDrawn, Panel!Latest, Panel!Numbers,
              Panel!Previews, Panel!Pictures, Panel!Nothing

LEMMA PanelRanges ==
  ASSUME PanelInv
  PROVE  /\ panel_unlocked \in BOOLEAN /\ panel_idle \in 0 .. LockTimeout
         /\ panel_twist \in BOOLEAN /\ panel_zeros \in BOOLEAN
         /\ panel_pending \in 0 .. MaxRequests /\ panel_waited \in 0 .. RequestTimeout
         /\ panel_sent \in 0 .. MaxRequests /\ panel_calls \subseteq Panel!Numbers
         /\ panel_answers \subseteq Panel!Numbers \X BOOLEAN
         /\ LockTimeout \in Nat /\ RequestTimeout \in Nat /\ MaxRequests \in Nat
         /\ MaxRoutes \in Nat /\ MaxChoices \in Nat
         /\ 0 \in 0 .. LockTimeout /\ 0 \in 0 .. RequestTimeout /\ 0 \in 0 .. MaxRequests
<1>1. /\ LockTimeout \in Nat /\ RequestTimeout \in Nat /\ MaxRequests \in Nat
      /\ MaxRoutes \in Nat /\ MaxChoices \in Nat
  BY PartsAssumption
<1>2. 0 \in 0 .. LockTimeout /\ 0 \in 0 .. RequestTimeout /\ 0 \in 0 .. MaxRequests
  BY <1>1
<1>. QED
  BY <1>1, <1>2 DEF PanelInv, Panel!TypeOK

LEMMA MotionKeeps ==
  ASSUME PanelInv,
         \/ \E to \in BOOLEAN : Panel!SetControlUnlocked(to)
         \/ Panel!Move \/ Panel!NudgeEnds \/ Panel!EmergencyStop
  PROVE  PanelInv'
<1>1. /\ UNCHANGED <<panel_pending, panel_waited, panel_sent, panel_calls, panel_answers>>
      /\ UNCHANGED Panel!preview
  BY DEF Panel!SetControlUnlocked, Panel!Move, Panel!NudgeEnds, Panel!EmergencyStop,
         Panel!requests
<1>2. /\ panel_unlocked' \in BOOLEAN /\ panel_idle' \in {panel_idle, 0}
      /\ panel_twist' \in BOOLEAN /\ panel_zeros' \in BOOLEAN
  BY PanelRanges
     DEF Panel!SetControlUnlocked, Panel!Move, Panel!NudgeEnds, Panel!EmergencyStop
<1>. QED
  BY <1>1, <1>2, PanelRanges, ElsewhereOnThePanel

LEMMA RequestsKeep ==
  ASSUME PanelInv,
         \/ Panel!SetEnabled \/ Panel!StatusConfirms
         \/ \E n \in Panel!Numbers : Panel!CallEnds(n)
         \/ \E a \in Panel!Numbers \X BOOLEAN : Panel!ControlResult(a)
  PROVE  PanelInv'
<1>1. /\ UNCHANGED <<panel_unlocked, panel_idle, panel_twist, panel_zeros>>
      /\ UNCHANGED Panel!preview
  BY DEF Panel!SetEnabled, Panel!StatusConfirms, Panel!CallEnds, Panel!ControlResult,
         Panel!motion
<1>2. CASE Panel!SetEnabled
  <2>1. panel_sent + 1 \in 0 .. MaxRequests /\ panel_sent + 1 \in Panel!Numbers
    BY <1>2, PanelRanges DEF Panel!SetEnabled, Panel!Numbers
  <2>2. /\ panel_sent' = panel_sent + 1 /\ panel_pending' = panel_sent + 1
        /\ panel_waited' = 0
    BY <1>2 DEF Panel!SetEnabled
  <2>3. /\ panel_calls' \subseteq panel_calls \cup {panel_sent + 1}
        /\ panel_answers' \subseteq panel_answers \cup {<<panel_sent + 1, FALSE>>}
    BY <1>2 DEF Panel!SetEnabled
  <2>4. panel_calls' \subseteq Panel!Numbers
    BY <2>1, <2>3, PanelRanges
  <2>5. <<panel_sent + 1, FALSE>> \in Panel!Numbers \X BOOLEAN
    BY <2>1
  <2>6. panel_answers' \subseteq Panel!Numbers \X BOOLEAN
    BY <2>3, <2>5, PanelRanges
  <2>. QED
    BY <1>1, <2>1, <2>2, <2>4, <2>6, PanelRanges, ElsewhereOnThePanel
<1>3. CASE Panel!StatusConfirms
  BY <1>1, <1>3, PanelRanges, ElsewhereOnThePanel DEF Panel!StatusConfirms
<1>4. ASSUME NEW n \in Panel!Numbers, Panel!CallEnds(n) PROVE PanelInv'
  <2>1. panel_calls' \subseteq Panel!Numbers /\ panel_answers' \subseteq Panel!Numbers \X BOOLEAN
    BY <1>4, PanelRanges DEF Panel!CallEnds
  <2>2. UNCHANGED <<panel_pending, panel_waited, panel_sent>>
    BY <1>4 DEF Panel!CallEnds
  <2>. QED
    BY <1>1, <2>1, <2>2, PanelRanges, ElsewhereOnThePanel
<1>5. ASSUME NEW a \in Panel!Numbers \X BOOLEAN, Panel!ControlResult(a) PROVE PanelInv'
  <2>1. /\ panel_answers' \subseteq panel_answers
        /\ panel_pending' \in {panel_pending, 0} /\ panel_waited' \in {panel_waited, 0}
        /\ UNCHANGED <<panel_sent, panel_calls>>
    BY <1>5 DEF Panel!ControlResult
  <2>2. panel_answers' \subseteq Panel!Numbers \X BOOLEAN
    BY <2>1, PanelRanges
  <2>. QED
    BY <1>1, <2>1, <2>2, PanelRanges, ElsewhereOnThePanel
<1>. QED
  BY <1>2, <1>3, <1>4, <1>5

LEMMA SecondKeeps ==
  ASSUME PanelInv, Panel!Second
  PROVE  PanelInv'
<1>1. /\ UNCHANGED <<panel_twist, panel_zeros, panel_sent, panel_calls, panel_answers>>
      /\ UNCHANGED Panel!preview
  BY DEF Panel!Second, Panel!preview
<1>4. /\ panel_idle \in 0 .. LockTimeout /\ panel_waited \in 0 .. RequestTimeout
      /\ LockTimeout \in Nat /\ RequestTimeout \in Nat
  BY PanelRanges
<1>2. panel_unlocked' \in BOOLEAN /\ panel_idle' \in 0 .. LockTimeout
  <2>1. panel_unlocked' \in {panel_unlocked, FALSE}
    BY DEF Panel!Second
  <2>2. panel_idle' = 0 \/ (panel_idle + 1 < LockTimeout /\ panel_idle' = panel_idle + 1)
    BY <1>4 DEF Panel!Second
  <2>3. panel_idle' \in 0 .. LockTimeout
    BY <1>4, <2>2
  <2>. QED
    BY <2>1, <2>3, PanelRanges
<1>3. panel_pending' \in {panel_pending, 0} /\ panel_waited' \in 0 .. RequestTimeout
  <2>1. panel_pending' \in {panel_pending, 0}
    BY DEF Panel!Second
  <2>2. \/ panel_waited' = 0
        \/ panel_waited + 1 < RequestTimeout /\ panel_waited' = panel_waited + 1
    BY <1>4 DEF Panel!Second
  <2>. QED
    BY <1>4, <2>1, <2>2
<1>. QED
  BY <1>1, <1>2, <1>3, PanelRanges, ElsewhereOnThePanel

LEMMA PreviewKeeps ==
  ASSUME PanelInv,
         \/ \E m \in Modes : Panel!SetMode(m)
         \/ Panel!RefreshRoutePreview \/ Panel!RouteChanges \/ Panel!PatrolStatus \/ Panel!PreviewDrawn
         \/ Panel!PreviewLoaded
  PROVE  PanelInv'
<1>1. /\ UNCHANGED <<panel_unlocked, panel_idle, panel_twist, panel_zeros>>
      /\ UNCHANGED <<panel_pending, panel_waited, panel_sent, panel_calls, panel_answers>>
  BY DEF Panel!SetMode, Panel!RefreshRoutePreview, Panel!RouteChanges, Panel!PatrolStatus, Panel!PreviewDrawn,
         Panel!PreviewLoaded, Panel!motion, Panel!requests
<1>. DEFINE Threads == {{}} \cup {{p} : p \in Panel!Previews}
<1>2. /\ panel_route \in 0 .. MaxRoutes /\ panel_active \in 0 .. MaxRoutes
      /\ panel_mode \in Modes /\ panel_chosen \in 0 .. MaxChoices
      /\ panel_thread \in Threads /\ panel_shown \in Panel!Pictures
      /\ panel_spoilt \in BOOLEAN
      /\ \A p \in panel_thread : p.route = panel_active
      /\ panel_loaded \in Seq(Panel!Pictures)
      /\ panel_thread = {} => Panel!Latest.route = panel_active \/ panel_spoilt
  BY DEF PanelInv, Panel!TypeOK, Panel!NotedIsDrawn
\* It remains to see what becomes of the preview.
<1>3. ASSUME panel_route' \in 0 .. MaxRoutes, panel_active' \in 0 .. MaxRoutes,
             panel_mode' \in Modes, panel_chosen' \in 0 .. MaxChoices,
             panel_thread' \in Threads, panel_shown' \in Panel!Pictures,
             panel_spoilt' \in BOOLEAN,
             \A p \in panel_thread' : p.route = panel_active',
             panel_loaded' \in Seq(Panel!Pictures),
             panel_thread' = {} => Panel!Latest'.route = panel_active' \/ panel_spoilt'
      PROVE  PanelInv'
  BY <1>1, <1>3, PanelRanges DEF PanelInv, Panel!TypeOK, Panel!NotedIsDrawn, Panel!Previews,
                                 Panel!Pictures, Panel!Nothing, Panel!Numbers
<1>9. UNCHANGED <<panel_loaded, panel_shown>> => Panel!Latest' = Panel!Latest
  BY DEF Panel!Latest
\* A refresh of the route that is noted.
<1>4. ASSUME NEW r \in 0 .. MaxRoutes, NEW m \in Modes, Panel!Refresh(r, m),
             panel_thread = {} \/ r = panel_active
      PROVE  /\ panel_thread' \in Threads /\ panel_thread' # {}
             /\ panel_spoilt' \in BOOLEAN
             /\ \A p \in panel_thread' : p.route = r
  <2>. DEFINE p == [route |-> r, mode |-> m]
  <2>1. p \in Panel!Previews /\ p.route = r
    BY DEF Panel!Previews
  <2>2. /\ panel_thread' = IF panel_thread = {} THEN {p} ELSE panel_thread
        /\ panel_spoilt' = FALSE \/ panel_spoilt' = panel_spoilt
    BY <1>4 DEF Panel!Refresh
  <2>. HIDE DEF p
  <2>3. CASE panel_thread = {}
    BY <1>2, <2>1, <2>2, <2>3
  <2>4. CASE panel_thread # {}
    BY <1>2, <1>4, <2>2, <2>4
  <2>. QED
    BY <2>3, <2>4
<1>. HIDE DEF Threads
<1>5. ASSUME NEW m \in Modes, Panel!SetMode(m) PROVE PanelInv'
  <2>1. /\ panel_chosen' = panel_chosen + 1 /\ panel_chosen < MaxChoices
        /\ panel_mode' = m /\ Panel!Refresh(panel_active, m)
        /\ UNCHANGED <<panel_route, panel_active, panel_loaded, panel_shown>>
    BY <1>5 DEF Panel!SetMode
  <2>2. panel_chosen' \in 0 .. MaxChoices
    BY <1>2, <2>1, PanelRanges
  <2>3. /\ panel_thread' \in Threads /\ panel_thread' # {} /\ panel_spoilt' \in BOOLEAN
        /\ \A p \in panel_thread' : p.route = panel_active
    BY <1>2, <1>4, <2>1
  <2>. QED
    BY <1>2, <1>3, <1>9, <2>1, <2>2, <2>3
<1>11. CASE Panel!RefreshRoutePreview
  <2>1. /\ panel_chosen' = panel_chosen + 1 /\ panel_chosen < MaxChoices
        /\ Panel!Refresh(panel_active, panel_mode)
        /\ UNCHANGED <<panel_route, panel_active, panel_mode, panel_loaded, panel_shown>>
    BY <1>11 DEF Panel!RefreshRoutePreview
  <2>2. panel_chosen' \in 0 .. MaxChoices
    BY <1>2, <2>1, PanelRanges
  <2>3. /\ panel_thread' \in Threads /\ panel_thread' # {} /\ panel_spoilt' \in BOOLEAN
        /\ \A p \in panel_thread' : p.route = panel_active
    BY <1>2, <1>4, <2>1
  <2>. QED
    BY <1>2, <1>3, <1>9, <2>1, <2>2, <2>3
<1>6. CASE Panel!RouteChanges
  <2>1. panel_route' \in 0 .. MaxRoutes
    BY <1>2, <1>6, PanelRanges DEF Panel!RouteChanges
  <2>. QED
    BY <1>2, <1>3, <1>6, <1>9, <2>1 DEF Panel!RouteChanges
<1>7. CASE Panel!PatrolStatus
  <2>1. UNCHANGED <<panel_route, panel_chosen, panel_mode, panel_loaded, panel_shown>>
    BY <1>7 DEF Panel!PatrolStatus
  <2>2. CASE panel_route # panel_active /\ panel_thread = {}
    <3>1. panel_active' = panel_route /\ Panel!Refresh(panel_route, panel_mode)
      BY <1>7, <2>2 DEF Panel!PatrolStatus
    <3>2. /\ panel_thread' \in Threads /\ panel_thread' # {} /\ panel_spoilt' \in BOOLEAN
          /\ \A p \in panel_thread' : p.route = panel_route
      BY <1>2, <1>4, <2>2, <3>1
    <3>. QED
      BY <1>2, <1>3, <1>9, <2>1, <3>1, <3>2
  <2>3. CASE ~ (panel_route # panel_active /\ panel_thread = {})
    <3>1. UNCHANGED <<panel_active, panel_thread, panel_spoilt>>
      BY <1>7, <2>3 DEF Panel!PatrolStatus
    <3>. QED
      BY <1>2, <1>3, <1>9, <2>1, <3>1
  <2>. QED
    BY <2>2, <2>3
<1>8. CASE Panel!PreviewDrawn
  <2>0. PICK p \in panel_thread :
          \/ /\ \E m \in {p.mode, panel_mode} :
                  panel_loaded' = Append(panel_loaded, [p EXCEPT !.mode = m])
             /\ panel_spoilt' = FALSE
          \/ \E r \in {0, Panel!Nothing} :
               /\ panel_loaded' = Append(panel_loaded, [p EXCEPT !.route = r])
               /\ panel_spoilt' = (r # p.route)
          \/ UNCHANGED panel_loaded /\ panel_spoilt' = TRUE
    BY <1>8 DEF Panel!PreviewDrawn
  <2>1. \/ \E picture \in {[p EXCEPT !.mode = m] : m \in {p.mode, panel_mode}} \cup
                           {[p EXCEPT !.route = r] : r \in {0, Panel!Nothing}} :
              /\ panel_loaded' = Append(panel_loaded, picture)
              /\ panel_spoilt' = (picture.route # p.route)
        \/ UNCHANGED panel_loaded /\ panel_spoilt' = TRUE
    <3>1. p \in Panel!Previews
      BY <1>2 DEF Threads
    <3>2. /\ \A m : [p EXCEPT !.mode = m].route = p.route
          /\ \A r : [p EXCEPT !.route = r].route = r
      BY <3>1 DEF Panel!Previews
    <3>3. ASSUME NEW m \in {p.mode, panel_mode},
                 panel_loaded' = Append(panel_loaded, [p EXCEPT !.mode = m]),
                 panel_spoilt' = FALSE
          PROVE  \E picture \in {[p EXCEPT !.mode = n] : n \in {p.mode, panel_mode}} :
                   /\ panel_loaded' = Append(panel_loaded, picture)
                   /\ panel_spoilt' = (picture.route # p.route)
      <4>. DEFINE picture == [p EXCEPT !.mode = m]
      <4>1. panel_spoilt' = (picture.route # p.route)
        BY <3>2, <3>3
      <4>. WITNESS picture \in {[p EXCEPT !.mode = n] : n \in {p.mode, panel_mode}}
      <4>. QED
        BY <3>3, <4>1
    <3>4. ASSUME NEW r \in {0, Panel!Nothing},
                 panel_loaded' = Append(panel_loaded, [p EXCEPT !.route = r]),
                 panel_spoilt' = (r # p.route)
          PROVE  \E picture \in {[p EXCEPT !.route = n] : n \in {0, Panel!Nothing}} :
                   /\ panel_loaded' = Append(panel_loaded, picture)
                   /\ panel_spoilt' = (picture.route # p.route)
      <4>. DEFINE picture == [p EXCEPT !.route = r]
      <4>1. panel_spoilt' = (picture.route # p.route)
        BY <3>2, <3>4
      <4>. WITNESS picture \in {[p EXCEPT !.route = n] : n \in {0, Panel!Nothing}}
      <4>. QED
        BY <3>4, <4>1
    <3>. QED
      BY <2>0, <3>3, <3>4
  <2>2. p \in Panel!Previews /\ p.route = panel_active
    BY <1>2 DEF Threads
  <2>3. UNCHANGED <<panel_route, panel_active, panel_mode, panel_chosen, panel_shown>>
        /\ panel_thread' = {}
    BY <1>8 DEF Panel!PreviewDrawn
  <2>4. {} \in Threads
    BY DEF Threads
  <2>5. CASE UNCHANGED panel_loaded /\ panel_spoilt' = TRUE
    BY <1>2, <1>3, <2>3, <2>4, <2>5
  <2>6. ASSUME NEW picture \in {[p EXCEPT !.mode = m] : m \in {p.mode, panel_mode}} \cup
                               {[p EXCEPT !.route = r] : r \in {0, Panel!Nothing}},
               panel_loaded' = Append(panel_loaded, picture),
               panel_spoilt' = (picture.route # p.route)
        PROVE  PanelInv'
    <3>1. picture \in Panel!Pictures
      <4>1. /\ 0 \in 0 .. Panel!Nothing /\ Panel!Nothing \in 0 .. Panel!Nothing
            /\ p.route \in 0 .. Panel!Nothing /\ p.mode \in Modes
        BY <2>2, PanelRanges DEF Panel!Nothing, Panel!Previews
      <4>. QED
        BY <1>2, <2>2, <4>1 DEF Panel!Pictures, Panel!Previews
    <3>2. /\ panel_loaded' \in Seq(Panel!Pictures) /\ panel_loaded' # <<>>
          /\ panel_loaded'[Len(panel_loaded')] = picture
      BY <1>2, <2>6, <3>1
    <3>3. Panel!Latest' = picture
      BY <3>2 DEF Panel!Latest
    <3>. QED
      BY <1>2, <1>3, <2>2, <2>3, <2>4, <2>6, <3>2, <3>3
  <2>. QED
    BY <2>1, <2>5, <2>6

<1>10. CASE Panel!PreviewLoaded
  <2>1. /\ panel_loaded # <<>> /\ panel_shown' = Head(panel_loaded)
        /\ panel_loaded' = Tail(panel_loaded)
        /\ UNCHANGED <<panel_route, panel_chosen, panel_active, panel_mode, panel_thread,
                       panel_spoilt>>
    BY <1>10 DEF Panel!PreviewLoaded
  <2>2. panel_shown' \in Panel!Pictures /\ panel_loaded' \in Seq(Panel!Pictures)
    BY <1>2, <2>1
  <2>3. Panel!Latest' = Panel!Latest
    <3>1. CASE Len(panel_loaded) = 1
      <4>1. panel_loaded' = <<>> /\ Head(panel_loaded) = panel_loaded[1]
        BY <1>2, <2>1, <3>1
      <4>. QED
        BY <2>1, <3>1, <4>1 DEF Panel!Latest
    <3>2. CASE Len(panel_loaded) # 1
      <4>2. /\ Len(panel_loaded) \in Nat /\ Len(panel_loaded) >= 1
            /\ Len(panel_loaded') = Len(panel_loaded) - 1
            /\ \A k \in 1 .. Len(panel_loaded) - 1 : panel_loaded'[k] = panel_loaded[k + 1]
        BY <1>2, <2>1
      <4>3. /\ Len(panel_loaded') \in 1 .. Len(panel_loaded) - 1
            /\ Len(panel_loaded') + 1 = Len(panel_loaded)
        BY <3>2, <4>2
      <4>4. panel_loaded'[Len(panel_loaded')] = panel_loaded[Len(panel_loaded)]
        BY <4>2, <4>3
      <4>5. panel_loaded' # <<>>
        BY <4>3
      <4>1. /\ panel_loaded' # <<>>
            /\ panel_loaded'[Len(panel_loaded')] = panel_loaded[Len(panel_loaded)]
        BY <4>4, <4>5
      <4>. QED
        BY <2>1, <4>1 DEF Panel!Latest
    <3>. QED
      BY <3>1, <3>2
  <2>. QED
    BY <1>2, <1>3, <2>1, <2>2, <2>3
<1>. QED
  BY <1>5, <1>6, <1>7, <1>8, <1>10, <1>11

LEMMA PanelKeeps ==
  ASSUME PanelInv, [Panel!Next]_Panel!vars
  PROVE  PanelInv'
<1>1. CASE UNCHANGED Panel!vars
  <2>1. /\ UNCHANGED <<panel_unlocked, panel_idle, panel_twist, panel_zeros>>
        /\ UNCHANGED <<panel_pending, panel_waited, panel_sent, panel_calls, panel_answers>>
        /\ UNCHANGED Panel!preview
    BY <1>1 DEF Panel!vars, Panel!preview
  <2>. QED
    BY <2>1, PanelRanges, ElsewhereOnThePanel
<1>. QED
  BY <1>1, MotionKeeps, RequestsKeep, SecondKeeps, PreviewKeeps DEF Panel!Next

-----------------------------------------------------------------------------
(* All parts together *)

\* A step of a behaviour is one of the part it is about, or leaves a part alone.
LEMMA StepOfAPart ==
  ASSUME [ProgressNext]_all
  PROVE  /\ [Next]_vars /\ [App!Next]_App!vars /\ [Match!Next]_Match!vars
         /\ [Camera!Next]_Camera!vars /\ [Panel!Next]_Panel!vars
<1>1. [Next]_vars
  BY DEF ProgressNext, all
<1>2. [App!Next]_appVars
  BY DEF ProgressNext, all
<1>3. [Match!Next]_matchVars
  BY DEF ProgressNext, all
<1>4. [Camera!Next]_cameraVars
  BY DEF ProgressNext, all
<1>5. [Panel!Next]_panelVars
  BY DEF ProgressNext, all
<1>6. UNCHANGED appVars => UNCHANGED App!vars
  BY DEF appVars, App!vars
<1>7. UNCHANGED matchVars => UNCHANGED Match!vars
  BY DEF matchVars, Match!vars
<1>8. UNCHANGED cameraVars => UNCHANGED Camera!vars
  BY DEF cameraVars, Camera!vars
<1>9. UNCHANGED panelVars => UNCHANGED Panel!vars
  BY DEF panelVars, Panel!vars
<1>. QED
  BY <1>1, <1>2, <1>3, <1>4, <1>5, <1>6, <1>7, <1>8, <1>9

PartsInv == OutboxInv /\ AppInv /\ MatchInv /\ CameraInv /\ PanelInv

LEMMA PartsInits == ProgressInit => PartsInv
<1>1. Init => OutboxInv
  BY InitTyped DEF Init, OutboxInv, NoEventPassedOver
<1>. QED
  BY <1>1, AppInits, MatchInits, CameraInits, PanelInits DEF ProgressInit, PartsInv

LEMMA PartsKeep ==
  ASSUME PartsInv, [ProgressNext]_all
  PROVE  PartsInv'
BY StepOfAPart, StepKeeps, AppKeeps, MatchKeeps, CameraKeeps, PanelKeeps DEF PartsInv

LEMMA PartsHold == ProgressSpec => []PartsInv
<1>1. PartsInv /\ [ProgressNext]_all => PartsInv'
  BY PartsKeep
<1>. QED
  BY <1>1, PartsInits, PTL DEF ProgressSpec

\* Every variable of the connection, the local app, the scan matcher, the camera's
\* worker and the panel keeps to its values, for any sockets, poses, routes, times
\* and counts (ros_bridge.py, mobile_bridge_server.py, scan_map_relocalization_node.py,
\* zed_spatial_mapping_node.py, ui_backend.py).
THEOREM ProgressTyped == ProgressSpec => []ProgressTypeOK
<1>1. PartsInv => ProgressTypeOK
  BY AppSaysSo DEF PartsInv, OutboxInv, MatchInv, CameraInv, PanelInv, ProgressTypeOK
<1>. QED
  BY <1>1, PartsHold, PTL

\* No event is passed over, the clients the bridge reports are exactly the sockets
\* it serves, so that its counter never sticks nor needs the clamp at zero it has,
\* and the panel's route is drawn or being drawn, for any number of events, sockets
\* and routes (_upload_events; the web socket's "finally"; update_patrol_status and
\* _start_route_preview_refresh).
THEOREM ReportsStayTrue == ProgressSpec => []ReportsAreTrue
<1>1. PartsInv => ReportsAreTrue
  BY AppSaysSo DEF PartsInv, OutboxInv, PanelInv, ReportsAreTrue
<1>. QED
  BY <1>1, PartsHold, PTL

\* The matcher does not correct its own latest correction when it hears it within
\* the ignored time, and what waits to be handled is never more than was given from
\* outside, wherever scans match and whoever else gives poses; and a worker of the
\* camera that was told to stop is not told otherwise and only goes forward
\* (_process_seed and _is_own_correction; start_mapping, request_stop and reset).
THEOREM DecisionsAreNotUndone == ProgressSpec => DecisionsStand
<1>1. PartsInv /\ [ProgressNext]_all =>
        [match_turn' # match_turn /\ match_seeds' = match_seeds
           => \/ ~ Head(match_initials).own
              \/ \E k \in 2 .. Len(match_initials) : match_initials[k].own
              \/ match_age > IgnoreTicks]_Match!vars
  BY StepOfAPart, EchoStep DEF PartsInv
<1>2. PartsInv /\ [ProgressNext]_all =>
        [camera_stop /\ Camera!Alive =>
           /\ Camera!Alive' => camera_stop'
           /\ camera_worker' = "opening" => camera_worker = "opening"
           /\ camera_worker' = "grabbing" => camera_worker \in {"opening", "grabbing"}
           /\ camera_worker' = "exporting" =>
                camera_worker \in {"grabbing", "exporting"} /\ camera_export]_Camera!vars
  BY StepOfAPart, StopStep DEF PartsInv
<1>3. ProgressSpec => Match!EchoIsIgnored
  BY <1>1, PartsHold, PTL DEF ProgressSpec, Match!EchoIsIgnored
<1>4. ProgressSpec => Camera!StopIsFinal
  BY <1>2, PartsHold, PTL DEF ProgressSpec, Camera!StopIsFinal
<1>5. PartsInv => Match!EchoesDoNotMultiply
  BY DEF PartsInv, MatchInv
<1>6. ProgressSpec => []Match!EchoesDoNotMultiply
  BY <1>5, PartsHold, PTL
<1>. QED
  BY <1>3, <1>4, <1>6 DEF DecisionsStand
=============================================================================
